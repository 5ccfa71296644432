-------------------------- MODULE EnableSupervisor --------------------------
(***************************************************************************)
(* What the motor driver promises about its command gate: the gate moves    *)
(* only at the end of a round, one round runs at a time, and it opens only  *)
(* if every drive, in that very round, was seen in operation.               *)
(***************************************************************************)
CONSTANT Nodes

VARIABLES gate,     \* commands are let through
          round,    \* "idle", "asking" the drives, or the verdict is "given"
          waiting,  \* drives that have not been asked yet in this round
          good,     \* no drive has refused so far
          seen      \* the drives the host sees in operation

vars == <<gate, round, waiting, good, seen>>

Begin == /\ round = "idle"
         /\ round' = "asking"
         /\ waiting' = Nodes
         /\ good' = TRUE
         /\ UNCHANGED <<gate, seen>>

Accept(n) == /\ round = "asking" /\ n \in waiting /\ n \in seen
             /\ waiting' = waiting \ {n}
             /\ UNCHANGED <<gate, round, good, seen>>

Refuse(n) == /\ round = "asking" /\ n \in waiting
             /\ waiting' = waiting \ {n}
             /\ good' = FALSE
             /\ UNCHANGED <<gate, round, seen>>

Verdict == /\ round = "asking" /\ waiting = {}
           /\ gate' = good
           /\ round' = "given"
           /\ UNCHANGED <<waiting, good, seen>>

End == /\ round = "given"
       /\ round' = "idle"
       /\ good' = TRUE
       /\ UNCHANGED <<gate, waiting, seen>>

\* The drives come and go as they like.
Look == /\ seen' \in SUBSET Nodes
        /\ UNCHANGED <<gate, round, waiting, good>>

\* The first round has begun with the node.
Init == /\ gate = FALSE
        /\ round = "asking"
        /\ waiting = Nodes
        /\ good = TRUE
        /\ seen = {}

Next == \/ Look \/ Begin \/ Verdict \/ End
        \/ \E n \in Nodes : Accept(n) \/ Refuse(n)

Spec == Init /\ [][Next]_vars
=============================================================================
