--------------------------- MODULE CrevisOutputs ---------------------------
(* What the outputs of the Crevis module do for their users: each changes only as it *)
(* was asked to, however late, or when the module starts afresh.                     *)
EXTENDS Integers

CONSTANT Outputs    \* the lights and the charging relay

VARIABLES device,   \* the state of each output
          asked     \* requests for an output that have not been dropped

outputVars == <<device, asked>>

Requests == [output : Outputs, on : BOOLEAN]
AllOff == [o \in Outputs |-> FALSE]

Ask == /\ \E r \in Requests : asked' = asked \cup {r}
       /\ UNCHANGED device

Drop == /\ asked' \subseteq asked
        /\ UNCHANGED device

Carry(r) == device' = [device EXCEPT ![r.output] = r.on]

\* A request is carried out and perhaps dropped.
CarryOut == /\ \E r \in asked : Carry(r)
            /\ asked' \subseteq asked

\* The module may start again at any time: an output that goes off together with all the
\* others is not held against the node.
StartAfresh == /\ device' = AllOff
               /\ asked' \subseteq asked

Init == device = AllOff /\ asked = {}

Next == Ask \/ Drop \/ CarryOut \/ StartAfresh

Spec == Init /\ [][Next]_outputVars
=============================================================================
