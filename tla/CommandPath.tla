---------------------------- MODULE CommandPath ----------------------------
(***************************************************************************)
(* The way of a command through MotorDriverNode, and nothing else: the      *)
(* callback, the timeout of the control loop, the gate motors_enabled_ and  *)
(* the targets.  The threads that enable, reset and configure the drives    *)
(* appear by what they may do to the gate and to a target.                  *)
(***************************************************************************)
EXTENDS Integers

CONSTANTS Nodes,    \* drive_motor_ids
          Commands  \* the velocities a command may carry

VARIABLES target,   \* atomic_target_velocity_rpm
          gate,     \* motors_enabled_
          expired,  \* now - last_cmd_time_ > cmd_timeout_sec
          cb,       \* the cmdCallback in progress
          zeroing   \* the motors controlLoop is about to stop

pathVars == <<target, gate, expired, cb, zeroing>>

Waits == [pc |-> "idle", msg |-> 0, todo |-> {}]

Arrives(v) ==
    /\ cb.pc = "idle"
    /\ cb' = [pc |-> "stamp", msg |-> v, todo |-> Nodes]
    /\ UNCHANGED <<target, gate, expired, zeroing>>

Stamp ==
    /\ cb.pc = "stamp"
    /\ cb' = [cb EXCEPT !.pc = "check"]
    /\ expired' = FALSE
    /\ UNCHANGED <<target, gate, zeroing>>

Check ==
    /\ cb.pc = "check"
    /\ cb' = IF gate THEN [cb EXCEPT !.pc = "apply"] ELSE Waits
    /\ UNCHANGED <<target, gate, expired, zeroing>>

Apply(n) ==
    /\ cb.pc = "apply" /\ n \in cb.todo
    /\ target' = [target EXCEPT ![n] = cb.msg]
    /\ cb' = IF cb.todo = {n} THEN Waits ELSE [cb EXCEPT !.todo = @ \ {n}]
    /\ UNCHANGED <<gate, expired, zeroing>>

Expires ==
    /\ ~expired /\ expired' = TRUE
    /\ UNCHANGED <<target, gate, cb, zeroing>>

\* The loop finds the last command too old, or a stamp half written.
TimeoutSeen ==
    /\ zeroing = {} /\ gate /\ (expired \/ cb.pc = "stamp")
    /\ zeroing' = Nodes
    /\ UNCHANGED <<target, gate, expired, cb>>

\* Mutant: the first motor is the last one.
ZeroOne(n) ==
    /\ n \in zeroing
    /\ target' = [target EXCEPT ![n] = 0]
    /\ zeroing' = {}
    /\ UNCHANGED <<gate, expired, cb>>

Zero(n) ==
    /\ n \in zeroing
    /\ target' = [target EXCEPT ![n] = 0]
    /\ zeroing' = zeroing \ {n}
    /\ UNCHANGED <<gate, expired, cb>>

\* An enable or a reset ends.
GateSet(open) ==
    /\ gate' = open
    /\ UNCHANGED <<target, expired, cb, zeroing>>

\* configure_node forgets the command of a rebooted drive.
Forget(n) ==
    /\ target' = [target EXCEPT ![n] = 0]
    /\ UNCHANGED <<gate, expired, cb, zeroing>>

PathInit ==
    /\ target = [n \in Nodes |-> 0]
    /\ gate = FALSE /\ expired = FALSE
    /\ cb = Waits /\ zeroing = {}

Callback == Stamp \/ Check \/ \E n \in Nodes : Apply(n)
Stops == TimeoutSeen \/ \E n \in Nodes : Zero(n)

PathNext ==
    \/ \E v \in Commands : Arrives(v)
    \/ Callback \/ Expires \/ Stops
    \/ \E open \in BOOLEAN : GateSet(open)
    \/ \E n \in Nodes : Forget(n)

PathSpec == PathInit /\ [][PathNext]_pathVars
=============================================================================
