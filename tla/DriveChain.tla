----------------------------- MODULE DriveChain -----------------------------
(***************************************************************************)
(* The way of a velocity from the user to the drives: /cmd_vel, the base    *)
(* controller, /motor/cmd, the motor driver node.  Either node has a        *)
(* timeout of its own, because either of its inputs may fall silent.  The   *)
(* motor driver node is present as the CommandPath it implements.           *)
(***************************************************************************)
EXTENDS CommandPath, BaseController

CONSTANTS MaxCmdVels,  \* bound: messages the user sends
          MaxKills,    \* bound: deaths of the base controller
          MaxGates     \* bound: changes of the gate, and targets forgotten

ASSUME BoundsAssumption == MaxCmdVels \in Nat /\ MaxKills \in Nat /\ MaxGates \in Nat

\* What the base controller publishes is what the motor node may be commanded.
ASSUME ChainAssumption == \A v \in CmdVels \cup {0} : Limited(v) \in Commands

VARIABLES sent,   \* messages the user has sent
          kills,  \* deaths of the base controller so far
          gates   \* changes of the gate and targets forgotten so far

bounds == <<sent, kills, gates>>
vars == <<pathVars, baseVars, bounds>>

User(v) ==
    /\ sent < MaxCmdVels
    /\ sent' = sent + 1
    /\ CmdVelCallback(v)
    /\ UNCHANGED <<pathVars, kills, gates>>

InBase(step) == step /\ UNCHANGED <<pathVars, bounds>>

BaseDies ==
    /\ kills < MaxKills
    /\ kills' = kills + 1
    /\ BaseKilled
    /\ UNCHANGED <<pathVars, sent, gates>>

\* The spinner of the motor node takes the oldest message.
Delivery ==
    /\ topic # <<>>
    /\ Arrives(Head(topic))
    /\ topic' = Tail(topic)
    /\ UNCHANGED <<baseUp, wanted, lapsed, bounds>>

InMotorNode(step) == step /\ UNCHANGED <<baseVars, bounds>>

Threads ==
    /\ gates < MaxGates
    /\ gates' = gates + 1
    /\ GateSet(~gate) \/ \E n \in Nodes : Forget(n)
    /\ UNCHANGED <<baseVars, sent, kills>>

Init == PathInit /\ BaseInit /\ sent = 0 /\ kills = 0 /\ gates = 0

Next ==
    \/ \E v \in CmdVels : User(v)
    \/ InBase(ControlTimer) \/ InBase(CmdVelLapses) \/ InBase(BaseStarts) \/ BaseDies
    \/ Delivery
    \/ InMotorNode(Callback) \/ InMotorNode(Expires) \/ InMotorNode(Stops)
    \/ Threads

Spec == Init /\ [][Next]_vars

\* Timers fire, deadlines pass, messages arrive and are handled.  The user, deaths and
\* restarts of the base controller and the threads behind the gate are owed by nobody.
FairSpec ==
    /\ Spec
    /\ WF_vars(InBase(ControlTimer)) /\ WF_vars(InBase(CmdVelLapses))
    /\ WF_vars(Delivery) /\ WF_vars(InMotorNode(Callback))
    /\ WF_vars(InMotorNode(Expires)) /\ WF_vars(InMotorNode(Stops))
-----------------------------------------------------------------------------
\* Type correctness of the chain.
TypeOK ==
    /\ BaseTypeOK
    /\ target \in [Nodes -> Commands]
    /\ gate \in BOOLEAN /\ expired \in BOOLEAN
    /\ cb \in [pc : {"idle", "stamp", "check", "apply"}, msg : Commands, todo : SUBSET Nodes]
    /\ zeroing \subseteq Nodes
    /\ sent \in 0..MaxCmdVels /\ kills \in 0..MaxKills /\ gates \in 0..MaxGates

AtRest == \A n \in Nodes : target[n] = 0

\* Whatever dies or falls silent, the user, the base controller or both: once the gate stays
\* open, every motor ends up with a target of zero, because neither node lets the other's
\* last word stand (base_controller_node.cpp:60-64, motor_driver_node.cpp:188-195).  Behind
\* a shut gate they need not (ShutGateHoldsZero of MotorDriverNode).
SilenceStopsOpen == <>[]gate => <>[]AtRest

\* Motors left with different targets, when a command and the timeout of the control loop
\* meet half way, do not stay so: the robot does not go on turning
\* (motor_driver_node.cpp:93-95, 192-194).  A gate that shuts ends the claim: what it leaves
\* behind, nobody evens out.
MixtureEnds == (gate /\ \E m, n \in Nodes : target[m] # target[n])
                   ~> (~gate \/ \A m, n \in Nodes : target[m] = target[n])
=============================================================================
