--------------------------- MODULE BaseController ---------------------------
(***************************************************************************)
(* BaseController (motor_driver/src/base_controller_node.cpp): keeps the    *)
(* last /cmd_vel and republishes it on /motor/cmd at 50 Hz, zero once it is *)
(* too old.  A velocity stands for the pair (v, w); wheel geometry and      *)
(* odometry are data of no property here.                                  *)
(***************************************************************************)
EXTENDS Integers, Sequences

CONSTANTS CmdVels,   \* the velocities /cmd_vel may carry
          MaxVel,    \* max_linear_vel, max_angular_vel
          Geometry,  \* wheel_radius_ > 0 and gear_ratio_ # 0
          MaxTopic   \* bound: messages between the two nodes (10 in the code)

ASSUME CmdVelsAssumption == CmdVels \subseteq Int
ASSUME MaxVelAssumption == MaxVel \in Nat
ASSUME GeometryAssumption == Geometry \in BOOLEAN
ASSUME TopicAssumption == MaxTopic \in Nat \ {0}

VARIABLES baseUp,   \* the node runs
          wanted,   \* target_v_, target_w_
          lapsed,   \* now - last_cmd_vel_time_ > cmd_vel_timeout_
          topic     \* /motor/cmd on its way, with the queue of the subscriber

baseVars == <<baseUp, wanted, lapsed, topic>>

\* Speed limits; 0 means no limit.
Limited(v) == IF MaxVel = 0 THEN v
              ELSE IF v > MaxVel THEN MaxVel ELSE IF v < -MaxVel THEN -MaxVel ELSE v

\* Mutant: the oldest message is dropped one message too late.
QueuedLate(v) == Append(IF Len(topic) > MaxTopic THEN Tail(topic) ELSE topic, v)

\* A full queue loses its oldest message.
Queued(v) == Append(IF Len(topic) = MaxTopic THEN Tail(topic) ELSE topic, v)

CmdVelCallback(v) ==
    /\ baseUp
    /\ wanted' = v
    /\ lapsed' = FALSE
    /\ UNCHANGED <<baseUp, topic>>

\* Mutant: the last velocity goes on for ever.
ControlTimerNoTimeout ==
    /\ baseUp
    /\ topic' = Queued(IF ~Geometry THEN 0 ELSE Limited(wanted))
    /\ UNCHANGED <<baseUp, wanted, lapsed>>

ControlTimer ==
    /\ baseUp
    /\ topic' = Queued(IF lapsed \/ ~Geometry THEN 0 ELSE Limited(wanted))
    /\ UNCHANGED <<baseUp, wanted, lapsed>>

CmdVelLapses ==
    /\ ~lapsed
    /\ lapsed' = TRUE
    /\ UNCHANGED <<baseUp, wanted, topic>>

\* The node is killed; what it has published may still arrive.
BaseKilled ==
    /\ baseUp
    /\ baseUp' = FALSE
    /\ UNCHANGED <<wanted, lapsed, topic>>

\* A new one starts without a command, and counts the missing one as lapsed.
BaseStarts ==
    /\ ~baseUp
    /\ baseUp' = TRUE /\ wanted' = 0 /\ lapsed' = TRUE
    /\ UNCHANGED topic

BaseInit == baseUp = TRUE /\ wanted = 0 /\ lapsed = TRUE /\ topic = <<>>

BaseTypeOK ==
    /\ baseUp \in BOOLEAN /\ lapsed \in BOOLEAN
    /\ wanted \in CmdVels \cup {0}
    /\ topic \in Seq(Int) /\ Len(topic) <= MaxTopic
=============================================================================
