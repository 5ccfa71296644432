------------------------------ MODULE LiftDrive ------------------------------
(***************************************************************************)
(* The lift and its MDROBOT drive as lift_driver_node.cpp sees them over    *)
(* RS485.  All of it is hardware outside the repository; its behaviour is   *)
(* what the code, its header and its configuration say of it.              *)
(*                                                                         *)
(* Heights are coarse: the in-position tolerance and the stall threshold    *)
(* (20 and 5 of 7000 counts) are both smaller than one step of height.      *)
(***************************************************************************)
EXTENDS Integers

CONSTANTS Top,      \* the upper end of the lift; the lower limit is at 0
          UpSpeed   \* up_speed_rpm; its sign is the upward direction

ASSUME TopAssumption == Top \in Nat \ {0}
ASSUME UpSpeedAssumption == UpSpeed \in Int \ {0}

VARIABLES height,      \* where the lift is
          origin,      \* the height the drive counts from
          job,         \* what the drive has been told to do
          driveAlarm,  \* the alarm bit of PID_CTRL_STATUS
          cause,       \* the cause of an alarm is there
          stuck,       \* something blocks the lift
          link         \* "up", "silent" (RS485 broken), or "off" (drive without power)

liftVars == <<height, origin, job, driveAlarm, cause, stuck, link>>

Link == {"up", "silent", "off"}

VelocityJob(rpm)    == [kind |-> "velocity", arg |-> rpm]
PositionJob(counts) == [kind |-> "position", arg |-> counts]
Rest == VelocityJob(0)

\* The position of PID_MONITOR, in counts from the origin.
Count == height - origin

Sign(x) == IF x > 0 THEN 1 ELSE IF x < 0 THEN -1 ELSE 0

\* Where the job would take the lift: 1 up, -1 down.
Direction == IF job.kind = "velocity" THEN Sign(job.arg) * Sign(UpSpeed) ELSE Sign(job.arg - Count)

\* An alarm holds the lift; the lower limit and the mechanical upper end stop it.
Moving == /\ Direction # 0
          /\ link # "off" /\ ~driveAlarm /\ ~stuck
          /\ height + Direction \in 0..Top
-----------------------------------------------------------------------------
(* The frames of the host.  A drive that does not hear them goes on as it was. *)

Heard == link = "up"

Takes(newJob) == job' = IF Heard THEN newJob ELSE job

\* PID_ALARM_RESET clears the bit if the cause is gone, and may clear it for a
\* while, until the drive finds the cause again, if it is not.
TakesAlarmReset == driveAlarm' \in IF Heard THEN {driveAlarm /\ cause, FALSE} ELSE {driveAlarm}

\* PID_POSI_RESET
TakesOrigin == origin' = IF Heard THEN height ELSE origin
-----------------------------------------------------------------------------
(* What the lift does by itself. *)

LiftMoves ==
    /\ Moving
    /\ height' = height + Direction
    /\ UNCHANGED <<origin, job, driveAlarm, cause, stuck, link>>

\* An alarm comes up, for instance CTRL_FAIL on a blocked lift.
AlarmComes ==
    /\ link # "off" /\ ~cause
    /\ cause' = TRUE
    /\ driveAlarm' = TRUE
    /\ UNCHANGED <<height, origin, job, stuck, link>>

\* The drive finds a cause again whose alarm was reset.
AlarmReturns ==
    /\ link # "off" /\ cause /\ ~driveAlarm
    /\ driveAlarm' = TRUE
    /\ UNCHANGED <<height, origin, job, cause, stuck, link>>

CauseGoes ==
    /\ cause
    /\ cause' = FALSE
    /\ UNCHANGED <<height, origin, job, driveAlarm, stuck, link>>

Blocked == /\ ~stuck
           /\ stuck' = TRUE
           /\ UNCHANGED <<height, origin, job, driveAlarm, cause, link>>

Freed == /\ stuck
         /\ stuck' = FALSE
         /\ UNCHANGED <<height, origin, job, driveAlarm, cause, link>>

LinkBreaks == /\ link = "up"
              /\ link' = "silent"
              /\ UNCHANGED <<height, origin, job, driveAlarm, cause, stuck>>

LinkMended == /\ link = "silent"
              /\ link' = "up"
              /\ UNCHANGED <<height, origin, job, driveAlarm, cause, stuck>>

PowerOff == /\ link = "up"
            /\ link' = "off"
            /\ job' = Rest
            /\ driveAlarm' = FALSE
            /\ UNCHANGED <<height, origin, cause, stuck>>

\* The drive counts from wherever it is switched on (lift_driver_node.hpp:26).
PowerOn == /\ link = "off"
           /\ link' = "up"
           /\ origin' = height
           /\ UNCHANGED <<height, job, driveAlarm, cause, stuck>>

LiftInit ==
    /\ height \in 0..Top
    /\ origin = height
    /\ job = Rest
    /\ driveAlarm = FALSE
    /\ cause = FALSE
    /\ stuck = FALSE
    /\ link = "up"

\* Positions a job can name: any the host can compute from counts and increments.
LiftTypeOK ==
    /\ height \in 0..Top
    /\ origin \in 0..Top
    /\ job \in [kind : {"velocity", "position"}, arg : Int]
    /\ driveAlarm \in BOOLEAN
    /\ cause \in BOOLEAN
    /\ stuck \in BOOLEAN
    /\ link \in Link
=============================================================================
