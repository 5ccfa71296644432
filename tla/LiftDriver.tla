----------------------------- MODULE LiftDriver -----------------------------
(***************************************************************************)
(* lift_driver_node.cpp: the node that drives the lift.                    *)
(*                                                                         *)
(* ros::spin runs every callback and the poll timer on one thread, so a    *)
(* callback is one step.  The poll is split where the code splits it       *)
(* (updateAlarm, the pending homing, updateMotion, releaseIfBlocked): the  *)
(* drive may raise an alarm or the line may break between two of its       *)
(* frames.  The 30 ms it takes are too short for the lift to move a step   *)
(* of height and for any of the clocks below.                              *)
(*                                                                         *)
(* Clocks are booleans that say whether their time has passed.             *)
(***************************************************************************)
EXTENDS LiftDrive

CONSTANTS MaxAttempts,      \* alarm_reset_max_attempts
          MaxResumes,       \* alarm_resume_max_cycles
          AutoHome,         \* auto_home_on_start
          Scale,            \* post_home_speed_scale
          Speeds,           \* speeds of /lift/velocity_cmd
          Targets,          \* counts of /lift/position_cmd
          Incs,             \* counts of /lift/inc_position_cmd
          Mishaps,          \* what may go wrong
          MaxMishaps        \* and how often

\* 0 stands for "no limit" in the code; the shipped limits are 5 and 3.
ASSUME LimitsAssumption == MaxAttempts \in Nat \ {0} /\ MaxResumes \in Nat \ {0}
ASSUME InputsAssumption == /\ AutoHome \in BOOLEAN
                           /\ Scale \in Nat \ {0}
                           /\ Speeds \subseteq Int /\ Targets \subseteq Int /\ Incs \subseteq Int
ASSUME MishapsAssumption ==
    /\ Mishaps \subseteq {"alarm", "blocked", "silence", "power", "restart", "kill"}
    /\ MaxMishaps \in Nat

VARIABLES
    mode, homed, target,            \* mode_, homed_, target_pos_
    lastVel, graceOver, hold,       \* last_vel_cmd_, vel_cmd_time_, vel_ref_*
    alarmActive, attempts, exhausted, resetDue,  \* alarm_active_, alarm_reset_*, last_alarm_reset_
    resume, cycles,                 \* resume_mode_ and resume_target_, resume_cycles_
    pendingHome, homeLate, stall,   \* pending_home_, home_start_, stall_*
    position, seen, fresh,          \* position_, status_byte_ and di_byte_, got_data_ and last_rx_
    poll,                           \* the part of pollTimer to run next
    intent, restarts,               \* history: what the user wants; moves resumed since he last spoke
    mishaps                         \* how often something has gone wrong

modeVars   == <<mode, homed, target>>
velVars    == <<lastVel, graceOver, hold>>
alarmVars  == <<alarmActive, attempts, exhausted, resetDue>>
resumeVars == <<resume, cycles>>
homingVars == <<pendingHome, homeLate, stall>>
dataVars   == <<position, seen, fresh>>
userVars   == <<intent, restarts>>
hostVars   == <<modeVars, velVars, alarmVars, resumeVars, homingVars, dataVars, poll, userVars>>
vars       == <<liftVars, hostVars, mishaps>>

NoResume == [on |-> FALSE, target |-> 0]
\* A position the code watches: whether it does, which, and whether long enough for a verdict.
NoWatch  == [on |-> FALSE, at |-> 0, long |-> FALSE]
WatchNow == [on |-> TRUE, at |-> position, long |-> FALSE]

Idle == poll = "idle"

ManualUpSpeed == IF homed THEN Scale * UpSpeed ELSE UpSpeed
HomeSpeed == -UpSpeed

\* A new speed starts the spin-up grace and the watch on the position afresh; the speed
\* sent last does not, even if a position move came in between.
SendVelocity(rpm) ==
    /\ Takes(VelocityJob(rpm))
    /\ lastVel' = rpm
    /\ graceOver' = (graceOver /\ rpm = lastVel)
    /\ hold' = IF rpm = lastVel THEN hold ELSE NoWatch

\* Mutant: only the count of resumptions is reset.
CancelResumeCount == cycles' = 0 /\ UNCHANGED resume

CancelResume == resume' = NoResume /\ cycles' = 0

UserWants(what) == intent' = what /\ restarts' = 0

\* A stop the drive does not hear is lost: it is sent once.
UserStops == UserWants(IF Heard THEN "stop" ELSE "lost")
-----------------------------------------------------------------------------
(* The topics. *)

\* Mutant: a speed command leaves the mode as it is.
VelocityCommandInMode(rpm) ==
    /\ CancelResume
    /\ SendVelocity(rpm)
    /\ IF rpm = 0 THEN UserStops ELSE UserWants("move")
    /\ UNCHANGED <<height, origin, driveAlarm, cause, stuck, link>>
    /\ UNCHANGED <<modeVars, alarmVars, homingVars, dataVars, poll, mishaps>>

VelocityCommand(rpm) ==
    /\ mode' = "MANUAL"
    /\ CancelResume
    /\ SendVelocity(rpm)
    /\ IF rpm = 0 THEN UserStops ELSE UserWants("move")
    /\ UNCHANGED <<height, origin, driveAlarm, cause, stuck, link>>
    /\ UNCHANGED <<homed, target, alarmVars, homingVars, dataVars, poll, mishaps>>

CommandCallback == Idle /\ \E rpm \in {ManualUpSpeed, -ManualUpSpeed, 0} : VelocityCommand(rpm)

VelocityCmdCallback == Idle /\ \E rpm \in Speeds : VelocityCommand(rpm)

PositionCommand(to, counts) ==
    /\ CancelResume
    /\ target' = to
    /\ mode' = "POSITION"
    /\ Takes(PositionJob(counts))
    /\ UserWants("goto")
    /\ UNCHANGED <<height, origin, driveAlarm, cause, stuck, link>>
    /\ UNCHANGED <<homed, velVars, alarmVars, homingVars, dataVars, poll, mishaps>>

PositionCmdCallback ==
    /\ Idle /\ homed /\ ~alarmActive
    /\ \E counts \in Targets : PositionCommand(counts, counts)

\* The drive adds to where it is, the node to where it last saw it.
IncPositionCmdCallback ==
    /\ Idle /\ ~alarmActive
    /\ \E d \in Incs : PositionCommand(position + d, Count + d)

StartHoming ==
    /\ mode' = "HOMING"
    /\ homeLate' = FALSE
    /\ stall' = NoWatch
    /\ pendingHome' = FALSE
    /\ CancelResume
    /\ UserWants("home")

HomeCallback ==
    /\ Idle /\ ~alarmActive
    /\ StartHoming
    /\ UNCHANGED <<liftVars, homed, target, velVars, alarmVars, dataVars, poll, mishaps>>

HomeAbortCallback ==
    /\ Idle
    /\ pendingHome' = FALSE
    /\ CancelResume
    /\ \/ /\ mode = "HOMING"
          /\ mode' = "MANUAL"
          /\ SendVelocity(0)
          /\ UserStops
          /\ UNCHANGED <<height, origin, driveAlarm, cause, stuck, link>>
       \/ /\ mode # "HOMING"
          /\ UserWants(intent)
          /\ UNCHANGED <<liftVars, mode, velVars>>
    /\ UNCHANGED <<homed, target, alarmVars, homeLate, stall, dataVars, poll, mishaps>>

\* requestAlarmReset, below its limit on attempts
SendReset(attempt) ==
    /\ SendVelocity(0)
    /\ TakesAlarmReset
    /\ attempts' = attempt
    /\ resetDue' = FALSE

ResetCallback ==
    /\ Idle
    /\ exhausted' = FALSE
    /\ cycles' = 0
    /\ UserWants(intent)
    /\ \/ alarmActive /\ SendReset(1)
       \/ /\ ~alarmActive
          /\ TakesAlarmReset
          /\ attempts' = 0
          /\ UNCHANGED <<job, velVars, resetDue>>
    /\ UNCHANGED <<height, origin, cause, stuck, link>>
    /\ UNCHANGED <<modeVars, alarmActive, resume, homingVars, dataVars, poll, mishaps>>
-----------------------------------------------------------------------------
(* The poll: PID_MONITOR is requested and its reply, if any, parsed. *)

PollReads ==
    /\ Idle
    /\ poll' = "alarm"
    /\ \/ /\ Heard
          /\ position' = Count
          /\ seen' = [alarm |-> driveAlarm, low |-> height = 0]
          /\ fresh' = TRUE
       \/ ~Heard /\ UNCHANGED dataVars
    /\ UNCHANGED <<liftVars, modeVars, velVars, alarmVars, resumeVars, homingVars, userVars, mishaps>>

\* Mutant: an alarm leaves a homing in its mode.
AlarmRisesInHoming ==
    /\ fresh /\ seen.alarm /\ ~alarmActive
    /\ alarmActive' = TRUE
    /\ exhausted' = FALSE
    /\ SendReset(1)
    /\ resume' = IF mode = "POSITION" THEN [on |-> TRUE, target |-> target] ELSE resume
    /\ mode' = IF mode = "HOMING" THEN mode ELSE "MANUAL"
    /\ UNCHANGED <<height, origin, cause, stuck, link, target, cycles, restarts>>

\* Whatever the mode, the first reset goes out with the detection.  Only a position
\* move is remembered: an alarm ends a homing.
AlarmRises ==
    /\ fresh /\ seen.alarm /\ ~alarmActive
    /\ alarmActive' = TRUE
    /\ exhausted' = FALSE
    /\ SendReset(1)
    /\ resume' = IF mode = "POSITION" THEN [on |-> TRUE, target |-> target] ELSE resume
    /\ mode' = "MANUAL"
    /\ UNCHANGED <<height, origin, cause, stuck, link, target, cycles, restarts>>

\* Mutant: one attempt more than the limit.
AlarmStaysOneMore ==
    /\ fresh /\ seen.alarm /\ alarmActive
    /\ UNCHANGED <<height, origin, cause, stuck, link, mode, target, alarmActive, resumeVars, restarts>>
    /\ IF ~exhausted /\ resetDue /\ attempts <= MaxAttempts
       THEN SendReset(attempts + 1) /\ UNCHANGED exhausted
       ELSE /\ exhausted' = (exhausted \/ resetDue)
            /\ UNCHANGED <<job, driveAlarm, velVars, attempts, resetDue>>

\* Mutant: at the limit the count starts again.
AlarmStaysForever ==
    /\ fresh /\ seen.alarm /\ alarmActive
    /\ UNCHANGED <<height, origin, cause, stuck, link, mode, target, alarmActive, resumeVars, restarts>>
    /\ IF ~exhausted /\ resetDue
       THEN SendReset(IF attempts < MaxAttempts THEN attempts + 1 ELSE 1) /\ UNCHANGED exhausted
       ELSE UNCHANGED <<job, driveAlarm, velVars, attempts, exhausted, resetDue>>

AlarmStays ==
    /\ fresh /\ seen.alarm /\ alarmActive
    /\ UNCHANGED <<height, origin, cause, stuck, link, mode, target, alarmActive, resumeVars, restarts>>
    /\ \/ /\ ~exhausted /\ resetDue /\ attempts < MaxAttempts
          /\ SendReset(attempts + 1)
          /\ UNCHANGED exhausted
       \/ /\ ~exhausted /\ resetDue /\ attempts >= MaxAttempts
          /\ exhausted' = TRUE
          /\ UNCHANGED <<job, driveAlarm, velVars, attempts, resetDue>>
       \/ /\ exhausted \/ ~resetDue
          /\ UNCHANGED <<job, driveAlarm, velVars, attempts, exhausted, resetDue>>

\* Mutant: one resumption more than the limit.
ResumeAfterAlarmOnceMore ==
    /\ resume' = NoResume
    /\ \/ /\ resume.on /\ cycles <= MaxResumes
          /\ cycles' = cycles + 1
          /\ target' = resume.target
          /\ mode' = "POSITION"
          /\ Takes(PositionJob(IF homed THEN resume.target ELSE Count + resume.target - position))
          /\ restarts' = restarts + 1
       \/ /\ ~resume.on \/ cycles > MaxResumes
          /\ UNCHANGED <<cycles, target, mode, job, restarts>>

\* resumeAfterAlarm: without an origin the move goes on as a relative one.
ResumeAfterAlarm ==
    /\ resume' = NoResume
    /\ \/ /\ resume.on /\ cycles < MaxResumes
          /\ cycles' = cycles + 1
          /\ target' = resume.target
          /\ mode' = "POSITION"
          /\ Takes(PositionJob(IF homed THEN resume.target ELSE Count + resume.target - position))
          /\ restarts' = restarts + 1
       \/ /\ ~resume.on \/ cycles >= MaxResumes
          /\ UNCHANGED <<cycles, target, mode, job, restarts>>

AlarmClears ==
    /\ fresh /\ ~seen.alarm /\ alarmActive
    /\ alarmActive' = FALSE
    /\ attempts' = 0
    /\ exhausted' = FALSE
    /\ ResumeAfterAlarm
    /\ UNCHANGED <<height, origin, driveAlarm, cause, stuck, link, resetDue, velVars>>

NoAlarmNews ==
    /\ ~fresh \/ (~seen.alarm /\ ~alarmActive)
    /\ UNCHANGED <<liftVars, mode, target, velVars, alarmVars, resumeVars, restarts>>

UpdateAlarm ==
    /\ poll = "alarm"
    /\ poll' = "home"
    /\ AlarmRises \/ AlarmStays \/ AlarmClears \/ NoAlarmNews
    /\ UNCHANGED <<homed, homingVars, dataVars, intent, mishaps>>

PollHomes ==
    /\ poll = "home"
    /\ poll' = "motion"
    /\ IF pendingHome /\ fresh /\ ~alarmActive
       THEN StartHoming
       ELSE UNCHANGED <<mode, homingVars, resumeVars, userVars>>
    /\ UNCHANGED <<liftVars, homed, target, velVars, alarmVars, dataVars, mishaps>>
-----------------------------------------------------------------------------
(* updateMotion *)

HomingTimeout ==
    /\ mode = "HOMING" /\ homeLate
    /\ SendVelocity(0)
    /\ mode' = "MANUAL"
    /\ cycles' = 0
    /\ UNCHANGED <<origin, homed, stall>>

\* Mutant: the count of the drive is not reset.
OriginFoundNoReset ==
    /\ SendVelocity(0)
    /\ homed' = TRUE
    /\ mode' = "MANUAL"
    /\ cycles' = 0
    /\ UNCHANGED <<origin, stall>>

\* The drive is told to stop and to count from here.
OriginFound ==
    /\ SendVelocity(0)
    /\ TakesOrigin
    /\ homed' = TRUE
    /\ mode' = "MANUAL"
    /\ cycles' = 0
    /\ UNCHANGED stall

HomingAtLimit == mode = "HOMING" /\ ~homeLate /\ fresh /\ seen.low /\ OriginFound

Descending == mode = "HOMING" /\ ~homeLate /\ ~(fresh /\ seen.low)

\* Standing still long enough counts as the limit, the switch notwithstanding.
HomingStalled == Descending /\ fresh /\ stall.on /\ stall.at = position /\ stall.long /\ OriginFound

HomingDescends ==
    /\ Descending
    /\ ~(fresh /\ stall.on /\ stall.at = position /\ stall.long)
    /\ SendVelocity(HomeSpeed)
    /\ stall' = IF ~fresh THEN [stall EXCEPT !.on = FALSE]
                ELSE IF stall.on /\ stall.at = position THEN stall ELSE WatchNow
    /\ UNCHANGED <<origin, mode, homed, cycles>>

PositionReached ==
    /\ mode = "POSITION" /\ fresh /\ target = position
    /\ mode' = "MANUAL"
    /\ cycles' = 0
    /\ UNCHANGED <<origin, job, velVars, homed, stall>>

NoMotionNews ==
    /\ mode # "HOMING" /\ ~(mode = "POSITION" /\ fresh /\ target = position)
    /\ UNCHANGED <<origin, job, velVars, mode, homed, cycles, stall>>

UpdateMotion ==
    /\ poll = "motion"
    /\ poll' = "release"
    /\ HomingTimeout \/ HomingAtLimit \/ HomingStalled \/ HomingDescends \/ PositionReached \/ NoMotionNews
    /\ UNCHANGED <<height, driveAlarm, cause, stuck, link>>
    /\ UNCHANGED <<target, alarmVars, resume, pendingHome, homeLate, dataVars, userVars, mishaps>>
-----------------------------------------------------------------------------
(* releaseIfBlocked *)

\* Mutant: only descents are released.
ReleaseAppliesDown == mode = "MANUAL" /\ lastVel < 0 /\ fresh

ReleaseApplies == mode = "MANUAL" /\ lastVel # 0 /\ fresh

LimitAhead == lastVel < 0 /\ seen.low

ReleaseAtLimit == ReleaseApplies /\ LimitAhead /\ SendVelocity(0)

Watching == ReleaseApplies /\ ~LimitAhead /\ graceOver

ReleaseStopped == Watching /\ hold.on /\ hold.at = position /\ hold.long /\ SendVelocity(0)

ReleaseWatches ==
    /\ Watching
    /\ ~(hold.on /\ hold.at = position)
    /\ hold' = WatchNow
    /\ UNCHANGED <<job, lastVel, graceOver>>

NothingToRelease ==
    /\ \/ ~ReleaseApplies
       \/ ~LimitAhead /\ ~graceOver
       \/ Watching /\ hold.on /\ hold.at = position /\ ~hold.long
    /\ UNCHANGED <<job, velVars>>

ReleaseIfBlocked ==
    /\ poll = "release"
    /\ poll' = "idle"
    /\ ReleaseAtLimit \/ ReleaseStopped \/ ReleaseWatches \/ NothingToRelease
    /\ UNCHANGED <<height, origin, driveAlarm, cause, stuck, link>>
    /\ UNCHANGED <<modeVars, alarmVars, resumeVars, homingVars, dataVars, userVars, mishaps>>
-----------------------------------------------------------------------------
(* Time.  A clock no verdict reads is left alone. *)

OnlyTime == Idle /\ UNCHANGED <<liftVars, modeVars, alarmActive, attempts, exhausted, resumeVars,
                                pendingHome, position, seen, lastVel, poll, userVars, mishaps>>

\* timeout_sec without a reply
DataAges == OnlyTime /\ ~Heard /\ fresh /\ fresh' = FALSE
            /\ UNCHANGED <<graceOver, hold, resetDue, homeLate, stall>>

\* Mutant: the time of a homing counts while the drive answers.
HomeTimePassesFresh == OnlyTime /\ mode = "HOMING" /\ fresh /\ ~homeLate /\ homeLate' = TRUE
                       /\ UNCHANGED <<graceOver, hold, resetDue, stall, fresh>>

HomeTimePasses == OnlyTime /\ mode = "HOMING" /\ ~homeLate /\ homeLate' = TRUE
                  /\ UNCHANGED <<graceOver, hold, resetDue, stall, fresh>>

ResetTimePasses == OnlyTime /\ alarmActive /\ ~resetDue /\ resetDue' = TRUE
                   /\ UNCHANGED <<graceOver, hold, homeLate, stall, fresh>>

GraceTimePasses == OnlyTime /\ lastVel # 0 /\ ~graceOver /\ graceOver' = TRUE
                   /\ UNCHANGED <<hold, resetDue, homeLate, stall, fresh>>

\* home_stall_sec and release_stop_sec are ten polls and more.  Only then does the lift
\* seem to have stood still for them: had it moved or raised an alarm, a poll would have
\* told, unless the line is silent.
SeemsToStand == Heard => ~Moving /\ position = Count /\ seen.alarm = driveAlarm

StallTimePasses == OnlyTime /\ mode = "HOMING" /\ stall.on /\ ~stall.long /\ SeemsToStand
                   /\ stall' = [stall EXCEPT !.long = TRUE]
                   /\ UNCHANGED <<graceOver, hold, resetDue, homeLate, fresh>>

\* In a position move nobody watches, and the time passes though the lift has moved away.
HoldTimePasses == OnlyTime /\ lastVel # 0 /\ hold.on /\ ~hold.long
                  /\ (SeemsToStand \/ (mode = "POSITION" /\ position # hold.at))
                  /\ hold' = [hold EXCEPT !.long = TRUE]
                  /\ UNCHANGED <<graceOver, resetDue, homeLate, stall, fresh>>

TimePasses == \/ DataAges \/ HomeTimePasses \/ ResetTimePasses \/ GraceTimePasses
              \/ StallTimePasses \/ HoldTimePasses
-----------------------------------------------------------------------------
(* The node ends, with the stop of its destructor or killed, and starts again. *)

StartsAfresh ==
    /\ mode' = "MANUAL" /\ homed' = FALSE /\ target' = 0
    /\ lastVel' = 0 /\ graceOver' = FALSE /\ hold' = NoWatch
    /\ alarmActive' = FALSE /\ attempts' = 0 /\ exhausted' = FALSE /\ resetDue' = FALSE
    /\ resume' = NoResume /\ cycles' = 0
    /\ pendingHome' = AutoHome /\ homeLate' = FALSE /\ stall' = NoWatch
    /\ position' = 0 /\ seen' = [alarm |-> FALSE, low |-> TRUE] /\ fresh' = FALSE
    /\ poll' = "idle"

Restarts ==
    /\ Idle
    /\ Takes(Rest)
    /\ StartsAfresh
    /\ UserStops
    /\ UNCHANGED <<height, origin, driveAlarm, cause, stuck, link>>

Killed ==
    /\ StartsAfresh
    /\ UserWants("lost")
    /\ UNCHANGED liftVars

Mishap(kind) == kind \in Mishaps /\ mishaps < MaxMishaps /\ mishaps' = mishaps + 1

SomethingGoesWrong ==
    \/ Mishap("alarm") /\ AlarmComes /\ UNCHANGED hostVars
    \/ Mishap("blocked") /\ Blocked /\ UNCHANGED hostVars
    \/ Mishap("silence") /\ LinkBreaks /\ UNCHANGED hostVars
    \/ Mishap("power") /\ PowerOff /\ UNCHANGED hostVars
    \/ Mishap("restart") /\ Restarts
    \/ Mishap("kill") /\ Killed

LiftGoesOn ==
    /\ (Idle /\ LiftMoves) \/ AlarmReturns \/ CauseGoes \/ Freed \/ LinkMended \/ PowerOn
    /\ UNCHANGED <<hostVars, mishaps>>
-----------------------------------------------------------------------------
Init ==
    /\ LiftInit
    /\ mode = "MANUAL" /\ homed = FALSE /\ target = 0
    /\ lastVel = 0 /\ graceOver = FALSE /\ hold = NoWatch
    /\ alarmActive = FALSE /\ attempts = 0 /\ exhausted = FALSE /\ resetDue = FALSE
    /\ resume = NoResume /\ cycles = 0
    /\ pendingHome = AutoHome /\ homeLate = FALSE /\ stall = NoWatch
    /\ position = 0 /\ seen = [alarm |-> FALSE, low |-> TRUE] /\ fresh = FALSE
    /\ poll = "idle"
    /\ intent = "stop" /\ restarts = 0
    /\ mishaps = 0

PollStep == PollReads \/ UpdateAlarm \/ PollHomes \/ UpdateMotion \/ ReleaseIfBlocked

UserCommand == \/ CommandCallback \/ VelocityCmdCallback \/ PositionCmdCallback
               \/ IncPositionCmdCallback \/ HomeCallback \/ HomeAbortCallback

Next == \/ UserCommand \/ ResetCallback
        \/ PollStep \/ TimePasses
        \/ LiftGoesOn \/ SomethingGoesWrong

Spec == Init /\ [][Next]_vars

\* The timer goes on, and the polls between which a clock runs do not hold it up.
FairSpec == /\ Spec
            /\ WF_vars(PollStep)
            /\ SF_vars(HomeTimePasses) /\ SF_vars(ResetTimePasses)
            /\ SF_vars(GraceTimePasses) /\ SF_vars(HoldTimePasses)
-----------------------------------------------------------------------------
Mode == {"MANUAL", "POSITION", "HOMING"}
Watch == [on : BOOLEAN, at : Int, long : BOOLEAN]
Intent == {"stop", "lost", "move", "goto", "home"}

\* Type correctness of the state of the lift, its drive and the node.
TypeOK ==
    /\ LiftTypeOK
    /\ mode \in Mode /\ homed \in BOOLEAN /\ target \in Int
    /\ lastVel \in Int /\ graceOver \in BOOLEAN /\ hold \in Watch
    /\ alarmActive \in BOOLEAN /\ attempts \in 0..MaxAttempts
    /\ exhausted \in BOOLEAN /\ resetDue \in BOOLEAN
    /\ resume \in [on : BOOLEAN, target : Int] /\ cycles \in 0..MaxResumes
    /\ pendingHome \in BOOLEAN /\ homeLate \in BOOLEAN /\ stall \in Watch
    /\ position \in Int /\ seen \in [alarm : BOOLEAN, low : BOOLEAN] /\ fresh \in BOOLEAN
    /\ poll \in {"idle", "alarm", "home", "motion", "release"}
    /\ intent \in Intent /\ restarts \in Nat
    /\ mishaps \in 0..MaxMishaps
-----------------------------------------------------------------------------
(* What makes the node correct. *)

\* The node is in the mode of the user's last command or has fallen back to MANUAL: a
\* stop or a speed cancels moves, homings and the move an alarm has put off, which waits
\* only as long as the alarm lasts (lift_driver_node.cpp:251-252, 282, 296, 322, 412-420).
\* resume.on is resume_mode_ = POSITION.  What an alarm does to a homing is left open, as
\* the documents disagree with each other and with the code (lift_driver_node.hpp:37,
\* INTERFACE.txt:366, 379-382, lift_driver_node.cpp:386-392).
ModeServesUser ==
    /\ mode = "HOMING" => intent = "home"
    /\ mode = "POSITION" => intent = "goto" /\ ~alarmActive
    /\ resume.on => intent = "goto" /\ alarmActive

\* From a stop the drive has heard until the next command nothing sets the lift in motion:
\* no poll, reset, resumption, or restart of the node.  INTERFACE.txt:374 rests on it: a
\* stop before the reset makes the reset safe.
StopHolds == intent = "stop" => job = Rest

\* Between two commands the lift sets itself in motion at most MaxResumes times, whatever
\* alarms come, go and return (lift_driver_node.cpp:455).
RestartsBounded == restarts <= MaxResumes

\* While an alarm is on, a drive that was on a move or a homing has been told to rest: no
\* poll repeats the descent (lift_driver_node.cpp:367-369).
AtRestInAlarm == alarmActive /\ intent \in {"goto", "home"} => job = Rest

\* A node that says it is homed has the drive count from the lower limit, the origin
\* absolute positions need (INTERFACE.txt:325).
HomedMeansOrigin == homed => origin = 0

\* The node implements LiftService: nothing sets the lift in motion but the user's last
\* command, the descent of a homing and the counted resumption of a move, and in an alarm
\* no move, descent or resumption at all (lift_driver_node.cpp:282, 296, 322, 377-400, 451-484).
Service == INSTANCE LiftService WITH wish <- intent, alarm <- alarmActive, resumed <- restarts,
                                     Descent <- VelocityJob(HomeSpeed)

ImplementsService == Service!Spec

\* A homing that is not started over and over ends: at the limit, standing still, by an
\* alarm, by another command or by home_timeout_sec, and with a silent drive too.
HomingEnds == <>[](mode = "HOMING") => []<><<HomeCallback>>_vars

\* The node gives up resetting an alarm the drive keeps, unless the user goes on asking
\* (lift_driver_node.cpp:431-440).
GivesUp == <>[](driveAlarm /\ Heard) => <>[]exhausted \/ []<><<ResetCallback>>_vars

\* A speed command the lift cannot follow is withdrawn, or the drive would report
\* CTRL_FAIL (lift_driver_node.cpp:171-174).
ReleasedAtEnd == <>[](mode = "MANUAL" /\ Heard /\ ~Moving)
                     => <>[](lastVel = 0) \/ []<><<UserCommand>>_vars
=============================================================================
