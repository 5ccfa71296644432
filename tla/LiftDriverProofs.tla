-------------------------- MODULE LiftDriverProofs --------------------------
(***************************************************************************)
(* Theorems of LiftDriver: the user's last word rules the lift, whatever   *)
(* commands, heights, limits and mishaps there are.                        *)
(***************************************************************************)
EXTENDS LiftDriver, TLAPS

\* A resumption is counted until the move is over; and then nothing is left to resume.
Counted ==
    /\ restarts \in Nat /\ cycles \in Nat
    /\ restarts <= MaxResumes /\ cycles <= MaxResumes
    /\ (mode = "MANUAL" /\ ~resume.on) \/ restarts <= cycles

\* An alarm ends a homing in this code (AlarmRises), and none starts before it is over.
QuietInHoming == mode = "HOMING" => ~alarmActive

UserInv == ModeServesUser /\ QuietInHoming /\ StopHolds /\ Counted

\* The part of the state UserInv speaks of.
userView == <<mode, job, alarmActive, resume, cycles, intent, restarts>>

LEMMA UserInvStutters ==
    ASSUME UserInv, UNCHANGED userView
    PROVE  UserInv'
BY DEF UserInv, userView, ModeServesUser, QuietInHoming, StopHolds, Counted

LEMMA InitUserInv == Init => UserInv
BY LimitsAssumption
DEF Init, LiftInit, UserInv, ModeServesUser, QuietInHoming, StopHolds, Counted, NoResume

\* A stop that is sent leaves the lift as it was or at rest.
LEMMA StopSent ==
    ASSUME SendVelocity(0)
    PROVE  job' = Rest \/ job' = job
BY DEF SendVelocity, Takes, Rest

LEMMA HeardStop ==
    ASSUME SendVelocity(0), UserStops
    PROVE  /\ restarts' = 0
           /\ intent' \in {"stop", "lost"}
           /\ intent' = "stop" => job' = Rest
BY DEF SendVelocity, Takes, Rest, UserStops, UserWants

LEMMA TopicsKeepUserInv ==
    ASSUME UserInv, UserCommand \/ ResetCallback
    PROVE  UserInv'
<1> USE LimitsAssumption
<1>1. ASSUME NEW rpm, VelocityCommand(rpm) PROVE UserInv'
  <2>1. mode' = "MANUAL" /\ resume' = NoResume /\ cycles' = 0 /\ restarts' = 0
    BY <1>1 DEF VelocityCommand, CancelResume, UserStops, UserWants
  <2>2. intent' = "stop" => job' = Rest
    <3>1. CASE rpm = 0
      BY <1>1, <3>1, HeardStop DEF VelocityCommand
    <3>2. CASE rpm # 0
      BY <1>1, <3>2 DEF VelocityCommand, UserWants
    <3> QED BY <3>1, <3>2
  <2> QED BY <2>1, <2>2 DEF UserInv, ModeServesUser, QuietInHoming, StopHolds, Counted, NoResume
<1>2. ASSUME NEW to, NEW counts, ~alarmActive, PositionCommand(to, counts) PROVE UserInv'
  BY <1>2
  DEF PositionCommand, CancelResume, UserWants, alarmVars, UserInv, ModeServesUser,
      QuietInHoming, StopHolds,
      Counted, NoResume, PositionJob, Rest, VelocityJob
<1>3. CASE CommandCallback
  BY <1>1, <1>3 DEF CommandCallback
<1>4. CASE VelocityCmdCallback
  BY <1>1, <1>4 DEF VelocityCmdCallback
<1>5. CASE PositionCmdCallback
  BY <1>2, <1>5 DEF PositionCmdCallback
<1>6. CASE IncPositionCmdCallback
  BY <1>2, <1>6 DEF IncPositionCmdCallback
<1>7. CASE HomeCallback
  BY <1>7 DEF HomeCallback, StartHoming, CancelResume, UserWants, alarmVars, UserInv,
              ModeServesUser, QuietInHoming, StopHolds, Counted, NoResume
<1>8. CASE HomeAbortCallback
  <2>1. resume' = NoResume /\ cycles' = 0 /\ UNCHANGED alarmActive
    BY <1>8 DEF HomeAbortCallback, CancelResume, alarmVars
  <2>2. CASE mode = "HOMING"
    <3>1. mode' = "MANUAL" /\ SendVelocity(0) /\ UserStops
      BY <1>8, <2>2 DEF HomeAbortCallback
    <3> QED BY <2>1, <3>1, HeardStop
        DEF UserInv, ModeServesUser, QuietInHoming, StopHolds, Counted, NoResume
  <2>3. CASE mode # "HOMING"
    <3>1. UNCHANGED <<mode, job>> /\ intent' = intent /\ restarts' = 0
      BY <1>8, <2>3 DEF HomeAbortCallback, UserWants, liftVars
    <3> QED BY <2>1, <2>3, <3>1
        DEF UserInv, ModeServesUser, QuietInHoming, StopHolds, Counted, NoResume
  <2> QED BY <2>2, <2>3
<1>9. CASE ResetCallback
  <2>1. /\ cycles' = 0 /\ intent' = intent /\ restarts' = 0
        /\ UNCHANGED <<mode, alarmActive, resume>>
    BY <1>9 DEF ResetCallback, UserWants, modeVars
  <2>2. job' = Rest \/ job' = job
    BY <1>9, StopSent DEF ResetCallback, SendReset
  <2> QED BY <2>1, <2>2 DEF UserInv, ModeServesUser, QuietInHoming, StopHolds, Counted
<1> QED BY <1>3, <1>4, <1>5, <1>6, <1>7, <1>8, <1>9 DEF UserCommand

LEMMA UpdateAlarmKeepsUserInv ==
    ASSUME UserInv, UpdateAlarm
    PROVE  UserInv'
<1>0. intent' = intent
  BY DEF UpdateAlarm
<1>1. CASE AlarmRises
  <2>1. alarmActive' = TRUE /\ mode' = "MANUAL" /\ UNCHANGED <<cycles, restarts>>
    BY <1>1 DEF AlarmRises
  <2>2. job' = Rest \/ job' = job
    BY <1>1, StopSent DEF AlarmRises, SendReset
  <2>3. CASE mode = "POSITION"
    <3>1. resume'.on /\ intent = "goto" /\ restarts <= cycles
      BY <1>1, <2>3 DEF AlarmRises, UserInv, ModeServesUser, QuietInHoming, Counted
    <3> QED BY <1>0, <2>1, <2>2, <3>1
        DEF UserInv, ModeServesUser, QuietInHoming, StopHolds, Counted
  <2>4. CASE mode # "POSITION"
    <3>1. resume' = resume /\ ~resume.on
      BY <1>1, <2>4 DEF AlarmRises, UserInv, ModeServesUser, QuietInHoming
    <3> QED BY <1>0, <2>1, <2>2, <3>1
        DEF UserInv, ModeServesUser, QuietInHoming, StopHolds, Counted
  <2> QED BY <2>3, <2>4
<1>2. CASE AlarmStays
  <2>1. UNCHANGED <<mode, alarmActive, resume, cycles, restarts>>
    BY <1>2 DEF AlarmStays, resumeVars
  <2>2. job' = Rest \/ job' = job
    BY <1>2, StopSent DEF AlarmStays, SendReset
  <2> QED BY <1>0, <2>1, <2>2 DEF UserInv, ModeServesUser, QuietInHoming, StopHolds, Counted
<1>3. CASE AlarmClears
  <2>1. alarmActive /\ alarmActive' = FALSE /\ resume' = NoResume
    BY <1>3 DEF AlarmClears, ResumeAfterAlarm
  <2>2. CASE resume.on /\ cycles < MaxResumes
    <3>1. /\ intent = "goto" /\ mode' = "POSITION"
          /\ cycles' = cycles + 1 /\ restarts' = restarts + 1
      BY <1>3, <2>2, LimitsAssumption
      DEF AlarmClears, ResumeAfterAlarm, UserInv, ModeServesUser, QuietInHoming, Counted
    <3>2. restarts <= cycles
      BY <2>2 DEF UserInv, Counted
    <3> QED BY <1>0, <2>1, <2>2, <3>1, <3>2, LimitsAssumption
            DEF UserInv, ModeServesUser, QuietInHoming, StopHolds, Counted, NoResume
  <2>3. CASE ~(resume.on /\ cycles < MaxResumes)
    <3>1. UNCHANGED <<cycles, mode, job, restarts>>
      BY <1>3, <2>3 DEF AlarmClears, ResumeAfterAlarm
    <3>2. mode # "HOMING" /\ mode # "POSITION"
      BY <2>1 DEF UserInv, ModeServesUser, QuietInHoming
    <3>3. (mode = "MANUAL" /\ ~resume'.on) \/ restarts <= cycles
      BY <2>1 DEF UserInv, Counted, NoResume
    <3> QED BY <1>0, <2>1, <3>1, <3>2, <3>3
        DEF UserInv, ModeServesUser, QuietInHoming, StopHolds, Counted, NoResume
  <2> QED BY <2>2, <2>3
<1>4. CASE NoAlarmNews
  BY <1>0, <1>4, UserInvStutters DEF NoAlarmNews, alarmVars, resumeVars, liftVars, userView
<1> QED BY <1>1, <1>2, <1>3, <1>4 DEF UpdateAlarm

LEMMA PollHomesKeepsUserInv ==
    ASSUME UserInv, PollHomes
    PROVE  UserInv'
<1>1. CASE pendingHome /\ fresh /\ ~alarmActive
  BY <1>1, LimitsAssumption
  DEF PollHomes, StartHoming, CancelResume, UserWants, alarmVars, UserInv,
      ModeServesUser, QuietInHoming,
      StopHolds, Counted, NoResume
<1>2. CASE ~(pendingHome /\ fresh /\ ~alarmActive)
  BY <1>2, UserInvStutters DEF PollHomes, liftVars, alarmVars, resumeVars, userVars, userView
<1> QED BY <1>1, <1>2

LEMMA UpdateMotionKeepsUserInv ==
    ASSUME UserInv, UpdateMotion
    PROVE  UserInv'
<1>0. UNCHANGED <<alarmActive, resume, intent, restarts>>
  BY DEF UpdateMotion, alarmVars, userVars
\* Every end of a motion finds nothing to resume, and resets the count.
<1>1. ASSUME mode # "MANUAL", mode \in {"HOMING", "POSITION"}, mode' = "MANUAL", cycles' = 0,
             job' = Rest \/ job' = job
      PROVE  UserInv'
  <2>1. ~resume.on
    BY <1>1 DEF UserInv, ModeServesUser, QuietInHoming
  <2> QED BY <1>0, <1>1, <2>1, LimitsAssumption
      DEF UserInv, ModeServesUser, QuietInHoming, StopHolds, Counted
<1>2. CASE HomingTimeout
  BY <1>1, <1>2, StopSent DEF HomingTimeout
<1>3. CASE HomingAtLimit \/ HomingStalled
  BY <1>1, <1>3, StopSent DEF HomingAtLimit, HomingStalled, Descending, OriginFound
<1>4. CASE HomingDescends
  <2>1. mode = "HOMING" /\ intent = "home" /\ UNCHANGED <<mode, cycles>>
    BY <1>4 DEF HomingDescends, Descending, UserInv, ModeServesUser, QuietInHoming
  <2> QED BY <1>0, <2>1 DEF UserInv, ModeServesUser, QuietInHoming, StopHolds, Counted
<1>5. CASE PositionReached
  BY <1>1, <1>5 DEF PositionReached
<1>6. CASE NoMotionNews
  BY <1>0, <1>6, UserInvStutters DEF NoMotionNews, userView
<1> QED BY <1>2, <1>3, <1>4, <1>5, <1>6 DEF UpdateMotion

LEMMA ReleaseKeepsUserInv ==
    ASSUME UserInv, ReleaseIfBlocked
    PROVE  UserInv'
<1>1. UNCHANGED <<mode, alarmActive, resume, cycles, intent, restarts>>
  BY DEF ReleaseIfBlocked, modeVars, alarmVars, resumeVars, userVars
<1>2. job' = Rest \/ job' = job
  BY StopSent DEF ReleaseIfBlocked, ReleaseAtLimit, ReleaseStopped, ReleaseWatches, NothingToRelease
<1> QED BY <1>1, <1>2 DEF UserInv, ModeServesUser, QuietInHoming, StopHolds, Counted

LEMMA MishapsKeepUserInv ==
    ASSUME UserInv, SomethingGoesWrong \/ LiftGoesOn \/ TimePasses
    PROVE  UserInv'
<1>1. ASSUME UNCHANGED hostVars, job' = Rest \/ job' = job PROVE UserInv'
  BY <1>1 DEF hostVars, modeVars, alarmVars, resumeVars, userVars, UserInv,
      ModeServesUser, QuietInHoming, StopHolds, Counted
<1>2. ASSUME StartsAfresh, UserStops, Takes(Rest) PROVE UserInv'
  BY <1>2, LimitsAssumption
  DEF StartsAfresh, UserStops, UserWants, Takes, UserInv, ModeServesUser, QuietInHoming,
      StopHolds, Counted, NoResume
<1>3. ASSUME StartsAfresh, UserWants("lost") PROVE UserInv'
  BY <1>3, LimitsAssumption
  DEF StartsAfresh, UserWants, UserInv, ModeServesUser, QuietInHoming, StopHolds,
      Counted, NoResume
<1>4. CASE SomethingGoesWrong
  BY <1>1, <1>2, <1>3, <1>4
  DEF SomethingGoesWrong, AlarmComes, Blocked, LinkBreaks, PowerOff, Restarts, Killed
<1>5. CASE LiftGoesOn
  BY <1>1, <1>5 DEF LiftGoesOn, LiftMoves, AlarmReturns, CauseGoes, Freed, LinkMended, PowerOn
<1>6. CASE TimePasses
  <2>1. OnlyTime
    BY <1>6 DEF TimePasses, DataAges, HomeTimePasses, ResetTimePasses, GraceTimePasses,
                StallTimePasses, HoldTimePasses
  <2> QED BY <2>1, UserInvStutters DEF OnlyTime, liftVars, modeVars, resumeVars, userVars, userView
<1> QED BY <1>4, <1>5, <1>6

LEMMA NextKeepsUserInv == UserInv /\ [Next]_vars => UserInv'
<1> SUFFICES ASSUME UserInv, [Next]_vars PROVE UserInv'
  OBVIOUS
<1>1. CASE PollReads
  BY <1>1, UserInvStutters DEF PollReads, liftVars, modeVars, alarmVars, resumeVars, userVars, userView
<1>2. CASE UNCHANGED vars
  BY <1>2, UserInvStutters DEF vars, hostVars, liftVars, modeVars, alarmVars, resumeVars, userVars, userView
<1> QED
  BY <1>1, <1>2, TopicsKeepUserInv, UpdateAlarmKeepsUserInv, PollHomesKeepsUserInv,
     UpdateMotionKeepsUserInv, ReleaseKeepsUserInv, MishapsKeepUserInv
  DEF Next, PollStep

LEMMA AlwaysUserInv == Spec => []UserInv
BY InitUserInv, NextKeepsUserInv, PTL DEF Spec

\* The node is in the mode of the user's last command or in MANUAL, and what an alarm has
\* put off is the user's last command too.
THEOREM UserInCharge == Spec => []ModeServesUser
BY AlwaysUserInv, PTL DEF UserInv

\* A stop the drive has heard lasts until the next command.
THEOREM StopLasts == Spec => []StopHolds
BY AlwaysUserInv, PTL DEF UserInv

\* Between two commands the lift sets itself in motion at most MaxResumes times.
THEOREM RestartsEnd == Spec => []RestartsBounded
<1>1. UserInv => RestartsBounded
  BY DEF UserInv, Counted, RestartsBounded
<1> QED BY <1>1, AlwaysUserInv, PTL
-----------------------------------------------------------------------------
(* Types. *)

Job == [kind : {"velocity", "position"}, arg : Int]

LEMMA SpeedsAreInts ==
    /\ UpSpeed \in Int /\ HomeSpeed \in Int
    /\ (homed \in BOOLEAN => ManualUpSpeed \in Int /\ -ManualUpSpeed \in Int)
<1>1. UpSpeed \in Int /\ Scale \in Int
  BY UpSpeedAssumption, InputsAssumption
<1>2. Scale * UpSpeed \in Int
  BY <1>1
<1> QED BY <1>1, <1>2 DEF HomeSpeed, ManualUpSpeed

LEMMA CountIsInt == TypeOK => Count \in Int
BY TopAssumption DEF TypeOK, LiftTypeOK, Count

LEMMA TakesTypes ==
    ASSUME TypeOK, NEW j \in Job, Takes(j)
    PROVE  job' \in Job
BY DEF TypeOK, LiftTypeOK, Takes, Job

LEMMA JobsAreJobs == ASSUME NEW i \in Int PROVE VelocityJob(i) \in Job /\ PositionJob(i) \in Job
BY DEF VelocityJob, PositionJob, Job

LEMMA NoWatchIsWatch == NoWatch \in Watch /\ (TypeOK => WatchNow \in Watch)
BY DEF NoWatch, WatchNow, Watch, TypeOK

LEMMA SendVelocityTypes ==
    ASSUME TypeOK, NEW rpm \in Int, SendVelocity(rpm)
    PROVE  job' \in Job /\ lastVel' \in Int /\ graceOver' \in BOOLEAN /\ hold' \in Watch
<1>1. job' \in Job
  BY TakesTypes, JobsAreJobs DEF SendVelocity
<1>2. graceOver' \in BOOLEAN /\ hold' \in Watch
  BY NoWatchIsWatch DEF SendVelocity, TypeOK
<1> QED BY <1>1, <1>2 DEF SendVelocity

LEMMA AlarmResetTypes ==
    ASSUME TypeOK, TakesAlarmReset
    PROVE  driveAlarm' \in BOOLEAN
BY DEF TypeOK, LiftTypeOK, TakesAlarmReset

LEMMA SendResetTypes ==
    ASSUME TypeOK, NEW a \in 0..MaxAttempts, SendReset(a)
    PROVE  /\ job' \in Job /\ driveAlarm' \in BOOLEAN
           /\ lastVel' \in Int /\ graceOver' \in BOOLEAN /\ hold' \in Watch
           /\ attempts' \in 0..MaxAttempts /\ resetDue' \in BOOLEAN
<1>1. 0 \in Int
  OBVIOUS
<1> QED BY <1>1, SendVelocityTypes, AlarmResetTypes DEF SendReset

LEMMA CancelResumeTypes ==
    ASSUME CancelResume
    PROVE  resume' \in [on : BOOLEAN, target : Int] /\ cycles' \in 0..MaxResumes
BY LimitsAssumption DEF CancelResume, NoResume

LEMMA WantsTypes ==
    ASSUME NEW what \in Intent, UserWants(what)
    PROVE  intent' \in Intent /\ restarts' \in Nat
BY DEF UserWants

LEMMA StopTypes == ASSUME UserStops PROVE intent' \in Intent /\ restarts' \in Nat
BY DEF UserStops, UserWants, Intent

LEMMA TopicsKeepTypes ==
    ASSUME TypeOK, UserCommand \/ ResetCallback
    PROVE  TypeOK'
<1> USE DEF liftVars, modeVars, velVars, alarmVars, resumeVars, homingVars, dataVars, userVars
<1>1. ASSUME NEW rpm \in Int, VelocityCommand(rpm) PROVE TypeOK'
  <2>1. job' \in Job /\ lastVel' \in Int /\ graceOver' \in BOOLEAN /\ hold' \in Watch
    BY <1>1, SendVelocityTypes DEF VelocityCommand
  <2>2. resume' \in [on : BOOLEAN, target : Int] /\ cycles' \in 0..MaxResumes
    BY <1>1, CancelResumeTypes DEF VelocityCommand
  <2>3. intent' \in Intent /\ restarts' \in Nat
    BY <1>1, WantsTypes, StopTypes DEF VelocityCommand, Intent
  <2> QED BY <1>1, <2>1, <2>2, <2>3 DEF VelocityCommand, TypeOK, LiftTypeOK, Job, Mode
<1>2. ASSUME NEW to \in Int, NEW counts \in Int, PositionCommand(to, counts) PROVE TypeOK'
  <2>1. job' \in Job
    BY <1>2, TakesTypes, JobsAreJobs DEF PositionCommand
  <2>2. resume' \in [on : BOOLEAN, target : Int] /\ cycles' \in 0..MaxResumes
    BY <1>2, CancelResumeTypes DEF PositionCommand
  <2>3. intent' \in Intent /\ restarts' \in Nat
    BY <1>2, WantsTypes DEF PositionCommand, Intent
  <2> QED BY <1>2, <2>1, <2>2, <2>3 DEF PositionCommand, TypeOK, LiftTypeOK, Job, Mode
<1>3. CASE CommandCallback
  <2>1. ManualUpSpeed \in Int /\ -ManualUpSpeed \in Int /\ 0 \in Int
    BY SpeedsAreInts DEF TypeOK
  <2> QED BY <1>1, <1>3, <2>1 DEF CommandCallback
<1>4. CASE VelocityCmdCallback
  BY <1>1, <1>4, InputsAssumption DEF VelocityCmdCallback
<1>5. CASE PositionCmdCallback
  BY <1>2, <1>5, InputsAssumption DEF PositionCmdCallback
<1>6. CASE IncPositionCmdCallback
  <2>1. PICK d \in Incs : PositionCommand(position + d, Count + d)
    BY <1>6 DEF IncPositionCmdCallback
  <2>2. position + d \in Int /\ Count + d \in Int
    BY CountIsInt, InputsAssumption DEF TypeOK
  <2> QED BY <1>2, <2>1, <2>2
<1>7. CASE HomeCallback
  <2>1. resume' \in [on : BOOLEAN, target : Int] /\ cycles' \in 0..MaxResumes
    BY <1>7, CancelResumeTypes DEF HomeCallback, StartHoming
  <2>2. intent' \in Intent /\ restarts' \in Nat
    BY <1>7, WantsTypes DEF HomeCallback, StartHoming, Intent
  <2>3. homeLate' \in BOOLEAN /\ pendingHome' \in BOOLEAN
    BY <1>7 DEF HomeCallback, StartHoming
  <2> QED BY <1>7, <2>1, <2>2, <2>3, NoWatchIsWatch DEF HomeCallback, StartHoming, TypeOK, LiftTypeOK, Mode
<1>8. CASE HomeAbortCallback
  <2>1. resume' \in [on : BOOLEAN, target : Int] /\ cycles' \in 0..MaxResumes
    BY <1>8, CancelResumeTypes DEF HomeAbortCallback
  <2>2. pendingHome' \in BOOLEAN
    BY <1>8 DEF HomeAbortCallback
  <2>3. CASE mode = "HOMING"
    <3>1. SendVelocity(0) /\ UserStops /\ mode' = "MANUAL"
      BY <1>8, <2>3 DEF HomeAbortCallback
    <3>2. job' \in Job /\ lastVel' \in Int /\ graceOver' \in BOOLEAN /\ hold' \in Watch
      BY <3>1, SendVelocityTypes
    <3> QED BY <1>8, <2>1, <2>2, <2>3, <3>1, <3>2, StopTypes DEF HomeAbortCallback, TypeOK, LiftTypeOK, Job, Mode
  <2>4. CASE mode # "HOMING"
    <3>1. UserWants(intent) /\ UNCHANGED <<liftVars, mode, velVars>>
      BY <1>8, <2>4 DEF HomeAbortCallback
    <3>2. intent' \in Intent /\ restarts' \in Nat
      BY <3>1, WantsTypes DEF TypeOK
    <3> QED BY <1>8, <2>1, <2>2, <3>1, <3>2 DEF HomeAbortCallback, TypeOK, LiftTypeOK
  <2> QED BY <2>3, <2>4
<1>9. CASE ResetCallback
  <2>1. intent' \in Intent /\ restarts' \in Nat
    BY <1>9, WantsTypes DEF ResetCallback, TypeOK
  <2>2. cycles' \in 0..MaxResumes /\ 1 \in 0..MaxAttempts /\ 0 \in 0..MaxAttempts
    BY <1>9, LimitsAssumption DEF ResetCallback
  <2>3. exhausted' \in BOOLEAN
    BY <1>9 DEF ResetCallback
  <2>4. CASE alarmActive
    BY <1>9, <2>1, <2>2, <2>3, <2>4, SendResetTypes DEF ResetCallback, TypeOK, LiftTypeOK, Job
  <2>5. CASE ~alarmActive
    BY <1>9, <2>1, <2>2, <2>3, <2>5, AlarmResetTypes DEF ResetCallback, TypeOK, LiftTypeOK, Job
  <2> QED BY <2>4, <2>5
<1> QED BY <1>3, <1>4, <1>5, <1>6, <1>7, <1>8, <1>9 DEF UserCommand

LEMMA UpdateAlarmKeepsTypes ==
    ASSUME TypeOK, UpdateAlarm
    PROVE  TypeOK'
<1> USE DEF liftVars, modeVars, velVars, alarmVars, resumeVars, homingVars, dataVars, userVars
<1>1. CASE AlarmRises
  <2>1. 1 \in 0..MaxAttempts
    BY LimitsAssumption
  <2>2. resume' \in [on : BOOLEAN, target : Int]
    BY <1>1 DEF AlarmRises, TypeOK
  <2>3. SendReset(1)
    BY <1>1 DEF AlarmRises
  <2> QED BY <1>1, <2>1, <2>2, <2>3, SendResetTypes DEF UpdateAlarm, AlarmRises, TypeOK, LiftTypeOK, Job, Mode
<1>2. CASE AlarmStays
  <2>1. CASE SendReset(attempts + 1) /\ attempts < MaxAttempts /\ UNCHANGED exhausted
    <3>1. attempts + 1 \in 0..MaxAttempts
      BY <2>1, LimitsAssumption DEF TypeOK
    <3> QED BY <1>2, <2>1, <3>1, SendResetTypes DEF UpdateAlarm, AlarmStays, TypeOK, LiftTypeOK, Job
  <2>2. CASE exhausted' \in BOOLEAN /\ UNCHANGED <<job, driveAlarm, velVars, attempts, resetDue>>
    BY <1>2, <2>2 DEF UpdateAlarm, AlarmStays, TypeOK, LiftTypeOK
  <2> QED BY <1>2, <2>1, <2>2 DEF AlarmStays, TypeOK
<1>3. CASE AlarmClears
  <2>1. NoResume \in [on : BOOLEAN, target : Int]
    BY DEF NoResume
  <2>2. /\ alarmActive' \in BOOLEAN /\ exhausted' \in BOOLEAN /\ attempts' \in 0..MaxAttempts
    <3>1. 0 \in 0..MaxAttempts
      BY LimitsAssumption
    <3> QED BY <1>3, <3>1, Zenon DEF AlarmClears
  <2>3. CASE resume.on /\ cycles < MaxResumes
    <3>1. cycles' = cycles + 1 /\ cycles' \in 0..MaxResumes
      BY <1>3, <2>3, LimitsAssumption DEF AlarmClears, ResumeAfterAlarm, TypeOK
    <3>2. resume.target \in Int
      BY DEF TypeOK
    <3>3. (IF homed THEN resume.target ELSE Count + resume.target - position) \in Int
      BY <3>2, CountIsInt DEF TypeOK
    <3>4. job' \in Job
      <4>1. Takes(PositionJob(IF homed THEN resume.target ELSE Count + resume.target - position))
        <5>1. ResumeAfterAlarm
          BY <1>3 DEF AlarmClears
        <5> QED BY <2>3, <5>1, LimitsAssumption DEF ResumeAfterAlarm, TypeOK
      <4> QED BY <3>3, <4>1, TakesTypes, JobsAreJobs
    <3>5. restarts' \in Nat /\ mode' \in Mode /\ target' \in Int /\ resume' = NoResume
      BY <1>3, <2>3, <3>2 DEF AlarmClears, ResumeAfterAlarm, TypeOK, Mode
    <3> QED BY <1>3, <2>1, <2>2, <3>1, <3>4, <3>5 DEF UpdateAlarm, AlarmClears, TypeOK, LiftTypeOK, Job
  <2>4. CASE ~(resume.on /\ cycles < MaxResumes)
    <3>1. UNCHANGED <<cycles, target, mode, job, restarts>> /\ resume' = NoResume
      BY <1>3, <2>4 DEF AlarmClears, ResumeAfterAlarm
    <3> QED BY <1>3, <2>1, <2>2, <3>1 DEF UpdateAlarm, AlarmClears, TypeOK, LiftTypeOK
  <2> QED BY <2>3, <2>4
<1>4. CASE NoAlarmNews
  BY <1>4 DEF UpdateAlarm, NoAlarmNews, TypeOK, LiftTypeOK
<1> QED BY <1>1, <1>2, <1>3, <1>4 DEF UpdateAlarm

LEMMA PollKeepsTypes ==
    ASSUME TypeOK, PollReads \/ PollHomes \/ ReleaseIfBlocked
    PROVE  TypeOK'
<1> USE DEF liftVars, modeVars, velVars, alarmVars, resumeVars, homingVars, dataVars, userVars
<1>1. CASE PollReads
  <2>1. [alarm |-> driveAlarm, low |-> height = 0] \in [alarm : BOOLEAN, low : BOOLEAN]
    BY DEF TypeOK, LiftTypeOK
  <2>2. fresh' \in BOOLEAN /\ seen' \in [alarm : BOOLEAN, low : BOOLEAN]
    BY <1>1, <2>1 DEF PollReads, TypeOK
  <2>3. position' \in Int
    BY <1>1, CountIsInt DEF PollReads, TypeOK
  <2>4. /\ poll' = "alarm"
        /\ UNCHANGED <<liftVars, modeVars, velVars, alarmVars, resumeVars, homingVars, userVars, mishaps>>
    BY <1>1 DEF PollReads
  <2> QED BY <2>2, <2>3, <2>4 DEF TypeOK, LiftTypeOK
<1>2. CASE PollHomes
  <2>1. CASE pendingHome /\ fresh /\ ~alarmActive
    <3>1. StartHoming
      BY <1>2, <2>1 DEF PollHomes
    <3>2. intent' \in Intent /\ restarts' \in Nat
      BY <3>1, WantsTypes DEF StartHoming, Intent
    <3>3. homeLate' \in BOOLEAN /\ pendingHome' \in BOOLEAN
      BY <3>1 DEF StartHoming
    <3> QED BY <1>2, <3>1, <3>2, <3>3, CancelResumeTypes, NoWatchIsWatch
            DEF PollHomes, StartHoming, TypeOK, LiftTypeOK, Mode
  <2>2. CASE ~(pendingHome /\ fresh /\ ~alarmActive)
    BY <1>2, <2>2 DEF PollHomes, TypeOK, LiftTypeOK
  <2> QED BY <2>1, <2>2
<1>3. CASE ReleaseIfBlocked
  <2>1. job' \in Job /\ lastVel' \in Int /\ graceOver' \in BOOLEAN /\ hold' \in Watch
    <3>1. ASSUME SendVelocity(0) PROVE <2>1!:
      BY <3>1, SendVelocityTypes
    <3>2. CASE ReleaseWatches \/ NothingToRelease
      BY <3>2, NoWatchIsWatch DEF ReleaseWatches, NothingToRelease, TypeOK, LiftTypeOK, Job
    <3> QED BY <1>3, <3>1, <3>2 DEF ReleaseIfBlocked, ReleaseAtLimit, ReleaseStopped
  <2> QED BY <1>3, <2>1 DEF ReleaseIfBlocked, TypeOK, LiftTypeOK, Job
<1> QED BY <1>1, <1>2, <1>3

LEMMA UpdateMotionKeepsTypes ==
    ASSUME TypeOK, UpdateMotion
    PROVE  TypeOK'
<1> USE DEF liftVars, modeVars, velVars, alarmVars, resumeVars, homingVars, dataVars, userVars
<1>0. 0 \in 0..MaxResumes
  BY LimitsAssumption
<1>1. CASE HomingTimeout
  <2>1. SendVelocity(0)
    BY <1>1 DEF HomingTimeout
  <2>2. job' \in Job /\ lastVel' \in Int /\ graceOver' \in BOOLEAN /\ hold' \in Watch
    BY <2>1, SendVelocityTypes
  <2> QED BY <1>0, <1>1, <2>2 DEF UpdateMotion, HomingTimeout, TypeOK, LiftTypeOK, Job, Mode
<1>2. CASE HomingAtLimit \/ HomingStalled
  <2>1. OriginFound
    BY <1>2 DEF HomingAtLimit, HomingStalled
  <2>2. job' \in Job /\ lastVel' \in Int /\ graceOver' \in BOOLEAN /\ hold' \in Watch
    BY <2>1, SendVelocityTypes DEF OriginFound
  <2>3. origin' \in 0..Top
    BY <2>1 DEF OriginFound, TakesOrigin, TypeOK, LiftTypeOK
  <2> QED BY <1>0, <2>1, <2>2, <2>3 DEF UpdateMotion, OriginFound, TypeOK, LiftTypeOK, Job, Mode
<1>3. CASE HomingDescends
  <2>1. job' \in Job /\ lastVel' \in Int /\ graceOver' \in BOOLEAN /\ hold' \in Watch
    BY <1>3, SpeedsAreInts, SendVelocityTypes DEF HomingDescends
  <2>2. stall' \in Watch
    <3>1. [stall EXCEPT !.on = FALSE] \in Watch
      BY DEF TypeOK, Watch
    <3> QED BY <1>3, <3>1, NoWatchIsWatch DEF HomingDescends, TypeOK
  <2> QED BY <1>3, <2>1, <2>2 DEF UpdateMotion, HomingDescends, TypeOK, LiftTypeOK, Job
<1>4. CASE PositionReached
  BY <1>0, <1>4 DEF UpdateMotion, PositionReached, TypeOK, LiftTypeOK, Mode
<1>5. CASE NoMotionNews
  BY <1>5 DEF UpdateMotion, NoMotionNews, TypeOK, LiftTypeOK
<1> QED BY <1>1, <1>2, <1>3, <1>4, <1>5 DEF UpdateMotion

LEMMA RestKeepsTypes ==
    ASSUME TypeOK, TimePasses \/ LiftGoesOn \/ SomethingGoesWrong
    PROVE  TypeOK'
<1> USE DEF liftVars, modeVars, velVars, alarmVars, resumeVars, homingVars, dataVars, userVars
<1>1. CASE TimePasses
  <2>1. [stall EXCEPT !.long = TRUE] \in Watch /\ [hold EXCEPT !.long = TRUE] \in Watch
    BY DEF TypeOK, Watch
  <2>2. OnlyTime
    BY <1>1 DEF TimePasses, DataAges, HomeTimePasses, ResetTimePasses, GraceTimePasses,
                StallTimePasses, HoldTimePasses
  <2>3. /\ graceOver' \in BOOLEAN /\ hold' \in Watch /\ resetDue' \in BOOLEAN
        /\ homeLate' \in BOOLEAN /\ stall' \in Watch /\ fresh' \in BOOLEAN
    BY <1>1, <2>1 DEF TypeOK, TimePasses, DataAges, HomeTimePasses, ResetTimePasses, GraceTimePasses,
                      StallTimePasses, HoldTimePasses
  <2> QED BY <2>2, <2>3 DEF OnlyTime, TypeOK, LiftTypeOK
<1>2. CASE LiftGoesOn
  <2>1. UNCHANGED <<hostVars, mishaps>>
    BY <1>2 DEF LiftGoesOn
  <2>2. LiftTypeOK'
    BY <1>2 DEF LiftGoesOn, LiftMoves, AlarmReturns, CauseGoes, Freed, LinkMended, PowerOn,
                Moving, TypeOK, LiftTypeOK, Link
  <2> QED BY <2>1, <2>2 DEF hostVars, TypeOK
<1>3. ASSUME NEW kind, Mishap(kind) PROVE mishaps' \in 0..MaxMishaps
  BY <1>3, MishapsAssumption DEF Mishap, TypeOK
<1>4. ASSUME UNCHANGED hostVars, mishaps' \in 0..MaxMishaps,
             AlarmComes \/ Blocked \/ LinkBreaks \/ PowerOff
      PROVE  TypeOK'
  <2>1. cause' \in BOOLEAN /\ driveAlarm' \in BOOLEAN /\ stuck' \in BOOLEAN
    BY <1>4 DEF AlarmComes, Blocked, LinkBreaks, PowerOff, TypeOK, LiftTypeOK
  <2>2. LiftTypeOK'
    BY <1>4, <2>1 DEF AlarmComes, Blocked, LinkBreaks, PowerOff, Rest, VelocityJob, TypeOK, LiftTypeOK, Link
  <2> QED BY <1>4, <2>2 DEF hostVars, TypeOK
<1>5. ASSUME StartsAfresh, mishaps' \in 0..MaxMishaps, job' \in Job,
             intent' \in Intent, restarts' \in Nat,
             UNCHANGED <<height, origin, driveAlarm, cause, stuck, link>>
      PROVE  TypeOK'
  <2>1. 0 \in 0..MaxAttempts /\ 0 \in 0..MaxResumes /\ AutoHome \in BOOLEAN
    BY LimitsAssumption, InputsAssumption
  <2>2. NoResume \in [on : BOOLEAN, target : Int]
    BY DEF NoResume
  <2>3. /\ homed' \in BOOLEAN /\ graceOver' \in BOOLEAN /\ alarmActive' \in BOOLEAN
        /\ exhausted' \in BOOLEAN /\ resetDue' \in BOOLEAN /\ homeLate' \in BOOLEAN
        /\ pendingHome' \in BOOLEAN /\ fresh' \in BOOLEAN
        /\ seen' \in [alarm : BOOLEAN, low : BOOLEAN]
    BY <1>5, <2>1 DEF StartsAfresh
  <2> QED BY <1>5, <2>1, <2>2, <2>3, NoWatchIsWatch DEF StartsAfresh, TypeOK, LiftTypeOK, Job, Mode
<1>6. CASE SomethingGoesWrong
  <2>1. CASE Restarts /\ Mishap("restart")
    <3>1. job' \in Job
      BY <2>1, TakesTypes, JobsAreJobs DEF Restarts, Rest
    <3> QED BY <1>3, <1>5, <2>1, <3>1, StopTypes DEF Restarts
  <2>2. CASE Killed /\ Mishap("kill")
    <3>1. job' \in Job
      BY <2>2 DEF Killed, TypeOK, LiftTypeOK, Job
    <3>2. intent' \in Intent /\ restarts' \in Nat
      BY <2>2, WantsTypes DEF Killed, Intent
    <3> QED BY <1>3, <1>5, <2>2, <3>1, <3>2 DEF Killed
  <2> QED BY <1>3, <1>4, <1>6, <2>1, <2>2 DEF SomethingGoesWrong
<1> QED BY <1>1, <1>2, <1>6

LEMMA NextKeepsTypes == TypeOK /\ [Next]_vars => TypeOK'
<1> SUFFICES ASSUME TypeOK, [Next]_vars PROVE TypeOK'
  OBVIOUS
<1>1. CASE UNCHANGED vars
  BY <1>1 DEF vars, hostVars, liftVars, modeVars, velVars, alarmVars, resumeVars, homingVars,
              dataVars, userVars, TypeOK, LiftTypeOK
<1> QED BY <1>1, TopicsKeepTypes, UpdateAlarmKeepsTypes, PollKeepsTypes, UpdateMotionKeepsTypes,
           RestKeepsTypes DEF Next, PollStep

LEMMA InitTypes == Init => TypeOK
<1> SUFFICES ASSUME Init PROVE TypeOK
  OBVIOUS
<1>1. /\ homed \in BOOLEAN /\ graceOver \in BOOLEAN /\ alarmActive \in BOOLEAN
      /\ exhausted \in BOOLEAN /\ resetDue \in BOOLEAN /\ homeLate \in BOOLEAN
      /\ pendingHome \in BOOLEAN /\ fresh \in BOOLEAN
      /\ seen \in [alarm : BOOLEAN, low : BOOLEAN]
  BY InputsAssumption DEF Init
<1>2. LiftTypeOK
  <2>1. driveAlarm \in BOOLEAN /\ cause \in BOOLEAN /\ stuck \in BOOLEAN
    BY DEF Init, LiftInit
  <2> QED BY <2>1 DEF Init, LiftInit, LiftTypeOK, Rest, VelocityJob, Link
<1> QED BY <1>1, <1>2, LimitsAssumption, MishapsAssumption, NoWatchIsWatch
        DEF Init, TypeOK, NoResume, Mode, Intent

\* The state of the lift, its drive and the node keeps its types: no more attempts than
\* the limit, no more resumptions than the limit, and a lift between its ends.
THEOREM LiftTypes == Spec => []TypeOK
BY InitTypes, NextKeepsTypes, PTL DEF Spec

-----------------------------------------------------------------------------
(* At rest in an alarm, as long as no frame is lost. *)

LineHolds == "silence" \notin Mishaps

\* A drive without power has nothing to do.
HeardOrOff == link \in {"up", "off"} /\ (link = "off" => job = Rest)

RestInv == HeardOrOff /\ AtRestInAlarm

LEMMA HeardOrOffKept ==
    ASSUME HeardOrOff, UNCHANGED link, job' = job \/ \E j : Takes(j)
    PROVE  HeardOrOff'
BY DEF HeardOrOff, Takes, Heard

\* A stop that is sent is obeyed.
LEMMA StopObeyed ==
    ASSUME HeardOrOff, SendVelocity(0)
    PROVE  job' = Rest
BY DEF HeardOrOff, SendVelocity, Takes, Heard, Rest

LEMMA SendVelocityTakes == ASSUME NEW rpm, SendVelocity(rpm) PROVE \E j : Takes(j)
BY DEF SendVelocity

LEMMA InitRestInv == Init => RestInv
BY DEF Init, LiftInit, RestInv, HeardOrOff, AtRestInAlarm

LEMMA TopicsKeepRest ==
    ASSUME RestInv, UserCommand \/ ResetCallback
    PROVE  RestInv'
<1> USE DEF RestInv
<1>1. ASSUME NEW rpm, VelocityCommand(rpm) PROVE RestInv'
  <2>1. intent' \notin {"goto", "home"}
    BY <1>1 DEF VelocityCommand, UserStops, UserWants
  <2>2. HeardOrOff'
    BY <1>1, HeardOrOffKept, SendVelocityTakes DEF VelocityCommand
  <2> QED BY <2>1, <2>2 DEF AtRestInAlarm
<1>2. ASSUME NEW to, NEW counts, ~alarmActive, PositionCommand(to, counts) PROVE RestInv'
  <2>1. ~alarmActive'
    BY <1>2 DEF PositionCommand, alarmVars
  <2>2. HeardOrOff'
    BY <1>2, HeardOrOffKept DEF PositionCommand
  <2> QED BY <2>1, <2>2 DEF AtRestInAlarm
<1>3. CASE CommandCallback \/ VelocityCmdCallback
  BY <1>1, <1>3 DEF CommandCallback, VelocityCmdCallback
<1>4. CASE PositionCmdCallback \/ IncPositionCmdCallback
  BY <1>2, <1>4 DEF PositionCmdCallback, IncPositionCmdCallback
<1>5. CASE HomeCallback
  <2>1. ~alarmActive' /\ UNCHANGED <<link, job>>
    BY <1>5 DEF HomeCallback, alarmVars, liftVars
  <2> QED BY <2>1, HeardOrOffKept DEF AtRestInAlarm
<1>6. CASE HomeAbortCallback
  <2>1. CASE mode = "HOMING"
    <3>1. SendVelocity(0) /\ UserStops /\ UNCHANGED link
      BY <1>6, <2>1 DEF HomeAbortCallback
    <3> QED BY <3>1, StopObeyed, HeardOrOffKept, SendVelocityTakes DEF AtRestInAlarm
  <2>2. CASE mode # "HOMING"
    <3>1. UNCHANGED <<link, job, alarmActive, intent>>
      BY <1>6, <2>2 DEF HomeAbortCallback, UserWants, liftVars, alarmVars
    <3> QED BY <3>1, HeardOrOffKept DEF AtRestInAlarm
  <2> QED BY <2>1, <2>2
<1>7. CASE ResetCallback
  <2>1. UNCHANGED <<link, alarmActive, intent>>
    BY <1>7 DEF ResetCallback, UserWants
  <2>2. CASE SendVelocity(0)
    BY <2>1, <2>2, StopObeyed, HeardOrOffKept, SendVelocityTakes DEF AtRestInAlarm
  <2>3. CASE UNCHANGED job
    BY <2>1, <2>3, HeardOrOffKept DEF AtRestInAlarm
  <2> QED BY <1>7, <2>2, <2>3 DEF ResetCallback, SendReset
<1> QED BY <1>3, <1>4, <1>5, <1>6, <1>7 DEF UserCommand

LEMMA PollKeepsRest ==
    ASSUME UserInv, RestInv, PollStep
    PROVE  RestInv'
<1> USE DEF RestInv
\* What a part of the poll does to the drive while no alarm is on makes no difference.
<1>1. ASSUME UNCHANGED <<link, alarmActive, intent>>, ~alarmActive, job' = job \/ \E j : Takes(j)
      PROVE  RestInv'
  BY <1>1, HeardOrOffKept DEF AtRestInAlarm
<1>2. ASSUME UNCHANGED link, SendVelocity(0)
      PROVE  RestInv'
  BY <1>2, StopObeyed, HeardOrOffKept, SendVelocityTakes DEF AtRestInAlarm
<1>3. ASSUME UNCHANGED <<link, job, alarmActive, intent>>
      PROVE  RestInv'
  BY <1>3, HeardOrOffKept DEF AtRestInAlarm
<1>4. CASE PollReads
  BY <1>3, <1>4 DEF PollReads, liftVars, alarmVars, userVars
<1>5. CASE UpdateAlarm
  <2>1. CASE AlarmRises
    BY <1>2, <2>1 DEF AlarmRises, SendReset
  <2>2. CASE AlarmStays
    <3>1. UNCHANGED <<link, alarmActive, intent>>
      BY <1>5, <2>2 DEF UpdateAlarm, AlarmStays
    <3> QED BY <1>2, <1>3, <2>2, <3>1 DEF AlarmStays, SendReset
  <2>3. CASE AlarmClears
    <3>1. ~alarmActive' /\ UNCHANGED link
      BY <2>3 DEF AlarmClears
    <3>2. job' = job \/ \E j : Takes(j)
      BY <2>3 DEF AlarmClears, ResumeAfterAlarm
    <3> QED BY <3>1, <3>2, HeardOrOffKept DEF AtRestInAlarm
  <2>4. CASE NoAlarmNews
    BY <1>3, <1>5, <2>4 DEF UpdateAlarm, NoAlarmNews, liftVars, alarmVars
  <2> QED BY <1>5, <2>1, <2>2, <2>3, <2>4 DEF UpdateAlarm
<1>6. CASE PollHomes
  <2>1. CASE pendingHome /\ fresh /\ ~alarmActive
    <3>1. ~alarmActive' /\ UNCHANGED <<link, job>>
      BY <1>6, <2>1 DEF PollHomes, liftVars, alarmVars
    <3> QED BY <3>1, HeardOrOffKept DEF AtRestInAlarm
  <2>2. CASE ~(pendingHome /\ fresh /\ ~alarmActive)
    BY <1>3, <1>6, <2>2 DEF PollHomes, liftVars, alarmVars, userVars
  <2> QED BY <2>1, <2>2
<1>7. CASE UpdateMotion
  <2>1. UNCHANGED <<link, alarmActive, intent>>
    BY <1>7 DEF UpdateMotion, alarmVars, userVars
  <2>2. CASE HomingTimeout \/ HomingAtLimit \/ HomingStalled
    BY <1>2, <2>1, <2>2 DEF HomingTimeout, HomingAtLimit, HomingStalled, OriginFound
  <2>3. CASE HomingDescends
    <3>1. ~alarmActive
      BY <2>3 DEF HomingDescends, Descending, UserInv, ModeServesUser, QuietInHoming
    <3> QED BY <1>1, <2>1, <2>3, <3>1, SendVelocityTakes DEF HomingDescends
  <2>4. CASE PositionReached \/ NoMotionNews
    BY <1>3, <2>1, <2>4 DEF PositionReached, NoMotionNews
  <2> QED BY <1>7, <2>2, <2>3, <2>4 DEF UpdateMotion
<1>8. CASE ReleaseIfBlocked
  <2>1. UNCHANGED <<link, alarmActive, intent>>
    BY <1>8 DEF ReleaseIfBlocked, alarmVars, userVars
  <2> QED BY <1>2, <1>3, <1>8, <2>1
          DEF ReleaseIfBlocked, ReleaseAtLimit, ReleaseStopped, ReleaseWatches, NothingToRelease
<1> QED BY <1>4, <1>5, <1>6, <1>7, <1>8 DEF PollStep

LEMMA OthersKeepRest ==
    ASSUME LineHolds, RestInv, TimePasses \/ LiftGoesOn \/ SomethingGoesWrong
    PROVE  RestInv'
<1> USE DEF RestInv
<1>1. CASE TimePasses
  <2>1. OnlyTime
    BY <1>1 DEF TimePasses, DataAges, HomeTimePasses, ResetTimePasses, GraceTimePasses,
                StallTimePasses, HoldTimePasses
  <2>2. UNCHANGED <<link, job, alarmActive, intent>>
    BY <2>1 DEF OnlyTime, liftVars, userVars
  <2> QED BY <2>2, HeardOrOffKept DEF AtRestInAlarm
<1>2. ASSUME UNCHANGED hostVars,
             \/ UNCHANGED <<link, job>>
             \/ link' = "off" /\ job' = Rest
             \/ link = "off" /\ link' = "up" /\ UNCHANGED job
      PROVE  RestInv'
  BY <1>2 DEF hostVars, alarmVars, userVars, HeardOrOff, AtRestInAlarm
<1>3. CASE LiftGoesOn
  BY <1>2, <1>3 DEF LiftGoesOn, LiftMoves, AlarmReturns, CauseGoes, Freed, LinkMended, PowerOn, HeardOrOff
<1>4. ASSUME StartsAfresh, UNCHANGED link, job' = job \/ \E j : Takes(j)
      PROVE  RestInv'
  BY <1>4, HeardOrOffKept DEF StartsAfresh, AtRestInAlarm
<1>5. CASE SomethingGoesWrong
  BY <1>2, <1>4, <1>5
  DEF LineHolds, SomethingGoesWrong, Mishap, AlarmComes, Blocked, PowerOff, Restarts, Killed, liftVars
<1> QED BY <1>1, <1>3, <1>5

LEMMA NextKeepsRest == LineHolds /\ UserInv /\ RestInv /\ [Next]_vars => RestInv'
<1> SUFFICES ASSUME LineHolds, UserInv, RestInv, [Next]_vars PROVE RestInv'
  OBVIOUS
<1>1. CASE UNCHANGED vars
  BY <1>1, HeardOrOffKept DEF vars, hostVars, liftVars, alarmVars, userVars, RestInv, AtRestInAlarm
<1> QED BY <1>1, TopicsKeepRest, PollKeepsRest, OthersKeepRest DEF Next

\* As long as the line carries the frames, a drive that was on a move or a homing is at rest
\* while an alarm is on: power losses, kills and restarts notwithstanding.
THEOREM RestsInAlarm == LineHolds => (Spec => []AtRestInAlarm)
<1>1. LineHolds /\ UserInv /\ RestInv /\ [Next]_vars => RestInv'
  BY NextKeepsRest
<1>2. ASSUME LineHolds PROVE Spec => []AtRestInAlarm
  <2>1. RestInv /\ UserInv /\ [Next]_vars => RestInv'
    BY <1>1, <1>2
  <2>2. RestInv => AtRestInAlarm
    BY DEF RestInv
  <2> QED BY <2>1, <2>2, InitRestInv, AlwaysUserInv, PTL DEF Spec
<1> QED BY <1>2

-----------------------------------------------------------------------------
(* The origin, as long as nothing but alarms, restarts and kills goes wrong. *)

OriginUndisturbed == Mishaps \subseteq {"alarm", "restart", "kill"}

\* In a homing that watches where the lift stands, the drive has been told to descend, and
\* what stands long enough stands at the lower limit.
StallMeansLimit == mode = "HOMING" /\ stall.on => /\ job = VelocityJob(HomeSpeed)
                                                  /\ stall.long => height = 0

\* A poll that has been answered knows the limit switch, and the node the alarm, as they are.
PollIsFresh == /\ poll # "idle" => fresh /\ (seen.low => height = 0)
               /\ poll # "alarm" /\ seen.alarm => alarmActive

OriginInv == /\ link = "up" /\ stuck = FALSE
             /\ HomedMeansOrigin
             /\ PollIsFresh
             /\ StallMeansLimit

\* A descent leads down, whichever sign of the speed is up.
LEMMA DescentDescends ==
    ASSUME TypeOK, job = VelocityJob(HomeSpeed)
    PROVE  Direction = -1
<1>1. Direction = Sign(-UpSpeed) * Sign(UpSpeed)
  BY DEF Direction, VelocityJob, HomeSpeed
<1>2. CASE UpSpeed > 0
  <2>1. Sign(-UpSpeed) = -1 /\ Sign(UpSpeed) = 1
    BY <1>2, UpSpeedAssumption DEF Sign
  <2> QED BY <1>1, <2>1
<1>3. CASE UpSpeed < 0
  <2>1. Sign(-UpSpeed) = 1 /\ Sign(UpSpeed) = -1
    BY <1>3, UpSpeedAssumption DEF Sign
  <2> QED BY <1>1, <2>1
<1> QED BY <1>2, <1>3, UpSpeedAssumption

\* So a lift that is free to descend and stands is at the lower limit, and stays there.
LEMMA StandsAtLimit ==
    ASSUME TypeOK, job = VelocityJob(HomeSpeed), link = "up", ~driveAlarm, ~stuck, ~Moving
    PROVE  height = 0
<1>1. Direction = -1
  BY DescentDescends
<1>2. height \in 0..Top /\ ~(height + Direction \in 0..Top)
  BY <1>1 DEF Moving, TypeOK, LiftTypeOK
<1> QED BY <1>1, <1>2, TopAssumption

LEMMA LimitHolds ==
    ASSUME TypeOK, job = VelocityJob(HomeSpeed), height = 0
    PROVE  ~LiftMoves
<1>1. Direction = -1
  BY DescentDescends
<1> QED BY <1>1, TopAssumption DEF LiftMoves, Moving

LEMMA InitOriginInv == Init => OriginInv
BY DEF Init, LiftInit, OriginInv, HomedMeansOrigin, PollIsFresh, StallMeansLimit, NoWatch

\* All an action between two polls must respect.
LEMMA OriginKept ==
    ASSUME OriginInv,
           UNCHANGED <<height, origin, stuck, link, homed, poll, seen, fresh>>,
           alarmActive => alarmActive',
           \/ mode' # "HOMING"
           \/ ~stall'.on
           \/ UNCHANGED <<mode, stall, job>>
    PROVE  OriginInv'
BY DEF OriginInv, HomedMeansOrigin, PollIsFresh, StallMeansLimit

LEMMA TopicsKeepOrigin ==
    ASSUME UserInv, OriginInv, UserCommand \/ ResetCallback
    PROVE  OriginInv'
<1> USE DEF liftVars, modeVars, alarmVars, homingVars, dataVars
<1>1. ASSUME NEW rpm, VelocityCommand(rpm) PROVE OriginInv'
  BY <1>1, OriginKept DEF VelocityCommand
<1>2. ASSUME NEW to, NEW counts, PositionCommand(to, counts) PROVE OriginInv'
  BY <1>2, OriginKept DEF PositionCommand
<1>3. CASE CommandCallback \/ VelocityCmdCallback
  BY <1>1, <1>3 DEF CommandCallback, VelocityCmdCallback
<1>4. CASE PositionCmdCallback \/ IncPositionCmdCallback
  BY <1>2, <1>4 DEF PositionCmdCallback, IncPositionCmdCallback
<1>5. CASE HomeCallback
  BY <1>5, OriginKept DEF HomeCallback, StartHoming, NoWatch
<1>6. CASE HomeAbortCallback
  <2>1. mode' # "HOMING"
    BY <1>6 DEF HomeAbortCallback
  <2> QED BY <1>6, <2>1, OriginKept DEF HomeAbortCallback
<1>7. CASE ResetCallback
  <2>1. CASE alarmActive
    <3>1. mode' # "HOMING"
      BY <1>7, <2>1 DEF ResetCallback, UserInv, ModeServesUser, QuietInHoming
    <3> QED BY <1>7, <2>1, <3>1, OriginKept DEF ResetCallback, SendReset
  <2>2. CASE ~alarmActive
    BY <1>7, <2>2, OriginKept DEF ResetCallback
  <2> QED BY <2>1, <2>2
<1> QED BY <1>3, <1>4, <1>5, <1>6, <1>7 DEF UserCommand

LEMMA PollKeepsOrigin ==
    ASSUME TypeOK, UserInv, OriginInv, PollStep
    PROVE  OriginInv'
<1> USE DEF liftVars, modeVars, alarmVars, homingVars, dataVars
<1>1. CASE PollReads
  <2>1. /\ poll' = "alarm" /\ fresh' = TRUE
        /\ seen' = [alarm |-> driveAlarm, low |-> height = 0]
        /\ UNCHANGED <<height, origin, job, stuck, link, mode, homed, stall>>
    BY <1>1 DEF PollReads, Heard, OriginInv
  <2>2. PollIsFresh'
    BY <2>1 DEF PollIsFresh
  <2>3. StallMeansLimit'
    BY <2>1 DEF OriginInv, StallMeansLimit, VelocityJob, HomeSpeed
  <2> QED BY <2>1, <2>2, <2>3 DEF OriginInv, HomedMeansOrigin
<1>2. CASE UpdateAlarm
  <2>1. /\ poll' = "home" /\ UNCHANGED <<homed, stall, seen, fresh>>
        /\ fresh /\ (seen.low => height = 0)
    BY <1>2 DEF UpdateAlarm, OriginInv, PollIsFresh
  <2>2. UNCHANGED <<height, origin, stuck, link>>
    BY <1>2 DEF UpdateAlarm, AlarmRises, AlarmStays, AlarmClears, NoAlarmNews
  <2>3. seen.alarm => alarmActive'
    BY <1>2, <2>1 DEF UpdateAlarm, AlarmRises, AlarmStays, AlarmClears, NoAlarmNews
  <2>4. mode' # "HOMING" \/ UNCHANGED <<mode, job>>
    <3>1. CASE AlarmRises
      BY <3>1 DEF AlarmRises
    <3>2. CASE AlarmStays
      BY <3>2 DEF AlarmStays, UserInv, ModeServesUser, QuietInHoming
    <3>3. CASE AlarmClears
      BY <3>3 DEF AlarmClears, ResumeAfterAlarm
    <3>4. CASE NoAlarmNews
      BY <3>4 DEF NoAlarmNews
    <3> QED BY <1>2, <3>1, <3>2, <3>3, <3>4 DEF UpdateAlarm
  <2> QED BY <2>1, <2>2, <2>3, <2>4 DEF OriginInv, HomedMeansOrigin, PollIsFresh, StallMeansLimit
<1>3. CASE PollHomes
  <2>1. /\ poll = "home" /\ poll' = "motion"
        /\ UNCHANGED <<height, origin, job, stuck, link, homed, alarmActive, seen, fresh>>
    BY <1>3 DEF PollHomes
  <2>2. ~stall'.on \/ UNCHANGED <<mode, stall>>
    BY <1>3 DEF PollHomes, StartHoming, NoWatch
  <2> QED BY <2>1, <2>2 DEF OriginInv, HomedMeansOrigin, PollIsFresh, StallMeansLimit
<1>4. CASE UpdateMotion
  <2>1. /\ poll = "motion" /\ poll' = "release"
        /\ UNCHANGED <<height, stuck, link, alarmActive, seen, fresh>>
    BY <1>4 DEF UpdateMotion
  <2>2. PollIsFresh'
    BY <2>1 DEF OriginInv, PollIsFresh
  <2>3. CASE HomingAtLimit \/ HomingStalled
    <3>1. OriginFound /\ height = 0
      BY <2>1, <2>3 DEF HomingAtLimit, HomingStalled, Descending, OriginInv, PollIsFresh, StallMeansLimit
    <3>2. origin' = 0 /\ mode' # "HOMING"
      BY <3>1 DEF OriginFound, TakesOrigin, Heard, OriginInv
    <3> QED BY <2>1, <2>2, <3>2 DEF OriginInv, HomedMeansOrigin, StallMeansLimit
  <2>4. CASE HomingDescends
    <3>1. job' = VelocityJob(HomeSpeed) /\ UNCHANGED <<origin, homed, mode>>
      BY <2>4 DEF HomingDescends, SendVelocity, Takes, Heard, OriginInv
    <3>2. fresh
      BY <2>1 DEF OriginInv, PollIsFresh
    <3>3. stall' = stall \/ ~stall'.long
      BY <2>4, <3>2 DEF HomingDescends, WatchNow
    <3>4. mode = "HOMING" /\ (stall' = stall => ~stall.on \/ ~stall.long \/ height = 0)
      BY <2>4 DEF HomingDescends, Descending, OriginInv, StallMeansLimit
    <3>5. VelocityJob(HomeSpeed)' = VelocityJob(HomeSpeed)
      BY DEF VelocityJob, HomeSpeed
    <3> QED BY <2>1, <2>2, <3>1, <3>3, <3>4, <3>5 DEF OriginInv, HomedMeansOrigin, StallMeansLimit
  <2>5. CASE HomingTimeout \/ PositionReached
    <3>1. mode' # "HOMING" /\ UNCHANGED <<origin, homed>>
      BY <2>5 DEF HomingTimeout, PositionReached
    <3> QED BY <2>1, <2>2, <3>1 DEF OriginInv, HomedMeansOrigin, StallMeansLimit
  <2>6. CASE NoMotionNews
    <3>1. mode' # "HOMING" /\ UNCHANGED <<origin, homed>>
      BY <2>6 DEF NoMotionNews
    <3> QED BY <2>1, <2>2, <3>1 DEF OriginInv, HomedMeansOrigin, StallMeansLimit
  <2> QED BY <1>4, <2>3, <2>4, <2>5, <2>6 DEF UpdateMotion
<1>5. CASE ReleaseIfBlocked
  <2>1. /\ poll = "release" /\ poll' = "idle"
        /\ UNCHANGED <<height, origin, stuck, link, mode, homed, stall, alarmActive, seen, fresh>>
    BY <1>5 DEF ReleaseIfBlocked
  <2>2. mode # "HOMING" \/ UNCHANGED job
    BY <1>5 DEF ReleaseIfBlocked, ReleaseAtLimit, ReleaseStopped, ReleaseWatches, NothingToRelease,
                Watching, ReleaseApplies
  <2> QED BY <2>1, <2>2 DEF OriginInv, HomedMeansOrigin, PollIsFresh, StallMeansLimit
<1> QED BY <1>1, <1>2, <1>3, <1>4, <1>5 DEF PollStep

LEMMA OthersKeepOrigin ==
    ASSUME OriginUndisturbed, TypeOK, UserInv, OriginInv, TimePasses \/ LiftGoesOn \/ SomethingGoesWrong
    PROVE  OriginInv'
<1> USE DEF liftVars, modeVars, alarmVars, homingVars, dataVars
\* The stall clock runs out only over a lift that stands, and with no alarm holding it.
<1>1. CASE StallTimePasses
  <2>1. /\ Idle /\ mode = "HOMING" /\ stall.on /\ SeemsToStand
        /\ stall' = [stall EXCEPT !.long = TRUE]
        /\ UNCHANGED <<height, origin, job, stuck, link, mode, homed, alarmActive, poll, seen, fresh>>
    BY <1>1 DEF StallTimePasses, OnlyTime
  <2>2. job = VelocityJob(HomeSpeed)
    BY <2>1 DEF OriginInv, StallMeansLimit
  <2>3. ~driveAlarm /\ ~Moving
    BY <2>1 DEF SeemsToStand, Heard, Idle, OriginInv, PollIsFresh, UserInv,
        ModeServesUser, QuietInHoming, TypeOK, LiftTypeOK
  <2>4. height = 0
    BY <2>2, <2>3, StandsAtLimit DEF OriginInv
  <2>5. VelocityJob(HomeSpeed)' = VelocityJob(HomeSpeed)
    BY DEF VelocityJob, HomeSpeed
  <2> QED BY <2>1, <2>2, <2>4, <2>5 DEF OriginInv, HomedMeansOrigin, PollIsFresh, StallMeansLimit
<1>2. CASE TimePasses /\ ~StallTimePasses
  <2>1. ~DataAges
    BY DEF DataAges, Heard, OriginInv
  <2>2. OnlyTime /\ UNCHANGED <<stall, fresh>>
    BY <1>2, <2>1 DEF TimePasses, HomeTimePasses, ResetTimePasses, GraceTimePasses, HoldTimePasses
  <2> QED BY <2>2, OriginKept DEF OnlyTime
<1>3. CASE LiftGoesOn
  <2>1. CASE Idle /\ LiftMoves
    <3>1. ~(mode = "HOMING" /\ stall.on /\ stall.long)
      BY <2>1, LimitHolds DEF OriginInv, StallMeansLimit
    <3>2. UNCHANGED <<origin, job, stuck, link>>
      BY <2>1 DEF LiftMoves
    <3> QED BY <1>3, <2>1, <3>1, <3>2
            DEF LiftGoesOn, hostVars, Idle, OriginInv, HomedMeansOrigin, PollIsFresh, StallMeansLimit
  <2>2. CASE AlarmReturns \/ CauseGoes
    BY <1>3, <2>2, OriginKept DEF LiftGoesOn, hostVars, AlarmReturns, CauseGoes
  <2>3. ~Freed /\ ~LinkMended /\ ~PowerOn
    BY DEF Freed, LinkMended, PowerOn, OriginInv
  <2> QED BY <1>3, <2>1, <2>2, <2>3 DEF LiftGoesOn
<1>4. ASSUME StartsAfresh, UNCHANGED <<height, origin, stuck, link>> PROVE OriginInv'
  BY <1>4 DEF StartsAfresh, OriginInv, HomedMeansOrigin, PollIsFresh, StallMeansLimit
<1>5. CASE SomethingGoesWrong
  <2>1. (AlarmComes /\ UNCHANGED hostVars) \/ Restarts \/ Killed
    BY <1>5 DEF SomethingGoesWrong, Mishap, OriginUndisturbed
  <2> QED BY <1>4, <2>1, OriginKept DEF AlarmComes, hostVars, Restarts, Killed
<1> QED BY <1>1, <1>2, <1>3, <1>5

LEMMA NextKeepsOrigin == OriginUndisturbed /\ TypeOK /\ UserInv /\ OriginInv /\ [Next]_vars => OriginInv'
<1> SUFFICES ASSUME OriginUndisturbed, TypeOK, UserInv, OriginInv, [Next]_vars PROVE OriginInv'
  OBVIOUS
<1>1. CASE UNCHANGED vars
  BY <1>1, OriginKept DEF vars, hostVars, liftVars, modeVars, alarmVars, homingVars, dataVars
<1> QED BY <1>1, TopicsKeepOrigin, PollKeepsOrigin, OthersKeepOrigin DEF Next

\* A node that says it is homed has the drive count from the lower limit, whatever alarms,
\* restarts and kills there are: nothing but a blocked lift, a silent line or a drive that
\* loses power can make it wrong.
THEOREM HomedIsAtOrigin == OriginUndisturbed => (Spec => []HomedMeansOrigin)
<1>1. ASSUME OriginUndisturbed PROVE Spec => []HomedMeansOrigin
  <2>1. OriginInv /\ TypeOK /\ UserInv /\ [Next]_vars => OriginInv'
    BY <1>1, NextKeepsOrigin
  <2>2. OriginInv => HomedMeansOrigin
    BY DEF OriginInv
  <2> QED BY <2>1, <2>2, InitOriginInv, AlwaysUserInv, LiftTypes, PTL DEF Spec
<1> QED BY <1>1

-----------------------------------------------------------------------------
(* The node implements LiftService. *)

ServiceVars == <<intent, job, alarmActive, restarts>>
ServiceStep == [Service!Next]_ServiceVars

LEMMA InitService == Init => Service!Init
BY DEF Init, LiftInit, Service!Init, Service!Rest, Rest, VelocityJob

\* What a speed or a position leaves the drive with.

LEMMA StopIsToldToRest ==
    ASSUME SendVelocity(0)
    PROVE  Service!ToldToRest
BY StopSent DEF Service!ToldToRest, Service!Rest, Rest, VelocityJob

LEMMA SpeedIsTold ==
    ASSUME NEW rpm, SendVelocity(rpm)
    PROVE  Service!Told("velocity")
BY DEF SendVelocity, Takes, VelocityJob, Service!Told

LEMMA MoveIsTold ==
    ASSUME NEW counts, Takes(PositionJob(counts))
    PROVE  Service!Told("position")
BY DEF Takes, PositionJob, Service!Told

\* A stop counts as one only if the drive hears it.
LEMMA StopIsStop ==
    ASSUME Takes(Rest), UserStops, alarmActive' \in {alarmActive, FALSE}
    PROVE  Service!Stop
BY DEF Takes, Rest, VelocityJob, UserStops, UserWants, Service!Stop, Service!ToldToRest, Service!Rest

LEMMA StepIsWithdraw ==
    ASSUME UNCHANGED <<intent, alarmActive, restarts>>,
           SendVelocity(0) \/ UNCHANGED job
    PROVE  Service!Withdraw
BY StopIsToldToRest DEF Service!Withdraw, Service!ToldToRest

LEMMA TopicsRefine ==
    ASSUME UserCommand \/ ResetCallback
    PROVE  Service!Next
<1> USE DEF alarmVars
<1>1. ASSUME NEW rpm, VelocityCommand(rpm) PROVE Service!Next
  <2>1. CASE rpm = 0
    <3>1. Service!Stop
      BY <1>1, <2>1, StopIsStop DEF VelocityCommand, SendVelocity, Rest
    <3> QED BY <3>1 DEF Service!Next
  <2>2. CASE rpm # 0
    <3>1. Service!Speed
      BY <1>1, <2>2, SpeedIsTold DEF VelocityCommand, UserWants, Service!Speed
    <3> QED BY <3>1 DEF Service!Next
  <2> QED BY <2>1, <2>2
<1>2. ASSUME NEW to, NEW counts, ~alarmActive, PositionCommand(to, counts) PROVE Service!Next
  <2>1. Service!Goto
    BY <1>2, MoveIsTold DEF PositionCommand, UserWants, Service!Goto
  <2> QED BY <2>1 DEF Service!Next
<1>3. CASE CommandCallback \/ VelocityCmdCallback
  BY <1>1, <1>3 DEF CommandCallback, VelocityCmdCallback
<1>4. CASE PositionCmdCallback \/ IncPositionCmdCallback
  BY <1>2, <1>4 DEF PositionCmdCallback, IncPositionCmdCallback
<1>5. CASE HomeCallback
  <2>1. Service!Home
    BY <1>5 DEF HomeCallback, StartHoming, UserWants, liftVars, Service!Home
  <2> QED BY <2>1 DEF Service!Next
<1>6. CASE HomeAbortCallback
  <2>1. CASE mode = "HOMING"
    <3>1. Service!Stop
      BY <1>6, <2>1, StopIsStop DEF HomeAbortCallback, SendVelocity, Rest
    <3> QED BY <3>1 DEF Service!Next
  <2>2. CASE mode # "HOMING"
    <3>1. Service!Confirm
      BY <1>6, <2>2 DEF HomeAbortCallback, UserWants, liftVars, Service!Confirm, Service!ToldToRest
    <3> QED BY <3>1 DEF Service!Next
  <2> QED BY <2>1, <2>2
<1>7. CASE ResetCallback
  <2>1. Service!ToldToRest
    BY <1>7, StopIsToldToRest DEF ResetCallback, SendReset, Service!ToldToRest
  <2>2. Service!Confirm
    BY <1>7, <2>1 DEF ResetCallback, UserWants, Service!Confirm
  <2> QED BY <2>2 DEF Service!Next
<1> QED BY <1>3, <1>4, <1>5, <1>6, <1>7 DEF UserCommand

LEMMA UpdateAlarmRefines ==
    ASSUME UserInv, UpdateAlarm
    PROVE  ServiceStep
<1>0. UNCHANGED intent
  BY DEF UpdateAlarm
<1>1. CASE AlarmRises
  <2>1. Service!AlarmSeen
    BY <1>0, <1>1, StopIsToldToRest DEF AlarmRises, SendReset, Service!AlarmSeen
  <2> QED BY <2>1 DEF ServiceStep, Service!Next
<1>2. CASE AlarmStays
  <2>1. Service!Withdraw
    BY <1>0, <1>2, StepIsWithdraw DEF AlarmStays, SendReset
  <2> QED BY <2>1 DEF ServiceStep, Service!Next
<1>3. CASE AlarmClears
  <2>1. CASE resume.on /\ cycles < MaxResumes
    <3>1. /\ Takes(PositionJob(IF homed THEN resume.target ELSE Count + resume.target - position))
          /\ restarts' = restarts + 1
      BY <1>3, <2>1, LimitsAssumption DEF AlarmClears, ResumeAfterAlarm, UserInv, Counted
    <3>2. intent = "goto" /\ restarts < MaxResumes
      BY <2>1, LimitsAssumption DEF UserInv, ModeServesUser, QuietInHoming, Counted
    <3>3. Service!Resume
      BY <1>0, <1>3, <3>1, <3>2, MoveIsTold DEF AlarmClears, Service!Resume
    <3> QED BY <3>3 DEF ServiceStep, Service!Next
  <2>2. CASE ~(resume.on /\ cycles < MaxResumes)
    <3>1. Service!AlarmGone
      BY <1>0, <1>3, <2>2 DEF AlarmClears, ResumeAfterAlarm, Service!AlarmGone
    <3> QED BY <3>1 DEF ServiceStep, Service!Next
  <2> QED BY <2>1, <2>2
<1>4. CASE NoAlarmNews
  BY <1>0, <1>4 DEF NoAlarmNews, liftVars, alarmVars, ServiceStep, ServiceVars
<1> QED BY <1>1, <1>2, <1>3, <1>4 DEF UpdateAlarm

LEMMA PollRefines ==
    ASSUME UserInv, PollReads \/ PollHomes \/ UpdateMotion \/ ReleaseIfBlocked
    PROVE  ServiceStep
<1> USE DEF liftVars, alarmVars, userVars, ServiceVars
<1>1. CASE PollReads
  BY <1>1 DEF PollReads, ServiceStep
<1>2. CASE PollHomes
  <2>1. CASE pendingHome /\ fresh /\ ~alarmActive
    <3>1. Service!Home
      BY <1>2, <2>1 DEF PollHomes, StartHoming, UserWants, Service!Home
    <3> QED BY <3>1 DEF ServiceStep, Service!Next
  <2>2. CASE ~(pendingHome /\ fresh /\ ~alarmActive)
    BY <1>2, <2>2 DEF PollHomes, ServiceStep
  <2> QED BY <2>1, <2>2
<1>3. CASE UpdateMotion
  <2>1. UNCHANGED <<intent, alarmActive, restarts>>
    BY <1>3 DEF UpdateMotion
  <2>2. CASE HomingDescends
    <3>1. intent = "home" /\ ~alarmActive
      BY <2>2 DEF HomingDescends, Descending, UserInv, ModeServesUser, QuietInHoming
    <3>2. job' = VelocityJob(HomeSpeed) \/ UNCHANGED job
      BY <2>2 DEF HomingDescends, SendVelocity, Takes
    <3>3. Service!Descend \/ UNCHANGED ServiceVars
      BY <2>1, <3>1, <3>2 DEF Service!Descend
    <3> QED BY <3>3 DEF ServiceStep, Service!Next
  <2>3. CASE ~HomingDescends
    <3>1. SendVelocity(0) \/ UNCHANGED job
      BY <1>3, <2>3 DEF UpdateMotion, HomingTimeout, HomingAtLimit, HomingStalled, OriginFound,
                        PositionReached, NoMotionNews
    <3> QED BY <2>1, <3>1, StepIsWithdraw DEF ServiceStep, Service!Next
  <2> QED BY <2>2, <2>3
<1>4. CASE ReleaseIfBlocked
  <2>1. SendVelocity(0) \/ UNCHANGED job
    BY <1>4 DEF ReleaseIfBlocked, ReleaseAtLimit, ReleaseStopped, ReleaseWatches, NothingToRelease
  <2>2. UNCHANGED <<intent, alarmActive, restarts>>
    BY <1>4 DEF ReleaseIfBlocked
  <2> QED BY <2>1, <2>2, StepIsWithdraw DEF ServiceStep, Service!Next
<1> QED BY <1>1, <1>2, <1>3, <1>4

LEMMA OthersRefine ==
    ASSUME TimePasses \/ LiftGoesOn \/ SomethingGoesWrong
    PROVE  ServiceStep
<1> USE DEF ServiceVars
<1>1. ASSUME UNCHANGED <<intent, alarmActive, restarts>>, job' = Rest \/ UNCHANGED job
      PROVE  ServiceStep
  BY <1>1 DEF ServiceStep, Service!Next, Service!Withdraw, Service!ToldToRest, Service!Rest, Rest, VelocityJob
<1>2. CASE TimePasses
  <2>1. OnlyTime
    BY <1>2 DEF TimePasses, DataAges, HomeTimePasses, ResetTimePasses, GraceTimePasses,
                StallTimePasses, HoldTimePasses
  <2> QED BY <1>1, <2>1 DEF OnlyTime, liftVars, userVars
<1>3. ASSUME UNCHANGED hostVars, job' = Rest \/ UNCHANGED job PROVE ServiceStep
  BY <1>1, <1>3 DEF hostVars, alarmVars, userVars
<1>4. CASE LiftGoesOn
  BY <1>3, <1>4 DEF LiftGoesOn, LiftMoves, AlarmReturns, CauseGoes, Freed, LinkMended, PowerOn
<1>5. CASE SomethingGoesWrong
  <2>1. CASE Restarts
    BY <2>1, StopIsStop DEF Restarts, StartsAfresh, ServiceStep, Service!Next
  <2>2. CASE Killed
    <3>1. Service!Stop
      BY <2>2 DEF Killed, StartsAfresh, UserWants, liftVars, Service!Stop, Service!ToldToRest
    <3> QED BY <3>1 DEF ServiceStep, Service!Next
  <2> QED BY <1>3, <1>5, <2>1, <2>2 DEF SomethingGoesWrong, AlarmComes, Blocked, LinkBreaks, PowerOff
<1> QED BY <1>2, <1>4, <1>5

LEMMA NextRefines == UserInv /\ [Next]_vars => ServiceStep
<1> SUFFICES ASSUME UserInv, [Next]_vars PROVE ServiceStep
  OBVIOUS
<1>1. CASE UNCHANGED vars
  BY <1>1 DEF vars, hostVars, liftVars, alarmVars, userVars, ServiceStep, ServiceVars
<1> QED BY <1>1, TopicsRefine, UpdateAlarmRefines, PollRefines, OthersRefine DEF Next, PollStep, ServiceStep

\* The node implements LiftService, whatever goes wrong: the drive is given a job only as
\* the user's last command wants it, and by itself the node withdraws jobs, descends in a
\* homing, and takes up a move at most MaxResumes times.
THEOREM ServiceImplemented == Spec => ImplementsService
<1>1. Init => Service!Init
  BY InitService
<1>2. UserInv /\ [Next]_vars => [Service!Next]_(Service!vars)
  BY NextRefines DEF ServiceStep, ServiceVars, Service!vars
<1> QED BY <1>1, <1>2, AlwaysUserInv, PTL DEF Spec, ImplementsService, Service!Spec

\* As long as an alarm is on, nothing but a speed the user commands gives the drive anything
\* to do, lost frames notwithstanding: no poll, reset, homing or position command
\* (lift_driver_node.cpp:282, 296, 322, 367-369).
NothingNewInAlarm ==
    [][alarmActive /\ alarmActive' => job' \in {job, Rest} \/ intent' = "move"]_ServiceVars

THEOREM QuietInAlarm == Spec => NothingNewInAlarm
<1>1. ASSUME ServiceStep PROVE alarmActive /\ alarmActive' => job' \in {job, Rest} \/ intent' = "move"
  BY <1>1 DEF ServiceStep, ServiceVars, Service!Next, Service!Speed, Service!Goto, Service!Home, Service!Stop,
              Service!Confirm, Service!Withdraw, Service!AlarmSeen, Service!AlarmGone, Service!Resume,
              Service!Descend, Service!ToldToRest, Service!Rest, Rest, VelocityJob
<1>2. UserInv /\ [Next]_vars => [alarmActive /\ alarmActive' => job' \in {job, Rest} \/ intent' = "move"]_ServiceVars
  BY <1>1, NextRefines
<1> QED BY <1>2, AlwaysUserInv, PTL DEF Spec, NothingNewInAlarm
=============================================================================
