------------------------ MODULE MotorDriverNodeProofs ------------------------
(***************************************************************************)
(* Theorems about MotorDriverNode, for every set of nodes and commands and  *)
(* every budget of mishaps.                                                *)
(***************************************************************************)
EXTENDS MotorDriverNode, TLAPS

\* Updating a function inside its range keeps its type.
LEMMA ExceptType ==
    ASSUME NEW S, NEW T, NEW f \in [S -> T], NEW x, NEW v \in T
    PROVE  [f EXCEPT ![x] = v] \in [S -> T]
OBVIOUS

\* The drive's reaction to a controlword is a state of the drive.
LEMMA RespondType ==
    ASSUME NEW s \in DriveState, NEW cw \in Controlword, NEW traction \in BOOLEAN
    PROVE  Respond(s, cw, traction) \in DriveState
BY DEF DriveState, Controlword, Respond

\* A reported statusword has only known bits.
LEMMA StatuswordType ==
    ASSUME NEW s \in DriveState
    PROVE  Statusword(s) \in SUBSET StatusBit
BY DEF DriveState, Statusword, StatusBit

-----------------------------------------------------------------------------
(* Type correctness. *)

\* A controlword, or none, leaves the drives in states of a drive.
LEMMA ChangeMotorStateType ==
    ASSUME TypeOK, NEW n \in Nodes, NEW cw \in Controlword, ChangeMotorState(n, cw)
    PROVE  drv' \in [Nodes -> DriveState]
<1>1. Respond(drv[n], cw, ~sto) \in DriveState
  BY RespondType DEF TypeOK, ControllerTypeOK
<1>2. QED
  BY <1>1 DEF ChangeMotorState, TypeOK, ControllerTypeOK

\* Every step of configure_node, of the enable tasks and of the CAN thread keeps
\* the types of the controller's variables.
LEMMA ConfigureType ==
    ASSUME TypeOK, NEW n \in Nodes,
           \/ ConfigureBegin(n) \/ ConfigureReset(n) \/ ConfigureMap(n) \/ ConfigureStart(n)
    PROVE  ControllerTypeOK'
<1> USE DEF TypeOK, ControllerTypeOK, hostVars, driveVars, CfgStep, ConfigureStep,
            FaultResetStep, Setup, Velocity, Age
<1>1. CASE ConfigureBegin(n) BY <1>1 DEF ConfigureBegin
<1>2. CASE ConfigureReset(n) BY <1>2 DEF ConfigureReset, Hears
<1>3. CASE ConfigureMap(n)
  <2>1. comm' \in [Nodes -> SUBSET {"rpdo", "tpdo1", "tpdo2", "operational"}]
    BY <1>3 DEF ConfigureMap
  <2>2. cfg' \in [Nodes -> CfgStep]
    BY <1>3 DEF ConfigureMap
  <2>3. QED BY <1>3, <2>1, <2>2 DEF ConfigureMap
<1>4. CASE ConfigureStart(n) BY <1>4 DEF ConfigureStart
<1>5. QED BY <1>1, <1>2, <1>3, <1>4

LEMMA EnableTaskType ==
    ASSUME TypeOK, NEW n \in Nodes,
           TaskBegin(n) \/ TaskClear(n) \/ TaskSend(n) \/ TaskWait(n)
    PROVE  ControllerTypeOK'
<1> USE DEF TypeOK, ControllerTypeOK, hostVars, driveVars, TaskStep, SetTask
<1>1. CASE TaskBegin(n) BY <1>1 DEF TaskBegin
<1>2. CASE TaskClear(n)
  <2>1. drv' \in [Nodes -> DriveState]
    BY <1>2, ChangeMotorStateType DEF TaskClear, Controlword
  <2>2. QED BY <1>2, <2>1 DEF TaskClear
<1>3. CASE TaskSend(n)
  <2>1. drv' \in [Nodes -> DriveState]
    BY <1>3, ChangeMotorStateType DEF TaskSend, Controlword
  <2>2. task' \in [Nodes -> TaskStep]
    <3>1. CASE task[n] = "shutdown"        BY <1>3, <3>1 DEF TaskSend
    <3>2. CASE task[n] = "switchOn"        BY <1>3, <3>2 DEF TaskSend
    <3>3. CASE task[n] = "enableOperation" BY <1>3, <3>3 DEF TaskSend
    <3>4. QED BY <1>3, <3>1, <3>2, <3>3 DEF TaskSend
  <2>3. QED BY <1>3, <2>1, <2>2 DEF TaskSend
<1>4. CASE TaskWait(n)
  <2>1. PICK step \in {"switchOn", "enableOperation", "ok", "failed"} :
          task' = [task EXCEPT ![n] = step]
    BY <1>4 DEF TaskWait
  <2>2. QED BY <1>4, <2>1 DEF TaskWait
<1>5. QED BY <1>1, <1>2, <1>3, <1>4

LEMMA CanCallbackType ==
    ASSUME TypeOK, NEW n \in Nodes,
           CanBootup(n) \/ CanTpdo1(n) \/ CanTpdo2(n) \/ CanTpdo3(n)
    PROVE  ControllerTypeOK'
<1> USE DEF TypeOK, ControllerTypeOK, hostVars, driveVars, Age
<1>1. CASE CanBootup(n) BY <1>1 DEF CanBootup, RequestReinit
<1>2. CASE CanTpdo1(n) BY <1>2, StatuswordType DEF CanTpdo1
<1>3. CASE CanTpdo2(n) BY <1>3 DEF CanTpdo2
<1>4. CASE CanTpdo3(n) BY <1>4 DEF CanTpdo3
<1>5. QED BY <1>1, <1>2, <1>3, <1>4

\* So do the hardware's own steps and the passing of time.
LEMMA HardwareType ==
    ASSUME TypeOK,
           \/ EstopPressed \/ EstopReleased \/ BusLost \/ BusBack
           \/ \E n \in Nodes : \/ DriveFaults(n) \/ PowerLost(n) \/ PowerBack(n)
                               \/ FeedbackAges(n) \/ SuppressEnds(n) \/ SyncLoop(n)
    PROVE  ControllerTypeOK'
<1> USE DEF TypeOK, ControllerTypeOK, hostVars, driveVars, DriveState, Age, Velocity, BusState
<1>1. CASE EstopPressed BY <1>1 DEF EstopPressed
<1>2. CASE EstopReleased BY <1>2 DEF EstopReleased
<1>3. CASE BusLost BY <1>3 DEF BusLost
<1>4. CASE BusBack BY <1>4 DEF BusBack
<1>5. ASSUME NEW n \in Nodes, DriveFaults(n) PROVE ControllerTypeOK' BY <1>5 DEF DriveFaults
<1>6. ASSUME NEW n \in Nodes, PowerLost(n) PROVE ControllerTypeOK' BY <1>6 DEF PowerLost
<1>7. ASSUME NEW n \in Nodes, PowerBack(n) PROVE ControllerTypeOK' BY <1>7 DEF PowerBack
<1>8. ASSUME NEW n \in Nodes, FeedbackAges(n) PROVE ControllerTypeOK' BY <1>8 DEF FeedbackAges
<1>9. ASSUME NEW n \in Nodes, SuppressEnds(n) PROVE ControllerTypeOK' BY <1>9 DEF SuppressEnds
<1>10. ASSUME NEW n \in Nodes, SyncLoop(n) PROVE ControllerTypeOK' BY <1>10 DEF SyncLoop
<1>11. QED BY <1>1, <1>2, <1>3, <1>4, <1>5, <1>6, <1>7, <1>8, <1>9, <1>10

\* Type correctness is inductive: one step per action of Next.
LEMMA TypeStep == TypeOK /\ [Next]_vars => TypeOK'
<1> SUFFICES ASSUME TypeOK, [Next]_vars PROVE TypeOK'
  OBVIOUS
<1> USE DEF TypeOK, CallbackState, LoopState, ThreadPc, Thread, Velocity
<1>1. ASSUME NEW v \in Commands, CmdArrives(v) PROVE TypeOK'
  BY <1>1 DEF CmdArrives, controllerVars, hostVars, driveVars, ControllerTypeOK
<1>2. CASE CmdStamp
  BY <1>2 DEF CmdStamp, controllerVars, hostVars, driveVars, ControllerTypeOK
<1>3. CASE CmdCheck
  BY <1>3 DEF CmdCheck, IdleCb, controllerVars, hostVars, driveVars, ControllerTypeOK
<1>4. ASSUME NEW n \in Nodes, CmdApply(n) PROVE TypeOK'
  BY <1>4 DEF CmdApply, IdleCb, SetTargetVelocity, driveVars, ControllerTypeOK
<1>5. CASE LoopStart
  BY <1>5 DEF LoopStart, controllerVars, hostVars, driveVars, ControllerTypeOK
<1>6. ASSUME NEW n \in Nodes, LoopZero(n) PROVE TypeOK'
  BY <1>6 DEF LoopZero, SetTargetVelocity, driveVars, ControllerTypeOK
<1>7. CASE LoopFeedback
  BY <1>7 DEF LoopFeedback, RequestReinit, driveVars, ControllerTypeOK
<1>8. CASE LoopDecide
  BY <1>8 DEF LoopDecide, IdleLoop, controllerVars, hostVars, driveVars, ControllerTypeOK
<1>9. CASE LoopLaunch
  <2>1. ControllerTypeOK' /\ loop' \in LoopState
    BY <1>9 DEF LoopLaunch, IdleLoop, controllerVars, hostVars, driveVars, ControllerTypeOK
  <2>2. pc' \in [Thread -> ThreadPc] /\ ok' \in [Thread -> BOOLEAN]
    BY <1>9, ExceptType DEF LoopLaunch
  <2>3. transition' \in BOOLEAN /\ resetDue' \in BOOLEAN /\ todo' \in SUBSET Nodes
    BY <1>9 DEF LoopLaunch
  <2>4. QED BY <1>9, <2>1, <2>2, <2>3 DEF LoopLaunch
<1>10. ASSUME NEW n \in Nodes, ResetReinit(n) PROVE TypeOK'
  <2>1. ControllerTypeOK'
    BY <1>10, ConfigureType
       DEF ResetReinit, controllerVars, hostVars, driveVars, ControllerTypeOK
  <2>2. QED BY <1>10, <2>1 DEF ResetReinit
<1>11. ASSUME NEW n \in Nodes, ResetConfigure(n) PROVE TypeOK'
  BY <1>11, ConfigureType DEF ResetConfigure, Beside, nodeVars
<1>12. ASSUME NEW n \in Nodes, ResetClear(n) PROVE TypeOK'
  <2>1. cfg' \in [Nodes -> CfgStep]
    BY <1>12 DEF ResetClear, CfgStep, FaultResetStep, ControllerTypeOK
  <2>2. QED BY <1>12, <2>1 DEF ResetClear, hostVars, driveVars, ControllerTypeOK
<1>13. ASSUME NEW n \in Nodes, ResetConfirm(n) PROVE TypeOK'
  <2>1. ok' \in [Thread -> BOOLEAN]
    BY <1>13, ExceptType DEF ResetConfirm
  <2>2. QED
    BY <1>13, <2>1 DEF ResetConfirm, controllerVars, hostVars, driveVars, ControllerTypeOK
<1>14. CASE ResetAdvance
  <2>1. task' \in [Nodes -> TaskStep]
    BY <1>14 DEF ResetAdvance, ControllerTypeOK, TaskStep
  <2>2. pc' \in [Thread -> ThreadPc]
    <3>1. CASE pc["reset"] = "reinit"  BY <1>14, <3>1 DEF ResetAdvance
    <3>2. CASE pc["reset"] = "clear"   BY <1>14, <3>2 DEF ResetAdvance
    <3>3. CASE pc["reset"] = "confirm" BY <1>14, <3>3 DEF ResetAdvance
    <3>4. QED BY <1>14, <3>1, <3>2, <3>3 DEF ResetAdvance
  <2>3. ControllerTypeOK'
    BY <1>14, <2>1 DEF ResetAdvance, hostVars, driveVars, ControllerTypeOK
  <2>4. todo' \in SUBSET Nodes
    BY <1>14 DEF ResetAdvance
  <2>5. QED BY <1>14, <2>2, <2>3, <2>4 DEF ResetAdvance
<1>15. ASSUME NEW n \in Nodes, EnableTask(n) PROVE TypeOK'
  BY <1>15, EnableTaskType DEF EnableTask, Beside, nodeVars
<1>16. ASSUME NEW t \in Thread, Join(t) PROVE TypeOK'
  <2>1. task' \in [Nodes -> TaskStep]
    BY <1>16 DEF Join, TaskStep
  <2>2. pc' \in [Thread -> ThreadPc] /\ todo' \in SUBSET Nodes
    BY <1>16 DEF Join
  <2>3. ok' \in [Thread -> BOOLEAN]
    <3>1. CASE t = "enable" BY <1>16, <3>1, ExceptType DEF Join
    <3>2. CASE t # "enable" BY <1>16, <3>2 DEF Join
    <3>3. QED BY <3>1, <3>2
  <2>4. ControllerTypeOK'
    BY <1>16, <2>1 DEF Join, hostVars, driveVars, ControllerTypeOK
  <2>5. QED BY <1>16, <2>2, <2>3, <2>4 DEF Join
<1>17. ASSUME NEW t \in Thread, Store(t) PROVE TypeOK'
  BY <1>17 DEF Store, controllerVars, hostVars, driveVars, ControllerTypeOK
<1>18. ASSUME NEW t \in Thread, Release(t) PROVE TypeOK'
  <2>1. pc' \in [Thread -> ThreadPc] /\ ok' \in [Thread -> BOOLEAN]
    BY <1>18, ExceptType DEF Release
  <2>2. ControllerTypeOK'
    BY <1>18 DEF Release, controllerVars, hostVars, driveVars, ControllerTypeOK
  <2>3. QED BY <1>18, <2>1, <2>2 DEF Release
<1>19. CASE Sync
  BY <1>19, HardwareType DEF Sync, Beside, nodeVars
<1>20. ASSUME NEW n \in Nodes, CanCallback(n) PROVE TypeOK'
  BY <1>20, CanCallbackType DEF CanCallback, Beside, nodeVars
<1>21. ASSUME NEW n \in Nodes, Deadline(n) PROVE TypeOK'
  BY <1>21, HardwareType DEF Deadline, Beside, nodeVars
<1>22. CASE CommandAges \/ ResetBecomesDue
  BY <1>22 DEF CommandAges, ResetBecomesDue, controllerVars, hostVars, driveVars,
               ControllerTypeOK
<1>23. CASE Disturb
  <2>1. ControllerTypeOK'
    BY <1>23, HardwareType DEF Disturb
  <2>2. disturbances' \in 0..MaxDisturbances
    BY <1>23, DisturbanceAssumption DEF Disturb, Mishap
  <2>3. UNCHANGED nodeVars
    BY <1>23 DEF Disturb, Mishap
  <2>4. QED BY <2>1, <2>2, <2>3 DEF nodeVars
<1>24. CASE Repair
  BY <1>24, HardwareType DEF Repair, Beside, nodeVars
<1>25. CASE UNCHANGED vars
  BY <1>25 DEF vars, nodeVars, controllerVars, hostVars, driveVars, ControllerTypeOK
<1>26. ASSUME NEW n \in Nodes, ResetFault(n) PROVE TypeOK'
  <2>1. drv' \in [Nodes -> DriveState]
    BY <1>26, ChangeMotorStateType DEF ResetFault, Controlword, ControllerTypeOK
  <2>2. cfg' \in [Nodes -> CfgStep]
    BY <1>26 DEF ResetFault, CfgStep, FaultResetStep, ControllerTypeOK
  <2>3. QED BY <1>26, <2>1, <2>2 DEF ResetFault, Beside, nodeVars, hostVars, ControllerTypeOK
<1>27. QED
  BY <1>1, <1>2, <1>3, <1>4, <1>5, <1>6, <1>7, <1>8, <1>9, <1>10, <1>11, <1>12, <1>13,
     <1>14, <1>15, <1>16, <1>17, <1>18, <1>19, <1>20, <1>21, <1>22, <1>23, <1>24, <1>25,
     <1>26 DEF Next, CmdCallback, ControlLoop, Worker

LEMMA TypeInit == Init => TypeOK
<1> SUFFICES ASSUME Init PROVE TypeOK
  OBVIOUS
<1>1. ControllerTypeOK
  BY DEF Init, ControllerInit, ControllerTypeOK, Velocity, Age, CfgStep, TaskStep, DriveState,
         Setup, BusState
<1>2. cb \in CallbackState /\ loop \in LoopState
  BY DEF Init, CallbackState, LoopState, IdleCb, IdleLoop, Velocity
<1>3. pc \in [Thread -> ThreadPc] /\ ok \in [Thread -> BOOLEAN]
  BY DEF Init, ThreadPc
<1>4. disturbances \in 0..MaxDisturbances
  BY DEF Init
<1>5. QED BY <1>1, <1>2, <1>3, <1>4 DEF Init, TypeOK

\* Every variable keeps its type in every behaviour.
THEOREM TypeCorrect == Spec => []TypeOK
<1>1. QED BY TypeInit, TypeStep, PTL DEF Spec
-----------------------------------------------------------------------------
(* One thread at a time. *)

\* Only these actions start, advance or end a thread.
LEMMA ThreadSteps ==
    ASSUME [Next]_vars
    PROVE  \/ UNCHANGED <<pc, transition>>
           \/ LoopLaunch \/ ResetAdvance \/ \E t \in Thread : Join(t) \/ Store(t) \/ Release(t)
<1>1. ASSUME NEW v \in Commands, CmdArrives(v) PROVE UNCHANGED <<pc, transition>>
  BY <1>1 DEF CmdArrives
<1>2. CASE CmdCallback
  BY <1>2 DEF CmdCallback, CmdStamp, CmdCheck, CmdApply
<1>3. CASE ControlLoop
  BY <1>3 DEF ControlLoop, LoopStart, LoopZero, LoopFeedback, LoopDecide
<1>4. ASSUME NEW n \in Nodes,
             \/ ResetReinit(n) \/ ResetConfigure(n) \/ ResetClear(n)
             \/ ResetFault(n) \/ ResetConfirm(n) \/ EnableTask(n)
      PROVE  UNCHANGED <<pc, transition>>
  BY <1>4 DEF ResetReinit, ResetConfigure, ResetClear, ResetFault, ResetConfirm, EnableTask,
              Beside, nodeVars
<1>5. CASE Sync BY <1>5 DEF Sync, Beside, nodeVars
<1>6. ASSUME NEW n \in Nodes, CanCallback(n) \/ Deadline(n) PROVE UNCHANGED <<pc, transition>>
  BY <1>6 DEF CanCallback, Deadline, Beside, nodeVars
<1>7. CASE CommandAges \/ ResetBecomesDue BY <1>7 DEF CommandAges, ResetBecomesDue
<1>8. CASE Disturb BY <1>8 DEF Disturb, Mishap, nodeVars
<1>9. CASE Repair BY <1>9 DEF Repair, Beside, nodeVars
<1>10. CASE UNCHANGED vars BY <1>10 DEF vars, nodeVars
<1>11. QED
  BY <1>1, <1>2, <1>3, <1>4, <1>5, <1>6, <1>7, <1>8, <1>9, <1>10 DEF Next, Worker

LEMMA OneTransitionStep == TypeOK /\ OneTransition /\ [Next]_vars => OneTransition'
<1> SUFFICES ASSUME TypeOK, OneTransition, [Next]_vars PROVE OneTransition'
  OBVIOUS
<1> USE DEF OneTransition, Thread, TypeOK
<1>1. CASE UNCHANGED <<pc, transition>> BY <1>1
<1>2. CASE LoopLaunch BY <1>2 DEF LoopLaunch
<1>3. CASE ResetAdvance
  <2>1. pc["reset"] # "none" /\ pc'["enable"] = pc["enable"]
    BY <1>3 DEF ResetAdvance
  <2>2. pc'["reset"] # "none"
    <3>1. CASE pc["reset"] = "reinit"  BY <1>3, <3>1 DEF ResetAdvance
    <3>2. CASE pc["reset"] = "clear"   BY <1>3, <3>2 DEF ResetAdvance
    <3>3. CASE pc["reset"] = "confirm" BY <1>3, <3>3 DEF ResetAdvance
    <3>4. QED BY <1>3, <3>1, <3>2, <3>3 DEF ResetAdvance
  <2>3. transition' = transition
    BY <1>3 DEF ResetAdvance
  <2>4. QED BY <2>1, <2>2, <2>3
<1>4. ASSUME NEW t \in Thread, Join(t) PROVE OneTransition' BY <1>4 DEF Join
<1>5. ASSUME NEW t \in Thread, Store(t) PROVE OneTransition' BY <1>5 DEF Store
<1>6. ASSUME NEW t \in Thread, Release(t) PROVE OneTransition' BY <1>6 DEF Release
<1>7. QED BY <1>1, <1>2, <1>3, <1>4, <1>5, <1>6, ThreadSteps

\* Never two threads at work on the motors, and the flag says when one is.
THEOREM AtMostOneTransition == Spec => []OneTransition
<1>1. Init => OneTransition
  BY DEF Init, OneTransition, Thread
<1>2. QED BY <1>1, OneTransitionStep, TypeCorrect, PTL DEF Spec
-----------------------------------------------------------------------------
(* configure_node is not booked again by what it causes. *)

\* Outside configure_node, these three variables only change as follows.
LEMMA ShieldSteps ==
    ASSUME TypeOK, [Next]_vars, NEW m \in Nodes
    PROVE  \/ ConfigureBegin(m)
           \/ /\ cfg'[m] \in ConfigureStep => cfg[m] \in ConfigureStep
              /\ cfg[m] \in ConfigureStep /\ suppress[m] => suppress'[m]
              /\ suppress[m] /\ ~needsReinit[m] => ~needsReinit'[m]
<1> DEFINE Keeps == UNCHANGED <<cfg, suppress, needsReinit>>
<1> USE DEF TypeOK, ControllerTypeOK
<1>1. ASSUME NEW v \in Commands, CmdArrives(v) PROVE Keeps
  BY <1>1 DEF CmdArrives, controllerVars, hostVars
<1>2. CASE CmdCallback
  <2>1. Keeps BY <1>2 DEF CmdCallback, CmdStamp, CmdCheck, CmdApply, controllerVars, hostVars
  <2>2. QED BY <2>1
<1>3. CASE LoopFeedback BY <1>3 DEF LoopFeedback, RequestReinit
<1>4. CASE LoopStart \/ (\E n \in Nodes : LoopZero(n)) \/ LoopDecide \/ LoopLaunch
  <2>1. Keeps
    BY <1>4 DEF LoopStart, LoopZero, LoopDecide, LoopLaunch, controllerVars, hostVars
  <2>2. QED BY <2>1
<1>5. ASSUME NEW n \in Nodes, ConfigureBegin(n), n # m
      PROVE  cfg'[m] = cfg[m] /\ suppress'[m] = suppress[m] /\ needsReinit'[m] = needsReinit[m]
  BY <1>5 DEF ConfigureBegin
<1>6. ASSUME NEW n \in Nodes, ResetReinit(n), ~ConfigureBegin(n) PROVE Keeps
  BY <1>6 DEF ResetReinit, controllerVars, hostVars
<1>7. ASSUME NEW n \in Nodes, ConfigureReset(n) \/ ConfigureMap(n) \/ ConfigureStart(n)
      PROVE  /\ cfg'[m] \in ConfigureStep => cfg[m] \in ConfigureStep
             /\ UNCHANGED <<suppress, needsReinit>>
  <2>1. UNCHANGED <<suppress, needsReinit>>
    BY <1>7 DEF ConfigureReset, ConfigureMap, ConfigureStart, hostVars
  <2>2. cfg'[m] # cfg[m] => n = m /\ cfg[m] \in ConfigureStep
    BY <1>7 DEF ConfigureReset, ConfigureMap, ConfigureStart, ConfigureStep
  <2>3. QED BY <2>1, <2>2
<1>8. CASE \E n \in Nodes : ResetConfirm(n) \/ EnableTask(n)
  <2>1. Keeps
    BY <1>8 DEF ResetConfirm, EnableTask, TaskBegin, TaskClear, TaskSend, TaskWait,
                controllerVars, hostVars
  <2>2. QED BY <2>1
<1>9. CASE ResetAdvance \/ \E t \in Thread : Join(t) \/ Store(t) \/ Release(t)
  <2>1. Keeps BY <1>9 DEF ResetAdvance, Join, Store, Release, controllerVars, hostVars
  <2>2. QED BY <2>1
<1>10. CASE Sync \/ CommandAges \/ ResetBecomesDue
  <2>1. Keeps
    BY <1>10 DEF Sync, SyncLoop, CommandAges, ResetBecomesDue, controllerVars, hostVars
  <2>2. QED BY <2>1
<1>11. ASSUME NEW n \in Nodes, CanBootup(n)
       PROVE  UNCHANGED <<cfg, suppress>> /\ (suppress[m] /\ ~needsReinit[m] => ~needsReinit'[m])
  BY <1>11 DEF CanBootup, RequestReinit
<1>12. ASSUME NEW n \in Nodes, CanTpdo1(n) \/ CanTpdo2(n) \/ CanTpdo3(n) \/ FeedbackAges(n)
       PROVE  Keeps
  BY <1>12 DEF CanTpdo1, CanTpdo2, CanTpdo3, FeedbackAges
<1>13. ASSUME NEW n \in Nodes, SuppressEnds(n)
       PROVE  /\ UNCHANGED <<cfg, needsReinit>>
              /\ cfg[m] \in ConfigureStep => suppress'[m] = suppress[m]
  BY <1>13 DEF SuppressEnds
<1>14. CASE Disturb \/ Repair
  <2>1. Keeps
    BY <1>14 DEF Disturb, Repair, EstopPressed, EstopReleased, BusLost, BusBack, DriveFaults,
                 PowerLost, PowerBack, hostVars
  <2>2. QED BY <2>1
<1>15. CASE UNCHANGED vars
  BY <1>15 DEF vars, controllerVars, hostVars
<1>16. ASSUME NEW n \in Nodes, ResetClear(n) \/ ResetFault(n)
       PROVE  /\ cfg'[m] \in ConfigureStep => cfg[m] \in ConfigureStep
              /\ UNCHANGED <<suppress, needsReinit>>
  BY <1>16 DEF ResetClear, ResetFault, ConfigureStep, hostVars
<1>17. QED
  BY <1>1, <1>2, <1>3, <1>4, <1>5, <1>6, <1>7, <1>8, <1>9, <1>10, <1>11, <1>12, <1>13, <1>14,
     <1>15, <1>16 DEF Next, ControlLoop, Worker, ResetConfigure, CanCallback, Deadline

\* The boot-up frame and the feedback gap that configure_node causes never book
\* another round of it.
THEOREM ReinitShielded == Spec => []ConfigureShielded
<1>1. Init => ConfigureShielded
  BY DEF Init, ControllerInit, ConfigureShielded, ConfigureStep
<1>2. TypeOK /\ ConfigureShielded /\ [Next]_vars => ConfigureShielded'
  <2> SUFFICES ASSUME TypeOK, ConfigureShielded, [Next]_vars, NEW m \in Nodes,
                      cfg'[m] \in ConfigureStep
               PROVE  suppress'[m] /\ ~needsReinit'[m]
    BY DEF ConfigureShielded
  <2>1. CASE ConfigureBegin(m)
    BY <2>1 DEF ConfigureBegin, TypeOK, ControllerTypeOK
  <2>2. QED BY <2>1, ShieldSteps DEF ConfigureShielded
<1>3. QED BY <1>1, <1>2, TypeCorrect, PTL DEF Spec
-----------------------------------------------------------------------------
(* The first enable finds the drives at rest. *)

AtRest == \A n \in Nodes : target[n] = 0 /\ (bus # "closed" => vel[n] = 0)

\* FirstEnableAtRest is not inductive: what keeps cmdCallback from applying a
\* command is that the gate is shut while the first enable runs.
FirstEnableInv ==
    pc["enable"] \in {"enabling", "store"} =>
        /\ ~motorsEnabled
        /\ cb.pc # "apply"
        /\ AtRest

\* Only cmdCallback and Store touch the gate or the callback; a target or a
\* setpoint is otherwise kept, zeroed, or copied from the target.
LEMMA RestSteps ==
    ASSUME TypeOK, [Next]_vars, ~CmdCallback, ~(\E v \in Commands : CmdArrives(v)),
           ~(\E t \in Thread : Store(t)), AtRest
    PROVE  /\ motorsEnabled' = motorsEnabled /\ cb' = cb
           /\ AtRest'
<1> DEFINE Gate == UNCHANGED <<motorsEnabled, cb>>
<1> USE DEF TypeOK, ControllerTypeOK, AtRest
<1>1. CASE ControlLoop
  <2>1. Gate
    BY <1>1 DEF ControlLoop, LoopStart, LoopZero, LoopFeedback, LoopDecide, LoopLaunch
  <2>2. AtRest'
    BY <1>1 DEF ControlLoop, LoopStart, LoopZero, LoopFeedback, LoopDecide, LoopLaunch,
                SetTargetVelocity, controllerVars, hostVars, driveVars
  <2>3. QED BY <2>1, <2>2
<1>2. ASSUME NEW n \in Nodes, ResetReinit(n) PROVE Gate /\ AtRest'
  BY <1>2 DEF ResetReinit, ConfigureBegin, controllerVars, hostVars, driveVars
<1>3. ASSUME NEW n \in Nodes, ResetConfigure(n) \/ EnableTask(n) PROVE Gate /\ AtRest'
  <2>1. Gate BY <1>3 DEF ResetConfigure, EnableTask, Beside, nodeVars
  <2>2. UNCHANGED <<target, vel, bus>>
    BY <1>3 DEF ResetConfigure, ConfigureReset, ConfigureMap, ConfigureStart, EnableTask,
                TaskBegin, TaskClear, TaskSend, TaskWait, hostVars, driveVars
  <2>3. QED BY <2>1, <2>2
<1>4. CASE \/ ResetAdvance \/ \E n \in Nodes : ResetClear(n) \/ ResetFault(n) \/ ResetConfirm(n)
           \/ \E t \in Thread : Join(t) \/ Release(t)
  <2>1. Gate /\ UNCHANGED <<target, vel, bus>>
    BY <1>4 DEF ResetAdvance, ResetClear, ResetFault, ResetConfirm, Join, Release, Beside,
                nodeVars, controllerVars, hostVars, driveVars
  <2>2. QED BY <2>1
<1>5. ASSUME NEW n \in Nodes, SyncLoop(n) /\ Beside PROVE Gate /\ AtRest'
  BY <1>5 DEF SyncLoop, Beside, nodeVars, hostVars
<1>6. CASE CommandAges \/ ResetBecomesDue \/ \E n \in Nodes : CanCallback(n) \/ Deadline(n)
  <2>1. Gate /\ UNCHANGED <<target, vel, bus>>
    BY <1>6 DEF CommandAges, ResetBecomesDue, CanCallback, CanBootup, CanTpdo1, CanTpdo2,
                CanTpdo3, Deadline, FeedbackAges, SuppressEnds, Beside, nodeVars,
                controllerVars, hostVars, driveVars
  <2>2. QED BY <2>1
<1>7. CASE Disturb \/ Repair
  <2>1. Gate BY <1>7 DEF Disturb, Repair, Mishap, Beside, nodeVars
  <2>2. AtRest'
    BY <1>7 DEF Disturb, Repair, EstopPressed, EstopReleased, BusLost, BusBack, DriveFaults,
                PowerLost, PowerBack, hostVars
  <2>3. QED BY <2>1, <2>2
<1>8. CASE UNCHANGED vars
  BY <1>8 DEF vars, nodeVars, controllerVars, hostVars, driveVars
<1>9. QED
  BY <1>1, <1>2, <1>3, <1>4, <1>5, <1>6, <1>7, <1>8 DEF Next, Worker, Sync

\* No step brings the first enable back once it is over.
LEMMA FirstEnableOnce ==
    ASSUME TypeOK, [Next]_vars, pc'["enable"] \in {"enabling", "store"}
    PROVE  pc["enable"] \in {"enabling", "store"}
<1> USE DEF TypeOK, Thread
<1>1. CASE UNCHANGED <<pc, transition>> BY <1>1
<1>2. CASE LoopLaunch BY <1>2 DEF LoopLaunch
<1>3. CASE ResetAdvance BY <1>3 DEF ResetAdvance
<1>4. ASSUME NEW t \in Thread, Join(t) PROVE pc["enable"] \in {"enabling", "store"}
  BY <1>4 DEF Join
<1>5. ASSUME NEW t \in Thread, Store(t) PROVE pc["enable"] \in {"enabling", "store"}
  BY <1>5 DEF Store
<1>6. ASSUME NEW t \in Thread, Release(t) PROVE pc["enable"] \in {"enabling", "store"}
  BY <1>6 DEF Release
<1>7. QED BY <1>1, <1>2, <1>3, <1>4, <1>5, <1>6, ThreadSteps

LEMMA FirstEnableStep ==
    TypeOK /\ OneTransition /\ FirstEnableInv /\ [Next]_vars => FirstEnableInv'
<1> SUFFICES ASSUME TypeOK, OneTransition, FirstEnableInv, [Next]_vars,
                    pc'["enable"] \in {"enabling", "store"}
             PROVE  /\ ~motorsEnabled'
                    /\ cb'.pc # "apply"
                    /\ AtRest'
  BY DEF FirstEnableInv
<1>1. /\ pc["enable"] \in {"enabling", "store"}
      /\ ~motorsEnabled /\ cb.pc # "apply"
      /\ AtRest
  BY FirstEnableOnce DEF FirstEnableInv
<1>2. ASSUME NEW v \in Commands, CmdArrives(v) PROVE FirstEnableInv'
  BY <1>1, <1>2 DEF CmdArrives, FirstEnableInv, AtRest, controllerVars, hostVars, driveVars
<1>3. CASE CmdCallback
  BY <1>1, <1>3 DEF CmdCallback, CmdStamp, CmdCheck, CmdApply, IdleCb, FirstEnableInv, AtRest,
                    TypeOK, CallbackState, controllerVars, hostVars, driveVars
<1>4. ASSUME NEW t \in Thread, Store(t) PROVE FALSE
  <2>1. t = "enable"
    BY <1>1, <1>4 DEF OneTransition, Store, Thread
  <2>2. pc'["enable"] = "release"
    BY <1>4, <2>1 DEF Store, TypeOK, Thread
  <2>3. QED BY <2>2
<1>5. CASE /\ ~CmdCallback /\ ~(\E v \in Commands : CmdArrives(v))
           /\ ~(\E t \in Thread : Store(t))
  BY <1>1, <1>5, RestSteps
<1>6. QED BY <1>1, <1>2, <1>3, <1>4, <1>5 DEF FirstEnableInv

\* Whatever commands come in while the first enable is under way, the drives come
\* into operation with a zero setpoint.
THEOREM FirstEnableStandsStill == Spec => []FirstEnableAtRest
<1>1. Init => FirstEnableInv
  BY DEF Init, ControllerInit, FirstEnableInv, AtRest, IdleCb
<1>2. FirstEnableInv => FirstEnableAtRest
  BY DEF FirstEnableInv, FirstEnableAtRest, AtRest
<1>3. QED BY <1>1, <1>2, FirstEnableStep, AtMostOneTransition, TypeCorrect, PTL DEF Spec
-----------------------------------------------------------------------------
(* Recovery leaves working drives alone, as long as the bus holds. *)

\* The bus does not fail.  (It may still never have been opened.)
BusHolds == "bus" \notin Mishaps

\* The phase a thread is in says what it may be doing at a node.
PhaseInv ==
    \A n \in Nodes :
        /\ cfg[n] \in ConfigureStep => pc["reset"] = "reinit"
        /\ cfg[n] \in FaultResetStep => pc["reset"] = "clear"
        /\ task[n] # "none" => pc["enable"] = "enabling" \/ pc["reset"] = "enabling"

\* A drive that takes setpoints has power and everything mapped that has had its
\* turn, since configure_node begins with them; its feedback flows, and nothing
\* books it for another configuration.
Mapped(n) == "rpdo" \in comm[n]
MappedOK(n) ==
    Mapped(n) =>
        /\ power[n] /\ ~needsReinit[n] /\ (boot[n] => suppress[n])
        /\ cfg[n] \notin {"nmtReset", "rpdo"}
        /\ cfg[n] \in {"tpdo2", "start"} => "tpdo1" \in comm[n]
        /\ cfg[n] = "start" => "tpdo2" \in comm[n]
        /\ cfg[n] \notin ConfigureStep => Setup \subseteq comm[n] /\ age[n] = "fresh"

\* A drive in operation is one the host sees in operation, but for the last wait
\* of enable_motor and the time before the first enable has come to the drive.
SeenOK(n) ==
    drv[n] = "enabled" =>
        /\ Mapped(n) /\ ~sto
        /\ \/ IsOperationEnabled(n)
           \/ task[n] = "waitEnabled"
           \/ pc["enable"] = "enabling" /\ task[n] \in {"begin", "clear", "shutdown"}

\* While a drive is being sent through its states it is not in operation.
BelowOK(n) ==
    /\ cfg[n] \in FaultResetStep => drv[n] # "enabled"
    /\ task[n] \in {"waitReady", "switchOn", "waitSwitchedOn", "enableOperation"} =>
         drv[n] # "enabled"
    /\ task[n] \in {"clear", "shutdown"} /\ pc["enable"] = "none" => drv[n] # "enabled"

\* After the first wait a fault that is still in the cache is one of the drive.
FaultOK(n) ==
    /\ task[n] \in {"switchOn", "waitSwitchedOn", "enableOperation", "waitEnabled"}
    /\ Mapped(n) /\ Decode(status[n]) = "fault"
    => drv[n] = "fault"

NodeOK(n) == MappedOK(n) /\ SeenOK(n) /\ BelowOK(n) /\ FaultOK(n)

OperationInv ==
    /\ bus # "down"
    /\ bus = "up" => \A n \in Nodes : NodeOK(n)

LEMMA PhaseStep == TypeOK /\ OneTransition /\ PhaseInv /\ [Next]_vars => PhaseInv'
<1> SUFFICES ASSUME TypeOK, OneTransition, PhaseInv, [Next]_vars PROVE PhaseInv'
  OBVIOUS
<1> USE DEF TypeOK, ControllerTypeOK, Thread, ConfigureStep, FaultResetStep, PhaseInv
<1> DEFINE Kept == UNCHANGED <<cfg, task, pc>>
<1>1. CASE CmdCallback \/ \E v \in Commands : CmdArrives(v)
  <2>1. Kept BY <1>1 DEF CmdCallback, CmdStamp, CmdCheck, CmdApply, CmdArrives, controllerVars
  <2>2. QED BY <2>1
<1>2. CASE LoopStart \/ (\E n \in Nodes : LoopZero(n)) \/ LoopFeedback \/ LoopDecide
  <2>1. Kept BY <1>2 DEF LoopStart, LoopZero, LoopFeedback, LoopDecide, controllerVars
  <2>2. QED BY <2>1
<1>3. CASE LoopLaunch
  <2>1. cfg' = cfg /\ task' = task /\ pc'["enable"] = pc["enable"]
    BY <1>3 DEF LoopLaunch, controllerVars
  <2>2. pc' = pc \/ pc["reset"] = "none"
    BY <1>3 DEF LoopLaunch, OneTransition
  <2>3. QED BY <2>1, <2>2
<1>4. ASSUME NEW n \in Nodes, ResetReinit(n) PROVE PhaseInv'
  BY <1>4 DEF ResetReinit, Reset, ConfigureBegin, controllerVars
<1>5. ASSUME NEW n \in Nodes, ResetConfigure(n) PROVE PhaseInv'
  BY <1>5 DEF ResetConfigure, ConfigureReset, ConfigureMap, ConfigureStart, Beside, nodeVars
<1>6. ASSUME NEW n \in Nodes, ResetClear(n) PROVE PhaseInv'
  BY <1>6 DEF ResetClear, Reset
<1>7. ASSUME NEW n \in Nodes, ResetFault(n) PROVE PhaseInv'
  BY <1>7 DEF ResetFault, Beside, nodeVars
<1>8. ASSUME NEW n \in Nodes, ResetConfirm(n) PROVE PhaseInv'
  BY <1>8 DEF ResetConfirm, controllerVars
<1>9. ASSUME NEW n \in Nodes, EnableTask(n) PROVE PhaseInv'
  <2>1. cfg' = cfg /\ pc' = pc /\ task[n] # "none"
    BY <1>9 DEF EnableTask, TaskBegin, TaskClear, TaskSend, TaskWait, Beside, nodeVars
  <2>2. \A m \in Nodes \ {n} : task'[m] = task[m]
    BY <1>9 DEF EnableTask, TaskBegin, TaskClear, TaskSend, TaskWait, SetTask
  <2>3. QED BY <2>1, <2>2
<1>10. CASE ResetAdvance
  <2>1. \A n \in Nodes : cfg'[n] = "idle"
    BY <1>10 DEF ResetAdvance
  <2>2. pc'["enable"] = pc["enable"] /\ pc["reset"] # "enabling"
    BY <1>10 DEF ResetAdvance
  <2>3. CASE pc["reset"] = "clear"
    BY <1>10, <2>1, <2>3 DEF ResetAdvance, Reset
  <2>4. CASE pc["reset"] # "clear"
    BY <1>10, <2>1, <2>2, <2>4 DEF ResetAdvance, Reset
  <2>5. QED BY <2>3, <2>4
<1>11. ASSUME NEW t \in Thread, Join(t) PROVE PhaseInv'
  <2>1. cfg' = cfg /\ \A n \in Nodes : task'[n] = "none"
    BY <1>11 DEF Join
  <2>2. pc[t] = "enabling" /\ \A u \in Thread : u # t => pc'[u] = pc[u]
    BY <1>11 DEF Join
  <2>3. \A u \in Thread : pc[u] # "none" => u = t
    BY <2>2 DEF OneTransition
  <2>4. \A n \in Nodes : cfg[n] \notin ConfigureStep \cup FaultResetStep
    BY <2>2, <2>3
  <2>5. QED BY <2>1, <2>4
<1>12. ASSUME NEW t \in Thread, Store(t) \/ Release(t) PROVE PhaseInv'
  <2>1. cfg' = cfg /\ task' = task
    BY <1>12 DEF Store, Release, controllerVars
  <2>2. pc[t] \notin {"reinit", "clear", "enabling"} /\ \A u \in Thread : u # t => pc'[u] = pc[u]
    BY <1>12 DEF Store, Release
  <2>3. QED BY <2>1, <2>2
<1>13. CASE Sync \/ CommandAges \/ ResetBecomesDue
  <2>1. Kept
    BY <1>13 DEF Sync, SyncLoop, Beside, nodeVars, CommandAges, ResetBecomesDue, controllerVars
  <2>2. QED BY <2>1
<1>14. ASSUME NEW n \in Nodes, CanCallback(n) \/ Deadline(n) PROVE Kept
  BY <1>14 DEF CanCallback, CanBootup, CanTpdo1, CanTpdo2, CanTpdo3, Deadline, FeedbackAges,
               SuppressEnds, Beside, nodeVars
<1>15. CASE Disturb \/ Repair
  <2>1. Kept
    BY <1>15 DEF Disturb, Repair, Mishap, Beside, nodeVars, EstopPressed, EstopReleased, BusLost,
                 BusBack, DriveFaults, PowerLost, PowerBack
  <2>2. QED BY <2>1
<1>16. CASE UNCHANGED vars
  BY <1>16 DEF vars, nodeVars, controllerVars
<1>17. QED
  BY <1>1, <1>2, <1>3, <1>4, <1>5, <1>6, <1>7, <1>8, <1>9, <1>10, <1>11, <1>12, <1>13, <1>14,
     <1>15, <1>16 DEF Next, ControlLoop, Worker

\* What the host makes of a statusword is the state the drive was in.
LEMMA DecodeIsTrue ==
    ASSUME NEW s \in DriveState
    PROVE  /\ Decode(Statusword(s)) = "fault" => s = "fault"
           /\ s = "enabled" => Decode(Statusword(s)) = "enabled"
BY DEF DriveState, Statusword, Decode

\* A step that touches nothing of node n, and does not end the first enable there,
\* keeps what is said of it.
LEMMA NodeFrame ==
    ASSUME NEW n \in Nodes, NodeOK(n),
           /\ cfg'[n] = cfg[n] /\ task'[n] = task[n] /\ status'[n] = status[n]
           /\ needsReinit'[n] = needsReinit[n] /\ suppress'[n] = suppress[n]
           /\ age'[n] = age[n] /\ power'[n] = power[n] /\ drv'[n] = drv[n]
           /\ comm'[n] = comm[n] /\ boot'[n] = boot[n] /\ sto' = sto
           /\ pc'["enable"] = pc["enable"] \/ task[n] \notin {"begin", "clear", "shutdown"}
    PROVE  NodeOK(n)'
BY DEF NodeOK, MappedOK, SeenOK, BelowOK, FaultOK, Mapped, IsOperationEnabled

\* configure_node.
LEMMA ConfigureOK ==
    ASSUME TypeOK, OneTransition, ConfigureShielded, PhaseInv, bus = "up",
           NEW n \in Nodes, NodeOK(n), NEW m \in Nodes, ResetReinit(m) \/ ResetConfigure(m)
    PROVE  NodeOK(n)'
<1> USE DEF TypeOK, ControllerTypeOK
<1>1. CASE m # n
  BY <1>1, NodeFrame DEF ResetReinit, ResetConfigure, ConfigureBegin, ConfigureReset, ConfigureMap,
     ConfigureStart, Beside, nodeVars, controllerVars, hostVars, driveVars
<1>2. CASE ResetReinit(n) /\ needsReinit[n]
  <2>1. ~Mapped(n) /\ drv[n] # "enabled"
    BY <1>2 DEF NodeOK, MappedOK, SeenOK
  <2>2. /\ ConfigureBegin(n) /\ pc' = pc /\ comm' = comm /\ drv' = drv /\ task' = task
        /\ cfg'[n] = "nmtReset"
    BY <1>2 DEF ResetReinit, ConfigureBegin, driveVars
  <2>3. QED
    BY <2>1, <2>2 DEF NodeOK, MappedOK, SeenOK, BelowOK, FaultOK, Mapped, FaultResetStep
<1>3. CASE ResetReinit(n) /\ ~needsReinit[n]
  BY <1>3, NodeFrame DEF ResetReinit, controllerVars, hostVars, driveVars
<1>4. CASE ResetConfigure(n)
  <2>1. cfg[n] \in ConfigureStep /\ task[n] = "none" /\ suppress[n] /\ ~needsReinit[n]
    BY <1>4 DEF ResetConfigure, ConfigureReset, ConfigureMap, ConfigureStart, ConfigureStep,
                ConfigureShielded, PhaseInv, OneTransition, Thread
  <2>2. /\ pc' = pc /\ drv' = drv /\ task' = task /\ status' = status /\ sto' = sto
        /\ suppress' = suppress /\ needsReinit' = needsReinit /\ power' = power
        /\ cfg'[n] \notin FaultResetStep
    BY <1>4, <2>1 DEF ResetConfigure, ConfigureReset, ConfigureMap, ConfigureStart, Beside,
                nodeVars, hostVars, FaultResetStep
  <2>3. Mapped(n)' => power[n]
    BY <1>4, <2>2 DEF ResetConfigure, ConfigureReset, ConfigureMap, ConfigureStart, Hears, Mapped,
                      NodeOK, MappedOK
  <2>4. Mapped(n) => Mapped(n)'
    BY <1>4 DEF ResetConfigure, ConfigureReset, ConfigureMap, ConfigureStart, Mapped, NodeOK,
                MappedOK
  <2>5. MappedOK(n)'
    <3>1. CASE ConfigureReset(n)
      BY <1>4, <2>2, <3>1 DEF ConfigureReset, Mapped, NodeOK, MappedOK
    <3>2. CASE ConfigureMap(n)
      <4>1. CASE cfg[n] = "rpdo"
        BY <2>1, <2>2, <2>3, <3>2, <4>1 DEF ConfigureMap, Mapped, MappedOK, ConfigureStep
      <4>2. CASE cfg[n] = "tpdo1"
        BY <2>1, <2>2, <2>3, <3>2, <4>2
           DEF ConfigureMap, Mapped, MappedOK, NodeOK, ConfigureStep, Hears
      <4>3. CASE cfg[n] = "tpdo2"
        BY <2>1, <2>2, <2>3, <3>2, <4>3
           DEF ConfigureMap, Mapped, MappedOK, NodeOK, ConfigureStep, Hears
      <4>4. QED BY <3>2, <4>1, <4>2, <4>3 DEF ConfigureMap
    <3>3. CASE ConfigureStart(n)
      BY <2>1, <2>2, <2>3, <3>3
         DEF ConfigureStart, Mapped, MappedOK, NodeOK, ConfigureStep, Hears, Setup
    <3>4. QED BY <1>4, <3>1, <3>2, <3>3 DEF ResetConfigure
  <2>6. QED
    BY <2>1, <2>2, <2>4, <2>5 DEF NodeOK, SeenOK, BelowOK, FaultOK, IsOperationEnabled
<1>5. QED BY <1>1, <1>2, <1>3, <1>4

\* The tasks of enable_motor.
LEMMA TaskOK ==
    ASSUME TypeOK, OneTransition, PhaseInv, bus = "up",
           NEW n \in Nodes, NodeOK(n), NEW m \in Nodes, EnableTask(m)
    PROVE  NodeOK(n)'
<1> USE DEF TypeOK, ControllerTypeOK
<1>1. CASE m # n
  BY <1>1, NodeFrame DEF EnableTask, TaskBegin, TaskClear, TaskSend, TaskWait, SetTask,
     ChangeMotorState, Beside, nodeVars, hostVars, driveVars
<1>2. CASE m = n
  <2>1. task[n] # "none"
    BY <1>2 DEF EnableTask, TaskBegin, TaskClear, TaskSend, TaskWait
  <2>2. cfg[n] \notin ConfigureStep /\ cfg[n] \notin FaultResetStep
    BY <2>1 DEF PhaseInv, OneTransition, Thread
  <2>3. pc["enable"] \in {"none", "enabling"}
    BY <2>1 DEF PhaseInv, OneTransition, Thread
  <2>4. /\ pc' = pc /\ cfg' = cfg /\ comm' = comm /\ power' = power /\ status' = status
        /\ boot' = boot /\ sto' = sto /\ suppress' = suppress /\ needsReinit' = needsReinit
        /\ age' = age
    BY DEF EnableTask, TaskBegin, TaskClear, TaskSend, TaskWait, Beside, nodeVars, hostVars,
           driveVars
  <2>5. Mapped(n) => Setup \subseteq comm[n] /\ power[n]
    BY <2>2 DEF NodeOK, MappedOK
  <2>6. MappedOK(n)'
    BY <2>4 DEF NodeOK, MappedOK, Mapped
  <2> USE DEF NodeOK, SeenOK, BelowOK, FaultOK, Mapped, IsOperationEnabled
  <2>7. CASE TaskBegin(n)
    BY <2>2, <2>3, <2>4, <2>6, <2>7 DEF TaskBegin, SetTask, driveVars
  <2>8. CASE TaskClear(n)
    <3>1. drv'[n] = drv[n] \/ drv'[n] = "disabled"
      BY <2>8 DEF TaskClear, ChangeMotorState, Respond
    <3>2. task[n] = "clear" /\ task'[n] = "shutdown"
      BY <2>8 DEF TaskClear, SetTask
    <3>3. QED BY <2>2, <2>3, <2>4, <2>6, <3>1, <3>2
  <2>9. CASE TaskSend(n)
    <3>1. CASE task[n] = "shutdown"
      <4>1. task'[n] = "waitReady"
        BY <2>9, <3>1 DEF TaskSend, SetTask
      <4>2. drv[n] = "enabled" => TakesRpdo(n) /\ ~sto
        BY <2>5 DEF TakesRpdo, Hears, Setup
      <4>3. drv'[n] # "enabled"
        BY <2>9, <3>1, <4>2 DEF TaskSend, ChangeMotorState, Respond
      <4>4. QED BY <2>2, <2>4, <2>6, <4>1, <4>3
    <3>2. CASE task[n] = "switchOn"
      <4>1. task'[n] = "waitSwitchedOn"
        BY <2>9, <3>2 DEF TaskSend, SetTask
      <4>2. drv[n] # "enabled"
        BY <3>2
      <4>3. drv'[n] # "enabled" /\ (drv[n] = "fault" => drv'[n] = "fault")
        BY <2>9, <3>2, <4>2 DEF TaskSend, ChangeMotorState, Respond
      <4>4. QED BY <2>2, <2>4, <2>6, <3>2, <4>1, <4>3
    <3>3. CASE task[n] = "enableOperation"
      <4>1. task'[n] = "waitEnabled"
        BY <2>9, <3>3 DEF TaskSend, SetTask
      <4>2. drv[n] # "enabled"
        BY <3>3
      <4>3. drv'[n] = "enabled" => TakesRpdo(n) /\ ~sto
        BY <2>9, <3>3, <4>2 DEF TaskSend, ChangeMotorState, Respond
      <4>4. drv[n] = "fault" => drv'[n] = "fault"
        BY <2>9, <3>3 DEF TaskSend, ChangeMotorState, Respond
      <4>5. QED BY <2>2, <2>4, <2>6, <3>3, <4>1, <4>3, <4>4 DEF TakesRpdo
    <3>4. QED BY <2>9, <3>1, <3>2, <3>3 DEF TaskSend
  <2>10. CASE TaskWait(n)
    <3>1. drv' = drv
      BY <2>10 DEF TaskWait, driveVars
    <3>2. CASE task[n] = "waitReady"
      <4>1. /\ task'[n] \in {"switchOn", "failed"}
            /\ task'[n] = "switchOn" => Decode(status[n]) = "ready"
        BY <2>10, <3>2 DEF TaskWait, WaitReached, SetTask
      <4>2. QED BY <2>2, <2>4, <2>6, <3>1, <3>2, <4>1
    <3>3. CASE task[n] = "waitSwitchedOn"
      <4>1. task'[n] \in {"enableOperation", "failed"}
        BY <2>10, <3>3 DEF TaskWait, SetTask
      <4>2. QED BY <2>2, <2>4, <2>6, <3>1, <3>3, <4>1
    <3>4. CASE task[n] = "waitEnabled"
      <4>1. /\ task'[n] \in {"ok", "failed"}
            /\ task'[n] = "ok" => Decode(status[n]) = "enabled"
            /\ task'[n] = "failed" => WaitFailed(n, "enabled")
        BY <2>10, <3>4 DEF TaskWait, WaitReached, SetTask
      <4>2. drv[n] = "enabled" => ~WaitFailed(n, "enabled")
        BY <2>5, <3>4, DecodeIsTrue DEF WaitFailed, StatusSettled, SendsTpdo, Hears, Setup
      <4>3. QED BY <2>2, <2>4, <2>6, <3>1, <3>4, <4>1, <4>2
    <3>5. QED BY <2>10, <3>2, <3>3, <3>4 DEF TaskWait
  <2>11. QED BY <1>2, <2>7, <2>8, <2>9, <2>10 DEF EnableTask
<1>3. QED BY <1>1, <1>2

\* The two fault resets: only to a drive that was not seen in operation, and so was
\* not in operation.
LEMMA FaultResetOK ==
    ASSUME TypeOK, OneTransition, PhaseInv, bus = "up",
           NEW n \in Nodes, NodeOK(n), NEW m \in Nodes, ResetClear(m) \/ ResetFault(m)
    PROVE  NodeOK(n)'
<1> USE DEF TypeOK, ControllerTypeOK
<1>1. CASE m # n
  BY <1>1, NodeFrame DEF ResetClear, ResetFault, ChangeMotorState, Beside, nodeVars, hostVars,
     driveVars
<1>2. CASE m = n
  <2>1. pc["reset"] = "clear"
    BY <1>2 DEF ResetClear, Reset, ResetFault, PhaseInv
  <2>2. pc["enable"] = "none" /\ task[n] = "none" /\ cfg[n] \notin ConfigureStep
    BY <2>1 DEF PhaseInv, OneTransition, Thread
  <2>3. /\ pc' = pc /\ task' = task /\ comm' = comm /\ power' = power /\ status' = status
        /\ boot' = boot /\ sto' = sto /\ suppress' = suppress /\ needsReinit' = needsReinit
        /\ age' = age /\ cfg'[n] \notin ConfigureStep
    BY <1>2 DEF ResetClear, ResetFault, Beside, nodeVars, hostVars, driveVars, ConfigureStep
  <2>4. MappedOK(n)'
    BY <2>2, <2>3 DEF NodeOK, MappedOK, Mapped, ConfigureStep
  <2> USE DEF NodeOK, SeenOK, BelowOK, FaultOK, Mapped, IsOperationEnabled
  <2>5. CASE ResetClear(n)
    <3>1. drv' = drv
      BY <2>5 DEF ResetClear, driveVars
    <3>2. cfg'[n] \in FaultResetStep => ~IsOperationEnabled(n)
      BY <2>5 DEF ResetClear, FaultResetStep
    <3>3. QED BY <2>2, <2>3, <2>4, <3>1, <3>2
  <2>6. CASE ResetFault(n)
    <3>1. drv'[n] # "enabled"
      BY <2>6 DEF ResetFault, ChangeMotorState, Respond
    <3>2. QED BY <2>2, <2>3, <2>4, <3>1
  <2>7. QED BY <1>2, <2>5, <2>6
<1>3. QED BY <1>1, <1>2

\* The threads going on: a thread ends, or goes from one loop to the next.
LEMMA ThreadOK ==
    ASSUME TypeOK, OneTransition, PhaseInv, bus = "up", NEW n \in Nodes, NodeOK(n),
           ResetAdvance \/ LoopLaunch \/ \E t \in Thread : Join(t) \/ Store(t) \/ Release(t)
    PROVE  NodeOK(n)'
<1> USE DEF TypeOK, ControllerTypeOK, Thread
<1> DEFINE Kept ==
      /\ cfg' = cfg /\ status' = status /\ needsReinit' = needsReinit /\ suppress' = suppress
      /\ age' = age /\ power' = power /\ drv' = drv /\ comm' = comm /\ boot' = boot /\ sto' = sto
<1>1. Kept
  BY DEF ResetAdvance, LoopLaunch, Join, Store, Release, controllerVars, hostVars, driveVars
<1>2. CASE LoopLaunch
  BY <1>1, <1>2, NodeFrame DEF LoopLaunch, controllerVars
<1>3. CASE ResetAdvance
  <2>1. pc["enable"] = "none" /\ pc'["enable"] = "none" /\ task[n] = "none"
    BY <1>3 DEF ResetAdvance, PhaseInv, OneTransition
  <2>2. task'[n] \in {"none", "begin"}
    BY <1>3, <2>1 DEF ResetAdvance
  <2>3. QED
    BY <1>1, <2>1, <2>2
       DEF NodeOK, MappedOK, SeenOK, BelowOK, FaultOK, Mapped, IsOperationEnabled
<1>4. ASSUME NEW t \in Thread, Join(t) PROVE NodeOK(n)'
  <2>1. task[n] \in {"ok", "failed"} /\ task'[n] = "none"
    BY <1>4 DEF Join, TasksDone
  <2>2. QED
    BY <1>1, <2>1 DEF NodeOK, MappedOK, SeenOK, BelowOK, FaultOK, Mapped, IsOperationEnabled
<1>5. ASSUME NEW t \in Thread, Store(t) \/ Release(t) PROVE NodeOK(n)'
  <2>1. pc[t] \in {"store", "release"} /\ task' = task
    BY <1>5 DEF Store, Release, controllerVars
  <2>2. pc["enable"] # "enabling" /\ pc["reset"] # "enabling"
    BY <2>1 DEF OneTransition
  <2>3. task[n] = "none"
    BY <2>2 DEF PhaseInv
  <2>4. QED BY <1>1, <2>1, <2>3, NodeFrame
<1>6. QED BY <1>2, <1>3, <1>4, <1>5

\* What the drives and the clocks tell the host.
LEMMA CanOK ==
    ASSUME TypeOK, ConfigureShielded, PhaseInv, bus = "up", NEW n \in Nodes, NodeOK(n),
           LoopFeedback \/ \E m \in Nodes : CanCallback(m) \/ Deadline(m)
    PROVE  NodeOK(n)'
<1> USE DEF TypeOK, ControllerTypeOK
<1>1. /\ cfg' = cfg /\ task' = task /\ power' = power /\ drv' = drv /\ comm' = comm
      /\ sto' = sto /\ pc' = pc
  BY DEF LoopFeedback, CanCallback, CanBootup, CanTpdo1, CanTpdo2, CanTpdo3, Deadline,
         FeedbackAges, SuppressEnds, Beside, nodeVars, driveVars
<1>2. CASE LoopFeedback
  <2>1. status' = status /\ age' = age /\ boot' = boot /\ suppress' = suppress
    BY <1>2 DEF LoopFeedback, driveVars
  <2>2. Mapped(n) => ~needsReinit'[n]
    BY <1>2 DEF LoopFeedback, RequestReinit, NodeOK, MappedOK, ConfigureShielded
  <2>3. QED
    BY <1>1, <2>1, <2>2
       DEF NodeOK, MappedOK, SeenOK, BelowOK, FaultOK, Mapped, IsOperationEnabled
<1>3. ASSUME NEW m \in Nodes, CanBootup(m) PROVE NodeOK(n)'
  <2>1. status' = status /\ age' = age /\ suppress' = suppress /\ (boot'[n] => boot[n])
    BY <1>3 DEF CanBootup
  <2>2. Mapped(n) => ~needsReinit'[n]
    BY <1>3 DEF CanBootup, RequestReinit, NodeOK, MappedOK
  <2>3. QED
    BY <1>1, <2>1, <2>2
       DEF NodeOK, MappedOK, SeenOK, BelowOK, FaultOK, Mapped, IsOperationEnabled
<1>4. ASSUME NEW m \in Nodes, CanTpdo1(m) PROVE NodeOK(n)'
  <2>1. /\ UNCHANGED <<age, suppress, boot, needsReinit>>
        /\ status'[n] = status[n] \/ status'[n] = Statusword(drv[n])
    BY <1>4 DEF CanTpdo1, driveVars
  <2>2. QED
    BY <1>1, <2>1, DecodeIsTrue
       DEF NodeOK, MappedOK, SeenOK, BelowOK, FaultOK, Mapped, IsOperationEnabled
<1>5. ASSUME NEW m \in Nodes, CanTpdo2(m) \/ CanTpdo3(m) PROVE NodeOK(n)'
  <2>1. /\ UNCHANGED <<status, suppress, boot, needsReinit>>
        /\ age'[n] = age[n] \/ age'[n] = "fresh"
    BY <1>5 DEF CanTpdo2, CanTpdo3, driveVars
  <2>2. QED
    BY <1>1, <2>1 DEF NodeOK, MappedOK, SeenOK, BelowOK, FaultOK, Mapped, IsOperationEnabled
<1>6. ASSUME NEW m \in Nodes, FeedbackAges(m) PROVE NodeOK(n)'
  <2>1. UNCHANGED <<status, suppress, boot, needsReinit>> /\ (m # n => age'[n] = age[n])
    BY <1>6 DEF FeedbackAges, driveVars
  <2>2. m = n /\ Mapped(n) => cfg[n] \in ConfigureStep
    BY <1>6 DEF FeedbackAges, SendsTpdo, Hears, Setup, NodeOK, MappedOK
  <2>3. QED
    BY <1>1, <2>1, <2>2
       DEF NodeOK, MappedOK, SeenOK, BelowOK, FaultOK, Mapped, IsOperationEnabled
<1>7. ASSUME NEW m \in Nodes, SuppressEnds(m) PROVE NodeOK(n)'
  <2>1. /\ UNCHANGED <<status, age, boot, needsReinit>>
        /\ suppress'[n] = suppress[n] \/ ~boot[n]
    BY <1>7 DEF SuppressEnds, driveVars
  <2>2. QED
    BY <1>1, <2>1 DEF NodeOK, MappedOK, SeenOK, BelowOK, FaultOK, Mapped, IsOperationEnabled
<1>8. QED BY <1>2, <1>3, <1>4, <1>5, <1>6, <1>7 DEF CanCallback, Deadline

\* What happens to the drives.
LEMMA HardwareOK ==
    ASSUME TypeOK, bus = "up", NEW n \in Nodes, NodeOK(n),
           \/ EstopPressed \/ EstopReleased
           \/ \E m \in Nodes : DriveFaults(m) \/ PowerLost(m) \/ PowerBack(m),
           UNCHANGED nodeVars
    PROVE  NodeOK(n)'
<1> USE DEF TypeOK, ControllerTypeOK, NodeOK, MappedOK, SeenOK, BelowOK, FaultOK, Mapped,
            IsOperationEnabled
<1>1. UNCHANGED <<status, needsReinit, suppress, age, cfg, task, pc>>
  BY DEF EstopPressed, EstopReleased, DriveFaults, PowerLost, PowerBack, hostVars, nodeVars
<1>2. CASE EstopPressed
  <2>1. /\ UNCHANGED <<power, comm, boot>> /\ drv'[n] # "enabled"
        /\ drv[n] = "fault" => drv'[n] = "fault"
    BY <1>2 DEF EstopPressed
  <2>2. QED BY <1>1, <2>1
<1>3. CASE EstopReleased
  <2>1. UNCHANGED <<power, comm, boot, drv>> /\ ~sto'
    BY <1>3 DEF EstopReleased
  <2>2. QED BY <1>1, <2>1
<1>4. ASSUME NEW m \in Nodes, DriveFaults(m) PROVE NodeOK(n)'
  <2>1. UNCHANGED <<power, comm, boot, sto>> /\ (drv'[n] = drv[n] \/ drv'[n] = "fault")
    BY <1>4 DEF DriveFaults
  <2>2. QED BY <1>1, <2>1
<1>5. ASSUME NEW m \in Nodes, m # n, PowerLost(m) \/ PowerBack(m) PROVE NodeOK(n)'
  BY <1>1, <1>5, NodeFrame DEF PowerLost, PowerBack
<1>6. CASE PowerLost(n) \/ PowerBack(n)
  <2>1. ~Mapped(n)' /\ drv'[n] # "enabled"
    BY <1>6 DEF PowerLost, PowerBack
  <2>2. QED BY <1>1, <2>1
<1>7. QED BY <1>2, <1>3, <1>4, <1>5, <1>6

\* The invariant is inductive as long as the bus cannot fail.
LEMMA OperationStep ==
    ASSUME BusHolds
    PROVE  TypeOK /\ OneTransition /\ ConfigureShielded /\ PhaseInv /\ OperationInv /\ [Next]_vars
             => OperationInv'
<1> SUFFICES ASSUME TypeOK, OneTransition, ConfigureShielded, PhaseInv, OperationInv, [Next]_vars
             PROVE  OperationInv'
  OBVIOUS
<1>1. bus' = bus
  <2>1. CASE CmdCallback \/ ControlLoop \/ \E v \in Commands : CmdArrives(v)
    BY <2>1 DEF CmdCallback, CmdStamp, CmdCheck, CmdApply, CmdArrives, ControlLoop, LoopStart,
                LoopZero, LoopFeedback, LoopDecide, LoopLaunch, controllerVars, driveVars
  <2>2. ASSUME NEW n \in Nodes,
               \/ ResetReinit(n) \/ ResetConfigure(n) \/ ResetClear(n)
               \/ ResetFault(n) \/ ResetConfirm(n) \/ EnableTask(n)
        PROVE  bus' = bus
    BY <2>2 DEF ResetReinit, ConfigureBegin, ResetConfigure, ConfigureReset, ConfigureMap,
                ConfigureStart, ResetClear, ResetFault, ResetConfirm, EnableTask, TaskBegin,
                TaskClear, TaskSend, TaskWait, controllerVars, driveVars
  <2>3. CASE ResetAdvance \/ \E t \in Thread : Join(t) \/ Store(t) \/ Release(t)
    BY <2>3 DEF ResetAdvance, Join, Store, Release, controllerVars, driveVars
  <2>4. CASE Sync \/ CommandAges \/ ResetBecomesDue \/ UNCHANGED vars
    BY <2>4 DEF Sync, SyncLoop, CommandAges, ResetBecomesDue, vars, controllerVars, driveVars
  <2>5. ASSUME NEW n \in Nodes, CanCallback(n) \/ Deadline(n) PROVE bus' = bus
    BY <2>5 DEF CanCallback, CanBootup, CanTpdo1, CanTpdo2, CanTpdo3, Deadline, FeedbackAges,
                SuppressEnds, driveVars
  <2>6. CASE Disturb \/ Repair
    BY <2>6 DEF Disturb, Repair, Mishap, BusHolds, OperationInv, EstopPressed, EstopReleased,
                BusBack, DriveFaults, PowerLost, PowerBack
  <2>7. QED BY <2>1, <2>2, <2>3, <2>4, <2>5, <2>6 DEF Next, Worker
<1>2. SUFFICES ASSUME bus = "up", NEW n \in Nodes PROVE NodeOK(n)'
  BY <1>1 DEF OperationInv
<1>3. NodeOK(n)
  BY <1>2 DEF OperationInv
<1>4. CASE CmdCallback \/ \E v \in Commands : CmdArrives(v)
  BY <1>3, <1>4, NodeFrame DEF CmdCallback, CmdStamp, CmdCheck, CmdApply, CmdArrives,
     controllerVars, hostVars, driveVars
<1>5. CASE LoopStart \/ LoopDecide \/ \E m \in Nodes : LoopZero(m)
  BY <1>3, <1>5, NodeFrame DEF LoopStart, LoopDecide, LoopZero, controllerVars, hostVars, driveVars
<1>6. CASE LoopFeedback \/ \E m \in Nodes : CanCallback(m) \/ Deadline(m)
  BY <1>2, <1>3, <1>6, CanOK
<1>7. CASE LoopLaunch \/ ResetAdvance \/ \E t \in Thread : Join(t) \/ Store(t) \/ Release(t)
  BY <1>2, <1>3, <1>7, ThreadOK
<1>8. ASSUME NEW m \in Nodes, ResetReinit(m) \/ ResetConfigure(m) PROVE NodeOK(n)'
  BY <1>2, <1>3, <1>8, ConfigureOK
<1>9. ASSUME NEW m \in Nodes, ResetClear(m) \/ ResetFault(m) PROVE NodeOK(n)'
  BY <1>2, <1>3, <1>9, FaultResetOK
<1>10. ASSUME NEW m \in Nodes, ResetConfirm(m) PROVE NodeOK(n)'
  BY <1>3, <1>10, NodeFrame DEF ResetConfirm, controllerVars, hostVars, driveVars
<1>11. ASSUME NEW m \in Nodes, EnableTask(m) PROVE NodeOK(n)'
  BY <1>2, <1>3, <1>11, TaskOK
<1>12. CASE Sync \/ CommandAges \/ ResetBecomesDue \/ UNCHANGED vars
  BY <1>3, <1>12, NodeFrame DEF Sync, SyncLoop, Beside, nodeVars, CommandAges, ResetBecomesDue,
     vars, controllerVars, hostVars, driveVars
<1>13. CASE Disturb \/ Repair
  <2>1. ~BusLost \/ ~Mishap("bus")
    BY DEF BusHolds, Mishap
  <2>2. ~BusBack
    BY <1>2 DEF BusBack
  <2>3. UNCHANGED nodeVars
    BY <1>13 DEF Disturb, Repair, Mishap, Beside
  <2>4. QED BY <1>2, <1>3, <1>13, <2>1, <2>2, <2>3, HardwareOK DEF Disturb, Repair
<1>14. QED
  BY <1>4, <1>5, <1>6, <1>7, <1>8, <1>9, <1>10, <1>11, <1>12, <1>13
     DEF Next, ControlLoop, Worker
-----------------------------------------------------------------------------
\* A drive without power is not in operation, nor does it get there.
PoweredInOperation == \A n \in Nodes : drv[n] = "enabled" => power[n]

\* These are all the ways in which the state of one drive can change.
LEMMA DriveSteps ==
    ASSUME TypeOK, [Next]_vars, NEW n \in Nodes
    PROVE  \/ drv'[n] = drv[n] /\ power'[n] = power[n]
           \/ TaskClear(n) \/ TaskSend(n) \/ ResetFault(n)
           \/ EstopPressed \/ DriveFaults(n) \/ PowerLost(n) \/ PowerBack(n)
<1> DEFINE Kept == drv'[n] = drv[n] /\ power'[n] = power[n]
<1> USE DEF TypeOK, ControllerTypeOK
<1>1. CASE CmdCallback \/ ControlLoop \/ \E v \in Commands : CmdArrives(v)
  BY <1>1 DEF CmdCallback, CmdStamp, CmdCheck, CmdApply, CmdArrives, ControlLoop, LoopStart,
              LoopZero, LoopFeedback, LoopDecide, LoopLaunch, controllerVars, driveVars
<1>2. CASE \E m \in Nodes : ResetReinit(m) \/ ResetConfigure(m) \/ ResetClear(m)
                               \/ ResetConfirm(m)
  BY <1>2 DEF ResetClear, ResetReinit, ConfigureBegin, ResetConfigure, ConfigureReset, ConfigureMap,
              ConfigureStart, ResetConfirm, controllerVars, driveVars
<1>3. ASSUME NEW m \in Nodes, m # n, ResetFault(m) \/ TaskClear(m) \/ TaskSend(m) PROVE Kept
  BY <1>3 DEF ResetFault, TaskClear, TaskSend, ChangeMotorState
<1>4. ASSUME NEW m \in Nodes, TaskBegin(m) \/ TaskWait(m) PROVE Kept
  BY <1>4 DEF TaskBegin, TaskWait, driveVars
<1>5. CASE ResetAdvance \/ \E t \in Thread : Join(t) \/ Store(t) \/ Release(t)
  BY <1>5 DEF ResetAdvance, Join, Store, Release, controllerVars, driveVars
<1>6. CASE Sync \/ CommandAges \/ ResetBecomesDue
  BY <1>6 DEF Sync, SyncLoop, CommandAges, ResetBecomesDue, controllerVars, driveVars
<1>7. ASSUME NEW m \in Nodes, CanCallback(m) \/ Deadline(m) PROVE Kept
  BY <1>7 DEF CanCallback, CanBootup, CanTpdo1, CanTpdo2, CanTpdo3, Deadline, FeedbackAges,
              SuppressEnds, driveVars
<1>8. CASE BusLost \/ BusBack \/ EstopReleased
  BY <1>8 DEF BusLost, BusBack, EstopReleased
<1>9. ASSUME NEW m \in Nodes, m # n, DriveFaults(m) \/ PowerLost(m) \/ PowerBack(m) PROVE Kept
  BY <1>9 DEF DriveFaults, PowerLost, PowerBack
<1>10. CASE UNCHANGED vars
  BY <1>10 DEF vars, controllerVars, driveVars
<1>11. QED
  BY <1>1, <1>2, <1>3, <1>4, <1>5, <1>6, <1>7, <1>8, <1>9, <1>10
     DEF Next, Worker, EnableTask, Disturb, Repair

\* Controlwords only reach a drive that has power.
LEMMA PoweredStep == TypeOK /\ PoweredInOperation /\ [Next]_vars => PoweredInOperation'
<1> SUFFICES ASSUME TypeOK, PoweredInOperation, [Next]_vars, NEW n \in Nodes,
                    drv'[n] = "enabled"
             PROVE  power'[n]
  BY DEF PoweredInOperation
<1> USE DEF TypeOK, ControllerTypeOK, PoweredInOperation
<1>1. CASE drv'[n] = drv[n] /\ power'[n] = power[n] BY <1>1
<1>2. CASE TaskClear(n) \/ TaskSend(n) \/ ResetFault(n)
  <2>1. power' = power
    BY <1>2 DEF TaskClear, TaskSend, ResetFault
  <2>2. drv'[n] # drv[n] => power[n]
    BY <1>2 DEF TaskClear, TaskSend, ResetFault, ChangeMotorState, TakesRpdo, Hears
  <2>3. QED BY <2>1, <2>2
<1>3. CASE EstopPressed BY <1>3 DEF EstopPressed
<1>4. CASE DriveFaults(n) BY <1>4 DEF DriveFaults
<1>5. CASE PowerLost(n) BY <1>5 DEF PowerLost
<1>6. CASE PowerBack(n) BY <1>6 DEF PowerBack
<1>7. QED BY <1>1, <1>2, <1>3, <1>4, <1>5, <1>6, DriveSteps

\* As long as the bus holds, and once the first enable is over, no thread of the host
\* throws a drive that works, and is seen to work, out of operation
\* (motor_controller.cpp:243-246, 357-359).
THEOREM HealthyLeftAlone == BusHolds => (Spec => HealthyUntouched)
<1> SUFFICES ASSUME BusHolds PROVE Spec => HealthyUntouched
  OBVIOUS
<1>1. Init => PhaseInv /\ PoweredInOperation /\ OperationInv
  <2> SUFFICES ASSUME Init PROVE PhaseInv /\ PoweredInOperation /\ OperationInv
    OBVIOUS
  <2>1. /\ \A n \in Nodes : cfg[n] = "idle" /\ task[n] = "begin" /\ ~needsReinit[n] /\ ~boot[n]
        /\ \A n \in Nodes : drv[n] = "enabled" => power[n]
        /\ pc["enable"] = "enabling" /\ ~sto
    BY DEF Init, ControllerInit, Thread
  <2>2. PhaseInv /\ PoweredInOperation
    BY <2>1 DEF PhaseInv, PoweredInOperation, ConfigureStep, FaultResetStep
  <2>3. bus = "up" => \A n \in Nodes : /\ power[n] => comm[n] = Setup
                                       /\ ~power[n] => comm[n] = {}
                                       /\ age[n] = "fresh"
    BY DEF Init, ControllerInit
  <2>4. bus = "up" => \A n \in Nodes : NodeOK(n)
    BY <2>1, <2>3 DEF NodeOK, MappedOK, SeenOK, BelowOK, FaultOK, Mapped, Setup, FaultResetStep
  <2>5. bus # "down"
    BY DEF Init, ControllerInit
  <2>6. QED BY <2>2, <2>4, <2>5 DEF OperationInv
<1>2. TypeOK /\ PhaseInv /\ PoweredInOperation /\ OperationInv /\ [Next]_vars =>
        [\A n \in Nodes :
           /\ drv[n] = "enabled" /\ IsOperationEnabled(n) /\ pc["enable"] = "none"
           /\ ~sto' /\ power'[n] /\ drv'[n] # "fault"
           => drv'[n] = "enabled"]_vars
  <2> SUFFICES ASSUME TypeOK, PhaseInv, PoweredInOperation, OperationInv, [Next]_vars,
                      NEW n \in Nodes,
                      drv[n] = "enabled", IsOperationEnabled(n), pc["enable"] = "none",
                      ~sto', power'[n], drv'[n] # "fault"
               PROVE  drv'[n] = "enabled"
    OBVIOUS
  <2> USE DEF TypeOK, ControllerTypeOK
  <2>1. CASE bus # "up"
    <3>1. ~TakesRpdo(n)
      BY <2>1 DEF TakesRpdo, Hears
    <3>2. CASE TaskClear(n) \/ TaskSend(n) \/ ResetFault(n)
      BY <3>1, <3>2 DEF TaskClear, TaskSend, ResetFault, ChangeMotorState
    <3>3. CASE ~(TaskClear(n) \/ TaskSend(n) \/ ResetFault(n))
      BY <3>3, DriveSteps DEF EstopPressed, DriveFaults, PowerLost, PowerBack, PoweredInOperation
    <3>4. QED BY <3>2, <3>3
  <2>2. CASE bus = "up"
    <3>1. BelowOK(n)
      BY <2>2 DEF OperationInv, NodeOK
    <3>2. ~TaskClear(n) /\ ~TaskSend(n)
      BY <3>1 DEF BelowOK, TaskClear, TaskSend
    <3>3. ~ResetFault(n)
      BY <3>1 DEF BelowOK, ResetFault
    <3>4. QED
      BY <3>2, <3>3, DriveSteps
         DEF EstopPressed, DriveFaults, PowerLost, PowerBack, PoweredInOperation
  <2>3. QED BY <2>1, <2>2
<1>3. QED
  BY <1>1, <1>2, PoweredStep, PhaseStep, OperationStep, TypeCorrect, AtMostOneTransition,
     ReinitShielded, PTL DEF Spec, HealthyUntouched
=============================================================================
