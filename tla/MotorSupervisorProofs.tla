------------------------ MODULE MotorSupervisorProofs ------------------------
(***************************************************************************)
(* MotorDriverNode implements EnableSupervisor: the command gate only opens *)
(* after one thread, in one go, has seen every drive in operation.          *)
(***************************************************************************)
EXTENDS MotorDriverNodeProofs

\* A thread that is not running has left its verdict at TRUE, so the conjunction
\* of the two verdicts is the verdict of the one that runs.
RestedVerdict == \A t \in Thread : pc[t] = "none" => ok[t]

\* Every step of Next is one of these, or leaves the round alone.
LEMMA RoundSteps ==
    ASSUME [Next]_vars
    PROVE  \/ UNCHANGED <<pc, ok, task, todo, motorsEnabled>>
           \/ LoopLaunch \/ ResetAdvance
           \/ \E n \in Nodes : ResetReinit(n) \/ ResetClear(n) \/ ResetConfirm(n) \/ EnableTask(n)
           \/ \E t \in Thread : Join(t) \/ Store(t) \/ Release(t)
<1> DEFINE Kept == UNCHANGED <<pc, ok, task, todo, motorsEnabled>>
<1>1. CASE CmdCallback \/ \E v \in Commands : CmdArrives(v)
  <2>1. Kept
    BY <1>1 DEF CmdCallback, CmdStamp, CmdCheck, CmdApply, CmdArrives, controllerVars
  <2>2. QED BY <2>1
<1>2. CASE LoopStart \/ (\E n \in Nodes : LoopZero(n)) \/ LoopFeedback \/ LoopDecide
  <2>1. Kept BY <1>2 DEF LoopStart, LoopZero, LoopFeedback, LoopDecide, controllerVars
  <2>2. QED BY <2>1
<1>3. ASSUME NEW n \in Nodes, ResetConfigure(n) \/ ResetFault(n) PROVE Kept
  BY <1>3 DEF ResetConfigure, ConfigureReset, ConfigureMap, ConfigureStart, ResetFault, Beside,
              nodeVars
<1>4. CASE Sync \/ CommandAges \/ ResetBecomesDue
  <2>1. Kept
    BY <1>4 DEF Sync, SyncLoop, Beside, nodeVars, CommandAges, ResetBecomesDue, controllerVars
  <2>2. QED BY <2>1
<1>5. ASSUME NEW n \in Nodes, CanCallback(n) \/ Deadline(n) PROVE Kept
  BY <1>5 DEF CanCallback, CanBootup, CanTpdo1, CanTpdo2, CanTpdo3, Deadline, FeedbackAges,
              SuppressEnds, Beside, nodeVars
<1>6. CASE Disturb \/ Repair
  <2>1. Kept
    BY <1>6 DEF Disturb, Repair, Mishap, Beside, nodeVars, EstopPressed, EstopReleased, BusLost,
                BusBack, DriveFaults, PowerLost, PowerBack
  <2>2. QED BY <2>1
<1>7. CASE UNCHANGED vars
  BY <1>7 DEF vars, nodeVars, controllerVars
<1>8. QED
  BY <1>1, <1>2, <1>3, <1>4, <1>5, <1>6, <1>7 DEF Next, ControlLoop, Worker

LEMMA RestedVerdictStep ==
    TypeOK /\ OneTransition /\ RestedVerdict /\ [Next]_vars => RestedVerdict'
<1> SUFFICES ASSUME TypeOK, OneTransition, RestedVerdict, [Next]_vars,
                    NEW u \in Thread, pc'[u] = "none"
             PROVE  ok'[u]
  BY DEF RestedVerdict
<1> USE DEF TypeOK, Thread, RestedVerdict
<1>1. CASE UNCHANGED <<pc, ok, task, todo, motorsEnabled>> BY <1>1
<1>2. CASE LoopLaunch BY <1>2 DEF LoopLaunch
<1>3. CASE ResetAdvance
  <2>1. pc[u] = "none"
    <3>1. CASE u = "reset" BY <1>3, <3>1 DEF ResetAdvance
    <3>2. CASE u = "enable" BY <1>3, <3>2 DEF ResetAdvance
    <3>3. QED BY <3>1, <3>2
  <2>2. QED BY <1>3, <2>1 DEF ResetAdvance
<1>4. ASSUME NEW n \in Nodes, ResetReinit(n) \/ ResetClear(n) \/ EnableTask(n) PROVE ok'[u]
  BY <1>4 DEF ResetReinit, ResetClear, EnableTask, Beside, nodeVars
<1>5. ASSUME NEW n \in Nodes, ResetConfirm(n) PROVE ok'[u]
  BY <1>5 DEF ResetConfirm, Reset
<1>6. ASSUME NEW t \in Thread, Join(t) PROVE ok'[u] BY <1>6 DEF Join
<1>7. ASSUME NEW t \in Thread, Store(t) PROVE ok'[u] BY <1>7 DEF Store
<1>8. ASSUME NEW t \in Thread, Release(t) PROVE ok'[u] BY <1>8 DEF Release
<1>9. QED BY <1>1, <1>2, <1>3, <1>4, <1>5, <1>6, <1>7, <1>8, RoundSteps
-----------------------------------------------------------------------------
(* The refinement. *)

Seen == {n \in Nodes : IsOperationEnabled(n)}

\* If the round and its bookkeeping stay, the step is a look at the drives.
LEMMA LookStep ==
    ASSUME motorsEnabled' = motorsEnabled, Round' = Round, Unasked' = Unasked,
           NoRefusal' = NoRefusal
    PROVE  Supervisor!Next
<1>1. Seen' \in SUBSET Nodes
  BY DEF Seen
<1>2. Supervisor!Look
  BY <1>1 DEF Supervisor!Look, Seen
<1>3. QED BY <1>2 DEF Supervisor!Next

\* A step of one drive's task inside the first enable: it may accept or refuse.
LEMMA EnableTaskRound ==
    ASSUME TypeOK, OneTransition, NEW n \in Nodes, EnableTask(n)
    PROVE  Supervisor!Next
<1>1. UNCHANGED <<motorsEnabled, pc, ok, todo, status>>
  BY DEF EnableTask, TaskBegin, TaskClear, TaskSend, TaskWait, Beside, nodeVars, hostVars
<1>2. Round' = Round
  BY <1>1 DEF Round
<1>3. Seen' = Seen
  BY <1>1 DEF Seen, IsOperationEnabled
<1>4. CASE pc["enable"] # "enabling"
  <2>1. Unasked' = Unasked /\ NoRefusal' = NoRefusal
    BY <1>1, <1>4 DEF Unasked, NoRefusal
  <2>2. QED BY <1>1, <1>2, <2>1, LookStep
<1>5. CASE pc["enable"] = "enabling"
  <2>1. /\ Round = "asking"
        /\ Unasked = {m \in Nodes : task[m] \notin {"ok", "failed"}}
        /\ Unasked' = {m \in Nodes : task'[m] \notin {"ok", "failed"}}
        /\ NoRefusal = \A m \in Nodes : task[m] # "failed"
        /\ NoRefusal' = \A m \in Nodes : task'[m] # "failed"
    BY <1>1, <1>5 DEF Round, Unasked, NoRefusal, OneTransition, Thread
  <2>2. task[n] \notin {"ok", "failed"}
    BY DEF EnableTask, TaskBegin, TaskClear, TaskSend, TaskWait
  <2>3. \A m \in Nodes \ {n} : task'[m] = task[m]
    BY DEF EnableTask, TaskBegin, TaskClear, TaskSend, TaskWait, SetTask, TypeOK,
           ControllerTypeOK
  <2>4. task'[n] = "ok" => n \in Seen
    <3>1. CASE TaskBegin(n)
      BY <3>1 DEF TaskBegin, SetTask, Seen, TypeOK, ControllerTypeOK
    <3>2. CASE TaskClear(n)
      BY <3>2 DEF TaskClear, SetTask, TypeOK, ControllerTypeOK
    <3>3. CASE TaskSend(n)
      <4>1. task'[n] \in {"waitReady", "waitSwitchedOn", "waitEnabled"}
        <5>1. CASE task[n] = "shutdown"
          BY <3>3, <5>1 DEF TaskSend, SetTask, TypeOK, ControllerTypeOK
        <5>2. CASE task[n] = "switchOn"
          BY <3>3, <5>2 DEF TaskSend, SetTask, TypeOK, ControllerTypeOK
        <5>3. CASE task[n] = "enableOperation"
          BY <3>3, <5>3 DEF TaskSend, SetTask, TypeOK, ControllerTypeOK
        <5>4. QED BY <3>3, <5>1, <5>2, <5>3 DEF TaskSend
      <4>2. QED BY <4>1
    <3>4. CASE TaskWait(n)
      <4>1. CASE task[n] = "waitReady"
        BY <3>4, <4>1 DEF TaskWait, SetTask, TypeOK, ControllerTypeOK
      <4>2. CASE task[n] = "waitSwitchedOn"
        BY <3>4, <4>2 DEF TaskWait, SetTask, TypeOK, ControllerTypeOK
      <4>3. CASE task[n] = "waitEnabled"
        BY <3>4, <4>3 DEF TaskWait, WaitReached, SetTask, Seen, IsOperationEnabled, TypeOK,
                          ControllerTypeOK
      <4>4. QED BY <3>4, <4>1, <4>2, <4>3 DEF TaskWait
    <3>5. QED BY <3>1, <3>2, <3>3, <3>4 DEF EnableTask
  <2>5. CASE task'[n] = "ok"
    <3>1. Unasked' = Unasked \ {n} /\ NoRefusal' = NoRefusal /\ n \in Unasked
      BY <2>1, <2>2, <2>3, <2>5
    <3>2. Supervisor!Accept(n)
      BY <1>1, <1>2, <1>3, <2>1, <2>4, <2>5, <3>1 DEF Supervisor!Accept, Seen
    <3>3. QED BY <3>2 DEF Supervisor!Next
  <2>6. CASE task'[n] = "failed"
    <3>1. Unasked' = Unasked \ {n} /\ NoRefusal' = FALSE /\ n \in Unasked
      BY <2>1, <2>2, <2>3, <2>6
    <3>2. Supervisor!Refuse(n)
      BY <1>1, <1>2, <1>3, <2>1, <3>1 DEF Supervisor!Refuse, Seen
    <3>3. QED BY <3>2 DEF Supervisor!Next
  <2>7. CASE task'[n] \notin {"ok", "failed"}
    <3>1. Unasked' = Unasked /\ NoRefusal' = NoRefusal
      BY <2>1, <2>2, <2>3, <2>7
    <3>2. QED BY <1>1, <1>2, <3>1, LookStep
  <2>8. QED BY <2>5, <2>6, <2>7
<1>6. QED BY <1>4, <1>5

\* The end of a thread's enable_motor closes the first enable's questions, or
\* opens those of the reset thread's last loop.
LEMMA JoinRound ==
    ASSUME TypeOK, OneTransition, RestedVerdict, NEW t \in Thread, Join(t)
    PROVE  Supervisor!Next
<1> USE DEF TypeOK, Thread
<1>1. motorsEnabled' = motorsEnabled
  BY DEF Join
<1>2. CASE t = "enable"
  <2>1. /\ pc["enable"] = "enabling" /\ pc'["enable"] = "store"
        /\ pc["reset"] = "none" /\ pc'["reset"] = "none"
    BY <1>2 DEF Join, OneTransition
  <2>2. Round' = Round
    BY <2>1 DEF Round
  <2>3. Unasked' = {} /\ Unasked = {}
    BY <1>2, <2>1 DEF Unasked, Join, TasksDone
  <2>4. NoRefusal = \A n \in Nodes : task[n] = "ok"
    BY <2>1 DEF NoRefusal, Join, TasksDone
  <2>5. ok["reset"]
    BY <2>1 DEF RestedVerdict
  <2>6. NoRefusal' = \A n \in Nodes : task[n] = "ok"
    <3>1. ok' = [ok EXCEPT !["enable"] = \A n \in Nodes : task[n] = "ok"]
      BY <1>2 DEF Join
    <3>2. ok'["enable"] = (\A n \in Nodes : task[n] = "ok") /\ ok'["reset"] = ok["reset"]
      BY <3>1
    <3>3. QED BY <2>1, <2>5, <3>2 DEF NoRefusal
  <2>7. QED BY <1>1, <2>2, <2>3, <2>4, <2>6, LookStep
<1>3. CASE t = "reset"
  <2>1. /\ pc["reset"] = "enabling" /\ pc'["reset"] = "confirm"
        /\ pc["enable"] = "none" /\ pc'["enable"] = "none"
    BY <1>3 DEF Join, OneTransition
  <2>2. Round' = Round
    BY <2>1 DEF Round
  <2>3. Unasked' = Nodes /\ Unasked = Nodes
    BY <1>3, <2>1 DEF Unasked, Join
  <2>4. ok' = ok
    BY <1>3 DEF Join
  <2>5. NoRefusal' = NoRefusal
    BY <2>1, <2>4 DEF NoRefusal
  <2>6. QED BY <1>1, <2>2, <2>3, <2>5, LookStep
<1>4. QED BY <1>2, <1>3

\* Every step of the node is a step of the supervisor, or leaves it alone.
LEMMA RefinementStep ==
    TypeOK /\ OneTransition /\ RestedVerdict /\ [Next]_vars
        => [Supervisor!Next]_Supervisor!vars
<1> SUFFICES ASSUME TypeOK, OneTransition, RestedVerdict, [Next]_vars
             PROVE  Supervisor!Next
  OBVIOUS
<1> USE DEF TypeOK, Thread
<1>1. CASE UNCHANGED <<pc, ok, task, todo, motorsEnabled>>
  <2>1. Round' = Round /\ Unasked' = Unasked /\ NoRefusal' = NoRefusal
    BY <1>1 DEF Round, Unasked, NoRefusal
  <2>2. QED BY <1>1, <2>1, LookStep
<1>2. CASE LoopLaunch
  <2>1. UNCHANGED <<motorsEnabled, status>>
    BY <1>2 DEF LoopLaunch, controllerVars, hostVars
  <2>2. CASE transition
    <3>1. UNCHANGED <<pc, ok, todo, task>>
      BY <1>2, <2>2 DEF LoopLaunch, controllerVars
    <3>2. QED BY <2>1, <3>1, <1>1
  <2>3. CASE ~transition
    <3>1. /\ pc["enable"] = "none" /\ pc["reset"] = "none"
          /\ pc'["enable"] = "none" /\ pc'["reset"] = "reinit"
      BY <1>2, <2>3 DEF LoopLaunch, OneTransition
    <3>2. Round = "idle" /\ Round' = "asking"
      BY <3>1 DEF Round
    <3>3. Unasked' = Nodes
      BY <3>1 DEF Unasked
    <3>4. ok' = [ok EXCEPT !["reset"] = TRUE]
      BY <1>2, <2>3 DEF LoopLaunch
    <3>5. NoRefusal' = TRUE
      BY <3>1, <3>4 DEF NoRefusal, RestedVerdict
    <3>6. Seen' = Seen
      BY <2>1 DEF Seen, IsOperationEnabled
    <3>7. Supervisor!Begin
      BY <2>1, <3>2, <3>3, <3>5, <3>6 DEF Supervisor!Begin, Seen
    <3>8. QED BY <3>7 DEF Supervisor!Next
  <2>4. QED BY <2>2, <2>3
<1>3. CASE ResetAdvance
  <2>1. /\ pc["reset"] \in {"reinit", "clear", "confirm"} /\ todo = {}
        /\ pc["enable"] = "none" /\ pc'["enable"] = "none"
        /\ UNCHANGED <<motorsEnabled, ok>>
    BY <1>3 DEF ResetAdvance, OneTransition
  <2>2. pc'["reset"] = IF pc["reset"] = "reinit" THEN "clear"
                       ELSE IF pc["reset"] = "clear" THEN "enabling" ELSE "store"
    <3>1. CASE pc["reset"] = "reinit"  BY <1>3, <3>1 DEF ResetAdvance
    <3>2. CASE pc["reset"] = "clear"   BY <1>3, <3>2 DEF ResetAdvance
    <3>3. CASE pc["reset"] = "confirm" BY <1>3, <3>3 DEF ResetAdvance
    <3>4. QED BY <2>1, <3>1, <3>2, <3>3
  <2>3. Round' = Round
    BY <2>1, <2>2 DEF Round
  <2>4. NoRefusal' = NoRefusal
    BY <2>1 DEF NoRefusal
  <2>5. Unasked' = Unasked
    BY <2>1, <2>2 DEF Unasked
  <2>6. QED BY <2>1, <2>3, <2>4, <2>5, LookStep
<1>4. ASSUME NEW n \in Nodes, ResetReinit(n) \/ ResetClear(n) PROVE Supervisor!Next
  <2>1. pc["reset"] \in {"reinit", "clear"} /\ pc["enable"] = "none"
    BY <1>4 DEF ResetReinit, ResetClear, Reset, OneTransition
  <2>2. UNCHANGED <<pc, ok, motorsEnabled>>
    BY <1>4 DEF ResetReinit, ResetClear
  <2>3. Round' = Round /\ NoRefusal' = NoRefusal
    BY <2>1, <2>2 DEF Round, NoRefusal
  <2>4. Unasked' = Unasked
    BY <2>1, <2>2 DEF Unasked
  <2>5. QED BY <2>2, <2>3, <2>4, LookStep
<1>5. ASSUME NEW n \in Nodes, ResetConfirm(n) PROVE Supervisor!Next
  <2>1. /\ pc["reset"] = "confirm" /\ pc["enable"] = "none" /\ n \in todo
        /\ todo' = todo \ {n}
        /\ UNCHANGED <<pc, motorsEnabled, status>>
    BY <1>5 DEF ResetConfirm, Reset, OneTransition, controllerVars, hostVars
  <2>2. Round = "asking" /\ Round' = "asking"
    BY <2>1 DEF Round
  <2>3. Unasked = todo /\ Unasked' = todo'
    BY <2>1 DEF Unasked
  <2>4. Seen' = Seen
    BY <2>1 DEF Seen, IsOperationEnabled
  <2>5. CASE WaitReached(n, "enabled") /\ UNCHANGED ok
    <3>1. n \in Seen
      BY <2>5 DEF WaitReached, Seen, IsOperationEnabled
    <3>2. NoRefusal' = NoRefusal
      BY <2>1, <2>5 DEF NoRefusal
    <3>3. Supervisor!Accept(n)
      BY <2>1, <2>2, <2>3, <2>4, <3>1, <3>2 DEF Supervisor!Accept, Seen
    <3>4. QED BY <3>3 DEF Supervisor!Next
  <2>6. CASE ok' = [ok EXCEPT !["reset"] = FALSE]
    <3>1. NoRefusal' = FALSE
      BY <2>1, <2>6 DEF NoRefusal
    <3>2. Supervisor!Refuse(n)
      BY <2>1, <2>2, <2>3, <2>4, <3>1 DEF Supervisor!Refuse, Seen
    <3>3. QED BY <3>2 DEF Supervisor!Next
  <2>7. QED BY <1>5, <2>5, <2>6 DEF ResetConfirm
<1>6. ASSUME NEW n \in Nodes, EnableTask(n) PROVE Supervisor!Next
  BY <1>6, EnableTaskRound
<1>7. ASSUME NEW t \in Thread, Join(t) PROVE Supervisor!Next
  BY <1>7, JoinRound
<1>8. ASSUME NEW t \in Thread, Store(t) PROVE Supervisor!Next
  <2>1. /\ pc[t] = "store" /\ pc'[t] = "release"
        /\ \A u \in Thread \ {t} : pc[u] = "none" /\ pc'[u] = "none"
        /\ UNCHANGED <<ok, todo, status>> /\ motorsEnabled' = ok[t]
    BY <1>8 DEF Store, OneTransition, controllerVars, hostVars
  <2>2. Round = "asking" /\ Round' = "given"
    BY <2>1 DEF Round
  <2>3. Unasked = {} /\ Unasked' = {}
    BY <2>1 DEF Unasked
  <2>4. NoRefusal = ok[t] /\ NoRefusal' = NoRefusal
    BY <2>1 DEF NoRefusal, RestedVerdict
  <2>5. Seen' = Seen
    BY <2>1 DEF Seen, IsOperationEnabled
  <2>6. Supervisor!Verdict
    BY <2>1, <2>2, <2>3, <2>4, <2>5 DEF Supervisor!Verdict, Seen
  <2>7. QED BY <2>6 DEF Supervisor!Next
<1>9. ASSUME NEW t \in Thread, Release(t) PROVE Supervisor!Next
  <2>1. /\ pc[t] = "release" /\ pc'[t] = "none"
        /\ \A u \in Thread \ {t} : pc[u] = "none" /\ pc'[u] = "none"
        /\ UNCHANGED <<todo, status, motorsEnabled>>
    BY <1>9 DEF Release, OneTransition, controllerVars, hostVars
  <2>2. Round = "given" /\ Round' = "idle"
    BY <2>1 DEF Round
  <2>3. Unasked = {} /\ Unasked' = {}
    BY <2>1 DEF Unasked
  <2>4. NoRefusal' = TRUE
    <3>1. ok' = [ok EXCEPT ![t] = TRUE]
      BY <1>9 DEF Release
    <3>2. QED BY <2>1, <3>1 DEF NoRefusal, RestedVerdict
  <2>5. Seen' = Seen
    BY <2>1 DEF Seen, IsOperationEnabled
  <2>6. Supervisor!End
    BY <2>1, <2>2, <2>3, <2>4, <2>5 DEF Supervisor!End, Seen
  <2>7. QED BY <2>6 DEF Supervisor!Next
<1>10. QED BY <1>1, <1>2, <1>3, <1>4, <1>5, <1>6, <1>7, <1>8, <1>9, RoundSteps

LEMMA RefinementInit == Init => Supervisor!Init
<1> SUFFICES ASSUME Init PROVE Supervisor!Init
  OBVIOUS
<1>1. /\ pc["enable"] = "enabling" /\ pc["reset"] = "none"
      /\ \A n \in Nodes : task[n] = "begin" /\ status[n] = {}
  BY DEF Init, ControllerInit, Thread
<1>2. Round = "asking"
  BY <1>1 DEF Round, Thread
<1>3. Unasked = Nodes
  BY <1>1 DEF Unasked
<1>4. NoRefusal = TRUE
  BY <1>1 DEF NoRefusal
<1>5. Seen = {}
  <2>1. Decode({}) = "notReady"
    BY DEF Decode
  <2>2. QED BY <1>1, <2>1 DEF Seen, IsOperationEnabled
<1>6. QED BY <1>2, <1>3, <1>4, <1>5 DEF Supervisor!Init, Init, Seen

\* The command gate opens only after one thread, in one go, has seen every drive
\* in operation, and it moves at no other time.
THEOREM GateSupervised == Spec => ImplementsSupervisor
<1>1. Init => RestedVerdict
  BY DEF Init, RestedVerdict
<1>2. QED
  BY <1>1, RefinementInit, RefinementStep, RestedVerdictStep, TypeCorrect, AtMostOneTransition,
     PTL DEF Spec, ImplementsSupervisor, Supervisor!Spec
=============================================================================
