-------------------------- MODULE CommandPathProofs --------------------------
(***************************************************************************)
(* MotorDriverNode implements CommandPath: whatever the threads behind the  *)
(* gate do, a command and the command timeout take the way described there. *)
(***************************************************************************)
EXTENDS MotorDriverNodeProofs

Zeroing == IF loop.pc = "zero" THEN loop.todo ELSE {}
Seen == <<target, motorsEnabled, cmdExpired, cb, loop>>

\* The control loop: a timeout seen, a motor stopped, or neither.
LEMMA LoopOnPath ==
    ASSUME TypeOK, ControlLoop
    PROVE  Path!PathNext \/ UNCHANGED Path!pathVars
<1> USE DEF Path!pathVars
<1>1. CASE LoopStart
  <2>1. /\ loop.pc = "idle" /\ UNCHANGED <<target, motorsEnabled, cmdExpired, cb>>
        /\ \E expired \in ReadExpired :
             loop' = [pc |-> IF motorsEnabled /\ expired THEN "zero" ELSE "feedback",
                      todo |-> IF motorsEnabled /\ expired THEN Nodes ELSE {},
                      fault |-> FALSE, late |-> FALSE]
    BY <1>1 DEF LoopStart, controllerVars, hostVars
  <2>2. PICK expired \in ReadExpired :
             loop' = [pc |-> IF motorsEnabled /\ expired THEN "zero" ELSE "feedback",
                      todo |-> IF motorsEnabled /\ expired THEN Nodes ELSE {},
                      fault |-> FALSE, late |-> FALSE]
    BY <2>1
  <2>3. CASE motorsEnabled /\ expired
    <3>1. cmdExpired \/ cb.pc = "stamp"
      BY <2>3 DEF ReadExpired
    <3>2. Path!TimeoutSeen
      BY <2>1, <2>2, <2>3, <3>1 DEF Path!TimeoutSeen
    <3> QED
      BY <3>2 DEF Path!PathNext, Path!Stops
  <2>4. CASE ~(motorsEnabled /\ expired)
    BY <2>1, <2>2, <2>4
  <2> QED
    BY <2>3, <2>4
<1>2. ASSUME NEW n \in Nodes, LoopZero(n) PROVE Path!PathNext
  <2>1. /\ loop.pc = "zero" /\ n \in loop.todo
        /\ target' = [target EXCEPT ![n] = 0]
        /\ loop' = [loop EXCEPT !.todo = @ \ {n}, !.pc = IF loop.todo = {n} THEN "feedback" ELSE "zero"]
        /\ UNCHANGED <<motorsEnabled, cmdExpired, cb>>
    BY <1>2 DEF LoopZero, SetTargetVelocity
  <2>2. Zeroing = loop.todo /\ Zeroing' = loop.todo \ {n}
    BY <2>1 DEF Zeroing, TypeOK, LoopState
  <2>3. Path!Zero(n)
    BY <2>1, <2>2 DEF Path!Zero, Zeroing
  <2> QED
    BY <2>3 DEF Path!PathNext, Path!Stops
<1>3. CASE LoopFeedback \/ LoopDecide \/ LoopLaunch
  <2>1. /\ loop.pc # "zero" /\ loop'.pc # "zero"
        /\ UNCHANGED <<target, motorsEnabled, cmdExpired, cb>>
    BY <1>3 DEF LoopFeedback, LoopDecide, LoopLaunch, IdleLoop, controllerVars, hostVars
  <2> QED
    BY <2>1
<1> QED
  BY <1>1, <1>2, <1>3 DEF ControlLoop

\* The callback takes the same steps.
LEMMA CallbackOnPath ==
    ASSUME TypeOK, CmdCallback \/ \E v \in Commands : CmdArrives(v)
    PROVE  Path!PathNext
<1>1. ASSUME NEW v \in Commands, CmdArrives(v) PROVE Path!PathNext
  <2>1. Path!Arrives(v)
    BY <1>1 DEF CmdArrives, Path!Arrives, controllerVars, hostVars
  <2> QED
    BY <2>1 DEF Path!PathNext
<1>2. CASE CmdStamp
  <2>1. Path!Stamp
    BY <1>2 DEF CmdStamp, Path!Stamp, controllerVars, hostVars
  <2> QED
    BY <2>1 DEF Path!PathNext, Path!Callback
<1>3. CASE CmdCheck
  <2>1. Path!Check
    BY <1>3 DEF CmdCheck, Path!Check, IdleCb, Path!Waits, controllerVars, hostVars
  <2> QED
    BY <2>1 DEF Path!PathNext, Path!Callback
<1>4. ASSUME NEW n \in Nodes, CmdApply(n) PROVE Path!PathNext
  <2>1. Path!Apply(n)
    BY <1>4 DEF CmdApply, SetTargetVelocity, Path!Apply, IdleCb, Path!Waits
  <2> QED
    BY <2>1 DEF Path!PathNext, Path!Callback
<1> QED
  BY <1>1, <1>2, <1>3, <1>4 DEF CmdCallback

\* The threads that enable and reset: they end with a new gate, forget a command, or are
\* not seen.
LEMMA WorkerOnPath ==
    ASSUME TypeOK, Worker
    PROVE  Path!PathNext \/ UNCHANGED Path!pathVars
<1>1. ASSUME NEW n \in Nodes, ResetReinit(n) PROVE Path!PathNext \/ UNCHANGED Path!pathVars
  <2>1. /\ UNCHANGED <<motorsEnabled, cmdExpired, cb, loop>>
        /\ target' = [target EXCEPT ![n] = 0] \/ UNCHANGED target
    BY <1>1 DEF ResetReinit, ConfigureBegin, controllerVars, hostVars
  <2>2. CASE target' = [target EXCEPT ![n] = 0]
    <3>1. Path!Forget(n)
      BY <2>1, <2>2 DEF Path!Forget
    <3> QED
      BY <3>1 DEF Path!PathNext
  <2>3. CASE UNCHANGED target
    BY <2>1, <2>3 DEF Path!pathVars
  <2> QED
    BY <2>1, <2>2, <2>3
<1>2. ASSUME NEW n \in Nodes, ResetConfigure(n) PROVE UNCHANGED Seen
  BY <1>2 DEF ResetConfigure, ConfigureReset, ConfigureMap, ConfigureStart, Beside, nodeVars, hostVars, Seen
<1>3. ASSUME NEW n \in Nodes, ResetClear(n) \/ ResetFault(n) \/ ResetConfirm(n)
      PROVE  UNCHANGED Seen
  BY <1>3 DEF ResetClear, ResetFault, ResetConfirm, Beside, nodeVars, controllerVars, hostVars, Seen
<1>4. ASSUME NEW n \in Nodes, EnableTask(n) PROVE UNCHANGED Seen
  BY <1>4 DEF EnableTask, TaskBegin, TaskClear, TaskSend, TaskWait, Beside, nodeVars, hostVars, Seen
<1>5. CASE ResetAdvance
  BY <1>5 DEF ResetAdvance, hostVars, Seen, Path!pathVars
<1>6. ASSUME NEW t \in Thread, Join(t) \/ Release(t) PROVE UNCHANGED Seen
  BY <1>6 DEF Join, Release, controllerVars, hostVars, Seen
<1>7. ASSUME NEW t \in Thread, Store(t) PROVE Path!PathNext
  <2>1. ok[t] \in BOOLEAN
    BY DEF TypeOK
  <2>2. Path!GateSet(ok[t])
    BY <1>7 DEF Store, controllerVars, hostVars, Path!GateSet
  <2> QED
    BY <2>1, <2>2 DEF Path!PathNext
<1>8. UNCHANGED Seen => UNCHANGED Path!pathVars
  BY DEF Seen, Path!pathVars
<1> QED
  BY <1>1, <1>2, <1>3, <1>4, <1>5, <1>6, <1>7, <1>8 DEF Worker

LEMMA StepOnPath == TypeOK /\ [Next]_vars => [Path!PathNext]_(Path!pathVars)
<1> SUFFICES ASSUME TypeOK, [Next]_vars
             PROVE  Path!PathNext \/ UNCHANGED Path!pathVars
  OBVIOUS
<1>1. CASE CmdCallback \/ \E v \in Commands : CmdArrives(v)
  BY <1>1, CallbackOnPath
<1>2. CASE ControlLoop
  BY <1>2, LoopOnPath
<1>3. CASE Worker
  BY <1>3, WorkerOnPath
<1>4. CASE CommandAges
  <2>1. Path!Expires
    BY <1>4 DEF CommandAges, controllerVars, hostVars, Path!Expires
  <2> QED
    BY <2>1 DEF Path!PathNext
<1>5. CASE Sync \/ ResetBecomesDue \/ UNCHANGED vars
  <2>1. UNCHANGED Seen
    BY <1>5 DEF Sync, SyncLoop, Beside, nodeVars, hostVars, ResetBecomesDue, controllerVars, vars, Seen
  <2> QED
    BY <2>1 DEF Seen, Path!pathVars
<1>6. ASSUME NEW n \in Nodes, CanCallback(n) \/ Deadline(n) PROVE UNCHANGED Seen
  BY <1>6 DEF CanCallback, CanBootup, CanTpdo1, CanTpdo2, CanTpdo3, Deadline, FeedbackAges,
     SuppressEnds, Beside, nodeVars, Seen
<1>7. CASE Disturb \/ Repair
  <2>1. UNCHANGED Seen
    BY <1>7 DEF Disturb, Repair, Mishap, Beside, nodeVars, hostVars, EstopPressed, EstopReleased,
       BusLost, BusBack, DriveFaults, PowerLost, PowerBack, Seen
  <2> QED
    BY <2>1 DEF Seen, Path!pathVars
<1>8. UNCHANGED Seen => UNCHANGED Path!pathVars
  BY DEF Seen, Path!pathVars
<1> QED
  BY <1>1, <1>2, <1>3, <1>4, <1>5, <1>6, <1>7, <1>8 DEF Next

LEMMA InitOnPath == Init => Path!PathInit
  BY DEF Init, ControllerInit, IdleCb, IdleLoop, Path!PathInit, Path!Waits

\* The targets, the gate and the command timeout of the node change only as CommandPath
\* says, for every number of motors and commands (motor_driver_node.cpp:80-97, 188-195).
THEOREM NodeImplementsCommandPath == Spec => ImplementsCommandPath
  BY InitOnPath, StepOnPath, TypeCorrect, PTL DEF Spec, ImplementsCommandPath, Path!PathSpec
=============================================================================
