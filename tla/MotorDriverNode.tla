--------------------------- MODULE MotorDriverNode ---------------------------
(***************************************************************************)
(* MotorDriverNode (motor_driver/src/motor_driver_node.cpp) on top of the   *)
(* controller and the drives.  Two spinner threads run cmdCallback and      *)
(* controlLoop concurrently, one detached thread at a time enables or       *)
(* resets the motors, and the CAN and SYNC threads of the controller run    *)
(* beside them.                                                            *)
(*                                                                         *)
(* The build modelled is the shipped one: the traction and brake callbacks  *)
(* are commented out and both interlocks are off, so computeWantEnabled is  *)
(* always true and updateEnableState runs once, from the constructor.      *)
(***************************************************************************)
EXTENDS MotorController

CONSTANTS MaxDisturbances,  \* bound: how many mishaps the environment may cause
          Mishaps           \* which kinds of mishap it may cause

MishapKind == {"estop", "fault", "power", "bus"}

ASSUME DisturbanceAssumption == MaxDisturbances \in Nat
ASSUME MishapAssumption == Mishaps \subseteq MishapKind

VARIABLES motorsEnabled,  \* motors_enabled_
          transition,     \* transition_in_progress_
          cmdExpired,     \* now - last_cmd_time_ > cmd_timeout_sec
          resetDue,       \* now - last_reset_attempt_ > fault_reset_interval_sec
          cb,             \* the cmdCallback in progress
          loop,           \* the controlLoop in progress
          pc,             \* where each detached thread is
          ok,             \* its local result
          todo,           \* nodes left in the for-loop the reset thread is in
          disturbances    \* mishaps so far

nodeVars == <<motorsEnabled, transition, cmdExpired, resetDue, cb, loop, pc, ok, todo>>
vars == <<controllerVars, nodeVars, disturbances>>

\* A step of the controller or of the hardware leaves the node alone.
Beside == UNCHANGED <<nodeVars, disturbances>>

IdleCb == [pc |-> "idle", msg |-> 0, todo |-> {}]
IdleLoop == [pc |-> "idle", todo |-> {}, fault |-> FALSE, late |-> FALSE]

Thread == {"enable", "reset"}
ThreadPc == {"none", "reinit", "clear", "enabling", "confirm", "store", "release"}
CallbackState == [pc : {"idle", "stamp", "check", "apply"}, msg : Velocity, todo : SUBSET Nodes]
LoopState == [pc : {"idle", "zero", "feedback", "decide", "launch"}, todo : SUBSET Nodes,
              fault : BOOLEAN, late : BOOLEAN]
-----------------------------------------------------------------------------
(* cmdCallback. *)

\* A message with one velocity per motor is taken from the queue; shorter ones
\* are dropped at once.  The stamp about to be written is a two-word
\* ros::Time shared with controlLoop without a lock.
CmdArrives(v) ==
    /\ cb.pc = "idle"
    /\ cb' = [pc |-> "stamp", msg |-> v, todo |-> Nodes]
    /\ UNCHANGED <<controllerVars, motorsEnabled, transition, cmdExpired, resetDue,
                   loop, pc, ok, todo, disturbances>>

CmdStamp ==
    /\ cb.pc = "stamp"
    /\ cb' = [cb EXCEPT !.pc = "check"]
    /\ cmdExpired' = FALSE
    /\ UNCHANGED <<controllerVars, motorsEnabled, transition, resetDue,
                   loop, pc, ok, todo, disturbances>>

\* Mutant: the gate is not looked at.
CmdCheckNoGate ==
    /\ cb.pc = "check"
    /\ cb' = [cb EXCEPT !.pc = "apply"]
    /\ UNCHANGED <<controllerVars, motorsEnabled, transition, cmdExpired, resetDue,
                   loop, pc, ok, todo, disturbances>>

\* Not enabled: the command is dropped and the targets stay as they are.
CmdCheck ==
    /\ cb.pc = "check"
    /\ cb' = IF motorsEnabled THEN [cb EXCEPT !.pc = "apply"] ELSE IdleCb
    /\ UNCHANGED <<controllerVars, motorsEnabled, transition, cmdExpired, resetDue,
                   loop, pc, ok, todo, disturbances>>

\* One set_target_velocity per motor; the last one ends the callback.
CmdApply(n) ==
    /\ cb.pc = "apply" /\ n \in cb.todo
    /\ SetTargetVelocity(n, cb.msg)
    /\ cb' = IF cb.todo = {n} THEN IdleCb ELSE [cb EXCEPT !.todo = @ \ {n}]
    /\ UNCHANGED <<status, alarm, age, needsReinit, suppress, cfg, task, driveVars,
                   motorsEnabled, transition, cmdExpired, resetDue, loop, pc, ok, todo,
                   disturbances>>

CmdCallback == CmdStamp \/ CmdCheck \/ \E n \in Nodes : CmdApply(n)
-----------------------------------------------------------------------------
(* controlLoop. *)

\* What the loop can read of last_cmd_time_: while the callback is writing it,
\* the two words may be of different commands.
ReadExpired == IF cb.pc = "stamp" THEN BOOLEAN ELSE {cmdExpired}

\* The command timeout, looked at only while the motors count as enabled.
LoopStart ==
    /\ loop.pc = "idle"
    /\ \E expired \in ReadExpired :
         loop' = [pc |-> IF motorsEnabled /\ expired THEN "zero" ELSE "feedback",
                  todo |-> IF motorsEnabled /\ expired THEN Nodes ELSE {},
                  fault |-> FALSE, late |-> FALSE]
    /\ UNCHANGED <<controllerVars, motorsEnabled, transition, cmdExpired, resetDue,
                   cb, pc, ok, todo, disturbances>>

LoopZero(n) ==
    /\ loop.pc = "zero" /\ n \in loop.todo
    /\ SetTargetVelocity(n, 0)
    /\ loop' = [loop EXCEPT !.todo = @ \ {n},
                            !.pc = IF loop.todo = {n} THEN "feedback" ELSE "zero"]
    /\ UNCHANGED <<status, alarm, age, needsReinit, suppress, cfg, task, driveVars,
                   motorsEnabled, transition, cmdExpired, resetDue, cb, pc, ok, todo,
                   disturbances>>

\* Alarms and feedback ages of all motors; lost feedback asks for a reinit.
LoopFeedback ==
    /\ loop.pc = "feedback"
    /\ loop' = [pc |-> "decide", todo |-> {},
                fault |-> \E n \in Nodes : alarm[n],
                late |-> \E n \in Nodes : age[n] # "fresh"]
    /\ RequestReinit({n \in Nodes : age[n] = "lost"})
    /\ UNCHANGED <<target, status, alarm, age, suppress, cfg, task, driveVars,
                   motorsEnabled, transition, cmdExpired, resetDue, cb, pc, ok, todo,
                   disturbances>>

\* Mutant: only alarms and reboots ask for a reset (the code before its fix).
WantResetOnAlarm == (loop.fault \/ ReinitPending) /\ ~transition /\ resetDue

\* want_reset
WantReset ==
    /\ \/ loop.fault
       \/ ~loop.late /\ \E n \in Nodes : ~IsOperationEnabled(n)
       \/ ReinitPending
    /\ ~transition
    /\ resetDue

LoopDecide ==
    /\ loop.pc = "decide"
    /\ loop' = IF WantReset THEN [IdleLoop EXCEPT !.pc = "launch"] ELSE IdleLoop
    /\ UNCHANGED <<controllerVars, motorsEnabled, transition, cmdExpired, resetDue,
                   cb, pc, ok, todo, disturbances>>

\* transition_in_progress_.exchange(true): whoever finds it set does nothing.
LoopLaunch ==
    /\ loop.pc = "launch"
    /\ loop' = IdleLoop
    /\ IF transition
       THEN UNCHANGED <<transition, resetDue, pc, ok, todo>>
       ELSE /\ transition' = TRUE
            /\ resetDue' = FALSE
            /\ pc' = [pc EXCEPT !["reset"] = "reinit"]
            /\ ok' = [ok EXCEPT !["reset"] = TRUE]
            /\ todo' = Nodes
    /\ UNCHANGED <<controllerVars, motorsEnabled, cmdExpired, cb, disturbances>>

ControlLoop ==
    LoopStart \/ (\E n \in Nodes : LoopZero(n)) \/ LoopFeedback \/ LoopDecide \/ LoopLaunch
-----------------------------------------------------------------------------
(* reset_motor, run by the reset thread: three loops over the nodes with     *)
(* enable_motor between the second and the third.                           *)

Reset(phase) == pc["reset"] = phase

\* A node whose drive rebooted is configured again; the others are passed by.
\* The node leaves todo when its configure_node has ended.
ResetReinit(n) ==
    /\ Reset("reinit") /\ n \in todo /\ \A m \in Nodes : cfg[m] = "idle"
    /\ IF needsReinit[n]
       THEN ConfigureBegin(n)
       ELSE UNCHANGED controllerVars
    /\ todo' = todo \ {n}
    /\ UNCHANGED <<motorsEnabled, transition, cmdExpired, resetDue, cb, loop, pc, ok, disturbances>>

ResetConfigure(n) ==
    /\ ConfigureReset(n) \/ ConfigureMap(n) \/ ConfigureStart(n)
    /\ Beside

\* Mutant: the fault reset goes to every node.
ResetClearAll(n) ==
    /\ Reset("clear") /\ n \in todo /\ \A m \in Nodes : cfg[m] = "idle"
    /\ cfg' = [cfg EXCEPT ![n] = "faultReset"]
    /\ todo' = todo \ {n}
    /\ UNCHANGED <<hostVars, task, driveVars,
                   motorsEnabled, transition, cmdExpired, resetDue, cb, loop, pc, ok, disturbances>>

\* A node believed enabled is passed by.  The status is looked at once, before the
\* first of the two fault resets.
ResetClear(n) ==
    /\ Reset("clear") /\ n \in todo /\ \A m \in Nodes : cfg[m] = "idle"
    /\ cfg' = [cfg EXCEPT ![n] = IF IsOperationEnabled(n) THEN "idle" ELSE "faultReset"]
    /\ todo' = todo \ {n}
    /\ UNCHANGED <<hostVars, task, driveVars,
                   motorsEnabled, transition, cmdExpired, resetDue, cb, loop, pc, ok, disturbances>>

\* FAULT_RESET, and once more 100 ms later.
ResetFault(n) ==
    /\ cfg[n] \in FaultResetStep
    /\ ChangeMotorState(n, "faultReset")
    /\ cfg' = [cfg EXCEPT ![n] = IF @ = "faultReset" THEN "faultResetAgain" ELSE "idle"]
    /\ UNCHANGED <<hostVars, task, power, comm, vel, boot, sto, bus>>
    /\ Beside

\* Every node must be seen enabled once enable_motor is through.
ResetConfirm(n) ==
    /\ Reset("confirm") /\ n \in todo
    /\ \/ WaitReached(n, "enabled") /\ UNCHANGED ok
       \/ WaitFailed(n, "enabled") /\ ok' = [ok EXCEPT !["reset"] = FALSE]
    /\ todo' = todo \ {n}
    /\ UNCHANGED <<controllerVars, motorsEnabled, transition, cmdExpired, resetDue,
                   cb, loop, pc, disturbances>>

\* From one loop to the next; enable_motor starts a task for every node.
ResetAdvance ==
    /\ pc["reset"] \in {"reinit", "clear", "confirm"} /\ todo = {}
    /\ \A n \in Nodes : cfg[n] = "idle"
    /\ pc' = [pc EXCEPT !["reset"] =
                 [reinit |-> "clear", clear |-> "enabling", confirm |-> "store"][@]]
    /\ todo' = IF Reset("reinit") THEN Nodes ELSE {}
    /\ task' = IF Reset("clear") THEN [n \in Nodes |-> "begin"] ELSE task
    /\ UNCHANGED <<hostVars, cfg, driveVars, motorsEnabled, transition, cmdExpired,
                   resetDue, cb, loop, ok, disturbances>>
-----------------------------------------------------------------------------
(* enable_motor inside a thread, and how both threads end. *)

EnableTask(n) ==
    /\ TaskBegin(n) \/ TaskClear(n) \/ TaskSend(n) \/ TaskWait(n)
    /\ Beside

\* Mutant: one motor that reached operation is enough.
JoinAny(t) ==
    /\ pc[t] = "enabling" /\ TasksDone
    /\ task' = [n \in Nodes |-> "none"]
    /\ pc' = [pc EXCEPT ![t] = IF t = "enable" THEN "store" ELSE "confirm"]
    /\ ok' = [ok EXCEPT ![t] = IF t = "enable" THEN \E n \in Nodes : task[n] = "ok" ELSE @]
    /\ todo' = IF t = "reset" THEN Nodes ELSE todo
    /\ UNCHANGED <<hostVars, cfg, driveVars, motorsEnabled, transition, cmdExpired,
                   resetDue, cb, loop, disturbances>>

\* enable_motor returns.  Its result is what the enable thread stores; the
\* reset thread drops it and goes by the states it then waits for.
Join(t) ==
    /\ pc[t] = "enabling" /\ TasksDone
    /\ task' = [n \in Nodes |-> "none"]
    /\ pc' = [pc EXCEPT ![t] = IF t = "enable" THEN "store" ELSE "confirm"]
    /\ ok' = [ok EXCEPT ![t] = IF t = "enable" THEN \A n \in Nodes : task[n] = "ok" ELSE @]
    /\ todo' = IF t = "reset" THEN Nodes ELSE todo
    /\ UNCHANGED <<hostVars, cfg, driveVars, motorsEnabled, transition, cmdExpired,
                   resetDue, cb, loop, disturbances>>

\* Mutant: the flag is lowered before the thread is through.
StoreAndRelease(t) ==
    /\ pc[t] = "store"
    /\ motorsEnabled' = ok[t]
    /\ transition' = FALSE
    /\ pc' = [pc EXCEPT ![t] = "release"]
    /\ UNCHANGED <<controllerVars, cmdExpired, resetDue, cb, loop, ok, todo, disturbances>>

Store(t) ==
    /\ pc[t] = "store"
    /\ motorsEnabled' = ok[t]
    /\ pc' = [pc EXCEPT ![t] = "release"]
    /\ UNCHANGED <<controllerVars, transition, cmdExpired, resetDue, cb, loop, ok, todo,
                   disturbances>>

Release(t) ==
    /\ pc[t] = "release"
    /\ transition' = FALSE
    /\ pc' = [pc EXCEPT ![t] = "none"]
    /\ ok' = [ok EXCEPT ![t] = TRUE]
    /\ UNCHANGED <<controllerVars, motorsEnabled, cmdExpired, resetDue, cb, loop, todo,
                   disturbances>>

Worker ==
    \/ \E n \in Nodes : \/ ResetReinit(n) \/ ResetConfigure(n) \/ ResetClear(n)
                        \/ ResetFault(n) \/ ResetConfirm(n) \/ EnableTask(n)
    \/ ResetAdvance
    \/ \E t \in Thread : Join(t) \/ Store(t) \/ Release(t)
-----------------------------------------------------------------------------
(* The controller's other threads, the clock and the environment. *)

Sync == /\ \E n \in Nodes : SyncLoop(n)
        /\ Beside

CanCallback(n) ==
    /\ CanBootup(n) \/ CanTpdo1(n) \/ CanTpdo2(n) \/ CanTpdo3(n)
    /\ Beside

Deadline(n) ==
    /\ FeedbackAges(n) \/ SuppressEnds(n)
    /\ Beside

CommandAges ==
    /\ ~cmdExpired
    /\ cmdExpired' = TRUE
    /\ UNCHANGED <<controllerVars, motorsEnabled, transition, resetDue, cb, loop, pc, ok, todo,
                   disturbances>>

ResetBecomesDue ==
    /\ ~resetDue
    /\ resetDue' = TRUE
    /\ UNCHANGED <<controllerVars, motorsEnabled, transition, cmdExpired, cb, loop, pc, ok, todo,
                   disturbances>>

Mishap(kind) ==
    /\ kind \in Mishaps
    /\ disturbances < MaxDisturbances
    /\ disturbances' = disturbances + 1
    /\ UNCHANGED nodeVars

Disturb ==
    \/ Mishap("estop") /\ EstopPressed
    \/ Mishap("bus") /\ BusLost
    \/ \E n \in Nodes : \/ Mishap("fault") /\ DriveFaults(n)
                        \/ Mishap("power") /\ PowerLost(n)

Repair ==
    /\ EstopReleased \/ BusBack \/ \E n \in Nodes : PowerBack(n)
    /\ Beside
-----------------------------------------------------------------------------
\* The constructor has run: updateEnableState has set the flag and started the
\* enable thread, which is inside enable_motor; the spinner starts now.  A drive
\* without power at the start is a mishap like one that loses it later.
Init ==
    /\ ControllerInit
    /\ task = [n \in Nodes |-> "begin"]
    /\ motorsEnabled = FALSE
    /\ transition = TRUE
    /\ cmdExpired = FALSE
    /\ resetDue = TRUE
    /\ cb = IdleCb
    /\ loop = IdleLoop
    /\ pc = [t \in Thread |-> IF t = "enable" THEN "enabling" ELSE "none"]
    /\ ok = [t \in Thread |-> TRUE]
    /\ todo = {}
    /\ disturbances = Cardinality({n \in Nodes : ~power[n]})
    /\ disturbances \in 0..MaxDisturbances
    /\ (\E n \in Nodes : ~power[n]) => "power" \in Mishaps

Next ==
    \/ \E v \in Commands : CmdArrives(v)
    \/ CmdCallback
    \/ ControlLoop
    \/ Worker
    \/ Sync
    \/ \E n \in Nodes : CanCallback(n) \/ Deadline(n)
    \/ CommandAges
    \/ ResetBecomesDue
    \/ Disturb
    \/ Repair

Spec == Init /\ [][Next]_vars

\* The fairness below is owed by the operating system (threads are scheduled,
\* timers fire, deadlines pass) and by a drive that can send PDOs (one of each on
\* every SYNC).  Commands, mishaps and repairs are owed by nobody.

RecoveryFairness ==
    /\ WF_vars(ControlLoop)
    /\ WF_vars(Worker)
    /\ WF_vars(ResetBecomesDue)
    /\ \A n \in Nodes : /\ WF_vars(CanBootup(n) /\ Beside)
                       /\ WF_vars(CanTpdo1(n) /\ Beside)
                       /\ WF_vars(CanTpdo2(n) /\ Beside)
                       /\ WF_vars(CanTpdo3(n) /\ Beside)
                       /\ WF_vars(FeedbackAges(n) /\ Beside)
                       /\ WF_vars(SuppressEnds(n) /\ Beside)

RecoverySpec == Spec /\ RecoveryFairness
-----------------------------------------------------------------------------
TypeOK ==
    /\ ControllerTypeOK
    /\ motorsEnabled \in BOOLEAN
    /\ transition \in BOOLEAN
    /\ cmdExpired \in BOOLEAN
    /\ resetDue \in BOOLEAN
    /\ cb \in CallbackState
    /\ loop \in LoopState
    /\ pc \in [Thread -> ThreadPc]
    /\ ok \in [Thread -> BOOLEAN]
    /\ todo \in SUBSET Nodes
    /\ disturbances \in 0..MaxDisturbances
-----------------------------------------------------------------------------
(* Safety. *)

\* At most one thread drives the motors through their states, and
\* transition_in_progress_ is up exactly as long as one does, although the
\* constructor starts the one and controlLoop the other.
OneTransition ==
    /\ \A t, u \in Thread : pc[t] # "none" /\ pc[u] # "none" => t = u
    /\ transition <=> \E t \in Thread : pc[t] # "none"

\* While configure_node works on a node, neither the boot-up frame it provokes
\* nor the feedback gap it causes can book the node for another round
\* (motor_controller.cpp:78-82).
ConfigureShielded ==
    \A n \in Nodes : cfg[n] \in ConfigureStep => suppress[n] /\ ~needsReinit[n]

\* Once the first enable is over, no thread of the host throws a drive out of
\* operation that works and that the host has seen working: the recovery of one
\* motor never cuts off the other (motor_controller.cpp:243-246, 357-359).  It
\* holds as long as the bus does.  The status is looked at before the two fault
\* resets and before the six controlwords of enable_motor, not in between, so a
\* drive that a returning bus brings back in between is thrown out after all.
HealthyUntouched ==
    [][\A n \in Nodes :
          /\ drv[n] = "enabled" /\ IsOperationEnabled(n) /\ pc["enable"] = "none"
          /\ ~sto' /\ power'[n] /\ drv'[n] # "fault"
          => drv'[n] = "enabled"]_vars

\* Commands that arrive while the first enable is under way leave no trace: the
\* drives come into operation standing still, whatever cmdCallback interleaves.
\* (On a CAN interface that was never opened nothing can be said of the drives.)
FirstEnableAtRest ==
    pc["enable"] \in {"enabling", "store"} =>
        /\ cb.pc # "apply"
        /\ \A n \in Nodes : target[n] = 0 /\ (bus # "closed" => vel[n] = 0)

\* The gate of the abstract specification is motors_enabled_.  The enable thread
\* asks through the tasks of enable_motor, the reset thread through its last loop.
Round == CASE \E t \in Thread : pc[t] = "release" -> "given"
           [] ~(\E t \in Thread : pc[t] = "release") ->
                IF \E t \in Thread : pc[t] # "none" THEN "asking" ELSE "idle"
Unasked == CASE pc["enable"] = "enabling" -> {n \in Nodes : task[n] \notin {"ok", "failed"}}
             [] pc["reset"] \in {"reinit", "clear", "enabling"} -> Nodes
             [] pc["reset"] = "confirm" -> todo
             [] OTHER -> {}
NoRefusal == IF pc["enable"] = "enabling" THEN \A n \in Nodes : task[n] # "failed"
             ELSE ok["enable"] /\ ok["reset"]

Supervisor == INSTANCE EnableSupervisor
    WITH gate <- motorsEnabled, round <- Round, waiting <- Unasked, good <- NoRefusal,
         seen <- {n \in Nodes : IsOperationEnabled(n)}

\* Commands are let through only after one thread, in one go, has seen every
\* drive in operation (motor_driver_node.cpp:162-164, 299-300, 418).
ImplementsSupervisor == Supervisor!Spec
\* For commands, timeouts and targets the node is the CommandPath that the drive chain is
\* made of: no thread touches a target, or the gate, in any other way.
Path == INSTANCE CommandPath
    WITH gate <- motorsEnabled, expired <- cmdExpired,
         zeroing <- IF loop.pc = "zero" THEN loop.todo ELSE {}
ImplementsCommandPath == Path!PathSpec
-----------------------------------------------------------------------------
(* Liveness. *)

Healthy == ~sto /\ bus = "up" /\ \A n \in Nodes : power[n]
Running == motorsEnabled /\ \A n \in Nodes : drv[n] = "enabled"

\* A drive that came back in the middle of its configure_node has taken the end of
\* it only: TPDO2 is sent, but not everything is mapped.
HalfConfigured(n) ==
    cfg[n] \notin ConfigureStep /\ {"tpdo2", "operational"} \subseteq comm[n] /\ comm[n] # Setup

\* Whatever happened to the drives (E-stop, fault, power cycle with or without
\* a boot-up frame received), once the hardware is in order for good the motors
\* come back into operation and commands are accepted, without a restart of the
\* node (motor_driver_node.cpp:261-268), but for a drive left half configured.
RecoversUnlessHalved ==
    <>[]Healthy => <>[](Running \/ \E n \in Nodes : HalfConfigured(n))

\* Configuring a node provokes a boot-up frame and a feedback gap of its own.
\* They never make the host configure the node for ever
\* (motor_controller.cpp:78-82).
ReinitQuiesces == <>[]Healthy => <>[]~ReinitPending

\* Every enable and reset ends, even against a drive that never answers, so that
\* the next one can be tried (motor_driver_node.cpp:177, 307).
TransitionEnds == transition ~> ~transition
-----------------------------------------------------------------------------
(* What the repository says and the code does not keep. *)

\* motor_driver_node.cpp:241-245, 265-268: a drive that lost its mapping, its
\* boot-up frame missed, is caught by the feedback timeout, so that the motors
\* recover.  One that boots between two writes of a configure_node is not: its
\* TPDO2 satisfies the timeout and no write is confirmed.
Recovers == <>[]Healthy => <>[]Running

\* motor_driver_node.cpp:89: while the motors are not enabled the velocity stays 0;
\* motor_driver_node.cpp:162: motors_enabled_ reflects whether OPERATION_ENABLED was
\* really reached.  The code keeps neither.  A bus outage during the last waits of a
\* reset shuts the gate on a drive that follows after all, with a target that was
\* there before: nothing is wrong any more, no thread is at work and none is wanted,
\* the target goes on being sent, and no command or timeout can reach it.
NothingWanted ==
    ~transition /\ ~ReinitPending
    /\ \A n \in Nodes : IsOperationEnabled(n) /\ ~alarm[n] /\ age[n] = "fresh"
ShutGateHoldsZero ==
    ~motorsEnabled /\ NothingWanted /\ Healthy /\ (\A n \in Nodes : drv[n] = "enabled")
        => \A n \in Nodes : target[n] = 0
=============================================================================
