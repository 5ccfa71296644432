--------------------------- MODULE MotorController ---------------------------
(***************************************************************************)
(* MotorController (motor_driver/src/motor_controller.cpp) together with    *)
(* the drives it talks to over CAN.  The variables of the first group are   *)
(* the MotorState of every node; those of the second are the steps its      *)
(* blocking operations have reached; those of the third are the hardware.   *)
(*                                                                         *)
(* Time is abstract.  A deadline is a flag, or a level, that an action      *)
(* raises some time after it was armed; the guards of those actions are the *)
(* timing facts relied on, and each one is named.                          *)
(***************************************************************************)
EXTENDS Integers, FiniteSets, Cia402

CONSTANTS Nodes,               \* drive_motor_ids
          Commands             \* the velocities a command may carry

ASSUME NodesAssumption == Nodes # {}
ASSUME CommandsAssumption == Commands \subseteq Int

\* What a target or a setpoint may be: a commanded velocity, or 0 to stand still.
Velocity == Commands \cup {0}

VARIABLES target,       \* atomic_target_velocity_rpm
          status,       \* status.status_flags, the last statusword received
          alarm,        \* error_code # 0, from the last TPDO3 received
          age,          \* how old last_feedback_time is
          needsReinit,  \* needs_reinit
          suppress      \* now < reinit_suppress_until

VARIABLES cfg,          \* the step reset_motor has reached at the node: of
                        \* configure_node, or of the fault reset
          task          \* the step the asynchronous task of enable_motor has reached

VARIABLES power,        \* the drive has logic power
          drv,          \* the CiA 402 state of the drive
          comm,         \* what configure_node has set up in the drive
          vel,          \* the velocity setpoint the drive holds
          boot,         \* a boot-up frame of the drive is under way
          sto,          \* the E-stop circuit is open: no traction power
          bus           \* the CAN bus: carries frames, fails, or was never opened

hostVars  == <<target, status, alarm, age, needsReinit, suppress>>
driveVars == <<power, drv, comm, vel, boot, sto, bus>>
controllerVars == <<hostVars, cfg, task, driveVars>>

\* feedback_timeout_sec (0.5 s) separates "fresh" from "late", and
\* reinit_feedback_loss_sec (3 s) separates "late" from "lost".
Age == {"fresh", "late", "lost"}

\* What a drive needs before PDOs flow: the receive PDOs (RPDO1 and RPDO2) and
\* TPDO1, TPDO2 mapped (TPDO3 is mapped right after TPDO2 and goes with it),
\* and the NMT start that makes them operational.
Setup == {"rpdo", "tpdo1", "tpdo2", "operational"}

BusState == {"up", "down", "closed"}

ConfigureStep  == {"nmtReset", "rpdo", "tpdo1", "tpdo2", "start"}
FaultResetStep == {"faultReset", "faultResetAgain"}
CfgStep  == {"idle"} \cup ConfigureStep \cup FaultResetStep
TaskStep == {"none", "begin", "clear", "shutdown", "waitReady", "switchOn", "waitSwitchedOn",
             "enableOperation", "waitEnabled", "ok", "failed"}

Hears(n)     == power[n] /\ bus = "up"
TakesRpdo(n) == Hears(n) /\ {"rpdo", "operational"} \subseteq comm[n]
SendsTpdo(n, pdo) == Hears(n) /\ {pdo, "operational"} \subseteq comm[n]

\* is_operation_enabled reads the cached statusword, never the drive.
IsOperationEnabled(n) == Decode(status[n]) = "enabled"

\* change_motor_state: RPDO1 with controlword cw.  A drive that cannot take the
\* PDO misses it.
ChangeMotorState(n, cw) ==
    drv' = [drv EXCEPT ![n] = IF TakesRpdo(n) THEN Respond(@, cw, ~sto) ELSE @]

\* Mutant: the suppress window is not looked at.
RequestReinitAlways(S) == needsReinit' = [n \in Nodes |-> needsReinit[n] \/ n \in S]

\* request_reinit: ignored inside the suppress window.
RequestReinit(S) ==
    needsReinit' = [n \in Nodes |-> needsReinit[n] \/ (n \in S /\ ~suppress[n])]

\* Mutant: a gear ratio applied where the caller has applied it already.
SetTargetVelocityScaled(n, v) == target' = [target EXCEPT ![n] = 2 * v]

\* set_target_velocity.  The mirrored sign of motor 2 is left out: no property
\* compares the speeds of two motors but for being zero.
SetTargetVelocity(n, v) == target' = [target EXCEPT ![n] = v]

ReinitPending == \E n \in Nodes : needsReinit[n]
-----------------------------------------------------------------------------
(* configure_node, step by step. *)

\* Arm the window, drop the request, forget the statusword and the old command.
ConfigureBegin(n) ==
    /\ cfg[n] = "idle"
    /\ cfg' = [cfg EXCEPT ![n] = "nmtReset"]
    /\ suppress' = [suppress EXCEPT ![n] = TRUE]
    /\ needsReinit' = [needsReinit EXCEPT ![n] = FALSE]
    /\ status' = [status EXCEPT ![n] = {}]
    /\ target' = [target EXCEPT ![n] = 0]
    /\ UNCHANGED <<alarm, age, task, driveVars>>

\* NMT reset communication: the drive forgets its mapping and boots up again.
ConfigureReset(n) ==
    /\ cfg[n] = "nmtReset"
    /\ cfg' = [cfg EXCEPT ![n] = "rpdo"]
    /\ comm' = [comm EXCEPT ![n] = IF Hears(n) THEN {} ELSE @]
    /\ boot' = [boot EXCEPT ![n] = @ \/ Hears(n)]
    /\ UNCHANGED <<hostVars, task, power, drv, vel, sto, bus>>

\* setup_pdo_mapping writes SDOs and awaits no answer: a drive that is away
\* misses the write and nobody notices.
ConfigureMap(n) ==
    /\ cfg[n] \in {"rpdo", "tpdo1", "tpdo2"}
    /\ comm' = [comm EXCEPT ![n] = IF Hears(n) THEN @ \cup {cfg[n]} ELSE @]
    /\ cfg' = [cfg EXCEPT ![n] = [rpdo |-> "tpdo1", tpdo1 |-> "tpdo2", tpdo2 |-> "start"][@]]
    /\ UNCHANGED <<hostVars, task, power, drv, vel, boot, sto, bus>>

\* NMT start, and the feedback deadline starts again whether or not it arrived.
ConfigureStart(n) ==
    /\ cfg[n] = "start"
    /\ cfg' = [cfg EXCEPT ![n] = "idle"]
    /\ comm' = [comm EXCEPT ![n] = IF Hears(n) THEN @ \cup {"operational"} ELSE @]
    /\ age' = [age EXCEPT ![n] = "fresh"]
    /\ UNCHANGED <<target, status, alarm, needsReinit, suppress, task,
                   power, drv, vel, boot, sto, bus>>
-----------------------------------------------------------------------------
(* enable_motor: one asynchronous task per node. *)

\* Timing fact: a wait lasts 2 s and a drive that can report does so on every
\* SYNC (20 ms), so a wait only times out on a statusword that is up to date
\* or cannot be brought up to date.
StatusSettled(n) == status[n] = Statusword(drv[n]) \/ ~SendsTpdo(n, "tpdo1")

\* Mutant: a wait without a timeout.
WaitFailedOnFault(n, goal) == Decode(status[n]) # goal /\ Decode(status[n]) = "fault"

\* wait_for_state: reached, or given up on a fault or on the timeout.
WaitReached(n, goal) == Decode(status[n]) = goal
WaitFailed(n, goal)  == /\ Decode(status[n]) # goal
                        /\ Decode(status[n]) = "fault" \/ StatusSettled(n)

SetTask(n, step) == task' = [task EXCEPT ![n] = step]

\* A drive that is enabled already is left alone.
TaskBegin(n) ==
    /\ task[n] = "begin"
    /\ SetTask(n, IF IsOperationEnabled(n) THEN "ok" ELSE "clear")
    /\ UNCHANGED <<hostVars, cfg, driveVars>>

TaskClear(n) ==
    /\ task[n] = "clear"
    /\ SetTask(n, "shutdown")
    /\ IF Decode(status[n]) = "fault" THEN ChangeMotorState(n, "faultReset") ELSE UNCHANGED drv
    /\ UNCHANGED <<hostVars, cfg, power, comm, vel, boot, sto, bus>>

\* Each of these controlwords goes out twice, 100 ms apart.  A drive that has taken
\* the first does nothing on the second, and if it has only heard the second,
\* that one is the sending; so one stands for both.
TaskSend(n) ==
    /\ task[n] \in {"shutdown", "switchOn", "enableOperation"}
    /\ ChangeMotorState(n, task[n])
    /\ SetTask(n, [shutdown |-> "waitReady", switchOn |-> "waitSwitchedOn",
                   enableOperation |-> "waitEnabled"][task[n]])
    /\ UNCHANGED <<hostVars, cfg, power, comm, vel, boot, sto, bus>>

TaskWait(n) ==
    /\ task[n] \in {"waitReady", "waitSwitchedOn", "waitEnabled"}
    /\ LET goal == [waitReady |-> "ready", waitSwitchedOn |-> "switchedOn",
                    waitEnabled |-> "enabled"][task[n]]
           next == [waitReady |-> "switchOn", waitSwitchedOn |-> "enableOperation",
                    waitEnabled |-> "ok"][task[n]]
       IN  \/ WaitReached(n, goal) /\ SetTask(n, next)
           \/ WaitFailed(n, goal) /\ SetTask(n, "failed")
    /\ UNCHANGED <<hostVars, cfg, driveVars>>

\* The futures are all ready: f.get() of every node.
TasksDone == \A n \in Nodes : task[n] \in {"ok", "failed"}
-----------------------------------------------------------------------------
(* sync_loop and can_callback. *)

\* sync_loop resends the target of a node every 20 ms, enabled or not.
SyncLoop(n) ==
    /\ TakesRpdo(n)
    /\ vel' = [vel EXCEPT ![n] = target[n]]
    /\ UNCHANGED <<hostVars, cfg, task, power, drv, comm, boot, sto, bus>>

CanBootup(n) ==
    /\ boot[n] /\ bus = "up"
    /\ boot' = [boot EXCEPT ![n] = FALSE]
    /\ RequestReinit({n})
    /\ UNCHANGED <<target, status, alarm, age, suppress, cfg, task,
                   power, drv, comm, vel, sto, bus>>

CanTpdo1(n) ==
    /\ SendsTpdo(n, "tpdo1")
    /\ status' = [status EXCEPT ![n] = Statusword(drv[n])]
    /\ UNCHANGED <<target, alarm, age, needsReinit, suppress, cfg, task, driveVars>>

CanTpdo2(n) ==
    /\ SendsTpdo(n, "tpdo2")
    /\ age' = [age EXCEPT ![n] = "fresh"]
    /\ UNCHANGED <<target, status, alarm, needsReinit, suppress, cfg, task, driveVars>>

CanTpdo3(n) ==
    /\ SendsTpdo(n, "tpdo2")
    /\ alarm' = [alarm EXCEPT ![n] = (drv[n] = "fault")]
    /\ UNCHANGED <<target, status, age, needsReinit, suppress, cfg, task, driveVars>>
-----------------------------------------------------------------------------
(* The passing of time. *)

\* Timing fact: feedback comes with every SYNC (20 ms), so it only ages past
\* 0.5 s while the drive cannot send it.
FeedbackAges(n) ==
    /\ ~SendsTpdo(n, "tpdo2")
    /\ age[n] # "lost"
    /\ age' = [age EXCEPT ![n] = IF @ = "fresh" THEN "late" ELSE "lost"]
    /\ UNCHANGED <<target, status, alarm, needsReinit, suppress, cfg, task, driveVars>>

\* Timing fact: the window (5 s) outlasts configure_node (2 s) and the boot-up
\* frame that configure_node provokes (under 1 ms as measured in the source).
SuppressEnds(n) ==
    /\ suppress[n] /\ cfg[n] \notin ConfigureStep /\ ~boot[n]
    /\ suppress' = [suppress EXCEPT ![n] = FALSE]
    /\ UNCHANGED <<target, status, alarm, age, needsReinit, cfg, task, driveVars>>
-----------------------------------------------------------------------------
(* The hardware: what may happen to the drives and the bus. *)

\* E-stop: traction power goes, drives fall to "disabled" with error code 0.
EstopPressed ==
    /\ ~sto
    /\ sto' = TRUE
    /\ drv' = [n \in Nodes |-> IF drv[n] \in {"ready", "switchedOn", "enabled"}
                               THEN "disabled" ELSE drv[n]]
    /\ UNCHANGED <<hostVars, cfg, task, power, comm, vel, boot, bus>>

EstopReleased ==
    /\ sto
    /\ sto' = FALSE
    /\ UNCHANGED <<hostVars, cfg, task, power, drv, comm, vel, boot, bus>>

DriveFaults(n) ==
    /\ power[n] /\ drv[n] # "fault"
    /\ drv' = [drv EXCEPT ![n] = "fault"]
    /\ UNCHANGED <<hostVars, cfg, task, power, comm, vel, boot, sto, bus>>

\* Logic power lost: mapping, setpoint and a boot-up frame not yet sent are gone.
PowerLost(n) ==
    /\ power[n]
    /\ power' = [power EXCEPT ![n] = FALSE]
    /\ drv' = [drv EXCEPT ![n] = "disabled"]
    /\ comm' = [comm EXCEPT ![n] = {}]
    /\ vel' = [vel EXCEPT ![n] = 0]
    /\ boot' = [boot EXCEPT ![n] = FALSE]
    /\ UNCHANGED <<hostVars, cfg, task, sto, bus>>

\* The drive boots, perhaps with a latched fault, and says so once; the frame
\* may get lost.  It may boot at any moment of a configure_node (about 1.3 s).
PowerBack(n) ==
    /\ ~power[n]
    /\ power' = [power EXCEPT ![n] = TRUE]
    /\ \E s \in {"disabled", "fault"} : drv' = [drv EXCEPT ![n] = s]
    /\ \E sent \in BOOLEAN : boot' = [boot EXCEPT ![n] = sent /\ bus = "up"]
    /\ UNCHANGED <<hostVars, cfg, task, comm, vel, sto, bus>>

BusLost ==
    /\ bus = "up"
    /\ bus' = "down"
    /\ boot' = [n \in Nodes |-> FALSE]
    /\ UNCHANGED <<hostVars, cfg, task, power, drv, comm, vel, sto>>

BusBack ==
    /\ bus = "down"
    /\ bus' = "up"
    /\ UNCHANGED <<hostVars, cfg, task, power, drv, comm, vel, boot, sto>>
-----------------------------------------------------------------------------
\* init has run.  Either it has configured the nodes that have power and started
\* the SYNC thread, the suppress windows are still open, and the first setpoints
\* (zero) are out: the first controlword follows 150 ms later.  Or the CAN interface
\* could not be opened, init has returned early, and nothing is ever sent or
\* received: there is no second attempt.  What a drive was doing for an earlier
\* node it does still.
ControllerInit ==
    /\ target = [n \in Nodes |-> 0]
    /\ status = [n \in Nodes |-> {}]
    /\ alarm = [n \in Nodes |-> FALSE]
    /\ needsReinit = [n \in Nodes |-> FALSE]
    /\ cfg = [n \in Nodes |-> "idle"]
    /\ power \in [Nodes -> BOOLEAN]
    /\ drv \in [Nodes -> DriveState \ {"notReady"}]
    /\ \A n \in Nodes : ~power[n] => drv[n] = "disabled"
    /\ boot = [n \in Nodes |-> FALSE]
    /\ sto = FALSE
    /\ \/ /\ bus = "up"
          /\ suppress = [n \in Nodes |-> TRUE]
          /\ age = [n \in Nodes |-> "fresh"]
          /\ comm = [n \in Nodes |-> IF power[n] THEN Setup ELSE {}]
          /\ vel = [n \in Nodes |-> 0]
       \/ /\ bus = "closed"
          /\ suppress = [n \in Nodes |-> FALSE]
          /\ age = [n \in Nodes |-> "lost"]
          /\ comm = [n \in Nodes |-> {}]
          /\ vel \in [Nodes -> Velocity]

ControllerTypeOK ==
    /\ target \in [Nodes -> Velocity]
    /\ status \in [Nodes -> SUBSET StatusBit]
    /\ alarm \in [Nodes -> BOOLEAN]
    /\ age \in [Nodes -> Age]
    /\ needsReinit \in [Nodes -> BOOLEAN]
    /\ suppress \in [Nodes -> BOOLEAN]
    /\ cfg \in [Nodes -> CfgStep]
    /\ task \in [Nodes -> TaskStep]
    /\ power \in [Nodes -> BOOLEAN]
    /\ drv \in [Nodes -> DriveState]
    /\ comm \in [Nodes -> SUBSET Setup]
    /\ vel \in [Nodes -> Velocity]
    /\ boot \in [Nodes -> BOOLEAN]
    /\ sto \in BOOLEAN
    /\ bus \in BusState
=============================================================================
