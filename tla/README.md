# Verification of the KU polishing robot driver

TLA+ models, TLC model checking and TLAPS proofs for the ROS drivers in
`src/catkin_ws/src`. Source references below are `file:line` within that directory
unless they start with `src/`.

## 1. The system

The robot is a differential-drive base with a lift. Every node is a separate process;
they talk through ROS topics and, except for the base controller, each owns one field bus or
connection.

| Component | State it keeps | Operations | Talks to |
|---|---|---|---|
| `MotorController` (`motor_driver/src/motor_controller.cpp`) | per node: target velocity (atomic), cached statusword, error code, time of last feedback, `needs_reinit`, suppress window | `configure_node`, `enable_motor` (one async task per node), `reset_motor`, `wait_for_state`, `sync_loop` (own thread, 20 ms), `can_callback` (CAN reader thread), `disable_motor` | Kinco servo drives over CANopen |
| `MotorDriverNode` (`motor_driver/src/motor_driver_node.cpp`) | `motors_enabled_`, `transition_in_progress_`, `last_cmd_time_`, `last_reset_attempt_` | `cmdCallback` and `controlLoop` on two spinner threads; detached enable and reset threads | `/motor/cmd`, `/motor/velocity`, `/motor/status`, `/motor/alarm` |
| `BaseController` (`motor_driver/src/base_controller_node.cpp`) | last `/cmd_vel`, odometry pose | `cmdVelCallback`, `controlTimer`, `velocityCallback` | `/cmd_vel` to `/motor/cmd`, `/motor/velocity` to `/odom` |
| `CanInterface` (`can_interface/src/can_interface.cpp`) | socket, reader thread, callback | `open`, `close`, `write`, reader loop | SocketCAN |
| `LiftDriver` (`lift_driver/src/lift_driver_node.cpp`) | mode, homed, target, last velocity command, alarm and resume bookkeeping, stall clocks | six topic callbacks and a 10 Hz poll, all on one thread | MDROBOT drive over RS485 |
| `SafetyIoNode` (`safety_io_driver/src/safety_io_node.cpp`) | Modbus connection, signal images, E-stop sources | poll, output requests | safety PLC over Modbus/TCP |
| `CrevisIoNode` (`crevis_io_driver/src/crevis_io_node.cpp`) | output shadow, connection | poll, write, shutdown | I/O coupler over Modbus/TCP |
| `BmsDriver` (`bms_driver/src/bms_driver_node.cpp`) | last battery frames and their time | CAN callback, publish timer | battery over CAN |
| `sync_param.py`, teleoperation, launch files, host scripts | | | |

What is hard here: threads and callbacks that interleave (motor driver), drives that
reboot, fault, or fall out of operation under a running host, answers and frames that get
lost, timeouts that race late answers, and long sequences of alarms, resets and resumed
motions (lift). `PROJECT.json` lists each such hazard at its line.

What makes each part correct:

* motor driver: one transition at a time; commands pass only when every drive was seen in
  operation; as long as the bus holds, a working drive is never cut off by the recovery of
  another; after a mishap the motors come back by themselves, but for a drive configured by
  halves; while the gate is open, silence means zero velocity.
* lift: it does only what the user last asked for, whatever the alarm handling does; the
  origin is the lower limit; automatic resets and resumptions come to an end.
* base controller and motor node together: whichever of their inputs falls silent, all motors
  end at rest if the gate is open. Behind a gate that a failed reset has shut they need not
  (run `motor_shut_gate`).
* safety I/O: "no stop" is only ever published on what this poll has read; a latched stop that
  was reported stays so; a stop and a lost PLC are reported.
* Crevis I/O: an output changes only as it was asked to; a normal end leaves the relay off; the
  readback follows the outputs.
* BMS and CAN interface: "present" means heard of lately; the reader thread never outlives its owner.

## 2. Plan

Written in this order, each with its proofs:

1. **Motor driver**, the largest and the only truly concurrent part: `Cia402`,
   `MotorController`, `MotorDriverNode` with the abstract `EnableSupervisor`.
2. **Lift.** `LiftDrive` (hardware), `LiftDriver` (node) and its abstract specification
   `LiftService`.
3. **Safety I/O.** `SafetyIo`: poll, Modbus client, PLC and network.
4. **Crevis I/O.** `CrevisIo` and its abstract specification `CrevisOutputs`.
5. **CAN interface and BMS.** `CanInterface`, and `BmsDriver` on top of it.
6. **Base controller and drive chain.** `BaseController` composed with `CommandPath`, the
   abstract command path that `MotorDriverNode` is proved to implement.

Left: shutdown of the motor node and the variant with the interlocks wired (section 7).

## 3. Modules and the code

### Motor driver

| Module | Models |
|---|---|
| `Cia402` | the CiA 402 states, what the host decodes from a statusword (`get_cia402_state`), how a drive reacts to a controlword |
| `MotorController` | `MotorState` of each node, `configure_node` in its SDO steps, `enable_motor` with its per-node tasks, the waits, `sync_loop`, `can_callback`; the drives, the bus and the E-stop circuit |
| `MotorDriverNode` | `cmdCallback` and `controlLoop` as two concurrent threads split where they touch shared state, the enable and the reset thread, mishaps and repairs |
| `EnableSupervisor` | abstract specification of the command gate: it opens only after one round has asked every node and seen each in operation |
| `MCMotorDriverNode` | the symmetry set for TLC |

One action is one critical step of a thread: `cmdCallback` writes its time stamp, checks the
gate and applies the velocities motor by motor, so commands interleave with `controlLoop`'s
zeroing. A wait (`wait_for_state`) ends when the cached statusword decodes to the state wanted
(`WaitReached`), or fails (`WaitFailed`) on a decoded fault or at its deadline. Three timing
facts of the code are guards, each with a comment at its action: a wait only times out once
the status has settled (`StatusSettled`: seconds against 20 ms), feedback is old only if
none can be coming (`FeedbackAges`), and the suppress window (5 s) outlasts the configuration it
was opened for (`SuppressEnds`). A `configure_node` takes about 1.3 s (500 ms, 36 SDO writes of
20 ms each, 100 ms) and is repeated every few seconds against a drive that is off, so drives
and bus may fail and come back between any two of its steps. `cfg[n]` is the write it has
reached, or which of the two `FAULT_RESET`s of `reset_motor`, 100 ms apart, comes next.

`Init` is the state in which the constructor leaves the node. A drive may be without power,
which counts as a mishap, and in any state an earlier node left it in: as the cached status is
empty, an enable takes a drive that is already in operation through its states again. `bus` is
`"closed"` for good if the CAN interface could not be opened (`init` returns early, 37-40).

### Lift

| Module | Models |
|---|---|
| `LiftDrive` | height, the drive's count and its origin, the job it was given, the alarm bit and its cause, obstruction, the RS485 line and the drive's power (all external) |
| `LiftService` | abstract specification: the drive is told only what the last command wants; by itself the node withdraws, descends in a homing, and resumes a move after an alarm, a limited number of times |
| `LiftDriver` | every callback of `lift_driver_node.cpp` as one action (one thread spins), the poll in four steps, clocks, restart and kill |
| `MCLiftDriver` | negative constants for TLC |

The poll is `PollReads` (request, `readAndParse`), `UpdateAlarm` (`updateAlarm`,
`requestAlarmReset`, `resumeAfterAlarm`), `PollHomes` (pending homing), `UpdateMotion`
and `ReleaseIfBlocked`; each is the disjunction of the branches of its function. Between
them only alarms, the line and a kill may intervene, since a poll takes about 30 ms.
`hold` and `stall` are the reference positions with "long enough" for the elapsed time; `graceOver`
says that the spin-up time of the release has passed.
`intent` and `restarts` are history variables: the last command and the resumptions since then.
They are the `wish` and `resumed` of `LiftService`, whose `job` is the one the drive has: a frame
that gets lost is a step that leaves the job as it was.

Abstractions: one step of height stands for more counts than `in_position_tol` and
`home_stall_counts`, so "within tolerance" is equality; a reply is parsed in the poll that
asked for it (a fragment completed a poll later makes data 100 ms older, less than a step);
`home_min_sec` is implied by the longer `home_stall_sec`; the resumption of a homing (463-476)
is dead code, since an alarm never remembers a homing. The switches have their shipped values.
`LiftDriver` assumes both retry limits positive (0 means "no limit" in the code).

### Safety I/O

| Module | Models |
|---|---|
| `SafetyIo` | contacts, latch and process image of the PLC, the network, `ModbusTcpClient`, `SafetyIONode::poll`, start, kill |
| `MCSafetyIo` | an emergency stop (b-contact), a bumper (a-contact) and the set of sources |

`pc` is where the only thread stands in `poll`: it asks for and waits for the inputs, then the
outputs (`readDiscreteInputs`, `transact`), and publishes (`read`, `publish`) or reports the loss
(`failed`, `lost`). Between any two steps contacts, latch, image and link may change. The image is
refreshed in two parts, as `safety_io_driver/README.md:24` says. `link` is `good` (answers in time),
`bad` (any of a late, damaged, foreign or exceptional answer, or none) or `cut`. The history
variables `clearSeen` and `powerSeen` say whether the image has been clear, or powered, since
this poll began, and `reported` whether a power loss has been published and not been repaired
since. The four steps of a transaction and its seven ways to fail are kept, the bytes are not.

### Crevis I/O

| Module | Models |
|---|---|
| `CrevisOutputs` | abstract specification: an output changes only as it was asked to, however late, or when the module starts afresh (allowed at any time: all outputs going off at once is not held against the node) |
| `CrevisIo` | callbacks, `poll`, `onShutdown`, the shadow, `ModbusTcp`, the module and the network |
| `MCCrevisIo` | a light and the relay |

`pc` names the request the only thread makes next. A write is a function from the outputs it
names to their new states, so that "one coil" and "the whole word" are two values of one thing.
`late` holds writes of connections already closed that TCP may still deliver. Faults are
constants of their own for either write mode, because the code survives different ones:

* in coil mode (as shipped) late writes, restarts of the module and kills are all admitted;
* in register mode only kills. With a late word, or a module restarting between two polls, the
  next command writes the remembered word and switches outputs nobody asked for: TLC finds
  `ImplementsOutputs` and `ShadowTruthful` violated as soon as `RegisterFaults` contains `late`
  or `restart`. The theorems carry this as their assumption `RegisterUndisturbed`.

### CAN interface and BMS

| Module | Models |
|---|---|
| `CanInterface` | `open`, `write`, `close`, the reader thread, the socket buffer, the network device (up, down, or unplugged for good) |
| `BmsDriver` | extends it: both timers, `canCallback` (in the reader thread), `publishTimer`, start and end; the BMS, its battery and lost answers |
| `MCBmsDriver` | two conditions of the battery that differ in all four answers |

Time passes in periods (0.5 s) in which either timer fires once, in either order;
`PeriodEnds` holds the timing fact that a period is long enough for the BMS to answer what it can
and for the reader to take it. `age` is the time since the last 0x90 the node has *handled*, `quiet`
(history) since the last one the BMS has *sent*. The four answers status and health are made of
are modelled; temperatures, voltages and capacities are copied.

### Base controller and drive chain

| Module | Models |
|---|---|
| `BaseController` | `cmdVelCallback`, `controlTimer`, its timeout, limits and check of the parameters, the queue of `/motor/cmd`, death and restart |
| `CommandPath` | abstract specification of a command's way through `MotorDriverNode`: callback, timeout, gate, targets; the other threads appear by what they may do to gate and targets |
| `DriveChain` | `BaseController` and `CommandPath` joined by the topic |
| `MCDriveChain` | a velocity beyond the limit in either direction |

A velocity stands for the pair (v, w), and the command for the pair of motor speeds made of it.
That the chain may use `CommandPath` in place of the motor node is theorem
`NodeImplementsCommandPath`, and run `motor_threads` checks it; the fairness of its steps is that
of the same steps of the node's spinner threads.

## 4. Runs

| Run | Instance | Shows |
|---|---|---|
| `motor_threads` | 1 node, one command, one power cycle or bus outage | types, one transition at a time, configuration shielded from itself, first enable at rest, commands refine `CommandPath` |
| `motor_two_drives` | 2 nodes (symmetric), a fault of one | a working motor is left alone; the gate refines `EnableSupervisor`, so it waits for both |
| `motor_recovery` | 1 node, one E-stop, fault or power cycle | the motors come back unless a drive was left half configured, re-initialisation quiesces, transitions end |
| `drive_chain` | 2 motors, 2 messages of the user, one death of the base controller, 2 changes of gate or target by other threads | as long as the gate is open, silence of either input stops all motors and a mixture of targets does not last |
| `lift_alarms` | 2 heights, absolute, relative (one step up or down), manual moves, up to 2 of alarm, restart and kill, 2 resumptions | modes, stops, bounded resumptions, rest in alarms, origin; the node refines `LiftService` |
| `lift_ends` | 2 heights, homing at start, any one of alarm, obstruction, silence, power loss, kill | homings end, resets give up, blocked commands are withdrawn |
| `safety_io` | E-stop and bumper, transaction ids wrapping, any link changes, kills and restarts | a stop is withdrawn on this poll's data only, a reported latched stop lasts, stop, loss and release get through |
| `crevis_io` | a light and the relay, both modes, faults as above, at most one late write | outputs change as asked, true shadow, relay off at the end, readback and loss follow |
| `bms_can` | 2 conditions, time-out of 2 periods, 2 frames in the buffer, 2 events, shutdown at any moment | no callback without owner, presence is current, the picture converges, one frame ends `close` |

Bounds. `MaxDisturbances` and `MaxMishaps` count mishaps from outside, not their
consequences: repairs, returning alarms, retries, commands and polls are unbounded. One mishap
in the motor runs starts every recovery path of the code (a drive without power at the start is one); the
liveness of `motor_recovery` leaves out bus outages, after which the gate may stay shut for good (`motor_shut_gate`); two nodes are enough for "one hurts
the other". Two heights distinguish the lower limit from everywhere else and an origin that is
right from one that is not. Retry limits 2 and 1 or 2 (5 and 3 as shipped) let each loop run
below, at and past its limit. The link of
the safety PLC and of the Crevis module, kills and restarts are unbounded. In `drive_chain` two
messages are a velocity and what takes its place, and two steps of the other threads open the gate
and shut it, or forget a target, half way through anything. In `bms_can` two events are a fault
and a second one before it is repaired. Deadlock is checked in every run but `bms_can`, whose
process may end, or hang in `close` on a silent bus.

Runs expected to fail, each with a finding in `PROJECT.json` that quotes what the code contradicts:

| Run | Disagreement |
|---|---|
| `motor_shut_gate` | "not enabled means velocity 0" and "silence means velocity 0": a bus outage during the last wait of a reset shuts the gate for good on a drive that then follows. Every drive is in operation, nothing asks for another reset, the timeout is not looked at, and the old target is still sent |
| `motor_half_configured` | the motors recover from a missed boot-up frame: not if the drive booted between two writes of a `configure_node`. It has taken the rest of the writes, its feedback flows, and nothing configures it again |
| `lift_origin_stalled` | "the origin is always the lower limit": not when the lift is stopped half way |

Read in the code and kept in the models, without a run of their own:

* `reset_motor` and `enable_motor` look at the status only once, before the first of their
  writes: a drive that the bus brings back between the two `FAULT_RESET`s, or within an enable, is
  thrown out of operation, though a motor that is servo ON is not to be touched
  (`motor_controller.cpp:243`). With `"bus"` among the mishaps of `motor_two_drives` TLC finds
  `HealthyUntouched` violated; the run and theorem `HealthyLeftAlone` are for a bus that holds;
* an alarm ends a homing (`lift_driver_node.cpp:386-392`), while `lift_driver_node.hpp:37`,
  `lift_driver.yaml:52` and `docs/INTERFACE.txt:366` say it is resumed, and
  `docs/INTERFACE.txt:379-382` that it is the lower limit. As the documents do not agree, the
  properties leave it open: `ModeServesUser` allows a homing to go on or be resumed;
* the increment of the lift is added to a position up to 100 ms old, or from before the origin was
  reset, while the drive adds to where it is (`docs/INTERFACE.txt:310`);
* `close()` of the CAN interface waits for a `read()` without a timeout; the BMS speaks only when
  asked, so the node hangs at its end on a silent bus;
* until 0x98 has come for the first time the BMS node publishes GOOD, not UNKNOWN;
* `base_controller` announces zero velocity for `wheel_separation <= 0` (line 28) and does not
  check it (line 71);
* `homed` survives a power cycle of the lift's drive, whose count does not;
* without `~hardware_estop_sources` the bumpers are taken as active low
  (`safety_io_node.cpp:586-587`), but they are a-contacts (`safety_io.yaml:25`);
* the same velocity commanded again, after a position move, starts no grace time;
* the bound on automatic resets is cleared whenever the alarm bit clears, so a flickering
  alarm is reset without end (the resumptions stay bounded: `RestartsBounded`);
* with a negative `up_speed_rpm` the lower limit withdraws "up" instead of "down".

## 5. Fairness

* `RecoverySpec`: the two spinner threads run (`AsyncSpinner spinner(2)`), the detached threads,
  the CAN reader and SYNC threads run, deadlines pass, and a drive that can send PDOs does so (one
  of each on every SYNC).
* Lift `FairSpec`: the poll timer goes on (`PollStep`, weak fairness), and each clock runs out if it
  may again and again (strong fairness: its verdict is only read at rest between polls, and a
  poll does not stop time).
* `SafetyIo!FairSpec`: the poll goes on; a request is answered or times out however the link comes
  and goes (one condition for both, since either ends it); the PLC refreshes each part of its image.
* `CrevisIo!FairSpec`: a call ends, by an answer or a timeout; the poll timer is served again and
  again between commands (strong fairness: one thread, queues of ten).
* `BmsDriver!FairSpec`: both timers, the two threads, time, and a BMS that serves answers.
* `DriveChain!FairSpec`: the timers of both nodes, deadlines, the delivery of messages, and the
  callback and zeroing of the motor node.

Commands, mishaps and repairs are never fair: "the hardware is in order for good"
and "the user does not go on commanding" are premises of the properties.

## 6. Proofs

All theorems hold for every set of nodes, commands, inputs and bounds allowed by the named
assumptions. Assumptions: `Nodes` is not empty, commands and counts are integers,
mishap budgets natural numbers, the lift's retry limits positive, `Top` positive and `UpSpeed`
not zero. Safety I/O: `WiringAssumption` (`active_low` is configured for the sources that
are b-contacts, and for no others; this leaves out the sources the node falls back to when none
are configured, whose bumpers contradict `safety_io.yaml:25`) and `SourcesAssumption` (some source is an input). Crevis:
`RegisterUndisturbed`. BMS: `timeout_sec` is at least one period. Drive chain: the
topic holds at least one message, and `Commands` contains what the base controller can make of the
user's velocities (`ChainAssumption`: the set is a bound on what is commanded). Two theorems of the lift say what
may go wrong around it, `RestsInAlarm` by `LineHolds` (no frame is lost) and `HomedIsAtOrigin` by
`OriginUndisturbed` (alarms, restarts and kills only). Neither can go: with `silence` among the
mishaps TLC finds `AtRestInAlarm` violated (the one stop of the detection is lost), and with any one
of `blocked`, `power` and `silence` it finds `HomedMeansOrigin` violated (the first of these is run
`lift_origin_stalled`). Under power loss and obstruction `AtRestInAlarm` is proved to hold.

| Theorem | Invariant and argument |
|---|---|
| `TypeCorrect` | `TypeOK` is inductive; one lemma per group of actions |
| `AtMostOneTransition` | `OneTransition` with `TypeOK`: a thread starts only with the flag down, and lowers it in its last step |
| `ReinitShielded` | `ConfigureShielded` with `TypeOK`: `ConfigureBegin` opens the window, `request_reinit` respects it |
| `FirstEnableStandsStill` | needs `FirstEnableInv`: the gate is still shut, so no callback gets past its check, the SYNC thread sends zeros, and the first enable never comes back |
| `HealthyLeftAlone` | under `BusHolds` (no bus outage among the mishaps). That a drive is in operation and seen so while a fault reset or an enable is on its way to it must be excluded across steps, because the status is looked at only once before. `PhaseInv` says what each phase of a thread may be doing at a node; `OperationInv` that a drive in operation is mapped and seen in operation (but for the last wait of an enable, and before the first enable has come to it), that a mapped drive's feedback flows and nothing books it for a configuration, and that a drive being reset or enabled is below operation. Without `BusHolds` it is false (section 4) |
| `GateSupervised` | refinement of `EnableSupervisor`; needs `RestedVerdict` (a thread at rest has a clean verdict), then each step is mapped to a look, a verdict or a stutter |
| `UserInCharge`, `StopLasts`, `RestartsEnd` (lift) | `UserInv`: `ModeServesUser`, `StopHolds`, `Counted`, and `QuietInHoming` (in this code no homing goes on in an alarm). None but the first is inductive alone: a stop lasts because no mode and nothing put off could restart the lift, and the number of restarts is bounded by the code's counter only as long as something can still be resumed, since every completed motion clears the counter |
| `LiftTypes` | `TypeOK` is inductive; the height stays in its range because the drive stops at both ends |
| `RestsInAlarm` | `RestInv`: `AtRestInAlarm`, and a drive that does not hear is off and has nothing to do; a poll that sees the alarm sends the stop, and no later step of that poll or the next sends a descent or a move. It uses `UserInv`: in an alarm the node is in MANUAL |
| `HomedIsAtOrigin` | `OriginInv`: the poll knows limit and alarm as they are (`PollIsFresh`), and a stall that has lasted is one at the limit, since the drive has been told to descend, is heard and is not blocked (`StallMeansLimit`). Without the latter the stall branch of `updateMotion` could set the origin anywhere |
| `ServiceImplemented` | refinement of `LiftService` on `UserInv`: each callback and each step of a poll is mapped to a step of the service or a stutter, whatever is lost; `UserInv` gives the bound on resumptions and that only a `goto` is resumed |
| `QuietInAlarm` | `NothingNewInAlarm`, an action property (in `LiftDriverProofs`), from the refinement: while an alarm lasts only a speed of the user gives the drive anything but rest |
| `NodeImplementsCommandPath` | refinement of `CommandPath` with `TypeOK`: each step of the node's threads is mapped to a step of the path or a stutter |
| `SafetyTypes` | `TypeOK` is inductive |
| `ReportedStopLasts` | a poll that could withdraw the stop must have read the power on, so `powerSeen`; the invariant ties what was read (`got`) and what is on its way (`wire`, by its transaction id) to what the image has shown since the poll began, and the image to the latch once it was reported |
| `ReleasesAreCurrent` | the same invariant, for the inputs: a release is published from inputs that were seen clear in this poll |
| `RelayStaysOff` | `RelayInv`: from the moment the relay is told to go off (`RelayGoesOff`) the write on its way is the one that switches it off, with no command left to follow; no assumption on the faults |
| `CrevisTypes`, `ShadowIsTrue` | a valid shadow equals the outputs, or the outputs but for the write on its way; a failed transaction invalidates it |
| `NodeImplementsOutputs` | refinement of `CrevisOutputs`: with a true shadow the whole word differs from the outputs in the bit asked for only |
| `BmsTypes`, `ReaderIsJoined` | `close` lets go of socket and owner only behind a reader that has ended |
| `PresentMeansHeard` | `AgeIsHonest`: while the BMS counts as present, the age the node keeps is no less than the time the BMS has been quiet; it rests on `AnswersAreNew` (answers still in the buffer were sent in this period) and `MessageHasTime` |
| `ChainTypes`, `MotorsAreLimited` | `ChainInv`: what waits on the topic, what the callback holds and what the motors have been given was made by `controlTimer` from a message of the user. `MotorsLimited` (in `DriveChainProofs`) says that no target but zero exceeds the limit, or exists while the check of the parameters fails |

Every invariant and every step-wise property of the passing runs is stated by a theorem. Only
model-checked is the liveness, which is out of the prover's reach: `RecoversUnlessHalved`, `ReinitQuiesces`,
`TransitionEnds`, `SilenceStopsOpen`, `MixtureEnds`, `HomingEnds`, `GivesUp`, `ReleasedAtEnd`,
`StopReported`, `LossReported`, `ReleaseReported`, `ReadbackFollows`, `LossShown`, `OneFrameEnds`
and `PictureConverges`. `NothingNewInAlarm` and `MotorsLimited` are proved without a run of
their own.

## 7. Not modelled

Motor driver: shutdown (`disable_motor` against detached threads that outlive the object: undefined
behaviour from the first step on), the interlock branch (unreachable in the shipped build), scaling
of velocity, voltage and current. Of the lift: frame parsing, integer
widths, position-speed frames, switches in other than their shipped position.

Base controller: wheel geometry and odometry are real arithmetic; `/odom` steers nothing here. Safety
I/O: the topics of single signals (copies), the lock against a second instance, a configuration
without sources. Crevis: `leds_off_on_shutdown`, `/crevis/di`. BMS: the values that are only copied,
unequal rates of the two timers.

`sync_param.py` (a one-time text merge at deployment), the teleoperation script (a terminal
that publishes `/cmd_vel`), launch files and shell scripts keep no state worth a model. No node
of this repository subscribes to `/safety/estop`, so safety I/O and the drives meet in hardware
only (the E-stop circuit of `MotorController`).
