------------------------------ MODULE SafetyIo ------------------------------
(***************************************************************************)
(* safety_io_node.cpp: the node that reads the safety PLC over Modbus/TCP  *)
(* and tells on /safety/estop whether the robot is stopped by hardware.    *)
(*                                                                         *)
(* One thread: the poll reads the inputs, then the outputs, then publishes *)
(* one topic after the other.  Meanwhile the PLC, its contacts and the     *)
(* network go on.  Modbus shows a process image the PLC refreshes part by  *)
(* part (safety_io_driver/README.md:24), so the two reads of a poll may    *)
(* belong to different moments.                                            *)
(***************************************************************************)
EXTENDS Integers

CONSTANTS Inputs,          \* the input signals read
          NormallyClosed,  \* those wired to b-contacts: level low when operated
          Configured,      \* the names in hardware_estop_sources
          ActiveLow,       \* those of them configured active_low
          PowerChecked,    \* hardware_estop_power_output names an output
          TidRange         \* transaction ids: 2^16 in the code

ASSUME TidAssumption == TidRange \in Nat \ {0}
ASSUME PowerAssumption == PowerChecked \in BOOLEAN

\* addEstopSource: only inputs are accepted.
EstopSources == Configured \cap Inputs

\* The topic exists, and the configuration is that of the contacts.  This leaves out the
\* sources the node takes when none are configured (safety_io_node.cpp:584-587): they have
\* the bumpers active low, although safety_io.yaml:25 has them as a-contacts.
ASSUME SourcesAssumption == EstopSources # {}
ASSUME WiringAssumption == EstopSources \cap ActiveLow = EstopSources \cap NormallyClosed

VARIABLES operated, power,     \* the contacts operated; traction power, off while a stop is latched
          image,               \* the process image: input levels and traction power
          link,                \* "good", "bad" (answers late or wrong), or "cut"
          open, tid, wire,     \* the connection, transaction_id_, what is on its way
          pc, got,             \* the part of poll to run next; input_values and output_values
          connected, estop,    \* what the topics say last
          clearSeen, powerSeen,     \* history: whether the image was clear, and powered, in this poll
          reported             \* history: power off was reported and has not been back since

plcVars   == <<operated, power, image>>
netVars   == <<open, tid, wire>>
topicVars == <<connected, estop>>
histVars  == <<clearSeen, powerSeen, reported>>
vars == <<plcVars, link, netVars, pc, got, topicVars, histVars>>

Levels == [Inputs -> BOOLEAN]
Process == [in : Levels, power : BOOLEAN]

Blank == [in |-> [i \in Inputs |-> FALSE], power |-> FALSE]

NoMessage == [at |-> "none"]
Request(id, block) == [at |-> "plc", tid |-> id, block |-> block]
Answer(id, what, data) == [at |-> "host", tid |-> id, what |-> what, data |-> data]

\* active_low: logic low means triggered.
Triggered(in, s) == IF s \in ActiveLow THEN ~in[s] ELSE in[s]

Clear(in) == \A s \in EstopSources : ~Triggered(in, s)

\* Mutant: the power condition replaces that of the inputs.
StopActivePowerOnly(data) == IF PowerChecked THEN ~data.power ELSE ~Clear(data.in)

\* Mutant: the power condition is left out.
StopActiveInputsOnly(data) == ~Clear(data.in)

\* A contact is triggered or traction power is off; neither cancels the other.
StopActive(data) == ~Clear(data.in) \/ (PowerChecked /\ ~data.power)
-----------------------------------------------------------------------------
(* The PLC and its contacts. *)

Level(i) == (i \in NormallyClosed) # (i \in operated)

\* An emergency stop or a bumper cuts power, and the PLC latches that.
Operate ==
    /\ \E i \in Inputs \ operated :
          /\ operated' = operated \cup {i}
          /\ power' = (power /\ i \notin EstopSources)
    /\ UNCHANGED <<image, link, netVars, pc, got, topicVars, histVars>>

LetGo ==
    /\ \E i \in operated : operated' = operated \ {i}
    /\ UNCHANGED <<power, image, link, netVars, pc, got, topicVars, histVars>>

Reset ==
    /\ ~power /\ operated \cap EstopSources = {}
    /\ power' = TRUE
    /\ UNCHANGED <<operated, image, link, netVars, pc, got, topicVars, histVars>>

RefreshInputs ==
    /\ image' = [image EXCEPT !.in = [i \in Inputs |-> Level(i)]]
    /\ image' # image
    /\ clearSeen' = (pc \notin {"idle", "down"} /\ (clearSeen \/ Clear(image'.in)))
    /\ UNCHANGED <<operated, power, link, netVars, pc, got, topicVars, powerSeen, reported>>

RefreshOutputs ==
    /\ image.power # power
    /\ image' = [image EXCEPT !.power = power]
    /\ powerSeen' = (pc \notin {"idle", "down"} /\ (powerSeen \/ power))
    /\ reported' = (reported /\ ~power)
    /\ UNCHANGED <<operated, power, link, netVars, pc, got, topicVars, clearSeen>>

Part(block) == IF block = "inputs" THEN [image EXCEPT !.power = FALSE]
               ELSE [Blank EXCEPT !.power = image.power]

\* The PLC answers a request: with the block as it is now or, on a bad link or in trouble,
\* with a Modbus exception or a frame of another id or length.
PlcAnswers ==
    /\ link # "cut" /\ wire.at = "plc"
    /\ \E what \in (IF link = "good" THEN {"data"} ELSE {"data", "exception", "malformed", "mismatch"}) :
          wire' = Answer(wire.tid, what, Part(wire.block))
    /\ UNCHANGED <<plcVars, link, open, tid, pc, got, topicVars, histVars>>

LinkChanges ==
    /\ link' \in {"good", "bad", "cut"} \ {link}
    /\ UNCHANGED <<plcVars, netVars, pc, got, topicVars, histVars>>
-----------------------------------------------------------------------------
(* ModbusTcpClient *)

\* closeSocket: what the connection carried is lost with it.
CloseSocket == open' = FALSE /\ wire' = NoMessage

\* Mutant: the id does not wrap.
NextTidUnbounded == tid + 1

NextTid == (tid + 1) % TidRange

Asking  == pc \in {"askInputs", "askOutputs"}
Waiting == pc \in {"waitInputs", "waitOutputs"}
Block == IF pc \in {"askInputs", "waitInputs"} THEN "inputs" ELSE "outputs"

\* Mutant: a closed connection is not opened again.
OpenSocketNever ==
    /\ Asking /\ ~open
    /\ pc' = "failed"
    /\ CloseSocket
    /\ UNCHANGED <<plcVars, link, tid, got, topicVars, histVars>>

\* Connecting fails at the latest with its timeout.
OpenSocket ==
    /\ Asking /\ ~open
    /\ \/ link # "cut" /\ open' = TRUE /\ UNCHANGED <<wire, pc>>
       \/ link # "good" /\ pc' = "failed" /\ CloseSocket
    /\ UNCHANGED <<plcVars, link, tid, got, topicVars, histVars>>

SendRequest ==
    /\ Asking /\ open
    /\ tid' = NextTid
    /\ \/ /\ wire' = Request(NextTid, Block)
          /\ pc' = IF Block = "inputs" THEN "waitInputs" ELSE "waitOutputs"
          /\ UNCHANGED open
       \/ link # "good" /\ pc' = "failed" /\ CloseSocket
    /\ UNCHANGED <<plcVars, link, got, topicVars, histVars>>

\* The vectors of a poll are its own.
PollOver == pc' = "idle" /\ got' = Blank /\ clearSeen' = FALSE /\ powerSeen' = FALSE

Expected == wire.at = "host" /\ wire.what = "data" /\ wire.tid = tid

ReceiveInputs ==
    /\ pc = "waitInputs" /\ Expected
    /\ got' = [got EXCEPT !.in = wire.data.in]
    /\ pc' = "askOutputs"
    /\ wire' = NoMessage
    /\ UNCHANGED <<plcVars, link, open, tid, topicVars, histVars>>

ReceiveOutputs ==
    /\ pc = "waitOutputs" /\ Expected
    /\ got' = [got EXCEPT !.power = wire.data.power]
    /\ pc' = "read"
    /\ wire' = NoMessage
    /\ UNCHANGED <<plcVars, link, open, tid, topicVars, histVars>>

\* Whatever is wrong, at the latest poll closes the socket.
ReceiveFails ==
    /\ Waiting /\ wire.at = "host" /\ ~Expected
    /\ pc' = "failed"
    /\ CloseSocket
    /\ UNCHANGED <<plcVars, link, tid, got, topicVars, histVars>>

\* Mutant: recv waits for ever.
ReceiveTimesOutNever ==
    /\ FALSE
    /\ UNCHANGED vars

\* SO_RCVTIMEO, or the peer closes: only if the link is not good, the PLC answers in time.
ReceiveTimesOut ==
    /\ Waiting /\ wire.at = "plc" /\ link # "good"
    /\ pc' = "failed"
    /\ CloseSocket
    /\ UNCHANGED <<plcVars, link, tid, got, topicVars, histVars>>
-----------------------------------------------------------------------------
(* poll *)

PollBegins ==
    /\ pc = "idle"
    /\ pc' = "askInputs"
    /\ clearSeen' = Clear(image.in)
    /\ powerSeen' = image.power
    /\ UNCHANGED <<plcVars, link, netVars, got, topicVars, reported>>

PublishConnected ==
    /\ \/ pc = "read" /\ connected' = TRUE /\ pc' = "publish"
       \/ pc = "failed" /\ connected' = FALSE /\ pc' = "lost"
    /\ UNCHANGED <<plcVars, link, netVars, got, estop, histVars>>

\* Mutant: without a connection the poll returns at once.
PublishLossNothing ==
    /\ pc = "lost"
    /\ PollOver
    /\ UNCHANGED <<plcVars, link, netVars, topicVars, reported>>

\* Communication loss counts as a stop.
PublishLoss ==
    /\ pc = "lost"
    /\ estop' = TRUE
    /\ PollOver
    /\ UNCHANGED <<plcVars, link, netVars, connected, reported>>

PublishEstop ==
    /\ pc = "publish"
    /\ estop' = StopActive(got)
    /\ reported' = (reported \/ (PowerChecked /\ ~got.power /\ ~powerSeen))
    /\ PollOver
    /\ UNCHANGED <<plcVars, link, netVars, connected>>

\* Killed at any moment: its subscribers keep what they heard last.
Killed ==
    /\ pc # "down"
    /\ pc' = "down"
    /\ CloseSocket
    /\ got' = Blank /\ clearSeen' = FALSE /\ powerSeen' = FALSE
    /\ UNCHANGED <<plcVars, link, tid, topicVars, reported>>

\* The constructor: until a poll succeeds a stop is assumed.
Starts ==
    /\ pc = "down"
    /\ pc' = "idle"
    /\ tid' = 0
    /\ connected' = FALSE
    /\ estop' = TRUE
    /\ UNCHANGED <<plcVars, link, open, wire, got, histVars>>
-----------------------------------------------------------------------------
Init ==
    /\ operated = {} /\ power \in BOOLEAN
    /\ image = [in |-> [i \in Inputs |-> Level(i)], power |-> power]
    /\ link = "good"
    /\ open = FALSE /\ tid = 0 /\ wire = NoMessage
    /\ pc = "idle" /\ got = Blank
    /\ connected = FALSE /\ estop = TRUE
    /\ clearSeen = FALSE /\ powerSeen = FALSE /\ reported = FALSE

NodeStep == \/ PollBegins \/ OpenSocket \/ SendRequest
            \/ ReceiveInputs \/ ReceiveOutputs \/ ReceiveFails \/ ReceiveTimesOut
            \/ PublishConnected \/ PublishLoss \/ PublishEstop

PlcStep == RefreshInputs \/ RefreshOutputs \/ PlcAnswers

Environment == Operate \/ LetGo \/ Reset \/ LinkChanges

Next == NodeStep \/ PlcStep \/ Environment \/ Killed \/ Starts

Spec == Init /\ [][Next]_vars

\* The timer keeps the node going; a request is answered or times out, however the link
\* comes and goes; the PLC refreshes each part of its image.  Nobody has to restart a
\* killed node, and no contact or link has to change.
FairSpec == /\ Spec
            /\ WF_vars(NodeStep)
            /\ WF_vars(PlcAnswers \/ ReceiveTimesOut)
            /\ WF_vars(RefreshInputs) /\ WF_vars(RefreshOutputs)
-----------------------------------------------------------------------------
Step == {"idle", "askInputs", "waitInputs", "askOutputs", "waitOutputs", "failed", "lost",
         "read", "publish", "down"}

Wire == {NoMessage}
        \cup [at : {"plc"}, tid : 0..TidRange - 1, block : {"inputs", "outputs"}]
        \cup [at : {"host"}, tid : 0..TidRange - 1, what : {"data", "exception", "malformed", "mismatch"},
              data : Process]

\* Type correctness of the PLC, the connection, the node and its topics.
TypeOK ==
    /\ operated \subseteq Inputs /\ power \in BOOLEAN /\ image \in Process
    /\ link \in {"good", "bad", "cut"}
    /\ open \in BOOLEAN /\ tid \in 0..TidRange - 1 /\ wire \in Wire
    /\ pc \in Step /\ got \in Process
    /\ connected \in BOOLEAN /\ estop \in BOOLEAN
    /\ clearSeen \in BOOLEAN /\ powerSeen \in BOOLEAN /\ reported \in BOOLEAN
-----------------------------------------------------------------------------
(* What makes the node correct. *)

\* The stop is withdrawn only if since this poll began the PLC has shown every contact
\* clear and power on: never on values of an earlier poll, of another request or of a
\* connection that broke in between, and not by starting (safety_io_node.cpp:444, 612-618).
ReleaseIsCurrent ==
    [][estop /\ ~estop' => clearSeen /\ (PowerChecked => powerSeen)]_vars

\* Once the PLC's latched stop has been reported it stays reported until power is back,
\* whatever contacts are let go, links break or nodes restart (INTERFACE.txt:454-456).
LatchedStopHolds == reported => estop

\* A stop is reported by a node that lives, and so is the loss of the PLC, whatever the
\* link does meanwhile (INTERFACE.txt:457).
StopReported ==
    <>[](pc # "down") /\ \/ \E s \in EstopSources : <>[](s \in operated)
                         \/ PowerChecked /\ <>[]~power
                         \/ <>[](link = "cut")
        => <>[]estop

\* The loss of the PLC shows on /safety/connected too (safety_io_driver/README.md:87-89).
LossReported == <>[](pc # "down") /\ <>[](link = "cut") => <>[]~connected

\* With the contacts clear, power on and the PLC reachable for good, the stop is withdrawn:
\* no timeout, wrong answer or restart leaves the node without a connection.
ReleaseReported ==
    <>[](pc # "down" /\ operated \cap EstopSources = {} /\ power /\ link = "good")
        => <>[](connected /\ ~estop)
=============================================================================
