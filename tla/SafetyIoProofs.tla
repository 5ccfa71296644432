--------------------------- MODULE SafetyIoProofs ---------------------------
(* Proofs about SafetyIo, for every set of signals, wiring and range of ids. *)
EXTENDS SafetyIo, TLAPS

Busy == pc \notin {"idle", "down"}

\* The history flags know what the image has shown in this poll.
ImageSeen == Busy => /\ Clear(image.in) => clearSeen
                     /\ image.power => powerSeen

\* What is on its way belongs to the request the node waits for, asked in this poll.
WireCurrent ==
    /\ wire.at = "plc" => Waiting /\ wire.block = Block
    /\ wire.at = "host" =>
          \/ pc = "waitInputs"  /\ (Clear(wire.data.in) => clearSeen)
          \/ pc = "waitOutputs" /\ (wire.data.power => powerSeen)

\* What the node has read it has read in this poll.
GotCurrent ==
    /\ pc \in {"askOutputs", "waitOutputs", "read", "publish"} => (Clear(got.in) => clearSeen)
    /\ pc \in {"read", "publish"} => (got.power => powerSeen)

\* While a reported stop lasts, nothing has shown power.
LatchedDark == reported => estop /\ PowerChecked /\ ~powerSeen /\ ~image.power
-----------------------------------------------------------------------------
LEMMA WireFacts ==
    ASSUME TypeOK
    PROVE  /\ wire.at \in {"none", "plc", "host"}
           /\ wire.at = "plc" => wire.tid \in 0..TidRange - 1
           /\ wire.at = "host" => wire.data \in Process
BY DEF TypeOK, Wire, NoMessage

LEMMA PartIsProcess ==
    ASSUME image \in Process, NEW b
    PROVE  Part(b) \in Process
BY DEF Part, Blank, Process, Levels

LEMMA BlankIsProcess == Blank \in Process
BY DEF Blank, Process, Levels

LEMMA LevelIsBoolean == ASSUME NEW i PROVE Level(i) \in BOOLEAN
BY DEF Level

LEMMA ClearIsBoolean == ASSUME NEW in PROVE Clear(in) \in BOOLEAN
BY DEF Clear

LEMMA TidInRange ==
    ASSUME tid \in 0..TidRange - 1
    PROVE  NextTid \in 0..TidRange - 1
BY TidAssumption DEF NextTid

LEMMA InitTypeOK == Init => TypeOK
<1> SUFFICES ASSUME Init PROVE TypeOK
  OBVIOUS
<1>1. image \in Process
  BY LevelIsBoolean DEF Init, Process, Levels
<1>2. 0 \in 0..TidRange - 1
  BY TidAssumption
<1> QED
  BY <1>1, <1>2, BlankIsProcess DEF Init, TypeOK, Wire, Step

LEMMA NextTypeOK == TypeOK /\ [Next]_vars => TypeOK'
<1> SUFFICES ASSUME TypeOK, [Next]_vars PROVE TypeOK'
  OBVIOUS
<1> USE DEF Step, topicVars, plcVars, netVars, histVars
<1>1. CASE PollBegins
  BY <1>1, ClearIsBoolean DEF TypeOK, PollBegins, Process
<1>2. CASE OpenSocket
  BY <1>2 DEF TypeOK, OpenSocket, CloseSocket, Wire
<1>3. CASE SendRequest
  <2>1. Request(NextTid, Block) \in Wire
    BY TidInRange DEF TypeOK, Request, Wire, Block
  <2>2. wire' \in Wire
    BY <1>3, <2>1 DEF SendRequest, CloseSocket, Wire
  <2> QED
    BY <1>3, <2>2, TidInRange DEF TypeOK, SendRequest, CloseSocket
<1>4. CASE ReceiveInputs
  <2>1. wire.data \in Process
    BY <1>4, WireFacts DEF ReceiveInputs, Expected
  <2>2. got' \in Process
    BY <1>4, <2>1 DEF TypeOK, ReceiveInputs, Process
  <2> QED
    BY <1>4, <2>2 DEF TypeOK, ReceiveInputs, Wire
<1>5. CASE ReceiveOutputs
  <2>1. wire.data \in Process
    BY <1>5, WireFacts DEF ReceiveOutputs, Expected
  <2>2. got' \in Process
    BY <1>5, <2>1 DEF TypeOK, ReceiveOutputs, Process
  <2> QED
    BY <1>5, <2>2 DEF TypeOK, ReceiveOutputs, Wire
<1>6. CASE ReceiveFails \/ ReceiveTimesOut
  BY <1>6 DEF TypeOK, ReceiveFails, ReceiveTimesOut, CloseSocket, Wire
<1>7. CASE PublishConnected
  BY <1>7 DEF TypeOK, PublishConnected
<1>8. CASE PublishLoss
  BY <1>8, BlankIsProcess DEF TypeOK, PublishLoss, PollOver
<1>9. CASE PublishEstop
  <2>1. StopActive(got) \in BOOLEAN
    BY ClearIsBoolean DEF StopActive
  <2>2. reported' \in BOOLEAN
    BY <1>9 DEF PublishEstop
  <2> QED
    BY <1>9, <2>1, <2>2, BlankIsProcess DEF TypeOK, PublishEstop, PollOver
<1>10. CASE RefreshInputs
  <2>1. image' \in Process
    BY <1>10, LevelIsBoolean DEF TypeOK, RefreshInputs, Process, Levels
  <2>2. clearSeen' \in BOOLEAN
    BY <1>10 DEF RefreshInputs
  <2> QED
    BY <1>10, <2>1, <2>2 DEF TypeOK, RefreshInputs
<1>11. CASE RefreshOutputs
  <2>1. image' \in Process
    BY <1>11 DEF TypeOK, RefreshOutputs, Process
  <2>2. powerSeen' \in BOOLEAN /\ reported' \in BOOLEAN
    BY <1>11 DEF RefreshOutputs
  <2> QED
    BY <1>11, <2>1, <2>2 DEF TypeOK, RefreshOutputs
<1>12. CASE PlcAnswers
  <2>1. PICK what \in {"data", "exception", "malformed", "mismatch"} :
            wire' = Answer(wire.tid, what, Part(wire.block))
    BY <1>12 DEF PlcAnswers
  <2>2. wire.tid \in 0..TidRange - 1
    BY <1>12, WireFacts DEF PlcAnswers
  <2>3. Part(wire.block) \in Process
    BY PartIsProcess DEF TypeOK
  <2>4. wire' \in Wire
    BY <2>1, <2>2, <2>3 DEF Answer, Wire
  <2> QED
    BY <1>12, <2>4 DEF TypeOK, PlcAnswers
<1>13. CASE Environment
  <2>1. CASE Operate
    <3>1. PICK i \in Inputs : operated' = operated \cup {i} /\ power' = (power /\ i \notin EstopSources)
      BY <2>1 DEF Operate
    <3>2. power' \in BOOLEAN
      BY <3>1
    <3>3. operated' \subseteq Inputs
      BY <3>1 DEF TypeOK
    <3> QED
      BY <2>1, <3>2, <3>3 DEF TypeOK, Operate
  <2>2. CASE LetGo
    BY <2>2 DEF TypeOK, LetGo
  <2>3. CASE Reset
    BY <2>3 DEF TypeOK, Reset
  <2>4. CASE LinkChanges
    BY <2>4 DEF TypeOK, LinkChanges
  <2> QED
    BY <1>13, <2>1, <2>2, <2>3, <2>4 DEF Environment
<1>14. CASE Killed
  BY <1>14, BlankIsProcess DEF TypeOK, Killed, CloseSocket, Wire
<1>15. CASE Starts
  <2>1. 0 \in 0..TidRange - 1
    BY TidAssumption
  <2> QED
    BY <1>15, <2>1 DEF TypeOK, Starts
<1>16. CASE UNCHANGED vars
  BY <1>16 DEF TypeOK, vars
<1> QED
  BY <1>1, <1>2, <1>3, <1>4, <1>5, <1>6, <1>7, <1>8, <1>9, <1>10, <1>11, <1>12, <1>13, <1>14,
     <1>15, <1>16 DEF Next, NodeStep, PlcStep

\* Type correctness: PLC image, connection, node and topics keep their types whatever the
\* network and the contacts do.
THEOREM SafetyTypes == Spec => []TypeOK
<1>1. TypeOK /\ [Next]_vars => TypeOK'
  BY NextTypeOK
<1> QED
  BY InitTypeOK, <1>1, PTL DEF Spec
-----------------------------------------------------------------------------
Seen == ImageSeen /\ WireCurrent /\ GotCurrent /\ LatchedDark

LEMMA InitSeen == Init => Seen
BY DEF Init, Seen, ImageSeen, WireCurrent, GotCurrent, LatchedDark, Busy, NoMessage

\* Steps that leave alone what the invariant speaks of, but for the contacts and the link.
LEMMA SeenUntouched ==
    ASSUME Seen, UNCHANGED <<image, wire, pc, got, estop, histVars>>
    PROVE  Seen'
BY DEF Seen, ImageSeen, WireCurrent, GotCurrent, LatchedDark, Busy, Waiting, Block, Clear, Triggered,
       histVars

\* Steps to a failed poll.
LEMMA SeenFailing ==
    ASSUME Seen, wire' = NoMessage, pc' = "failed", Busy,
           UNCHANGED <<image, got, estop, histVars>>
    PROVE  Seen'
BY DEF Seen, ImageSeen, WireCurrent, GotCurrent, LatchedDark, Busy, NoMessage, Clear, Triggered, histVars

LEMMA NextSeen == TypeOK /\ Seen /\ [Next]_vars => Seen'
<1> SUFFICES ASSUME TypeOK, Seen, [Next]_vars PROVE Seen'
  OBVIOUS
<1> USE DEF histVars, topicVars, plcVars, netVars
<1>1. CASE PollBegins
  <2>1. wire.at = "none"
    BY <1>1, WireFacts DEF PollBegins, Seen, WireCurrent, Waiting
  <2> QED
    BY <1>1, <2>1 DEF PollBegins, Seen, ImageSeen, WireCurrent, GotCurrent, LatchedDark, Busy, Clear,
                      Triggered
<1>2. CASE OpenSocket
  <2>1. CASE pc' = "failed" /\ CloseSocket
    BY <1>2, <2>1, SeenFailing DEF OpenSocket, CloseSocket, Busy, Asking
  <2>2. CASE UNCHANGED <<wire, pc>>
    BY <1>2, <2>2, SeenUntouched DEF OpenSocket
  <2> QED
    BY <1>2, <2>1, <2>2 DEF OpenSocket
<1>3. CASE SendRequest
  <2>1. CASE pc' = "failed" /\ CloseSocket
    BY <1>3, <2>1, SeenFailing DEF SendRequest, CloseSocket, Busy, Asking
  <2>2. CASE pc = "askInputs" /\ pc' = "waitInputs" /\ wire' = Request(NextTid, "inputs")
    BY <1>3, <2>2 DEF SendRequest, Request, Seen, ImageSeen, WireCurrent, GotCurrent, LatchedDark, Busy,
                      Waiting, Block, Clear, Triggered
  <2>3. CASE pc = "askOutputs" /\ pc' = "waitOutputs" /\ wire' = Request(NextTid, "outputs")
    BY <1>3, <2>3 DEF SendRequest, Request, Seen, ImageSeen, WireCurrent, GotCurrent, LatchedDark, Busy,
                      Waiting, Block, Clear, Triggered
  <2> QED
    BY <1>3, <2>1, <2>2, <2>3 DEF SendRequest, Asking, Block
<1>4. CASE ReceiveInputs
  <2>1. wire.data \in Process /\ (Clear(wire.data.in) => clearSeen)
    BY <1>4, WireFacts DEF ReceiveInputs, Expected, Seen, WireCurrent
  <2>2. got'.in = wire.data.in
    BY <1>4 DEF ReceiveInputs, TypeOK, Process
  <2>3. Clear(got'.in) => clearSeen'
    BY <1>4, <2>1, <2>2 DEF ReceiveInputs
  <2>4. Clear(got.in)' => clearSeen'
    BY <2>3 DEF Clear, Triggered
  <2> QED
    BY <1>4, <2>4 DEF ReceiveInputs, NoMessage, Seen, ImageSeen, WireCurrent, GotCurrent, LatchedDark,
                      Busy, Clear, Triggered
<1>5. CASE ReceiveOutputs
  <2>1. wire.data \in Process /\ (wire.data.power => powerSeen)
    BY <1>5, WireFacts DEF ReceiveOutputs, Expected, Seen, WireCurrent
  <2>2. got'.in = got.in /\ got'.power = wire.data.power
    BY <1>5 DEF ReceiveOutputs, TypeOK, Process
  <2>3. Clear(got.in)' => clearSeen'
    BY <1>5, <2>2 DEF ReceiveOutputs, Seen, GotCurrent, Clear, Triggered
  <2> QED
    BY <1>5, <2>1, <2>2, <2>3 DEF ReceiveOutputs, NoMessage, Seen, ImageSeen, WireCurrent, GotCurrent,
                                  LatchedDark, Busy, Clear, Triggered
<1>6. CASE ReceiveFails \/ ReceiveTimesOut
  BY <1>6, SeenFailing DEF ReceiveFails, ReceiveTimesOut, CloseSocket, Busy, Waiting
<1>7. CASE PublishConnected
  <2>1. ~Waiting /\ ~Waiting' /\ Busy /\ Busy'
    BY <1>7 DEF PublishConnected, Waiting, Busy
  <2> QED
    BY <1>7, <2>1 DEF PublishConnected, Seen, ImageSeen, WireCurrent, GotCurrent, LatchedDark, Waiting,
                      Clear, Triggered
<1>8. CASE PublishLoss
  <2>1. wire.at = "none"
    BY <1>8, WireFacts DEF PublishLoss, Seen, WireCurrent, Waiting
  <2> QED
    BY <1>8, <2>1 DEF PublishLoss, PollOver, Seen, ImageSeen, WireCurrent, GotCurrent, LatchedDark, Busy
<1>9. CASE PublishEstop
  <2>1. wire.at = "none"
    BY <1>9, WireFacts DEF PublishEstop, Seen, WireCurrent, Waiting
  <2>2. reported' => PowerChecked /\ ~powerSeen /\ ~image.power /\ ~got.power
    BY <1>9 DEF PublishEstop, Seen, LatchedDark, ImageSeen, GotCurrent, Busy
  <2>3. reported' => estop'
    BY <1>9, <2>2 DEF PublishEstop, StopActive
  <2> QED
    BY <1>9, <2>1, <2>2, <2>3 DEF PublishEstop, PollOver, Seen, ImageSeen, WireCurrent, GotCurrent,
                                  LatchedDark, Busy
<1>10. CASE RefreshInputs
  <2>1. image'.power = image.power
    BY <1>10 DEF RefreshInputs, TypeOK, Process
  <2>2. Busy => /\ clearSeen => clearSeen'
                /\ Clear(image'.in) => clearSeen'
    BY <1>10 DEF RefreshInputs, Busy
  <2>3. Clear(image.in)' => Clear(image'.in)
    BY DEF Clear, Triggered
  <2> QED
    BY <1>10, <2>1, <2>2, <2>3 DEF RefreshInputs, Seen, ImageSeen, WireCurrent, GotCurrent, LatchedDark,
                                   Busy, Waiting, Block, Clear, Triggered
<1>11. CASE RefreshOutputs
  <2>1. image'.in = image.in /\ image'.power = power
    BY <1>11 DEF RefreshOutputs, TypeOK, Process
  <2>2. Busy => /\ powerSeen => powerSeen'
                /\ power => powerSeen'
    BY <1>11 DEF RefreshOutputs, Busy
  <2>3. reported' => reported /\ ~power /\ ~powerSeen'
    BY <1>11 DEF RefreshOutputs, Seen, LatchedDark
  <2> QED
    BY <1>11, <2>1, <2>2, <2>3 DEF RefreshOutputs, Seen, ImageSeen, WireCurrent, GotCurrent, LatchedDark,
                                   Busy, Waiting, Block, Clear, Triggered
<1>12. CASE PlcAnswers
  <2>1. PICK what : wire' = Answer(wire.tid, what, Part(wire.block))
    BY <1>12 DEF PlcAnswers
  <2>2. wire'.at = "host" /\ wire'.data = Part(wire.block) /\ Waiting /\ wire.block = Block /\ Busy
    BY <1>12, <2>1 DEF PlcAnswers, Answer, Seen, WireCurrent, Waiting, Busy
  <2>3. CASE pc = "waitInputs"
    <3>1. wire'.data.in = image.in
      BY <2>2, <2>3 DEF Part, Block, TypeOK, Process
    <3>2. Clear(wire'.data.in) => clearSeen
      BY <3>1, <2>2 DEF Seen, ImageSeen
    <3>3. Clear(wire.data.in)' => clearSeen'
      BY <1>12, <3>2 DEF PlcAnswers, Clear, Triggered
    <3> QED
      BY <1>12, <2>2, <2>3, <3>3 DEF PlcAnswers, Seen, ImageSeen, WireCurrent, GotCurrent, LatchedDark,
                                     Busy, Clear, Triggered
  <2>4. CASE pc = "waitOutputs"
    <3>1. wire'.data.power = image.power
      BY <2>2, <2>4 DEF Part, Block, Blank
    <3> QED
      BY <1>12, <2>2, <2>4, <3>1 DEF PlcAnswers, Seen, ImageSeen, WireCurrent, GotCurrent, LatchedDark,
                                     Busy, Clear, Triggered
  <2> QED
    BY <2>2, <2>3, <2>4 DEF Waiting
<1>13. CASE Environment
  BY <1>13, SeenUntouched DEF Environment, Operate, LetGo, Reset, LinkChanges
<1>14. CASE Killed
  BY <1>14 DEF Killed, CloseSocket, NoMessage, Seen, ImageSeen, WireCurrent, GotCurrent, LatchedDark, Busy
<1>15. CASE Starts
  <2>1. wire.at = "none"
    BY <1>15, WireFacts DEF Starts, Seen, WireCurrent, Waiting
  <2> QED
    BY <1>15, <2>1 DEF Starts, Seen, ImageSeen, WireCurrent, GotCurrent, LatchedDark, Busy
<1>16. CASE UNCHANGED vars
  BY <1>16, SeenUntouched DEF vars
<1> QED
  BY <1>1, <1>2, <1>3, <1>4, <1>5, <1>6, <1>7, <1>8, <1>9, <1>10, <1>11, <1>12, <1>13, <1>14,
     <1>15, <1>16 DEF Next, NodeStep, PlcStep

LEMMA SeenAlways == Spec => [](TypeOK /\ Seen)
<1>1. Init => TypeOK /\ Seen
  BY InitTypeOK, InitSeen
<1>2. TypeOK /\ Seen /\ [Next]_vars => (TypeOK /\ Seen)'
  BY NextTypeOK, NextSeen
<1> QED
  BY <1>1, <1>2, PTL DEF Spec

\* The stop the PLC has latched and the node reported stays reported until power is back.
THEOREM ReportedStopLasts == Spec => []LatchedStopHolds
<1>1. Seen => LatchedStopHolds
  BY DEF Seen, LatchedDark, LatchedStopHolds
<1> QED
  BY <1>1, SeenAlways, PTL

\* The stop is withdrawn on what the PLC has shown since the poll began, and on nothing else.
THEOREM ReleasesAreCurrent == Spec => ReleaseIsCurrent
<1>1. TypeOK /\ Seen /\ [Next]_vars => [estop /\ ~estop' => clearSeen /\ (PowerChecked => powerSeen)]_vars
  <2> SUFFICES ASSUME TypeOK, Seen, Next, estop, ~estop'
               PROVE  clearSeen /\ (PowerChecked => powerSeen)
    BY DEF vars, topicVars
  <2>1. PublishEstop
    BY DEF Next, NodeStep, PlcStep, Environment, PollBegins, OpenSocket, SendRequest, ReceiveInputs,
           ReceiveOutputs, ReceiveFails, ReceiveTimesOut, PublishConnected, PublishLoss, RefreshInputs,
           RefreshOutputs, PlcAnswers, Operate, LetGo, Reset, LinkChanges, Killed, Starts, topicVars
  <2>2. ~StopActive(got)
    BY <2>1 DEF PublishEstop
  <2> QED
    BY <2>1, <2>2 DEF PublishEstop, StopActive, Seen, GotCurrent
<1> QED
  BY <1>1, SeenAlways, PTL DEF Spec, ReleaseIsCurrent
=============================================================================
