-------------------------- MODULE BmsDriverProofs --------------------------
(***************************************************************************)
(* Proofs about BmsDriver and its CanInterface: types, the life of the      *)
(* reader thread, and how old a battery shown as present may be.            *)
(***************************************************************************)
EXTENDS BmsDriver, TLAPS

\* The type invariant by the kind of its variables.
Flags == fd \in BOOLEAN /\ running \in BOOLEAN /\ err \in BOOLEAN /\ got \in BOOLEAN
         /\ polled \in BOOLEAN /\ published \in BOOLEAN /\ serving \in BOOLEAN
Places == reader \in Reader /\ owner \in Owner /\ port \in {"up", "down", "gone"}
Buffer == rx \in Seq(Frame) /\ Len(rx) <= MaxQueued
Numbers == age \in 0..Timeout /\ quiet \in 0..(Timeout + 1) /\ events \in 0..MaxEvents
Battery == known \in Condition /\ battery \in Conditions /\ asked \subseteq Queries
Shown == pub \in [present : BOOLEAN, status : StatusName,
                  health : {"UNKNOWN", "GOOD", "UNSPEC_FAILURE"}]

LEMMA TypeParts == TypeOK <=> Flags /\ Places /\ Buffer /\ Numbers /\ Battery /\ Shown
  BY Zenon DEF TypeOK, CanTypeOK, Flags, Places, Buffer, Numbers, Battery, Shown
-----------------------------------------------------------------------------
\* A frame is in the callback only when there is one.
FrameInHand == reader = "callback" => rx # <<>>

\* An answer still in the buffer was sent in this period.
AnswersAreNew == \A i \in 1..Len(rx) : rx[i].id = "soc" => quiet = 0

\* Values that pass for fresh were sent no earlier than they were stored.
AgeIsHonest == got /\ age < Timeout => quiet <= age

\* The message of this period has a period to go.
MessageHasTime == pub.present => quiet <= Timeout /\ (published => quiet < Timeout)

IInv == TypeOK /\ FrameInHand /\ CallbackHasOwner /\ AnswersAreNew /\ AgeIsHonest /\ MessageHasTime
-----------------------------------------------------------------------------
\* A frame received goes to the end.
LEMMA Appended ==
    ASSUME rx \in Seq(Frame), NEW f \in Frame
    PROVE  /\ Append(rx, f) \in Seq(Frame) /\ Len(Append(rx, f)) = Len(rx) + 1
           /\ Append(rx, f)[Len(rx) + 1] = f
           /\ \A i \in 1..Len(rx) : Append(rx, f)[i] = rx[i]
  OBVIOUS

\* The first frame of a buffer is a frame, and the rest are the others, one place on.
LEMMA HeadAndTail ==
    ASSUME rx \in Seq(Frame), rx # <<>>
    PROVE  /\ Head(rx) \in Frame /\ Head(rx) = rx[1] /\ 1 \in 1..Len(rx)
           /\ Tail(rx) \in Seq(Frame) /\ Len(Tail(rx)) = Len(rx) - 1
           /\ \A i \in 1..Len(Tail(rx)) : i + 1 \in 1..Len(rx) /\ Tail(rx)[i] = rx[i + 1]
<1>1. Len(rx) \in Nat /\ Len(rx) # 0
  OBVIOUS
<1> QED
  BY <1>1

\* What the callback and the BMS handle are frames of the bus.
LEMMA Frames ==
    ASSUME Places, Buffer, Battery, FrameInHand
    PROVE  /\ reader = "callback" => Taken.of \in Condition /\ Taken.id \in Answer
           /\ \A q \in Answer : [id |-> q, of |-> battery] \in Frame
<1>1. ASSUME reader = "callback" PROVE Taken \in Frame
  BY <1>1, HeadAndTail DEF FrameInHand, Buffer, Taken
<1>2. \A f \in Frame : f.of \in Conditions /\ f.id \in Answer
  BY FrameAssumption
<1>3. \A q \in Answer : [id |-> q, of |-> battery] \in Frame
  BY FrameAssumption DEF Battery
<1> QED
  BY <1>1, <1>2, <1>3, ConditionAssumption
-----------------------------------------------------------------------------
LEMMA InitHolds == Init => IInv
<1> SUFFICES ASSUME Init PROVE IInv
  OBVIOUS
<1> USE DEF Init, CanInit
<1>1. PICK succeeds \in BOOLEAN : Open(succeeds)
  BY Zenon
<1>2. Flags
  BY <1>1, Zenon DEF Flags, Open
<1>3. Places
  BY <1>1 DEF Places, Open, Reader, Owner
<1>4. Buffer
  BY QueueAssumption DEF Buffer
<1>5. Numbers
  BY TimeoutAssumption, EventsAssumption DEF Numbers
<1>6. Battery
  BY DEF Battery, Condition
<1>7. Shown
  BY DEF Shown, Absent, StatusName
<1>8. FrameInHand /\ CallbackHasOwner
  BY <1>1 DEF FrameInHand, CallbackHasOwner, Open
<1>9. AnswersAreNew /\ AgeIsHonest /\ MessageHasTime
  BY DEF AnswersAreNew, AgeIsHonest, MessageHasTime, Absent
<1> QED
  BY <1>2, <1>3, <1>4, <1>5, <1>6, <1>7, <1>8, <1>9, TypeParts, Zenon DEF IInv

LEMMA FlagsStay == Flags /\ [Next]_vars => Flags'
  BY Zenon DEF Flags, Next, vars, canVars, dataVars, spinVars, bmsVars, PollTimer, PublishTimer,
     Shutdown, CloseBegins, Closes, CloseEnds, Reads, ReaderSteps, ReaderCheck, ReadFails, ReadReturns, CanCallback,
     CallbackReturns, PeriodEnds, Answers, Receives, Event, AnswerLost, OtherTraffic, BatteryChanges,
     BmsFails, BmsBack, BusFails, PortFails, BusBack, PortBack

LEMMA PlacesStay == Places /\ [Next]_vars => Places'
  BY DEF Places, Reader, Owner, Next, vars, canVars, dataVars, spinVars, bmsVars, PollTimer, PublishTimer,
     Shutdown, CloseBegins, Closes, CloseEnds, Reads, ReaderSteps, ReaderCheck, ReadFails, ReadReturns, CanCallback,
     CallbackReturns, PeriodEnds, Answers, Receives, Event, AnswerLost, OtherTraffic, BatteryChanges,
     BmsFails, BmsBack, BusFails, PortFails, BusBack, PortBack

\* Periods and events are counted by the clock, the answers and the events alone.
LEMMA NumbersStay == Numbers /\ [Next]_vars => Numbers'
<1> SUFFICES ASSUME Numbers, [Next]_vars PROVE Numbers'
  OBVIOUS
<1> USE TimeoutAssumption, EventsAssumption DEF Numbers
<1>1. CASE PeriodEnds
  BY <1>1 DEF PeriodEnds
<1>2. ASSUME NEW q \in Queries, Answers(q) PROVE Numbers'
  BY <1>2 DEF Answers, dataVars
<1>3. CASE CanCallback
  BY <1>3 DEF CanCallback, bmsVars
<1>4. CASE AnswerLost \/ OtherTraffic \/ BatteryChanges \/ BmsFails \/ BusFails
  BY <1>4 DEF AnswerLost, OtherTraffic, BatteryChanges, BmsFails, BusFails, Event, dataVars, bmsVars
<1>5. CASE PollTimer \/ PublishTimer \/ Shutdown \/ Closes \/ Reads \/ BmsBack \/ BusBack \/ UNCHANGED vars
  BY <1>5 DEF PollTimer, PublishTimer, Shutdown, Closes, Reads, BmsBack, BusBack, vars, dataVars, bmsVars
<1> QED
  BY <1>1, <1>2, <1>3, <1>4, <1>5, Zenon DEF Next

\* What changes the buffer: an arrival, a frame handed on, and the close.
LEMMA BufferChanges ==
    ASSUME TypeOK, FrameInHand, [Next]_vars
    PROVE  \/ UNCHANGED rx
           \/ rx' = <<>>
           \/ CanCallback /\ rx # <<>> /\ rx' = Tail(rx)
           \/ \E q \in Queries : Answers(q) /\ Len(rx) < MaxQueued
                                 /\ rx' = Append(rx, [id |-> q, of |-> battery])
           \/ OtherTraffic /\ Len(rx) < MaxQueued /\ rx' = Append(rx, [id |-> "other", of |-> battery])
<1>1. CASE CanCallback
  BY <1>1 DEF CanCallback, CallbackReturns, FrameInHand
<1>2. ASSUME NEW q \in Queries, Answers(q)
      PROVE  Len(rx) < MaxQueued /\ rx' = Append(rx, [id |-> q, of |-> battery])
  BY <1>2 DEF Answers, Receives, Carries
<1>3. CASE OtherTraffic
  BY <1>3 DEF OtherTraffic, Receives, Carries
<1>4. CASE Closes
  BY <1>4 DEF Closes, CloseEnds
<1>5. CASE PollTimer \/ PublishTimer \/ Shutdown \/ Reads
  BY <1>5 DEF PollTimer, PublishTimer, Shutdown, CloseBegins, Reads, ReaderSteps, ReaderCheck, ReadFails,
     ReadReturns, canVars
<1>6. CASE PeriodEnds \/ AnswerLost \/ BatteryChanges \/ BmsFails \/ BmsBack \/ BusFails \/ BusBack \/ UNCHANGED vars
  BY <1>6 DEF PeriodEnds, AnswerLost, BatteryChanges, BmsFails, BmsBack, BusFails, BusBack, PortFails,
     PortBack, canVars, vars
<1> QED
  BY <1>1, <1>2, <1>3, <1>4, <1>5, <1>6, Zenon DEF Next

LEMMA BufferStays == TypeOK /\ FrameInHand /\ [Next]_vars => Buffer'
<1> SUFFICES ASSUME TypeOK, FrameInHand, [Next]_vars PROVE Buffer'
  OBVIOUS
<1>1. Places /\ Buffer /\ Battery
  BY TypeParts, Zenon
<1>2. \A q \in Answer : [id |-> q, of |-> battery] \in Frame
  BY <1>1, Frames
<1>3. Queries \subseteq Answer /\ "other" \in Answer
  BY AnswerAssumption
<1>4. ASSUME NEW f \in Frame, Len(rx) < MaxQueued, rx' = Append(rx, f) PROVE Buffer'
  BY <1>1, <1>4, Appended, QueueAssumption DEF Buffer
<1>5. ASSUME rx # <<>>, rx' = Tail(rx) PROVE Buffer'
  BY <1>1, <1>5, HeadAndTail, QueueAssumption DEF Buffer
<1>6. CASE UNCHANGED rx
  BY <1>1, <1>6 DEF Buffer
<1>7. CASE rx' = <<>>
  BY <1>7, QueueAssumption DEF Buffer
<1> QED
  BY <1>2, <1>3, <1>4, <1>5, <1>6, <1>7, BufferChanges

LEMMA BatteryStays == TypeOK /\ FrameInHand /\ [Next]_vars => Battery'
<1> SUFFICES ASSUME TypeOK, FrameInHand, [Next]_vars PROVE Battery'
  OBVIOUS
<1>1. Places /\ Buffer /\ Battery
  BY TypeParts, Zenon
<1>2. CASE CanCallback
  <2>1. Taken.of \in Condition
    BY <1>1, <1>2, Frames DEF CanCallback, CallbackReturns
  <2>2. known \in Condition
    BY <1>1 DEF Battery
  <2>3. \/ known' = known
        \/ known' = [known EXCEPT !.full = Taken.of.full]
        \/ known' = [known EXCEPT !.cd = Taken.of.cd]
        \/ known' = [known EXCEPT !.charger = Taken.of.charger]
        \/ known' = [known EXCEPT !.fault = Taken.of.fault]
    <3>1. Taken.id \in {"soc", "state", "charger", "alarms", "other"}
      BY <1>1, <1>2, Frames, AnswerAssumption DEF CanCallback, CallbackReturns, Queries
    <3> QED
      BY <3>1, <1>2 DEF CanCallback
  <2>4. known' \in Condition
    BY <2>1, <2>2, <2>3 DEF Condition
  <2> QED
    BY <1>1, <1>2, <2>4 DEF Battery, CanCallback, bmsVars
<1>3. CASE BatteryChanges
  BY <1>1, <1>3 DEF BatteryChanges, Battery, dataVars
<1>4. ASSUME NEW q \in Queries, Answers(q) PROVE Battery'
  BY <1>1, <1>4 DEF Answers, Battery, dataVars
<1>5. CASE PollTimer \/ PublishTimer \/ Shutdown \/ Closes \/ Reads \/ PeriodEnds
  BY <1>1, <1>5 DEF PollTimer, PublishTimer, Shutdown, Closes, Reads, PeriodEnds, Battery, dataVars, bmsVars
<1>6. CASE AnswerLost \/ OtherTraffic \/ BmsFails \/ BmsBack \/ BusFails \/ BusBack \/ UNCHANGED vars
  BY <1>1, <1>6 DEF AnswerLost, OtherTraffic, BmsFails, BmsBack, BusFails, BusBack, Battery,
     dataVars, bmsVars, vars
<1> QED
  BY <1>2, <1>3, <1>4, <1>5, <1>6, Zenon DEF Next

LEMMA ShownStays == Battery /\ Shown /\ [Next]_vars => Shown'
<1> SUFFICES ASSUME Battery, Shown, [Next]_vars PROVE Shown'
  OBVIOUS
<1>1. CASE PublishTimer
  <2>1. StatusOf(known) \in StatusName
    <3>1. known.charger \in BOOLEAN /\ known.cd \in {"rest", "charge", "discharge"}
      BY DEF Battery, Condition
    <3> QED
      BY <3>1 DEF StatusOf, StatusName
  <2>2. HealthOf(known) \in {"UNKNOWN", "GOOD", "UNSPEC_FAILURE"}
    BY DEF HealthOf
  <2>3. pub' = Message(known) \/ pub' = Absent
    BY <1>1 DEF PublishTimer
  <2>4. CASE pub' = Message(known)
    BY <2>1, <2>2, <2>4 DEF Shown, Message
  <2>5. CASE pub' = Absent
    BY <2>5 DEF Shown, Absent, StatusName
  <2> QED
    BY <2>3, <2>4, <2>5
<1>2. CASE UNCHANGED pub
  BY <1>2 DEF Shown
<1>3. ~PublishTimer => UNCHANGED pub
  BY Zenon DEF Next, vars, spinVars, PollTimer, Shutdown, Closes, Reads, CanCallback, PeriodEnds, Answers,
     AnswerLost, OtherTraffic, BatteryChanges, BmsFails, BmsBack, BusFails, BusBack
<1> QED
  BY <1>1, <1>2, <1>3

LEMMA TypesStay == TypeOK /\ FrameInHand /\ [Next]_vars => TypeOK'
<1> SUFFICES ASSUME TypeOK, FrameInHand, [Next]_vars PROVE TypeOK'
  OBVIOUS
<1>1. Flags /\ Places /\ Numbers /\ Battery /\ Shown
  BY TypeParts, Zenon
<1>2. Flags' /\ Places' /\ Numbers' /\ Shown'
  BY <1>1, FlagsStay, PlacesStay, NumbersStay, ShownStays, Zenon
<1>3. Buffer' /\ Battery'
  BY BufferStays, BatteryStays, Zenon
<1> QED
  BY <1>2, <1>3, Zenon DEF TypeOK, CanTypeOK, Flags, Places, Buffer, Numbers, Battery, Shown
-----------------------------------------------------------------------------
(* The reader thread. *)

LEMMA ReaderStays ==
    FrameInHand /\ CallbackHasOwner /\ Buffer /\ [Next]_vars => FrameInHand' /\ CallbackHasOwner'
<1> SUFFICES ASSUME FrameInHand, CallbackHasOwner, Buffer, [Next]_vars
             PROVE  FrameInHand' /\ CallbackHasOwner'
  OBVIOUS
<1> USE DEF FrameInHand, CallbackHasOwner
<1>1. CASE Reads
  BY <1>1 DEF Reads, ReaderSteps, ReaderCheck, ReadFails, ReadReturns
<1>2. CASE CanCallback
  BY <1>2 DEF CanCallback, CallbackReturns
<1>3. CASE Shutdown
  BY <1>3 DEF Shutdown, CloseBegins
<1>4. CASE Closes
  BY <1>4 DEF Closes, CloseEnds
<1>5. ASSUME NEW f, Receives(f), UNCHANGED <<fd, reader, owner>> PROVE FrameInHand' /\ CallbackHasOwner'
  BY <1>5 DEF Receives, Buffer
<1>6. ASSUME NEW q \in Queries, Answers(q) PROVE FrameInHand' /\ CallbackHasOwner'
  BY <1>5, <1>6 DEF Answers
<1>7. CASE OtherTraffic
  BY <1>5, <1>7 DEF OtherTraffic
<1>8. CASE BusFails \/ BusBack
  BY <1>8 DEF BusFails, PortFails, BusBack, PortBack
<1>9. CASE UNCHANGED canVars
  BY <1>9 DEF canVars
<1> QED
  BY <1>1, <1>2, <1>3, <1>4, <1>6, <1>7, <1>8, <1>9, Zenon DEF Next, vars, PollTimer, PublishTimer, PeriodEnds,
     AnswerLost, BatteryChanges, BmsFails, BmsBack
-----------------------------------------------------------------------------
(* The age of what is shown. *)

\* An answer leaves the buffer in the period it came in.
LEMMA AnswersStayNew == IInv /\ [Next]_vars => AnswersAreNew'
<1> SUFFICES ASSUME IInv, [Next]_vars PROVE AnswersAreNew'
  OBVIOUS
<1>1. TypeOK /\ FrameInHand /\ AnswersAreNew /\ Buffer /\ Numbers
  BY TypeParts, Zenon DEF IInv
<1>2. CASE PeriodEnds
  BY <1>2 DEF PeriodEnds, AnswersAreNew, canVars
<1>3. ASSUME NEW q \in Queries, Answers(q) PROVE AnswersAreNew'
  <2>1. rx' = Append(rx, [id |-> q, of |-> battery]) /\ quiet' = IF q = "soc" THEN 0 ELSE quiet
    BY <1>3 DEF Answers, Receives
  <2>2. Len(rx') = Len(rx) + 1 /\ rx'[Len(rx) + 1].id = q /\ \A i \in 1..Len(rx) : rx'[i] = rx[i]
    BY <1>1, <2>1 DEF Buffer
  <2>3. Len(rx) \in Nat
    BY <1>1 DEF Buffer
  <2>4. CASE q = "soc"
    BY <2>1, <2>4 DEF AnswersAreNew
  <2>5. CASE q # "soc"
    BY <1>1, <2>1, <2>2, <2>3, <2>5 DEF AnswersAreNew
  <2> QED
    BY <2>4, <2>5
<1>4. ASSUME UNCHANGED quiet, OtherTraffic PROVE AnswersAreNew'
  <2>1. rx' = Append(rx, [id |-> "other", of |-> battery])
    BY <1>4 DEF OtherTraffic, Receives
  <2>2. Len(rx') = Len(rx) + 1 /\ rx'[Len(rx) + 1].id = "other" /\ \A i \in 1..Len(rx) : rx'[i] = rx[i]
    BY <1>1, <2>1 DEF Buffer
  <2>3. Len(rx) \in Nat
    BY <1>1 DEF Buffer
  <2> QED
    BY <1>1, <1>4, <2>2, <2>3 DEF AnswersAreNew
<1>5. ASSUME UNCHANGED quiet, CanCallback PROVE AnswersAreNew'
  <2>1. rx # <<>> /\ rx' = Tail(rx)
    BY <1>1, <1>5 DEF CanCallback, CallbackReturns, FrameInHand
  <2>2. \A i \in 1..Len(rx') : i + 1 \in 1..Len(rx) /\ rx'[i] = rx[i + 1]
    BY <1>1, <2>1, HeadAndTail DEF Buffer
  <2> QED
    BY <1>1, <1>5, <2>2 DEF AnswersAreNew
<1>6. ASSUME UNCHANGED quiet, UNCHANGED rx \/ rx' = <<>> PROVE AnswersAreNew'
  BY <1>1, <1>6 DEF AnswersAreNew
<1>7. PeriodEnds \/ (\E q \in Queries : Answers(q)) \/ UNCHANGED quiet
  BY Zenon DEF Next, vars, bmsVars, PollTimer, PublishTimer, Shutdown, Closes, Reads, CanCallback,
     AnswerLost, OtherTraffic, BatteryChanges, BmsFails, BmsBack, BusFails, BusBack
<1> QED
  BY <1>1, <1>2, <1>3, <1>4, <1>5, <1>6, <1>7, BufferChanges

\* What passes for fresh has an age that counts from its arrival, in the period of its answer.
LEMMA AgeStaysHonest == IInv /\ [Next]_vars => AgeIsHonest'
<1> SUFFICES ASSUME IInv, [Next]_vars PROVE AgeIsHonest'
  OBVIOUS
<1>1. TypeOK /\ FrameInHand /\ AnswersAreNew /\ AgeIsHonest /\ Buffer /\ Numbers
  BY TypeParts, Zenon DEF IInv
<1>2. CASE PeriodEnds
  BY <1>1, <1>2, TimeoutAssumption DEF PeriodEnds, AgeIsHonest, Numbers
<1>3. CASE CanCallback
  <2>1. rx # <<>> /\ quiet' = quiet
    BY <1>1, <1>3 DEF CanCallback, CallbackReturns, FrameInHand, bmsVars
  <2>2. Taken = rx[1] /\ 1 \in 1..Len(rx)
    BY <1>1, <2>1, HeadAndTail DEF Buffer, Taken
  <2>3. CASE Taken.id = "soc"
    BY <1>1, <1>3, <2>1, <2>2, <2>3 DEF CanCallback, AnswersAreNew, AgeIsHonest
  <2>4. CASE Taken.id # "soc"
    BY <1>1, <1>3, <2>1, <2>4 DEF CanCallback, AgeIsHonest
  <2> QED
    BY <2>3, <2>4
<1>4. ASSUME NEW q \in Queries, Answers(q) PROVE AgeIsHonest'
  BY <1>1, <1>4 DEF Answers, AgeIsHonest, Numbers, dataVars
<1>5. CASE UNCHANGED <<got, age, quiet>>
  BY <1>1, <1>5 DEF AgeIsHonest
<1>6. PeriodEnds \/ CanCallback \/ (\E q \in Queries : Answers(q)) \/ UNCHANGED <<got, age, quiet>>
  BY Zenon DEF Next, vars, bmsVars, dataVars, PollTimer, PublishTimer, Shutdown, Closes, Reads,
     AnswerLost, OtherTraffic, BatteryChanges, BmsFails, BmsBack, BusFails, BusBack
<1> QED
  BY <1>2, <1>3, <1>4, <1>5, <1>6

LEMMA MessageStaysInTime == IInv /\ [Next]_vars => MessageHasTime'
<1> SUFFICES ASSUME IInv, [Next]_vars PROVE MessageHasTime'
  OBVIOUS
<1>1. AgeIsHonest /\ MessageHasTime /\ Numbers
  BY TypeParts, Zenon DEF IInv
<1>2. CASE PeriodEnds
  BY <1>1, <1>2, TimeoutAssumption DEF PeriodEnds, MessageHasTime, Numbers
<1>3. CASE PublishTimer
  <2>1. quiet' = quiet
    BY <1>3 DEF PublishTimer, bmsVars
  <2>2. CASE Fresh
    BY <1>1, <2>1, <2>2, TimeoutAssumption DEF Fresh, AgeIsHonest, MessageHasTime, Numbers
  <2>3. CASE ~Fresh
    BY <1>3, <2>3 DEF PublishTimer, Absent, MessageHasTime
  <2> QED
    BY <2>2, <2>3
<1>4. ASSUME NEW q \in Queries, Answers(q) PROVE MessageHasTime'
  BY <1>1, <1>4, TimeoutAssumption DEF Answers, MessageHasTime, Numbers, spinVars
<1>5. CASE UNCHANGED <<pub, published, quiet>>
  BY <1>1, <1>5 DEF MessageHasTime
<1>6. PeriodEnds \/ PublishTimer \/ (\E q \in Queries : Answers(q)) \/ UNCHANGED <<pub, published, quiet>>
  BY Zenon DEF Next, vars, bmsVars, spinVars, PollTimer, Shutdown, Closes, Reads, CanCallback,
     AnswerLost, OtherTraffic, BatteryChanges, BmsFails, BmsBack, BusFails, BusBack
<1> QED
  BY <1>2, <1>3, <1>4, <1>5, <1>6
-----------------------------------------------------------------------------
LEMMA Inductive == IInv /\ [Next]_vars => IInv'
<1> SUFFICES ASSUME IInv, [Next]_vars PROVE IInv'
  OBVIOUS
<1>1. TypeOK /\ FrameInHand /\ CallbackHasOwner /\ Buffer
  BY TypeParts, Zenon DEF IInv
<1>2. TypeOK' /\ FrameInHand' /\ CallbackHasOwner'
  BY <1>1, TypesStay, ReaderStays, Zenon
<1>3. AnswersAreNew' /\ AgeIsHonest' /\ MessageHasTime'
  BY AnswersStayNew, AgeStaysHonest, MessageStaysInTime, Zenon
<1> QED
  BY <1>2, <1>3, Zenon DEF IInv

LEMMA Invariant == Spec => []IInv
  BY InitHolds, Inductive, PTL DEF Spec

\* Every variable of the interface, the driver and the BMS keeps its type (the state of
\* bms_driver_node.hpp:60-75 and can_interface.hpp:33-37).
THEOREM BmsTypes == Spec => []TypeOK
<1>1. IInv => TypeOK
  BY Zenon DEF IInv
<1> QED
  BY <1>1, Invariant, PTL

\* The reader thread never calls back into a node that is gone, nor reads a closed socket,
\* whatever is under way when the interface is closed (can_interface.cpp:51-61).
THEOREM ReaderIsJoined == Spec => []CallbackHasOwner
<1>1. IInv => CallbackHasOwner
  BY Zenon DEF IInv
<1> QED
  BY <1>1, Invariant, PTL

\* For every timeout and every loss of requests and answers, a battery shown as present has
\* answered within timeout_sec (bms_driver_node.cpp:118).
THEOREM PresentMeansHeard == Spec => []PresenceIsCurrent
<1>1. IInv => PresenceIsCurrent
  BY Zenon DEF IInv, MessageHasTime, PresenceIsCurrent
<1> QED
  BY <1>1, Invariant, PTL
=============================================================================
