----------------------------- MODULE BmsDriver -----------------------------
(***************************************************************************)
(* BmsDriver (bms_driver/src/bms_driver_node.cpp) on its CanInterface, with *)
(* the battery management system at the other end of the bus.  The spinner  *)
(* thread polls and publishes, the reader thread stores the answers.  Time  *)
(* passes in periods of poll_rate and publish_rate (both 2 Hz), in each of  *)
(* which either timer fires once, in either order.                          *)
(***************************************************************************)
EXTENDS CanInterface, FiniteSets

CONSTANTS Timeout,     \* timeout_sec in periods
          Conditions,  \* the conditions the battery may be in
          Answer,      \* what the BMS can be asked for, and other traffic
          MaxEvents    \* bound: events of the environment

ASSUME TimeoutAssumption == Timeout \in Nat \ {0}
ASSUME EventsAssumption == MaxEvents \in Nat

\* The answers that status and health are made of.  Temperatures (0x92), voltages and
\* capacities are data no property is about.
Queries == {"soc", "state", "charger", "alarms"}   \* 0x90, 0x93, 0x94, 0x98

\* A condition is what the four answers tell: soc >= 99.5 %, the charge-discharge state,
\* the charger connected, an alarm bit set.
Condition == [full : BOOLEAN, cd : {"rest", "charge", "discharge"},
              charger : BOOLEAN, fault : BOOLEAN]

ASSUME ConditionAssumption == Conditions # {} /\ Conditions \subseteq Condition
ASSUME AnswerAssumption == Answer = Queries \cup {"other"}
ASSUME FrameAssumption == Frame = [id : Answer, of : Conditions]

VARIABLES got,        \* got_data_
          age,        \* periods since last_rx_
          known,      \* the values stored by the callback
          polled,     \* the poll timer has fired in this period
          published,  \* the publish timer has fired in this period
          pub         \* the last message on /bms/state

VARIABLES battery,    \* the condition of the battery
          serving,    \* the BMS is powered and wired
          asked,      \* requests it has received and not answered
          quiet,      \* periods since it last answered a request for 0x90
          events      \* events of the environment so far

dataVars == <<got, age, known>>
spinVars == <<polled, published, pub>>
bmsVars == <<battery, serving, asked, quiet>>
vars == <<canVars, dataVars, spinVars, bmsVars, events>>
-----------------------------------------------------------------------------
(* The spinner. *)

\* Mutant: the alarms are not asked for.
PollTimerNoAlarms ==
    /\ owner = "up" /\ ~polled
    /\ polled' = TRUE
    /\ asked' = IF Sends /\ serving THEN asked \cup (Queries \ {"alarms"}) ELSE asked
    /\ UNCHANGED <<canVars, dataVars, published, pub, battery, serving, quiet, events>>

\* pollTimer: one request after the other, none of them confirmed.
PollTimer ==
    /\ owner = "up" /\ ~polled
    /\ polled' = TRUE
    /\ asked' = IF Sends /\ serving THEN asked \cup Queries ELSE asked
    /\ UNCHANGED <<canVars, dataVars, published, pub, battery, serving, quiet, events>>

\* Mutant: data exactly timeout_sec old pass for fresh.
FreshAtTimeout == got /\ age <= Timeout

\* fresh
Fresh == got /\ age < Timeout

StatusOf(c) == CASE c.charger \/ c.cd = "charge" -> "CHARGING"
                 [] ~c.charger /\ c.cd = "discharge" -> "DISCHARGING"
                 [] ~c.charger /\ c.cd = "rest" -> IF c.full THEN "FULL" ELSE "NOT_CHARGING"

HealthOf(c) == IF c.fault THEN "UNSPEC_FAILURE" ELSE "GOOD"

Message(c) == [present |-> TRUE, status |-> StatusOf(c), health |-> HealthOf(c)]
Absent == [present |-> FALSE, status |-> "UNKNOWN", health |-> "UNKNOWN"]

\* Mutant: the charging state goes out as it is stored.
PublishTimerRaw ==
    /\ owner = "up" /\ ~published
    /\ published' = TRUE
    /\ pub' = IF Fresh THEN [Message(known) EXCEPT !.status = known.cd] ELSE Absent
    /\ UNCHANGED <<canVars, dataVars, polled, bmsVars, events>>

\* publishTimer, under data_mutex_ as a whole.
PublishTimer ==
    /\ owner = "up" /\ ~published
    /\ published' = TRUE
    /\ pub' = IF Fresh THEN Message(known) ELSE Absent
    /\ UNCHANGED <<canVars, dataVars, polled, bmsVars, events>>

\* ros::spin returns, and the destructor closes the interface.
Shutdown ==
    /\ CloseBegins
    /\ UNCHANGED <<dataVars, spinVars, bmsVars, events>>

Closes ==
    /\ CloseEnds
    /\ UNCHANGED <<dataVars, spinVars, bmsVars, events>>
-----------------------------------------------------------------------------
(* The reader thread. *)

Reads ==
    /\ ReaderSteps
    /\ UNCHANGED <<dataVars, spinVars, bmsVars, events>>

\* canCallback: each answer stores its own part; only 0x90 counts as reception.  Frames
\* that are not answers of this BMS are dropped.
CanCallback ==
    /\ CallbackReturns
    /\ known' = CASE Taken.id = "soc"     -> [known EXCEPT !.full = Taken.of.full]
                  [] Taken.id = "state"   -> [known EXCEPT !.cd = Taken.of.cd]
                  [] Taken.id = "charger" -> [known EXCEPT !.charger = Taken.of.charger]
                  [] Taken.id = "alarms"  -> [known EXCEPT !.fault = Taken.of.fault]
                  [] Taken.id = "other"   -> known
    /\ IF Taken.id = "soc" THEN got' = TRUE /\ age' = 0 ELSE UNCHANGED <<got, age>>
    /\ UNCHANGED <<spinVars, bmsVars, events>>
-----------------------------------------------------------------------------
(* Time, the BMS and the bus. *)

\* Timing fact: a period (0.5 s) is long enough for the BMS to answer what it can, and for
\* the reader to take what has arrived.
PeriodEnds ==
    /\ owner = "up" /\ polled /\ published
    /\ rx = <<>> /\ ~err /\ reader \in {"none", "read"}
    /\ serving /\ Sends => asked = {}
    /\ polled' = FALSE /\ published' = FALSE
    /\ age' = IF age < Timeout THEN age + 1 ELSE age
    /\ quiet' = IF quiet <= Timeout THEN quiet + 1 ELSE quiet
    /\ UNCHANGED <<canVars, got, known, pub, battery, serving, asked, events>>

\* The BMS answers in the order it is asked in.
Rank == [soc |-> 1, state |-> 2, charger |-> 3, alarms |-> 4]

Answers(q) ==
    /\ serving /\ q \in asked /\ \A p \in asked : Rank[q] <= Rank[p]
    /\ Receives([id |-> q, of |-> battery])
    /\ asked' = asked \ {q}
    /\ quiet' = IF q = "soc" THEN 0 ELSE quiet
    /\ UNCHANGED <<fd, running, reader, owner, err, port, dataVars, spinVars,
                   battery, serving, events>>

Event == events < MaxEvents /\ events' = events + 1

AnswerLost ==
    /\ Event
    /\ \E q \in asked : asked' = asked \ {q}
    /\ UNCHANGED <<canVars, dataVars, spinVars, battery, serving, quiet>>

OtherTraffic ==
    /\ Event
    /\ Receives([id |-> "other", of |-> battery])
    /\ UNCHANGED <<fd, running, reader, owner, err, port, dataVars, spinVars, bmsVars>>

BatteryChanges ==
    /\ Event
    /\ owner = "up"
    /\ battery' \in Conditions \ {battery}
    /\ UNCHANGED <<canVars, dataVars, spinVars, serving, asked, quiet>>

BmsFails ==
    /\ Event
    /\ serving /\ serving' = FALSE
    /\ asked' = {}
    /\ UNCHANGED <<canVars, dataVars, spinVars, battery, quiet>>

BmsBack ==
    /\ ~serving /\ serving' = TRUE
    /\ UNCHANGED <<canVars, dataVars, spinVars, battery, asked, quiet, events>>

BusFails ==
    /\ Event
    /\ \E how \in {"down", "gone"} : PortFails(how)
    /\ UNCHANGED <<dataVars, spinVars, bmsVars>>

BusBack ==
    /\ PortBack
    /\ UNCHANGED <<dataVars, spinVars, bmsVars, events>>
-----------------------------------------------------------------------------
Init ==
    /\ CanInit
    /\ got = FALSE /\ age = Timeout
    /\ known = [full |-> FALSE, cd |-> "rest", charger |-> FALSE, fault |-> FALSE]
    /\ polled = FALSE /\ published = FALSE
    /\ pub = Absent
    /\ battery \in Conditions
    /\ serving = TRUE /\ asked = {} /\ quiet = Timeout + 1
    /\ events = 0

Next ==
    \/ PollTimer \/ PublishTimer \/ Shutdown \/ Closes
    \/ Reads \/ CanCallback
    \/ PeriodEnds
    \/ \E q \in Queries : Answers(q)
    \/ AnswerLost \/ OtherTraffic \/ BatteryChanges
    \/ BmsFails \/ BmsBack \/ BusFails \/ BusBack

Spec == Init /\ [][Next]_vars

\* Timers fire, threads are scheduled, time passes, and a BMS that serves answers.
\* Nobody owes a shutdown or an event.
FairSpec ==
    /\ Spec
    /\ WF_vars(PollTimer) /\ WF_vars(PublishTimer) /\ WF_vars(PeriodEnds)
    /\ WF_vars(Reads) /\ WF_vars(CanCallback) /\ WF_vars(Closes)
    /\ \A q \in Queries : WF_vars(Answers(q))
-----------------------------------------------------------------------------
StatusName == {"UNKNOWN", "CHARGING", "DISCHARGING", "FULL", "NOT_CHARGING"}

\* Type correctness of the interface, the stored values, the last message and the BMS.
TypeOK ==
    /\ CanTypeOK
    /\ got \in BOOLEAN /\ age \in 0..Timeout /\ known \in Condition
    /\ polled \in BOOLEAN /\ published \in BOOLEAN
    /\ pub \in [present : BOOLEAN, status : StatusName,
                health : {"UNKNOWN", "GOOD", "UNSPEC_FAILURE"}]
    /\ battery \in Conditions /\ serving \in BOOLEAN /\ asked \subseteq Queries
    /\ quiet \in 0..(Timeout + 1) /\ events \in 0..MaxEvents

\* A battery shown as present has answered within timeout_sec and the period the message
\* stands for, whatever answers were lost in between and however publications fall
\* (bms_driver_node.cpp:118, INTERFACE.txt:228).
PresenceIsCurrent == owner = "up" /\ pub.present => quiet <= Timeout

\* Once the battery stays as it is and the BMS answers, the message shows that condition,
\* a fault and the charging state included, for good, although every message is put
\* together from four answers of different moments (bms_driver_node.cpp:58-66, 77-108).
PictureConverges ==
    \A c \in Conditions :
        <>[](owner = "up" /\ Sends /\ serving /\ battery = c) => <>[](pub = Message(c))
=============================================================================
