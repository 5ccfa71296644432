-------------------------- MODULE DriveChainProofs --------------------------
(***************************************************************************)
(* Theorems of DriveChain: what reaches the motors is what the user sent,   *)
(* within the limits of the base controller, for any number of motors and   *)
(* of messages under way.                                                   *)
(***************************************************************************)
EXTENDS DriveChain, SequenceTheorems, TLAPS

\* What a user's velocity, or a missing one, may become on its way: without a usable
\* geometry nothing but zero.
Allowed == {0} \cup {Limited(v) : v \in IF Geometry THEN CmdVels ELSE {}}

LEMMA LimitedZero == Limited(0) = 0
BY MaxVelAssumption DEF Limited

LEMMA AllowedFacts ==
    /\ 0 \in Allowed
    /\ Allowed \subseteq Commands /\ Allowed \subseteq Int
    /\ Geometry => \A v \in CmdVels \cup {0} : Limited(v) \in Allowed
<1>1. ASSUME NEW v \in CmdVels PROVE Limited(v) \in Int
  BY <1>1, CmdVelsAssumption, MaxVelAssumption DEF Limited
<1> QED BY <1>1, LimitedZero, ChainAssumption DEF Allowed

\* A limited velocity is within the limit.
LEMMA LimitedWithinLimit ==
    ASSUME MaxVel # 0, NEW v \in CmdVels
    PROVE  Limited(v) \in -MaxVel..MaxVel
BY CmdVelsAssumption, MaxVelAssumption DEF Limited

\* The queue keeps its bound, and what it loses is the oldest message.
LEMMA QueuedFacts ==
    ASSUME NEW S, topic \in Seq(S), Len(topic) <= MaxTopic, NEW v \in S
    PROVE  Queued(v) \in Seq(S) /\ Len(Queued(v)) <= MaxTopic
<1>1. CASE Len(topic) = MaxTopic
  <2>1. topic # <<>>
    BY <1>1, TopicAssumption
  <2>2. Tail(topic) \in Seq(S) /\ Len(Tail(topic)) = Len(topic) - 1
    BY <2>1, HeadTailProperties
  <2>3. Append(Tail(topic), v) \in Seq(S) /\ Len(Append(Tail(topic), v)) = Len(Tail(topic)) + 1
    BY <2>2, AppendProperties
  <2> QED BY <1>1, <2>2, <2>3, TopicAssumption DEF Queued
<1>2. CASE Len(topic) # MaxTopic
  <2>1. Append(topic, v) \in Seq(S) /\ Len(Append(topic, v)) = Len(topic) + 1
    BY AppendProperties
  <2>2. Len(topic) \in Nat
    BY LenProperties
  <2> QED BY <1>2, <2>1, <2>2, TopicAssumption DEF Queued
<1> QED BY <1>1, <1>2
-----------------------------------------------------------------------------
(* Types, and more: every velocity under way or in force is an allowed one. *)

PathInv ==
    /\ target \in [Nodes -> Allowed]
    /\ gate \in BOOLEAN /\ expired \in BOOLEAN
    /\ cb \in [pc : {"idle", "stamp", "check", "apply"}, msg : Allowed, todo : SUBSET Nodes]
    /\ zeroing \subseteq Nodes

BaseInv ==
    /\ baseUp \in BOOLEAN /\ lapsed \in BOOLEAN
    /\ wanted \in CmdVels \cup {0}
    /\ topic \in Seq(Allowed) /\ Len(topic) <= MaxTopic

BoundsOK == sent \in 0..MaxCmdVels /\ kills \in 0..MaxKills /\ gates \in 0..MaxGates

ChainInv == PathInv /\ BaseInv /\ BoundsOK

LEMMA ChainInvGivesTypes == ChainInv => TypeOK
<1> SUFFICES ASSUME ChainInv PROVE TypeOK
  OBVIOUS
<1>1. target \in [Nodes -> Commands]
  BY AllowedFacts DEF ChainInv, PathInv
<1>2. topic \in Seq(Int)
  BY AllowedFacts, SeqMonotonic DEF ChainInv, BaseInv
<1> QED BY <1>1, <1>2, AllowedFacts DEF ChainInv, PathInv, BaseInv, BoundsOK, TypeOK, BaseTypeOK

LEMMA InitChainInv == Init => ChainInv
<1> SUFFICES ASSUME Init PROVE ChainInv
  OBVIOUS
<1>1. Waits \in [pc : {"idle", "stamp", "check", "apply"}, msg : Allowed, todo : SUBSET Nodes]
  BY AllowedFacts DEF Waits
<1>2. PathInv
  <2>1. gate \in BOOLEAN /\ expired \in BOOLEAN
    BY DEF Init, PathInit
  <2> QED BY <1>1, <2>1, AllowedFacts DEF Init, PathInit, PathInv
<1>3. BaseInv
  <2>1. baseUp \in BOOLEAN /\ lapsed \in BOOLEAN
    BY DEF Init, BaseInit
  <2> QED BY <2>1, EmptySeq, TopicAssumption DEF Init, BaseInit, BaseInv
<1> QED BY <1>2, <1>3, BoundsAssumption DEF Init, ChainInv, BoundsOK

\* Forgetting or stopping a motor, and applying a message, leave allowed targets.
LEMMA TargetSet ==
    ASSUME PathInv, NEW n, NEW v \in Allowed, target' = [target EXCEPT ![n] = v]
    PROVE  target' \in [Nodes -> Allowed]
BY DEF PathInv

LEMMA CallbackKeeps ==
    ASSUME PathInv, Callback
    PROVE  PathInv'
<1>1. CASE Stamp
  BY <1>1 DEF Stamp, PathInv
<1>2. CASE Check
  <2>1. cb' \in [pc : {"idle", "stamp", "check", "apply"}, msg : Allowed, todo : SUBSET Nodes]
    BY <1>2, AllowedFacts DEF Check, Waits, PathInv
  <2> QED BY <1>2, <2>1 DEF Check, PathInv
<1>3. ASSUME NEW n \in Nodes, Apply(n) PROVE PathInv'
  <2>1. target' \in [Nodes -> Allowed]
    BY <1>3, TargetSet DEF Apply, PathInv
  <2>2. cb' \in [pc : {"idle", "stamp", "check", "apply"}, msg : Allowed, todo : SUBSET Nodes]
    BY <1>3, AllowedFacts DEF Apply, Waits, PathInv
  <2> QED BY <1>3, <2>1, <2>2 DEF Apply, PathInv
<1> QED BY <1>1, <1>2, <1>3 DEF Callback

LEMMA StopsKeep ==
    ASSUME PathInv, Expires \/ Stops
    PROVE  PathInv'
<1>1. CASE Expires
  BY <1>1 DEF Expires, PathInv
<1>2. CASE TimeoutSeen
  BY <1>2 DEF TimeoutSeen, PathInv
<1>3. ASSUME NEW n \in Nodes, Zero(n) PROVE PathInv'
  BY <1>3, TargetSet, AllowedFacts DEF Zero, PathInv
<1> QED BY <1>1, <1>2, <1>3 DEF Stops

LEMMA ThreadsKeep ==
    ASSUME ChainInv, Threads
    PROVE  ChainInv'
<1>1. BoundsOK' /\ BaseInv'
  BY BoundsAssumption DEF Threads, baseVars, ChainInv, BoundsOK, BaseInv
<1>2. CASE GateSet(~gate)
  <2>1. gate' \in BOOLEAN
    BY <1>2 DEF GateSet
  <2> QED BY <1>1, <1>2, <2>1 DEF GateSet, ChainInv, PathInv
<1>3. ASSUME NEW n \in Nodes, Forget(n) PROVE PathInv'
  BY <1>3, TargetSet, AllowedFacts DEF Forget, ChainInv, PathInv
<1> QED BY <1>1, <1>2, <1>3 DEF Threads, ChainInv

LEMMA DeliveryKeeps ==
    ASSUME ChainInv, Delivery
    PROVE  ChainInv'
<1>1. Head(topic) \in Allowed /\ topic' \in Seq(Allowed) /\ Len(topic') = Len(topic) - 1
  BY HeadTailProperties DEF Delivery, ChainInv, BaseInv
<1>2. Len(topic) \in Nat
  BY LenProperties DEF ChainInv, BaseInv
<1>3. BaseInv'
  BY <1>1, <1>2, TopicAssumption DEF Delivery, ChainInv, BaseInv
<1>4. PathInv'
  BY <1>1 DEF Delivery, Arrives, ChainInv, PathInv
<1> QED BY <1>3, <1>4 DEF Delivery, bounds, ChainInv, BoundsOK

LEMMA BaseKeeps ==
    ASSUME BaseInv, ControlTimer \/ CmdVelLapses \/ BaseKilled \/ BaseStarts \/ \E v \in CmdVels : CmdVelCallback(v)
    PROVE  BaseInv'
<1>1. CASE ControlTimer
  <2>1. (IF lapsed \/ ~Geometry THEN 0 ELSE Limited(wanted)) \in Allowed
    BY AllowedFacts DEF BaseInv
  <2>2. topic' \in Seq(Allowed) /\ Len(topic') <= MaxTopic
    BY <1>1, <2>1, QueuedFacts DEF ControlTimer, BaseInv
  <2> QED BY <1>1, <2>2 DEF ControlTimer, BaseInv
<1>2. CASE CmdVelLapses
  BY <1>2 DEF CmdVelLapses, BaseInv
<1>3. CASE BaseKilled
  BY <1>3 DEF BaseKilled, BaseInv
<1>4. CASE BaseStarts
  BY <1>4 DEF BaseStarts, BaseInv
<1>5. ASSUME NEW v \in CmdVels, CmdVelCallback(v) PROVE BaseInv'
  BY <1>5 DEF CmdVelCallback, BaseInv
<1> QED BY <1>1, <1>2, <1>3, <1>4, <1>5

LEMMA NextKeepsChainInv == ChainInv /\ [Next]_vars => ChainInv'
<1> SUFFICES ASSUME ChainInv, [Next]_vars PROVE ChainInv'
  OBVIOUS
<1>1. ASSUME UNCHANGED pathVars PROVE PathInv'
  BY <1>1 DEF pathVars, ChainInv, PathInv
<1>2. ASSUME UNCHANGED baseVars PROVE BaseInv'
  BY <1>2 DEF baseVars, ChainInv, BaseInv
<1>3. ASSUME UNCHANGED bounds PROVE BoundsOK'
  BY <1>3 DEF bounds, ChainInv, BoundsOK
<1>4. ASSUME NEW v \in CmdVels, User(v) PROVE ChainInv'
  <2>1. BoundsOK'
    BY <1>4, BoundsAssumption DEF User, ChainInv, BoundsOK
  <2> QED BY <1>1, <1>4, <2>1, BaseKeeps DEF User, ChainInv
<1>5. CASE InBase(ControlTimer) \/ InBase(CmdVelLapses) \/ InBase(BaseStarts)
  BY <1>1, <1>3, <1>5, BaseKeeps DEF InBase, ChainInv
<1>6. CASE BaseDies
  <2>1. BoundsOK'
    BY <1>6, BoundsAssumption DEF BaseDies, ChainInv, BoundsOK
  <2> QED BY <1>1, <1>6, <2>1, BaseKeeps DEF BaseDies, ChainInv
<1>7. CASE InMotorNode(Callback) \/ InMotorNode(Expires) \/ InMotorNode(Stops)
  BY <1>2, <1>3, <1>7, CallbackKeeps, StopsKeep DEF InMotorNode, ChainInv
<1>8. CASE UNCHANGED vars
  BY <1>1, <1>2, <1>3, <1>8 DEF vars, ChainInv
<1> QED BY <1>4, <1>5, <1>6, <1>7, <1>8, DeliveryKeeps, ThreadsKeep DEF Next

LEMMA AlwaysChainInv == Spec => []ChainInv
BY InitChainInv, NextKeepsChainInv, PTL DEF Spec

\* Type correctness of the chain: the queue between the nodes keeps its bound, and the motor
\* node is given nothing but commands.
THEOREM ChainTypes == Spec => []TypeOK
BY AlwaysChainInv, ChainInvGivesTypes, PTL

\* No motor is ever given a velocity beyond the limit of the base controller, one that is not
\* the limited velocity of some message of the user, or any but zero while the geometry is
\* unusable, however the two nodes, their timeouts and the threads behind the gate interleave
\* (base_controller_node.cpp:66-67, 71-75).
MotorsLimited == \A n \in Nodes :
    target[n] # 0 => /\ Geometry
                     /\ \E v \in CmdVels : target[n] = Limited(v)
                     /\ MaxVel # 0 => target[n] \in -MaxVel..MaxVel

THEOREM MotorsAreLimited == Spec => []MotorsLimited
<1>1. ASSUME ChainInv, NEW n \in Nodes, target[n] # 0
      PROVE  Geometry /\ \E v \in CmdVels : target[n] = Limited(v)
  BY <1>1 DEF ChainInv, PathInv, Allowed
<1>2. ChainInv => MotorsLimited
  BY <1>1, LimitedWithinLimit DEF MotorsLimited
<1> QED BY <1>2, AlwaysChainInv, PTL
=============================================================================
