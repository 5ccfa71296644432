--------------------------- MODULE CrevisIoProofs ---------------------------
(* Proofs about CrevisIo, for every set of outputs, bound and set of faults in coil mode. *)
EXTENDS CrevisIo, TLAPS

\* What register mode relies on: the module keeps its outputs, and no write comes late.
RegisterUndisturbed == RegisterFaults \cap {"late", "restart"} = {}
-----------------------------------------------------------------------------
(* Writes *)

LEMMA CoilIsFrame == ASSUME NEW r \in Requests PROVE Coil(r) \in Frames
<1>1. Coil(r) \in [{r.output} -> BOOLEAN]
  BY DEF Coil, Requests
<1>2. {r.output} \in SUBSET Outputs
  BY DEF Requests
<1>3. DOMAIN Coil(r) # {}
  BY DEF Coil
<1> QED
  BY <1>1, <1>2, <1>3 DEF Frames

LEMMA StatesAreFrames == States \subseteq Frames
BY RelayAssumption DEF States, Frames

LEMMA FrameValues ==
    ASSUME NEW f \in Frames
    PROVE  \A o \in DOMAIN f : f[o] \in BOOLEAN
BY DEF Frames

LEMMA WrittenIsStates ==
    ASSUME NEW f \in Frames, NEW d \in States
    PROVE  Written(f, d) \in States
BY FrameValues DEF Written, States

LEMMA WrittenWord ==
    ASSUME NEW w \in States, NEW d
    PROVE  Written(w, d) = w
BY DEF Written, States

LEMMA WrittenCoil ==
    ASSUME NEW r \in Requests, NEW d \in States
    PROVE  Written(Coil(r), d) = [d EXCEPT ![r.output] = r.on]
BY DEF Written, Coil, Requests, States

LEMMA WrittenTwice ==
    ASSUME NEW r \in Requests, NEW d \in States
    PROVE  Written(Coil(r), Written(Coil(r), d)) = Written(Coil(r), d)
BY DEF Written, Coil, Requests, States

LEMMA CoilDetermines ==
    ASSUME NEW r \in Requests, NEW q \in Requests, Coil(r) = Coil(q)
    PROVE  r = q
<1>1. DOMAIN Coil(r) = {r.output} /\ DOMAIN Coil(q) = {q.output}
  BY DEF Coil
<1>2. r.output = q.output
  BY <1>1
<1>3. Coil(r)[r.output] = r.on /\ Coil(q)[q.output] = q.on
  BY DEF Coil
<1> QED
  BY <1>2, <1>3 DEF Requests

LEMMA AllOffIsStates == AllOff \in States /\ RelayOff \in Requests /\ NoCoils \in [ok : BOOLEAN, coils : States]
BY RelayAssumption DEF AllOff, RelayOff, Requests, States, NoCoils

LEMMA WireFacts ==
    ASSUME TypeOK
    PROVE  /\ wire.at \in {"none", "lost", "module", "host"}
           /\ wire.at = "module" => wire.what \in {"read", "write"}
           /\ wire.at = "module" /\ wire.what = "write" => wire.frame \in Frames
           /\ wire.at = "host" => wire.ok \in BOOLEAN /\ wire.coils \in States
BY DEF TypeOK, Wire, NoMessage, Lost, ReadRequest, WriteRequest, Answer

LEMMA WireMessages ==
    /\ NoMessage \in Wire /\ Lost \in Wire /\ ReadRequest \in Wire
    /\ \A f \in Frames : WriteRequest(f) \in Wire
    /\ \A ok \in BOOLEAN, coils \in States : Answer(ok, coils) \in Wire
BY DEF Wire

LEMMA CloseSockTypes ==
    ASSUME TypeOK, CloseSock
    PROVE  conn' = "closed" /\ wire' \in Wire /\ late' \subseteq Frames
BY WireFacts, WireMessages DEF TypeOK, CloseSock

LEMMA TransactionTypes ==
    ASSUME TypeOK, Succeeds \/ Fails
    PROVE  conn' \in {"closed", "open", "dead"} /\ wire' \in Wire /\ late' \subseteq Frames
BY CloseSockTypes, WireMessages DEF TypeOK, Succeeds, Fails, Breaks
-----------------------------------------------------------------------------
LEMMA InitTypeOK == Init => TypeOK
BY AllOffIsStates, WireMessages DEF Init, TypeOK

LEMMA SetsOutputTypes ==
    ASSUME TypeOK, NEW r \in Requests, NEW sync, NEW write, SetsOutput(r, sync, write)
    PROVE  want' \in Requests /\ shadow' \in States /\ pc' \in {sync, write}
<1>1. Written(Coil(r), shadow) \in States
  BY CoilIsFrame, WrittenIsStates DEF TypeOK
<1> QED
  BY <1>1 DEF TypeOK, SetsOutput

LEMMA NextTypeOK == TypeOK /\ [Next]_vars => TypeOK'
<1> SUFFICES ASSUME TypeOK, [Next]_vars PROVE TypeOK'
  OBVIOUS
<1> USE DEF netVars, topicVars
<1>1. CASE Command
  <2>1. PICK r \in Requests : SetsOutput(r, "sync", "write")
    BY <1>1 DEF Command
  <2> QED
    BY <1>1, <2>1, SetsOutputTypes DEF TypeOK, Command
<1>2. CASE Shutdown
  <2>1. SetsOutput(RelayOff, "offSync", "off")
    BY <1>2 DEF Shutdown
  <2>2. clean' \in BOOLEAN
    BY <1>2 DEF Shutdown
  <2> QED
    BY <1>2, <2>1, <2>2, AllOffIsStates, SetsOutputTypes DEF TypeOK, Shutdown
<1>3. CASE PollBegins
  BY <1>3 DEF TypeOK, PollBegins
<1>4. CASE OpenSock
  BY <1>4 DEF TypeOK, OpenSock
<1>5. CASE SendRequest
  <2>1. TheWrite \in Frames
    BY CoilIsFrame, StatesAreFrames DEF TypeOK, TheWrite
  <2>2. wire' \in Wire
    BY <1>5, <2>1, WireMessages DEF SendRequest
  <2> QED
    BY <1>5, <2>2 DEF TypeOK, SendRequest
<1>6. CASE Synced
  <2>1. wire.coils \in States
    BY <1>6, WireFacts DEF Synced, Succeeds
  <2>2. shadow' \in States
    BY <1>6, <2>1, CoilIsFrame, WrittenIsStates DEF TypeOK, Synced
  <2> QED
    BY <1>6, <2>2, TransactionTypes DEF TypeOK, Synced
<1>7. CASE WriteFails \/ WriteSucceeds \/ CoilsNotRead
  BY <1>7, TransactionTypes DEF TypeOK, WriteFails, WriteSucceeds, CoilsNotRead
<1>8. CASE ShutdownEnds
  <2>1. conn' = "closed" /\ wire' \in Wire /\ late' \subseteq Frames
    BY <1>8, CloseSockTypes, WireMessages DEF TypeOK, ShutdownEnds, Breaks
  <2> QED
    BY <1>8, <2>1 DEF TypeOK, ShutdownEnds
<1>9. CASE CoilsRead
  <2>1. wire.coils \in States
    BY <1>9, WireFacts DEF CoilsRead, Succeeds
  <2>2. shadow' \in States /\ valid' \in BOOLEAN /\ got' \in [ok : BOOLEAN, coils : States]
    BY <1>9, <2>1 DEF TypeOK, CoilsRead
  <2> QED
    BY <1>9, <2>2, TransactionTypes DEF TypeOK, CoilsRead
<1>10. CASE PollEnds
  <2>1. shown' \in States /\ connected' \in BOOLEAN
    BY <1>10 DEF TypeOK, PollEnds
  <2> QED
    BY <1>10, <2>1, TransactionTypes, AllOffIsStates DEF TypeOK, PollEnds
<1>11. CASE ModuleServes
  <2>0. wire.what = "write" => Written(wire.frame, device) \in States
    BY <1>11, WireFacts, WrittenIsStates DEF TypeOK, ModuleServes
  <2>1. device' \in States
    BY <1>11, <2>0 DEF TypeOK, ModuleServes
  <2>2. wire' \in Wire
    BY <1>11, <2>1, WireMessages, AllOffIsStates DEF ModuleServes
  <2> QED
    BY <1>11, <2>1, <2>2 DEF TypeOK, ModuleServes
<1>12. CASE LateArrives
  <2>1. PICK f \in late : device' = Written(f, device) /\ late' = late \ {f}
    BY <1>12 DEF LateArrives
  <2>2. device' \in States
    BY <2>1, WrittenIsStates DEF TypeOK
  <2> QED
    BY <1>12, <2>1, <2>2 DEF TypeOK, LateArrives
<1>13. CASE LateIsLost
  BY <1>13 DEF TypeOK, LateIsLost
<1>14. CASE ModuleRestarts
  BY <1>14, AllOffIsStates, WireMessages DEF TypeOK, ModuleRestarts
<1>15. CASE LinkChanges
  <2>1. clean' \in BOOLEAN
    BY <1>15 DEF LinkChanges
  <2> QED
    BY <1>15, <2>1 DEF TypeOK, LinkChanges
<1>16. CASE Killed
  BY <1>16, CloseSockTypes, AllOffIsStates DEF TypeOK, Killed
<1>17. CASE Starts
  BY <1>17, AllOffIsStates DEF TypeOK, Starts
<1>18. CASE UNCHANGED vars
  BY <1>18 DEF TypeOK, vars
<1> QED
  BY <1>1, <1>2, <1>3, <1>4, <1>5, <1>6, <1>7, <1>8, <1>9, <1>10, <1>11, <1>12, <1>13, <1>14,
     <1>15, <1>16, <1>17, <1>18 DEF Next, Transaction, Environment

\* Type correctness: module, connection, node and topics keep their types, and every write on
\* its way names at least one output.
THEOREM CrevisTypes == Spec => []TypeOK
<1>1. TypeOK /\ [Next]_vars => TypeOK'
  BY NextTypeOK
<1> QED
  BY InitTypeOK, <1>1, PTL DEF Spec
-----------------------------------------------------------------------------
(* What is on its way belongs to what the node is doing. *)

WireBelongs ==
    /\ wire.at # "none" => Reading \/ Writing
    /\ wire.at = "module" /\ wire.what = "write" => Writing /\ wire.frame = TheWrite
    /\ wire.at = "module" /\ wire.what = "read" => Reading

LEMMA TransactionEndsWire ==
    ASSUME Succeeds \/ Fails
    PROVE  wire'.at = "none"
BY DEF Succeeds, Fails, Breaks, CloseSock, NoMessage

LEMMA NextWireBelongs == TypeOK /\ WireBelongs /\ [Next]_vars => WireBelongs'
<1> SUFFICES ASSUME TypeOK, WireBelongs, [Next]_vars PROVE WireBelongs'
  OBVIOUS
<1> USE DEF netVars, topicVars
\* Nothing is on its way where the node turns to something else.
<1>1. ASSUME wire'.at = "none" PROVE WireBelongs'
  BY <1>1 DEF WireBelongs
<1>2. CASE Command \/ Shutdown \/ PollBegins \/ Starts
  <2>1. wire.at = "none" /\ wire' = wire
    BY <1>2 DEF Command, Shutdown, PollBegins, Starts, WireBelongs, Reading, Writing
  <2> QED
    BY <1>1, <2>1
<1>3. CASE Synced \/ WriteFails \/ WriteSucceeds \/ CoilsRead \/ CoilsNotRead \/ PollEnds
  BY <1>1, <1>3, TransactionEndsWire DEF Synced, WriteFails, WriteSucceeds, CoilsRead, CoilsNotRead, PollEnds
<1>4. CASE ShutdownEnds \/ Killed
  BY <1>1, <1>4 DEF ShutdownEnds, Killed, Breaks, CloseSock, NoMessage
<1>5. CASE SendRequest
  BY <1>5 DEF SendRequest, Ready, WireBelongs, Reading, Writing, Register, TheWrite, Lost, ReadRequest, WriteRequest
<1>6. CASE ModuleServes
  <2>1. wire'.at = "host" /\ UNCHANGED pc
    BY <1>6 DEF ModuleServes, Answer
  <2>2. wire.at # "none"
    BY <1>6 DEF ModuleServes
  <2> QED
    BY <2>1, <2>2 DEF WireBelongs, Reading, Writing
<1>7. CASE ModuleRestarts
  BY <1>7 DEF ModuleRestarts, Lost, WireBelongs, Reading, Writing
<1>8. CASE OpenSock \/ LateArrives \/ LateIsLost \/ LinkChanges \/ UNCHANGED vars
  BY <1>8 DEF OpenSock, LateArrives, LateIsLost, LinkChanges, vars, WireBelongs, Reading, Writing, Register,
              TheWrite
<1> QED
  BY <1>2, <1>3, <1>4, <1>5, <1>6, <1>7, <1>8 DEF Next, Transaction, Environment
-----------------------------------------------------------------------------
(* An undisturbed shutdown leaves the relay off, in either mode. *)

\* What the shutdown sends, and what it may take as done.
RelayGoesOff ==
    /\ pc \in {"offSync", "off"} /\ link = "good" /\ want = RelayOff
    /\ conn = "dead" \/ wire.at = "lost" => ~device[Relay]
    /\ wire.at = "host" => wire.ok /\ (pc = "off" => ~device[Relay])
    /\ pc = "off" => Relay \in DOMAIN TheWrite /\ TheWrite[Relay] = FALSE

RelayInv == clean => RelayGoesOff \/ (pc = "down" /\ ~device[Relay])

LEMMA WrittenRelay ==
    ASSUME NEW d \in States
    PROVE  Written(Coil(RelayOff), d)[Relay] = FALSE
BY RelayAssumption DEF Written, Coil, RelayOff

LEMMA NextRelayInv == TypeOK /\ WireBelongs /\ RelayInv /\ [Next]_vars => RelayInv'
<1> SUFFICES ASSUME TypeOK, TypeOK', WireBelongs, RelayInv, [Next]_vars, clean' PROVE RelayInv'
  BY NextTypeOK DEF RelayInv
<1> USE DEF netVars, topicVars
<1>1. CASE Shutdown
  <2>1. link' = "good" /\ conn' # "dead" /\ want' = RelayOff /\ pc' \in {"offSync", "off"}
    BY <1>1 DEF Shutdown, SetsOutput
  <2>2. wire'.at = "none"
    BY <1>1 DEF Shutdown, WireBelongs, Reading, Writing
  <2>3. ASSUME pc' = "off", Register' PROVE shadow'[Relay] = FALSE
    BY <1>1, <2>3, WrittenRelay DEF Shutdown, SetsOutput, Register, TypeOK
  <2>4. pc' = "off" => (Relay \in DOMAIN TheWrite /\ TheWrite[Relay] = FALSE)'
    BY <2>1, <2>3, RelayAssumption DEF TheWrite, Coil, RelayOff, States, TypeOK
  <2> QED
    BY <2>1, <2>2, <2>4 DEF RelayInv, RelayGoesOff
<1>2. CASE Command \/ PollBegins
  BY <1>2 DEF Command, PollBegins, RelayInv, RelayGoesOff
<1>3. CASE WriteFails \/ WriteSucceeds \/ CoilsRead \/ CoilsNotRead \/ PollEnds
  BY <1>3 DEF WriteFails, WriteSucceeds, CoilsRead, CoilsNotRead, PollEnds, RelayInv, RelayGoesOff
<1>4. CASE LateArrives \/ Killed \/ Starts
  BY <1>4 DEF LateArrives, Killed, Starts
<1>5. CASE OpenSock
  BY <1>5 DEF OpenSock, RelayInv, RelayGoesOff, TheWrite, Register
<1>6. CASE SendRequest
  <2>1. RelayGoesOff
    BY <1>6 DEF SendRequest, Ready, Reading, Writing, RelayInv
  <2>2. wire'.at = "module" \/ (wire'.at = "lost" /\ ~device[Relay])
    BY <1>6, <2>1 DEF SendRequest, WriteRequest, ReadRequest, Lost, RelayGoesOff
  <2> QED
    BY <1>6, <2>1, <2>2 DEF SendRequest, RelayInv, RelayGoesOff, TheWrite, Register
<1>7. CASE Synced
  <2>1. RelayGoesOff /\ wire.coils \in States
    BY <1>7, WireFacts DEF Synced, Succeeds, RelayInv
  <2>2. shadow'[Relay] = FALSE
    BY <1>7, <2>1, WrittenRelay DEF Synced, RelayGoesOff
  <2>3. (Relay \in DOMAIN TheWrite /\ TheWrite[Relay] = FALSE)'
    BY <1>7, <2>1, <2>2, RelayAssumption DEF Synced, RelayGoesOff, TheWrite, Coil, RelayOff, States, TypeOK
  <2>4. wire'.at = "none" /\ pc' = "off" /\ UNCHANGED <<link, want, conn, device>>
    BY <1>7, <2>1 DEF Synced, Succeeds, NoMessage, RelayGoesOff
  <2> QED
    BY <2>1, <2>3, <2>4 DEF RelayInv, RelayGoesOff
<1>8. CASE ShutdownEnds
  <2>1. RelayGoesOff
    BY <1>8 DEF ShutdownEnds, RelayInv
  <2> QED
    BY <1>8, <2>1 DEF ShutdownEnds, Breaks, RelayInv, RelayGoesOff
<1>9. CASE ModuleServes
  <2>1. RelayGoesOff
    BY <1>9 DEF ModuleServes, WireBelongs, Reading, Writing, RelayInv
  <2>2. wire' = Answer(TRUE, device')
    BY <1>9, <2>1 DEF ModuleServes, RelayGoesOff
  <2>3. UNCHANGED <<pc, link, want, conn, shadow, mode>>
    BY <1>9 DEF ModuleServes
  <2>4. CASE wire.what = "write"
    <3>1. Writing /\ wire.frame = TheWrite
      BY <1>9, <2>4 DEF ModuleServes, WireBelongs
    <3>2. Relay \in DOMAIN TheWrite /\ TheWrite[Relay] = FALSE
      BY <2>1, <3>1 DEF RelayGoesOff, Writing
    <3>3. device' = Written(TheWrite, device)
      BY <1>9, <2>1, <2>4, <3>1 DEF ModuleServes, RelayGoesOff
    <3>4. ~device'[Relay]
      BY <3>2, <3>3, RelayAssumption DEF Written
    <3> QED
      BY <2>1, <2>2, <2>3, <3>4 DEF Answer, RelayInv, RelayGoesOff, TheWrite, Register
  <2>5. CASE wire.what # "write"
    <3>1. pc # "off" /\ device' = device
      BY <1>9, <2>1, <2>5, WireFacts DEF ModuleServes, WireBelongs, Reading, RelayGoesOff
    <3> QED
      BY <2>1, <2>2, <2>3, <3>1 DEF Answer, RelayInv, RelayGoesOff, TheWrite, Register
  <2> QED
    BY <2>4, <2>5
<1>10. CASE ModuleRestarts
  <2>1. ~device'[Relay] /\ wire'.at \in {"none", "lost"}
    BY <1>10, RelayAssumption DEF ModuleRestarts, AllOff, Lost
  <2> QED
    BY <1>10, <2>1 DEF ModuleRestarts, RelayInv, RelayGoesOff, TheWrite, Register
<1>11. CASE LinkChanges
  BY <1>11 DEF LinkChanges, RelayInv, RelayGoesOff
<1>12. CASE LateIsLost \/ UNCHANGED vars
  BY <1>12 DEF LateIsLost, vars, RelayInv, RelayGoesOff, TheWrite, Register
<1> QED
  BY <1>1, <1>2, <1>3, <1>4, <1>5, <1>6, <1>7, <1>8, <1>9, <1>10, <1>11, <1>12 DEF Next, Transaction, Environment

\* A node that was shut down on a good link has left the charging relay off, in either mode
\* and whatever the module does, until a write of a closed connection arrives.
THEOREM RelayStaysOff == Spec => []RelayOffAtEnd
<1>1. Init => WireBelongs /\ RelayInv
  BY DEF Init, NoMessage, WireBelongs, RelayInv
<1>2. TypeOK /\ WireBelongs /\ [Next]_vars => WireBelongs'
  BY NextWireBelongs
<1>3. TypeOK /\ WireBelongs /\ RelayInv /\ [Next]_vars => RelayInv'
  BY NextRelayInv
<1>4. RelayInv => RelayOffAtEnd
  BY DEF RelayInv, RelayGoesOff, RelayOffAtEnd
<1> QED
  BY <1>1, <1>2, <1>3, <1>4, CrevisTypes, PTL DEF Spec
-----------------------------------------------------------------------------
(* The shadow is the truth. *)

WireCurrent ==
    /\ WireBelongs
    /\ Register /\ wire.at = "host" /\ wire.ok => IF Writing THEN device = shadow ELSE wire.coils = device

LateAreCoils == /\ Register => late = {}
                /\ \A f \in late : \E r \in Requests : f = Coil(r)

ShadowCurrent ==
    /\ Register /\ Writing => valid
    /\ Register /\ valid /\ pc # "down" => shadow = IF Writing THEN Written(Coil(want), device) ELSE device

Inv == TypeOK /\ WireCurrent /\ LateAreCoils /\ ShadowCurrent

LEMMA InitInv == Init => Inv
BY InitTypeOK DEF Init, Inv, WireCurrent, WireBelongs, LateAreCoils, ShadowCurrent, NoMessage, Writing

\* No fault of register mode disturbs the module.
LEMMA Undisturbed ==
    ASSUME RegisterUndisturbed, Register
    PROVE  ~Fault("late") /\ ~Fault("restart")
BY DEF RegisterUndisturbed, Fault

LEMMA CloseSockKeeps ==
    ASSUME RegisterUndisturbed, Inv, CloseSock
    PROVE  /\ wire'.at = "none"
           /\ Register => late' = {}
           /\ \A f \in late' : \E r \in Requests : f = Coil(r)
           /\ \A f \in late' : f \in late \/ (Writing /\ f = Coil(want))
<1>1. CASE UNCHANGED late
  BY <1>1 DEF CloseSock, NoMessage, Inv, LateAreCoils
<1>2. CASE Fault("late") /\ wire.at = "module" /\ wire.what = "write" /\ late' = late \cup {wire.frame}
  <2>1. ~Register
    BY <1>2, Undisturbed
  <2>2. Writing /\ wire.frame = Coil(want)
    BY <1>2, <2>1 DEF Inv, WireCurrent, WireBelongs, TheWrite
  <2> QED
    BY <1>2, <2>1, <2>2 DEF CloseSock, NoMessage, Inv, LateAreCoils, TypeOK
<1> QED
  BY <1>1, <1>2 DEF CloseSock

LEMMA TransactionKeeps ==
    ASSUME RegisterUndisturbed, Inv, Succeeds \/ Fails
    PROVE  /\ wire'.at = "none"
           /\ Register => late' = {}
           /\ \A f \in late' : \E r \in Requests : f = Coil(r)
           /\ \A f \in late' : f \in late \/ (Writing /\ f = Coil(want))
BY CloseSockKeeps DEF Succeeds, Fails, Breaks, NoMessage, Inv, LateAreCoils

\* A request begins: the node is idle and nothing is on its way.
LEMMA SetsOutputKeeps ==
    ASSUME Inv, pc = "idle", NEW r \in Requests, NEW sync \in {"sync", "offSync"},
           NEW write \in {"write", "off"}, SetsOutput(r, sync, write),
           UNCHANGED <<device, wire, late, mode, valid>>
    PROVE  Inv' \/ ~TypeOK'
<1> SUFFICES ASSUME TypeOK' PROVE Inv'
  OBVIOUS
<1>1. wire.at = "none"
  BY WireFacts DEF Inv, WireCurrent, WireBelongs, Reading, Writing
<1>2. WireCurrent'
  BY <1>1, WireFacts DEF WireCurrent, WireBelongs
<1>3. ShadowCurrent'
  BY DEF Inv, ShadowCurrent, SetsOutput, Writing, Register
<1> QED
  BY <1>2, <1>3 DEF Inv, LateAreCoils, Register

LEMMA NextInv == RegisterUndisturbed /\ Inv /\ [Next]_vars => Inv'
<1> SUFFICES ASSUME RegisterUndisturbed, Inv, [Next]_vars PROVE Inv'
  OBVIOUS
<1>0. TypeOK /\ TypeOK'
  BY NextTypeOK DEF Inv
<1> SUFFICES WireCurrent' /\ LateAreCoils' /\ ShadowCurrent'
  BY <1>0 DEF Inv
<1> USE DEF netVars, topicVars, WireBelongs
<1>1. CASE Command
  BY <1>0, <1>1, SetsOutputKeeps DEF Command, Inv
<1>2. CASE Shutdown
  BY <1>0, <1>2, SetsOutputKeeps, AllOffIsStates DEF Shutdown, Inv
<1>3. CASE PollBegins
  BY <1>3 DEF PollBegins, Inv, WireCurrent, LateAreCoils, ShadowCurrent, Reading, Writing, Register
<1>4. CASE OpenSock
  BY <1>4 DEF OpenSock, Inv, WireCurrent, LateAreCoils, ShadowCurrent, Reading, Writing, Register, TheWrite
<1>5. CASE SendRequest
  <2>1. WireCurrent'
    BY <1>5 DEF SendRequest, Ready, WireCurrent, Reading, Writing, Register, TheWrite, Lost, ReadRequest,
                WriteRequest
  <2> QED
    BY <1>5, <2>1 DEF SendRequest, Inv, LateAreCoils, ShadowCurrent, Writing, Register
<1>6. CASE Synced
  <2>1. wire'.at = "none" /\ LateAreCoils'
    BY <1>6, TransactionKeeps DEF Synced, LateAreCoils, Register
  <2>2. Register => wire.coils = device
    BY <1>6 DEF Synced, Succeeds, Inv, WireCurrent, Writing
  <2>3. ShadowCurrent'
    BY <1>6, <2>2 DEF Synced, ShadowCurrent, Writing, Register
  <2> QED
    BY <2>1, <2>3 DEF WireCurrent
<1>7. CASE WriteFails
  <2>1. wire'.at = "none" /\ LateAreCoils'
    BY <1>7, TransactionKeeps DEF WriteFails, LateAreCoils, Register
  <2> QED
    BY <1>7, <2>1 DEF WriteFails, WireCurrent, ShadowCurrent, Writing
<1>8. CASE WriteSucceeds
  <2>1. wire'.at = "none" /\ LateAreCoils'
    BY <1>8, TransactionKeeps DEF WriteSucceeds, LateAreCoils, Register
  <2>2. Register => device = shadow
    BY <1>8 DEF WriteSucceeds, Succeeds, Inv, WireCurrent, Writing
  <2> QED
    BY <1>8, <2>1, <2>2 DEF WriteSucceeds, WireCurrent, ShadowCurrent, Writing, Register
<1>9. CASE ShutdownEnds
  <2>1. wire'.at = "none" /\ LateAreCoils'
    BY <1>9, CloseSockKeeps DEF ShutdownEnds, Breaks, NoMessage, Inv, LateAreCoils, Register
  <2> QED
    BY <1>9, <2>1 DEF ShutdownEnds, WireCurrent, ShadowCurrent, Writing
<1>10. CASE CoilsRead
  <2>1. wire'.at = "none" /\ LateAreCoils'
    BY <1>10, TransactionKeeps DEF CoilsRead, LateAreCoils, Register
  <2>2. Register => wire.coils = device
    BY <1>10 DEF CoilsRead, Succeeds, Inv, WireCurrent, Writing
  <2> QED
    BY <1>10, <2>1, <2>2 DEF CoilsRead, WireCurrent, ShadowCurrent, Writing, Register
<1>11. CASE CoilsNotRead \/ PollEnds
  <2>1. wire'.at = "none" /\ LateAreCoils'
    BY <1>11, TransactionKeeps DEF CoilsNotRead, PollEnds, LateAreCoils, Register
  <2> QED
    BY <1>11, <2>1 DEF CoilsNotRead, PollEnds, Inv, WireCurrent, ShadowCurrent, Writing, Register
<1>12. CASE ModuleServes
  <2>1. CASE wire' = Answer(FALSE, AllOff) /\ UNCHANGED device
    BY <1>12, <2>1 DEF ModuleServes, Answer, Inv, WireCurrent, LateAreCoils, ShadowCurrent, Writing, Reading,
                       Register
  <2>2. CASE wire.what = "write" /\ device' = Written(wire.frame, device) /\ wire' = Answer(TRUE, device')
    <3>1. Writing /\ wire.frame = TheWrite
      BY <1>12, <2>2 DEF ModuleServes, Inv, WireCurrent
    <3>2. Register => device' = shadow /\ shadow = Written(Coil(want), device)
      BY <1>0, <2>2, <3>1, WrittenWord DEF TheWrite, TypeOK, Inv, ShadowCurrent, Writing
    <3>3. Register => shadow = Written(Coil(want), device')
      BY <1>0, <3>2, WrittenTwice DEF TypeOK
    <3> QED
      BY <1>12, <2>2, <3>1, <3>2, <3>3 DEF ModuleServes, Answer, Inv, WireCurrent, LateAreCoils,
                                          ShadowCurrent, Writing, Register
  <2>3. CASE wire.what = "read" /\ UNCHANGED device /\ wire' = Answer(TRUE, device')
    <3>1. ~Writing
      BY <1>12, <2>3 DEF ModuleServes, Inv, WireCurrent, Reading, Writing
    <3> QED
      BY <1>12, <2>3, <3>1 DEF ModuleServes, Answer, Inv, WireCurrent, LateAreCoils, ShadowCurrent, Writing,
                         Reading, Register
  <2> QED
    BY <1>0, <1>12, <2>1, <2>2, <2>3, WireFacts DEF ModuleServes
<1>13. CASE LateArrives
  <2>1. ~Register
    BY <1>13 DEF LateArrives, Inv, LateAreCoils
  <2> QED
    BY <1>13, <2>1 DEF LateArrives, Inv, WireCurrent, LateAreCoils, ShadowCurrent, Writing, Reading, Register,
                       TheWrite
<1>14. CASE LateIsLost
  BY <1>14 DEF LateIsLost, Inv, WireCurrent, LateAreCoils, ShadowCurrent, Writing, Reading, Register, TheWrite
<1>15. CASE ModuleRestarts
  <2>1. ~Register
    BY <1>15, Undisturbed DEF ModuleRestarts
  <2> QED
    BY <1>0, <1>15, <2>1 DEF ModuleRestarts, Lost, Inv, WireCurrent, LateAreCoils, ShadowCurrent, Writing,
                             Reading, Register
<1>16. CASE LinkChanges
  BY <1>16 DEF LinkChanges, Inv, WireCurrent, LateAreCoils, ShadowCurrent, Writing, Reading, Register, TheWrite
<1>17. CASE Killed
  <2>1. wire'.at = "none" /\ LateAreCoils'
    BY <1>17, CloseSockKeeps DEF Killed, LateAreCoils, Register
  <2> QED
    BY <1>17, <2>1 DEF Killed, WireCurrent, ShadowCurrent, Writing
<1>18. CASE Starts
  <2>1. wire.at = "none"
    BY <1>0, <1>18, WireFacts DEF Starts, Inv, WireCurrent, Reading, Writing
  <2> QED
    BY <1>18, <2>1 DEF Starts, Inv, WireCurrent, LateAreCoils, ShadowCurrent, Writing, Register
<1>19. CASE UNCHANGED vars
  BY <1>19 DEF vars, Inv, WireCurrent, LateAreCoils, ShadowCurrent, Writing, Reading, Register, TheWrite
<1> QED
  BY <1>1, <1>2, <1>3, <1>4, <1>5, <1>6, <1>7, <1>8, <1>9, <1>10, <1>11, <1>12, <1>13, <1>14,
     <1>15, <1>16, <1>17, <1>18, <1>19 DEF Next, Transaction, Environment

\* In register mode a valid shadow is what the module puts out, so that a write of the whole
\* word changes the one output meant.
THEOREM ShadowIsTrue == RegisterUndisturbed => (Spec => []ShadowTruthful)
<1> SUFFICES ASSUME RegisterUndisturbed PROVE Spec => []ShadowTruthful
  OBVIOUS
<1>1. Inv /\ [Next]_vars => Inv'
  BY NextInv
<1>2. Inv => ShadowTruthful
  BY DEF Inv, ShadowCurrent, ShadowTruthful
<1> QED
  BY InitInv, <1>1, <1>2, PTL DEF Spec
-----------------------------------------------------------------------------
(* The node implements CrevisOutputs. *)

AskedNow == pc \in {"sync", "write", "offSync", "off"}

\* Where a connection is closed nothing new is asked for.
LEMMA AskedShrinks ==
    ASSUME Inv, \A f \in late' : f \in late \/ (Writing /\ f = Coil(want)),
           want' = want, AskedNow' => AskedNow
    PROVE  Asked' \subseteq Asked
<1> SUFFICES ASSUME NEW r \in Requests, (AskedNow' /\ r = want') \/ Coil(r) \in late'
             PROVE  (AskedNow /\ r = want) \/ Coil(r) \in late
  BY DEF Asked, AskedNow
<1>1. CASE AskedNow' /\ r = want'
  BY <1>1
<1>2. CASE Coil(r) \in late'
  <2>1. CASE Coil(r) \in late
    BY <2>1
  <2>2. CASE Writing /\ Coil(r) = Coil(want)
    BY <2>2, CoilDetermines DEF Inv, TypeOK, Writing, AskedNow
  <2> QED
    BY <1>2, <2>1, <2>2
<1> QED
  BY <1>1, <1>2

\* A command asks for one more output.
LEMMA CommandAsks ==
    ASSUME Inv, pc = "idle", NEW r \in Requests, want' = r, late' = late, AskedNow'
    PROVE  Asked' = Asked \cup {r}
BY DEF Asked, AskedNow

LEMMA StepRefines == RegisterUndisturbed /\ Inv /\ Inv' /\ [Next]_vars => [Users!Next]_<<device, Asked>>
<1> SUFFICES ASSUME RegisterUndisturbed, Inv, Inv', [Next]_vars PROVE [Users!Next]_<<device, Asked>>
  OBVIOUS
<1> USE DEF netVars, topicVars, WireBelongs
<1>0. ASSUME UNCHANGED device, Asked' \subseteq Asked PROVE Users!Next
  BY <1>0 DEF Users!Next, Users!Drop
<1>1. CASE Command
  <2>1. PICK r \in Requests : SetsOutput(r, "sync", "write")
    BY <1>1 DEF Command
  <2>2. Asked' = Asked \cup {r}
    BY <1>1, <2>1, CommandAsks DEF Command, SetsOutput, AskedNow
  <2> QED
    BY <1>1, <2>2 DEF Command, Users!Next, Users!Ask, Users!Requests, Requests
<1>2. CASE Shutdown
  <2>1. Asked' = Asked \cup {RelayOff}
    BY <1>2, CommandAsks, AllOffIsStates DEF Shutdown, SetsOutput, AskedNow
  <2> QED
    BY <1>2, <2>1, AllOffIsStates DEF Shutdown, Users!Next, Users!Ask, Users!Requests, Requests
<1>3. CASE PollBegins
  BY <1>0, <1>3, AskedShrinks DEF PollBegins, AskedNow
<1>4. CASE OpenSock \/ SendRequest
  BY <1>0, <1>4, AskedShrinks DEF OpenSock, SendRequest, AskedNow
<1>5. CASE Synced \/ WriteFails \/ WriteSucceeds \/ CoilsRead \/ CoilsNotRead \/ PollEnds
  <2>1. \A f \in late' : f \in late \/ (Writing /\ f = Coil(want))
    BY <1>5, TransactionKeeps DEF Synced, WriteFails, WriteSucceeds, CoilsRead, CoilsNotRead, PollEnds
  <2>2. UNCHANGED <<device, want>> /\ (AskedNow' => AskedNow)
    BY <1>5 DEF Synced, WriteFails, WriteSucceeds, CoilsRead, CoilsNotRead, PollEnds, AskedNow
  <2> QED
    BY <1>0, <2>1, <2>2, AskedShrinks
<1>6. CASE ShutdownEnds
  <2>1. \A f \in late' : f \in late \/ (Writing /\ f = Coil(want))
    BY <1>6, CloseSockKeeps DEF ShutdownEnds, Breaks
  <2> QED
    BY <1>0, <1>6, <2>1, AskedShrinks DEF ShutdownEnds, AskedNow
<1>7. CASE ModuleServes
  <2>1. Asked' = Asked
    BY <1>7 DEF ModuleServes, Asked
  <2>2. CASE device' = device
    BY <1>0, <2>1, <2>2
  <2>3. CASE wire.what = "write" /\ device' = Written(wire.frame, device)
    <3>1. Writing /\ wire.frame = TheWrite
      BY <1>7, <2>3 DEF ModuleServes, Inv, WireCurrent
    <3>2. device' = Written(Coil(want), device)
      BY <2>3, <3>1, WrittenWord DEF TheWrite, Inv, TypeOK, ShadowCurrent, Writing
    <3>3. want \in Asked
      BY <3>1 DEF Asked, Writing, Inv, TypeOK
    <3>4. device' = [device EXCEPT ![want.output] = want.on]
      BY <3>2, WrittenCoil DEF Inv, TypeOK
    <3> QED
      BY <2>1, <3>3, <3>4 DEF Users!Next, Users!CarryOut, Users!Carry
  <2> QED
    BY <1>7, <2>2, <2>3 DEF ModuleServes
<1>8. CASE LateArrives
  <2>1. PICK f \in late : device' = Written(f, device) /\ late' = late \ {f}
    BY <1>8 DEF LateArrives
  <2>2. PICK r \in Requests : f = Coil(r)
    BY <2>1 DEF Inv, LateAreCoils
  <2>3. r \in Asked
    BY <2>1, <2>2 DEF Asked
  <2>4. device' = [device EXCEPT ![r.output] = r.on]
    BY <2>1, <2>2, WrittenCoil DEF Inv, TypeOK
  <2>5. Asked' \subseteq Asked
    BY <1>8, <2>1, AskedShrinks DEF LateArrives, AskedNow
  <2> QED
    BY <2>3, <2>4, <2>5 DEF Users!Next, Users!CarryOut, Users!Carry
<1>9. CASE LateIsLost
  BY <1>0, <1>9, AskedShrinks DEF LateIsLost, AskedNow
<1>10. CASE ModuleRestarts
  <2>1. Asked' \subseteq Asked
    BY <1>10, AskedShrinks DEF ModuleRestarts, AskedNow
  <2> QED
    BY <1>10, <2>1 DEF ModuleRestarts, Users!Next, Users!StartAfresh, Users!AllOff, AllOff
<1>11. CASE LinkChanges
  BY <1>0, <1>11, AskedShrinks DEF LinkChanges, AskedNow
<1>12. CASE Killed
  <2>1. \A f \in late' : f \in late \/ (Writing /\ f = Coil(want))
    BY <1>12, CloseSockKeeps DEF Killed
  <2> QED
    BY <1>0, <1>12, <2>1, AskedShrinks DEF Killed, AskedNow
<1>13. CASE Starts
  BY <1>0, <1>13, AskedShrinks DEF Starts, AskedNow
<1>14. CASE UNCHANGED vars
  BY <1>14 DEF vars, Asked
<1> QED
  BY <1>1, <1>2, <1>3, <1>4, <1>5, <1>6, <1>7, <1>8, <1>9, <1>10, <1>11, <1>12, <1>13, <1>14
     DEF Next, Transaction, Environment

\* The node implements CrevisOutputs: whatever happens to connections, the module and the
\* process, an output changes only as somebody has asked for it.
THEOREM NodeImplementsOutputs == RegisterUndisturbed => (Spec => ImplementsOutputs)
<1> SUFFICES ASSUME RegisterUndisturbed PROVE Spec => ImplementsOutputs
  OBVIOUS
<1>1. Init => Users!Init
  BY DEF Init, Users!Init, Users!AllOff, AllOff, Asked
<1>2. Inv /\ [Next]_vars => Inv'
  BY NextInv
<1>3. Inv /\ Inv' /\ [Next]_vars => [Users!Next]_<<device, Asked>>
  BY StepRefines
<1>4. Users!outputVars = <<device, Asked>>
  BY DEF Users!outputVars
<1>5. Users!Init /\ [][Users!Next]_<<device, Asked>> => Users!Spec
  BY <1>4, PTL DEF Users!Spec, Users!outputVars
<1> QED
  BY InitInv, <1>1, <1>2, <1>3, <1>5, PTL DEF Spec, ImplementsOutputs
=============================================================================
