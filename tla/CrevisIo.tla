------------------------------ MODULE CrevisIo ------------------------------
(***************************************************************************)
(* crevis_io_node.cpp: the node that switches the lights and the charging  *)
(* relay of the Crevis module over Modbus/TCP and reads them back.         *)
(*                                                                         *)
(* One thread: a callback, a poll or the shutdown runs to its end, one     *)
(* request after the other.  Meanwhile the module and the network go on,   *)
(* and so does TCP, which may deliver what a closed connection has sent.   *)
(*                                                                         *)
(* A write is a function from the outputs it names to their new states:    *)
(* one output in coil mode, all of them in register mode.                  *)
(***************************************************************************)
EXTENDS Integers, FiniteSets

CONSTANTS Outputs,         \* the lights and the relay
          Relay,           \* the charging relay
          Modes,           \* the values of write_mode looked at
          CoilFaults,      \* what may go wrong, besides the link, in coil mode
          RegisterFaults,  \* and in register mode
          MaxLate          \* how many writes of closed connections are on their way

FaultKinds == {"late", "restart", "kill"}

ASSUME RelayAssumption == Relay \in Outputs
ASSUME ModesAssumption == Modes \subseteq {"coil", "register"}
ASSUME FaultsAssumption == CoilFaults \subseteq FaultKinds /\ RegisterFaults \subseteq FaultKinds
ASSUME LateAssumption == MaxLate \in Nat

VARIABLES device,           \* the outputs of the module
          link,             \* "good", "bad" (messages lost, exceptions), or "cut"
          conn,             \* "closed", "open", or "dead": open, but the module has forgotten it
          wire, late,       \* the request or answer on its way; writes of closed connections
          mode, pc, want,   \* write_mode_; the request to make next; the output to set
          shadow, valid,    \* out_shadow_, out_shadow_valid_
          got,              \* what a poll has read of the coils
          connected, shown, \* /crevis/connected; led_state and charge_port_on
          clean             \* history: nothing has disturbed the shutdown

netVars == <<link, conn, wire, late>>
topicVars == <<connected, shown>>
vars == <<device, netVars, mode, pc, want, shadow, valid, got, topicVars, clean>>

States == [Outputs -> BOOLEAN]
Requests == [output : Outputs, on : BOOLEAN]
AllOff == [o \in Outputs |-> FALSE]
RelayOff == [output |-> Relay, on |-> FALSE]

Coil(r) == [o \in {r.output} |-> r.on]

\* Mutant: a write replaces the others.
WrittenOver(frame, states) == frame

\* The outputs after a write to some of them.
Written(frame, states) == [o \in Outputs |-> IF o \in DOMAIN frame THEN frame[o] ELSE states[o]]

Register == mode = "register"
Fault(f) == f \in IF Register THEN RegisterFaults ELSE CoilFaults
-----------------------------------------------------------------------------
(* ModbusTcp *)

NoMessage == [at |-> "none"]
Lost == [at |-> "lost"]
ReadRequest == [at |-> "module", what |-> "read"]
WriteRequest(frame) == [at |-> "module", what |-> "write", frame |-> frame]
Answer(ok, coils) == [at |-> "host", ok |-> ok, coils |-> coils]

NoCoils == [ok |-> FALSE, coils |-> AllOff]

Writing == pc \in {"write", "off"}
Reading == pc \in {"sync", "offSync", "coils", "inputs"}

\* The word, with the bit already set in it, or the coil.
TheWrite == IF Register THEN shadow ELSE Coil(want)

\* A write the module has not got yet may still reach it when its connection is closed.
CloseSock ==
    /\ conn' = "closed"
    /\ wire' = NoMessage
    /\ \/ UNCHANGED late
       \/ /\ Fault("late") /\ wire.at = "module" /\ wire.what = "write"
          /\ Cardinality(late \cup {wire.frame}) <= MaxLate
          /\ late' = late \cup {wire.frame}

Ready == (Reading \/ Writing) /\ wire.at = "none"

OpenSock ==
    /\ Ready /\ conn = "closed" /\ link # "cut"
    /\ conn' = "open"
    /\ UNCHANGED <<device, link, wire, late, mode, pc, want, shadow, valid, got, topicVars, clean>>

\* A request that cannot be sent, or for which no connection is to be had, is lost.
SendRequest ==
    /\ Ready
    /\ \/ conn = "open" /\ wire' = IF Writing THEN WriteRequest(TheWrite) ELSE ReadRequest
       \/ (conn = "dead" \/ link # "good") /\ wire' = Lost
    /\ UNCHANGED <<device, link, conn, late, mode, pc, want, shadow, valid, got, topicVars, clean>>

\* A transaction succeeds.
Succeeds == /\ wire.at = "host" /\ wire.ok
            /\ wire' = NoMessage
            /\ UNCHANGED <<conn, late>>

\* The connection fails; the answer of a good link comes in time.
Breaks == /\ wire.at = "lost" \/ (wire.at \in {"module", "host"} /\ link # "good")
          /\ CloseSock

\* A transaction fails: a Modbus exception keeps the connection, all else closes it.
Fails == \/ Breaks
         \/ /\ wire.at = "host" /\ ~wire.ok
            /\ wire' = NoMessage
            /\ UNCHANGED <<conn, late>>
-----------------------------------------------------------------------------
(* writeOutputLocked and onShutdown *)

\* Mutant: the shadow is taken as it is, valid or not.
SetsOutputUnsynced(r, sync, write) ==
    /\ want' = r
    /\ pc' = write
    /\ shadow' = IF Register THEN Written(Coil(r), shadow) ELSE shadow

\* In register mode the bit is set in a valid shadow, or the coils are read first.
SetsOutput(r, sync, write) ==
    /\ want' = r
    /\ \/ /\ Register /\ ~valid
          /\ pc' = sync
          /\ UNCHANGED shadow
       \/ /\ Register /\ valid
          /\ pc' = write
          /\ shadow' = Written(Coil(r), shadow)
       \/ /\ ~Register
          /\ pc' = write
          /\ UNCHANGED shadow

\* ledCb and chargingCb
Command ==
    /\ pc = "idle"
    /\ \E r \in Requests : SetsOutput(r, "sync", "write")
    /\ UNCHANGED <<device, netVars, mode, valid, got, topicVars, clean>>

\* Mutant: in register mode the relay is switched off with a valid shadow only.
ShutdownIfValid ==
    /\ pc = "idle"
    /\ \/ Register /\ ~valid /\ pc' = "down" /\ UNCHANGED <<want, shadow>>
       \/ ~(Register /\ ~valid) /\ SetsOutput(RelayOff, "offSync", "off")
    /\ clean' = (link = "good" /\ conn # "dead")
    /\ UNCHANGED <<device, netVars, mode, valid, got, topicVars>>

\* charging_off_on_shutdown; one attempt.
Shutdown ==
    /\ pc = "idle"
    /\ SetsOutput(RelayOff, "offSync", "off")
    /\ clean' = (link = "good" /\ conn # "dead")
    /\ UNCHANGED <<device, netVars, mode, valid, got, topicVars>>

Synced ==
    /\ pc \in {"sync", "offSync"}
    /\ Succeeds
    /\ shadow' = Written(Coil(want), wire.coils)
    /\ valid' = TRUE
    /\ pc' = IF pc = "sync" THEN "write" ELSE "off"
    /\ UNCHANGED <<device, link, mode, want, got, topicVars, clean>>

\* Mutant: a failed write leaves the shadow valid.
WriteFailsUnnoticed ==
    /\ pc \in {"sync", "write"}
    /\ Fails
    /\ pc' = "idle"
    /\ UNCHANGED <<device, link, mode, want, shadow, valid, got, topicVars, clean>>

\* Nobody knows whether the module has got the write: the shadow is no longer valid.
WriteFails ==
    /\ pc \in {"sync", "write"}
    /\ Fails
    /\ valid' = FALSE
    /\ pc' = "idle"
    /\ UNCHANGED <<device, link, mode, want, shadow, got, topicVars, clean>>

WriteSucceeds ==
    /\ pc = "write"
    /\ Succeeds
    /\ pc' = "idle"
    /\ UNCHANGED <<device, link, mode, want, shadow, valid, got, topicVars, clean>>

\* Answered or not, the node closes the connection and ends.
ShutdownEnds ==
    /\ pc \in {"offSync", "off"}
    /\ \/ Breaks
       \/ /\ wire.at = "host" /\ (pc = "off" \/ ~wire.ok)
          /\ conn' = "closed" /\ wire' = NoMessage
          /\ UNCHANGED late
    /\ pc' = "down"
    /\ UNCHANGED <<device, link, mode, want, shadow, valid, got, topicVars, clean>>
-----------------------------------------------------------------------------
(* poll *)

PollBegins ==
    /\ pc = "idle"
    /\ pc' = "coils"
    /\ UNCHANGED <<device, netVars, mode, want, shadow, valid, got, topicVars, clean>>

\* Mutant: the coils read serve the shadow only.
CoilsReadForShadow ==
    /\ pc = "coils"
    /\ Succeeds
    /\ got' = [ok |-> Register, coils |-> wire.coils]
    /\ IF Register THEN shadow' = wire.coils /\ valid' = TRUE ELSE UNCHANGED <<shadow, valid>>
    /\ pc' = "inputs"
    /\ UNCHANGED <<device, link, mode, want, topicVars, clean>>

CoilsRead ==
    /\ pc = "coils"
    /\ Succeeds
    /\ got' = [ok |-> TRUE, coils |-> wire.coils]
    /\ IF Register THEN shadow' = wire.coils /\ valid' = TRUE ELSE UNCHANGED <<shadow, valid>>
    /\ pc' = "inputs"
    /\ UNCHANGED <<device, link, mode, want, topicVars, clean>>

CoilsNotRead ==
    /\ pc = "coils"
    /\ Fails
    /\ pc' = "inputs"
    /\ UNCHANGED <<device, link, mode, want, shadow, valid, got, topicVars, clean>>

\* Mutant: without coils to publish, poll returns before connected is published.
PollEndsEarly ==
    /\ pc = "inputs"
    /\ Succeeds \/ Fails
    /\ connected' = (IF got.ok THEN conn' # "closed" ELSE connected)
    /\ shown' = IF got.ok THEN got.coils ELSE shown
    /\ got' = NoCoils
    /\ pc' = "idle"
    /\ UNCHANGED <<device, link, mode, want, shadow, valid, clean>>

\* The inputs are read, whatever became of the coils, and the topics published: connected
\* if the socket is open, the outputs if they have been read.
PollEnds ==
    /\ pc = "inputs"
    /\ Succeeds \/ Fails
    /\ connected' = (conn' # "closed")
    /\ shown' = IF got.ok THEN got.coils ELSE shown
    /\ got' = NoCoils
    /\ pc' = "idle"
    /\ UNCHANGED <<device, link, mode, want, shadow, valid, clean>>
-----------------------------------------------------------------------------
(* The module, the network and the process. *)

ModuleServes ==
    /\ wire.at = "module" /\ link # "cut"
    /\ \/ /\ device' = IF wire.what = "write" THEN Written(wire.frame, device) ELSE device
          /\ wire' = Answer(TRUE, device')
       \/ /\ link = "bad"
          /\ wire' = Answer(FALSE, AllOff)
          /\ UNCHANGED device
    /\ UNCHANGED <<link, conn, late, mode, pc, want, shadow, valid, got, topicVars, clean>>

LateArrives ==
    /\ link # "cut"
    /\ \E frame \in late : device' = Written(frame, device) /\ late' = late \ {frame}
    /\ clean' = FALSE
    /\ UNCHANGED <<link, conn, wire, mode, pc, want, shadow, valid, got, topicVars>>

LateIsLost ==
    /\ \E frame \in late : late' = late \ {frame}
    /\ UNCHANGED <<device, link, conn, wire, mode, pc, want, shadow, valid, got, topicVars, clean>>

\* The module loses power: its outputs drop out, its connections are gone.
ModuleRestarts ==
    /\ Fault("restart")
    /\ device' = AllOff
    /\ conn' = IF conn = "open" THEN "dead" ELSE conn
    /\ wire' = IF wire.at = "none" THEN wire ELSE Lost
    /\ late' = {}
    /\ UNCHANGED <<link, mode, pc, want, shadow, valid, got, topicVars, clean>>

LinkChanges ==
    /\ link' \in {"good", "bad", "cut"} \ {link}
    /\ clean' = (clean /\ pc = "down")
    /\ UNCHANGED <<device, conn, wire, late, mode, pc, want, shadow, valid, got, topicVars>>

\* Killed: no shutdown, and what was on its way may still arrive.
Killed ==
    /\ pc # "down" /\ Fault("kill")
    /\ CloseSock
    /\ pc' = "down"
    /\ got' = NoCoils
    /\ clean' = FALSE
    /\ UNCHANGED <<device, link, mode, want, shadow, valid, topicVars>>

Starts ==
    /\ pc = "down"
    /\ pc' = "idle"
    /\ shadow' = AllOff /\ valid' = FALSE
    /\ clean' = FALSE
    /\ UNCHANGED <<device, netVars, mode, want, got, topicVars>>
-----------------------------------------------------------------------------
Init ==
    /\ device = AllOff
    /\ link = "good" /\ conn = "closed" /\ wire = NoMessage /\ late = {}
    /\ mode \in Modes /\ pc = "idle" /\ want = RelayOff
    /\ shadow = AllOff /\ valid = FALSE
    /\ got = NoCoils
    /\ connected = FALSE /\ shown = AllOff
    /\ clean = FALSE

Transaction == \/ OpenSock \/ SendRequest
               \/ Synced \/ WriteFails \/ WriteSucceeds \/ ShutdownEnds
               \/ CoilsRead \/ CoilsNotRead \/ PollEnds

Environment == LateArrives \/ LateIsLost \/ ModuleRestarts \/ LinkChanges \/ Killed \/ Starts

Next == Command \/ Shutdown \/ PollBegins \/ Transaction \/ ModuleServes \/ Environment

Spec == Init /\ [][Next]_vars

\* Calls end, by an answer or by a timeout, and the timer is served however many commands
\* come (each subscriber's queue holds ten).
FairSpec == /\ Spec
            /\ WF_vars(Transaction \/ ModuleServes)
            /\ SF_vars(PollBegins)
-----------------------------------------------------------------------------
Frames == {f \in UNION {[S -> BOOLEAN] : S \in SUBSET Outputs} : DOMAIN f # {}}

Wire == {NoMessage, Lost, ReadRequest}
        \cup {WriteRequest(f) : f \in Frames}
        \cup {Answer(ok, coils) : ok \in BOOLEAN, coils \in States}

\* Type correctness of the module, the connection, the node and its topics.
TypeOK ==
    /\ device \in States
    /\ link \in {"good", "bad", "cut"} /\ conn \in {"closed", "open", "dead"}
    /\ wire \in Wire /\ late \subseteq Frames
    /\ mode \in Modes /\ want \in Requests
    /\ pc \in {"idle", "sync", "write", "offSync", "off", "coils", "inputs", "down"}
    /\ shadow \in States /\ valid \in BOOLEAN
    /\ got \in [ok : BOOLEAN, coils : States]
    /\ connected \in BOOLEAN /\ shown \in States /\ clean \in BOOLEAN
-----------------------------------------------------------------------------
(* What makes the node correct. *)

\* The node implements CrevisOutputs: an output changes only as a user, or the shutdown,
\* has asked for this very output.  A request lasts while the node is about to write it and
\* as long as a write of a closed connection may arrive.
Asked == {r \in Requests : \/ pc \in {"sync", "write", "offSync", "off"} /\ r = want
                           \/ Coil(r) \in late}

Users == INSTANCE CrevisOutputs WITH asked <- Asked

ImplementsOutputs == Users!Spec

\* A valid shadow is what the module puts out, but for the bit about to be written
\* (crevis_io_node.cpp:305-316): writes of the whole word rely on it.
ShadowTruthful == Register /\ valid /\ ~Writing /\ pc # "down" => shadow = device

\* A node that was shut down on a good link has left the charging relay off
\* (crevis_io.yaml:28), until a write of a closed connection arrives.
RelayOffAtEnd == pc = "down" /\ clean => ~device[Relay]

\* The topics come to show the outputs as they are, if these last and the module does not
\* restart again and again, and the loss of the module (crevis_io_driver/README.md:95).
ReadbackFollows ==
    <>[](pc # "down" /\ link = "good")
        => \/ \A o \in Outputs, on \in BOOLEAN : <>[](device[o] = on) => <>[](shown[o] = on /\ connected)
           \/ []<><<ModuleRestarts>>_vars

LossShown == <>[](pc # "down" /\ link = "cut") => <>[]~connected
=============================================================================
