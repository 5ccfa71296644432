---------------------------- MODULE CanInterface ----------------------------
(***************************************************************************)
(* CanInterface (can_interface/src/can_interface.cpp): the SocketCAN        *)
(* wrapper of the CAN nodes.  A reader thread waits in read() without a     *)
(* timeout and hands every frame to the owner's callback; the owner's       *)
(* thread opens the socket, writes, and closes in its destructor.           *)
(***************************************************************************)
EXTENDS Naturals, Sequences

CONSTANTS Frame,      \* the frames the bus may carry
          MaxQueued   \* bound: frames waiting in the socket buffer

ASSUME QueueAssumption == MaxQueued \in Nat

VARIABLES fd,       \* can_fd_ >= 0
          running,  \* is_running_
          reader,   \* where read_thread_ is
          owner,    \* the thread of the owner: using the interface, or in close()
          rx,       \* the socket buffer; the frame being handed on is still its first
          err,      \* the error the next read() will return once
          port      \* the network device: up, down, or gone for good

canVars == <<fd, running, reader, owner, rx, err, port>>

Reader == {"none", "check", "read", "callback", "ended"}
Owner == {"up", "join", "closed"}
-----------------------------------------------------------------------------
\* open: without a socket, a device or a binding there is no reader either.
Open(succeeds) ==
    /\ fd = succeeds
    /\ running = succeeds
    /\ reader = IF succeeds THEN "check" ELSE "none"

\* write: without a socket the frame is dropped, and so it is, with a message only, when
\* the device refuses it.
Sends == fd /\ port = "up"

\* Mutant: the flag is looked at only before the thread starts to read.
ReaderCheckOnce ==
    /\ reader = "check"
    /\ reader' = "read"
    /\ UNCHANGED <<fd, running, owner, rx, err, port>>

\* The head of the loop.  A running reader never sees a closed socket: close waits for it.
ReaderCheck ==
    /\ reader = "check"
    /\ reader' = IF running THEN "read" ELSE "ended"
    /\ UNCHANGED <<fd, running, owner, rx, err, port>>

\* read() returns an error, the loop pauses a millisecond and goes on.
ReadFails ==
    /\ reader = "read" /\ err
    /\ err' = FALSE
    /\ reader' = "check"
    /\ UNCHANGED <<fd, running, owner, rx, port>>

\* read() returns the oldest frame; without one it waits, for ever if need be.
ReadReturns ==
    /\ reader = "read" /\ ~err /\ rx # <<>>
    /\ reader' = "callback"
    /\ UNCHANGED <<fd, running, owner, rx, err, port>>

\* callback_ runs in the reader thread, on the frame just read.
Taken == Head(rx)

CallbackReturns ==
    /\ reader = "callback"
    /\ reader' = "check"
    /\ rx' = Tail(rx)
    /\ UNCHANGED <<fd, running, owner, err, port>>
-----------------------------------------------------------------------------
\* close: the flag first,
CloseBegins ==
    /\ owner = "up"
    /\ running' = FALSE
    /\ owner' = "join"
    /\ UNCHANGED <<fd, reader, rx, err, port>>

\* Mutant: the reader is not waited for.
CloseEndsUnjoined ==
    /\ owner = "join"
    /\ fd' = FALSE
    /\ rx' = <<>>
    /\ owner' = "closed"
    /\ UNCHANGED <<running, reader, err, port>>

\* then the reader is waited for, then the socket goes, and the owner with it.
CloseEnds ==
    /\ owner = "join" /\ reader \in {"none", "ended"}
    /\ fd' = FALSE
    /\ rx' = <<>>
    /\ owner' = "closed"
    /\ UNCHANGED <<running, reader, err, port>>
-----------------------------------------------------------------------------
(* The bus. *)

Carries == fd /\ port = "up" /\ Len(rx) < MaxQueued

\* A frame arrives at the socket.
Receives(f) == Carries /\ rx' = Append(rx, f)

\* The device goes down, or is unplugged, and the socket says so once.  A device that is
\* plugged in again has another index than the one the socket is bound to.
PortFails(how) ==
    /\ port = "up"
    /\ port' = how
    /\ err' = fd
    /\ UNCHANGED <<fd, running, reader, owner, rx>>

PortBack ==
    /\ port = "down"
    /\ port' = "up"
    /\ UNCHANGED <<fd, running, reader, owner, rx, err>>
-----------------------------------------------------------------------------
CanInit ==
    /\ \E succeeds \in BOOLEAN : Open(succeeds)
    /\ owner = "up"
    /\ rx = <<>>
    /\ err = FALSE
    /\ port = "up"

ReaderSteps == ReaderCheck \/ ReadFails \/ ReadReturns

CanTypeOK ==
    /\ fd \in BOOLEAN /\ running \in BOOLEAN
    /\ reader \in Reader /\ owner \in Owner
    /\ rx \in Seq(Frame) /\ Len(rx) <= MaxQueued
    /\ err \in BOOLEAN /\ port \in {"up", "down", "gone"}
-----------------------------------------------------------------------------
\* As long as the reader thread can call back, its socket is open and its owner's members
\* are there: close waits for the reader before it lets go of either
\* (can_interface.cpp:53-57).
CallbackHasOwner == reader \in {"check", "read", "callback"} => fd /\ owner # "closed"

\* close waits for a read() that has no timeout.  One frame, or one error, is enough to
\* let it end; without one it does not (can_interface.cpp:118).
OneFrameEnds == (owner = "join" /\ (rx # <<>> \/ err)) ~> owner = "closed"
=============================================================================
