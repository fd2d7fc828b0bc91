----------------------------- MODULE Connection -----------------------------
(***************************************************************************)
(* One Connection of src/src/connection.cpp, from the moment that          *)
(* ServicePort::accept() created it.  The network thread runs its handlers *)
(* and timeouts, the dispatcher thread calls send(), close() and           *)
(* closeAll().  Each holds connectionLock from beginning to end and is one *)
(* step.  What races is an asynchronous operation or a timer that has      *)
(* completed, but whose handler has not run, when something closes the     *)
(* socket.  Sockets, timers and the peer are external.                     *)
(***************************************************************************)
EXTENDS Naturals, Sequences, Functions

CONSTANTS MaxPackets,   \* bound: packets the peer sends
          MaxMessages   \* bound: messages the server sends

ConnectionAssumption == MaxPackets \in Nat /\ MaxMessages \in Nat

VARIABLES
  phase,        \* "accepting", "open" (accept() was called), "destroyed"
  socketOpen,   \* socket.is_open()
  closed,       \* Connection::closed
  managed,      \* is it in ConnectionManager::connections?
  protocol,     \* has a protocol been made?
  receivedFirst,\* Connection::receivedFirst
  queue,        \* messageQueue
  readOp,       \* the read in progress: "none", "header", "body"
  readStatus,   \* "pending", or the result its handler will be given
  writeStatus,  \* "none", "pending", or the result onWriteOperation() will be given
  readArmed, writeArmed,  \* are the timers running?
  timeouts,     \* timers that expired and whose handleTimeout() has not run
  peerGone,     \* has the peer reset the connection?
  packets,      \* packets received so far
  dispatched,   \* history: the tasks given to g_dispatcher, in order
  sent,         \* history: number of messages send() took
  written,      \* history: the messages written, in order
  cut           \* history: was the socket closed, or an error met, without waiting for the queue?

timers == <<readArmed, writeArmed, timeouts>>
reading == <<readOp, readStatus, packets, receivedFirst>>
connectionVars == <<phase, socketOpen, closed, managed, protocol, queue, reading, writeStatus,
          timers, peerGone, dispatched, sent, written, cut>>

ConnectionInit ==
  /\ phase = "accepting" /\ socketOpen = TRUE /\ closed = FALSE /\ managed = TRUE
  /\ protocol = FALSE /\ receivedFirst = FALSE
  /\ queue = <<>> /\ readOp = "none" /\ readStatus = "pending" /\ writeStatus = "none"
  /\ readArmed = FALSE /\ writeArmed = FALSE /\ timeouts = 0
  /\ peerGone = FALSE /\ packets = 0
  /\ dispatched = <<>> /\ sent = 0 /\ written = <<>> /\ cut = FALSE

-----------------------------------------------------------------------------
(* A pending operation on a socket that is closed completes with an error. *)
Aborted(status) == IF status = "pending" THEN "error" ELSE status

(* if (messageQueue.empty() || force) *)
ClosesAtOnce(force, q) == TRUE              \* fault: pending messages not waited for
ClosesSocket(force, q) == q = <<>> \/ force

(* if (closed) return *)
AlreadyClosed == closed

(* if (protocol) dispatch Protocol::release *)
Releases(made, force) == made

(* close(force) when the queue is q, the tasks given to g_dispatcher are   *)
(* d, a protocol exists or not, and the pending operations are r and w:    *)
(* forget the connection, then release the protocol and close the socket,  *)
(* now or when the queue is empty.                                         *)
Close(force, q, d, made, r, w, ra, wa) ==
  LET now == ~AlreadyClosed /\ ClosesSocket(force, q) /\ socketOpen
  IN  /\ managed' = FALSE
      /\ closed' = TRUE
      /\ dispatched' = IF ~AlreadyClosed /\ Releases(made, force) THEN Append(d, "release") ELSE d
      /\ socketOpen' = (socketOpen /\ ~now)
      /\ readStatus' = IF now THEN Aborted(r) ELSE r
      /\ writeStatus' = IF now THEN Aborted(w) ELSE w
      /\ readArmed' = (ra /\ ~now)
      /\ writeArmed' = (wa /\ ~now)
      /\ cut' = (cut \/ (now /\ force))

(* A handler that does not close. *)
Open(d) == /\ dispatched' = d
           /\ UNCHANGED <<managed, closed, socketOpen, writeStatus, writeArmed, cut>>

(* readTimer.expires_from_now() and async_wait() before every read *)
NotRearmed == FALSE                         \* fault: forgotten
Rearmed == TRUE

(* async_read() with its timer; on a dead socket it fails at once. *)
Read(op) == /\ readOp' = op
            /\ readArmed' = Rearmed
            /\ readStatus' = IF socketOpen' /\ ~peerGone THEN "pending" ELSE "error"

(* ServicePort::onAccept(): refused by the ban list, or accept(protocol),  *)
(* or accept() for protocols that wait for the client.                     *)
OnAccept ==
  /\ phase = "accepting"
  /\ phase' = "open"
  /\ \/ /\ Close(TRUE, queue, dispatched, FALSE, "pending", "none", FALSE, FALSE)
        /\ UNCHANGED <<protocol, readOp>>
     \/ /\ protocol' = TRUE
        /\ Open(Append(dispatched, "onConnect"))
        /\ Read("header")
     \/ /\ UNCHANGED protocol
        /\ Open(dispatched)
        /\ Read("header")
  /\ UNCHANGED <<queue, receivedFirst, packets, timeouts, peerGone, sent, written>>

(* parseHeader() *)
ParseHeader ==
  /\ readOp = "header" /\ readStatus # "pending"
  /\ \/ /\ readStatus = "error"
        /\ readOp' = "none"
        /\ Close(TRUE, queue, dispatched, protocol, "pending", writeStatus, FALSE, writeArmed)
     \/ /\ readStatus = "ok" /\ closed
        /\ readOp' = "none" /\ readStatus' = "pending" /\ readArmed' = FALSE
        /\ Open(dispatched)
     \/ /\ readStatus = "ok" /\ ~closed
        /\ \/ \E force \in BOOLEAN :    \* too many packets per second, or a bad size
                 /\ readOp' = "none"
                 /\ Close(force, queue, dispatched, protocol, "pending", writeStatus, FALSE, writeArmed)
           \/ Open(dispatched) /\ Read("body")
  /\ UNCHANGED <<phase, protocol, queue, receivedFirst, packets, timeouts, peerGone, sent, written>>

(* What the protocol does with a packet: nothing, a task for the game, or  *)
(* disconnect(), which closes the connection from within the handler.      *)
Handled(d) ==
  \/ Open(d)
  \/ Open(Append(d, "packet"))
  \/ /\ ~closed
     /\ managed' = FALSE /\ closed' = TRUE
     /\ dispatched' = Append(d, "release")
     /\ socketOpen' = (socketOpen /\ queue # <<>>)
     /\ writeStatus' = IF queue = <<>> THEN Aborted(writeStatus) ELSE writeStatus
     /\ writeArmed' = (writeArmed /\ queue # <<>>)
     /\ UNCHANGED cut

(* protocol = service_port->make_protocol(...) *)
Stored == TRUE

(* parsePacket(): the first packet makes the protocol if there is none.    *)
ParsePacket ==
  /\ readOp = "body" /\ readStatus # "pending"
  /\ \/ /\ readStatus = "error"
        /\ readOp' = "none"
        /\ Close(TRUE, queue, dispatched, protocol, "pending", writeStatus, FALSE, writeArmed)
        /\ UNCHANGED <<protocol, receivedFirst>>
     \/ /\ readStatus = "ok" /\ closed
        /\ readOp' = "none" /\ readStatus' = "pending" /\ readArmed' = FALSE
        /\ Open(dispatched)
        /\ UNCHANGED <<protocol, receivedFirst>>
     \/ /\ readStatus = "ok" /\ ~closed
        /\ receivedFirst' = TRUE
        /\ \/ /\ ~protocol          \* no service knows the protocol id
              /\ readOp' = "none"
              /\ Close(TRUE, queue, dispatched, FALSE, "pending", writeStatus, FALSE, writeArmed)
              /\ UNCHANGED protocol
           \/ /\ protocol' = Stored
              /\ Handled(dispatched)
              /\ Read("header")
  /\ UNCHANGED <<phase, queue, packets, timeouts, peerGone, sent, written>>

(* send(): only an empty queue starts a write. *)
NoPendingWrite == queue = <<>>

StartsWrite == /\ writeStatus' = IF socketOpen /\ ~peerGone THEN "pending" ELSE "error"
               /\ writeArmed' = TRUE

Send ==
  /\ phase = "open" /\ protocol
  /\ ~closed
  /\ sent < MaxMessages
  /\ sent' = sent + 1
  /\ queue' = Append(queue, sent + 1)
  /\ IF NoPendingWrite THEN StartsWrite ELSE UNCHANGED <<writeStatus, writeArmed>>
  /\ UNCHANGED <<phase, socketOpen, closed, managed, protocol, reading, readArmed, timeouts,
                 peerGone, dispatched, written, cut>>

(* The dispatcher thread calls close(): a logout, a kick, disconnect(). *)
Disconnect ==
  /\ phase = "open" /\ protocol
  /\ Close(FALSE, queue, dispatched, protocol, readStatus, writeStatus, readArmed, writeArmed)
  /\ UNCHANGED <<phase, protocol, queue, readOp, packets, receivedFirst, timeouts, peerGone,
                 sent, written>>

(* if (!messageQueue.empty()) internalSend(messageQueue.front()) *)
Continues(q) == q # <<>>

(* else if (closed) closeSocket() *)
ClosesAfterLast == closed

(* onWriteOperation() *)
OnWriteOperation ==
  /\ writeStatus \in {"ok", "error"}
  /\ \/ /\ writeStatus = "error"
        /\ queue' = <<>>
        /\ Close(TRUE, <<>>, dispatched, protocol, readStatus, "none", readArmed, FALSE)
        /\ UNCHANGED written
     \/ /\ writeStatus = "ok"
        /\ queue' = Tail(queue)
        /\ written' = Append(written, Head(queue))
        /\ \/ /\ Continues(queue')
              /\ StartsWrite
              /\ UNCHANGED <<socketOpen, readStatus, readArmed>>
           \/ /\ ~Continues(queue')
              /\ socketOpen' = (socketOpen /\ ~ClosesAfterLast)
              /\ readStatus' = IF ClosesAfterLast THEN Aborted(readStatus) ELSE readStatus
              /\ readArmed' = (readArmed /\ ~ClosesAfterLast)
              /\ writeArmed' = FALSE
              /\ writeStatus' = "none"
        /\ UNCHANGED <<managed, closed, dispatched, cut>>
  /\ UNCHANGED <<phase, protocol, readOp, packets, receivedFirst, timeouts, peerGone, sent>>

(* handleTimeout() of a timer that expired; the weak_ptr must still lock.  *)
HandleTimeout ==
  /\ timeouts > 0
  /\ timeouts' = timeouts - 1
  /\ IF phase = "open"
     THEN Close(TRUE, queue, dispatched, protocol, readStatus, writeStatus, readArmed, writeArmed)
     ELSE UNCHANGED <<managed, closed, dispatched, socketOpen, readStatus, writeStatus,
                      readArmed, writeArmed, cut>>
  /\ UNCHANGED <<phase, protocol, queue, readOp, packets, receivedFirst, peerGone, sent, written>>

(* ConnectionManager::closeAll() of Game::shutdown(): closes the sockets   *)
(* behind the connections' backs, without connectionLock.                  *)
CloseAll ==
  /\ phase = "open"
  /\ managed
  /\ managed' = FALSE
  /\ socketOpen' = FALSE
  /\ readStatus' = Aborted(readStatus) /\ writeStatus' = Aborted(writeStatus)
  /\ cut' = TRUE
  /\ UNCHANGED <<phase, closed, protocol, queue, readOp, packets, receivedFirst, timers,
                 peerGone, dispatched, sent, written>>

(* ~Connection() runs when no handler and no table refers to the object.   *)
Destroy ==
  /\ phase = "open"
  /\ ~managed /\ readOp = "none" /\ writeStatus = "none"
  /\ phase' = "destroyed"
  /\ socketOpen' = FALSE
  /\ readArmed' = FALSE /\ writeArmed' = FALSE
  /\ UNCHANGED <<closed, managed, protocol, queue, reading, writeStatus, timeouts, peerGone,
                 dispatched, sent, written, cut>>

-----------------------------------------------------------------------------
(* The world: the peer, the kernel and the clock.                          *)

world == <<phase, socketOpen, closed, managed, protocol, queue, receivedFirst, readOp,
           dispatched, sent, written>>

PeerSends ==
  /\ readOp # "none" /\ readStatus = "pending" /\ socketOpen /\ ~peerGone
  /\ packets < MaxPackets
  /\ packets' = IF readOp = "body" THEN packets + 1 ELSE packets
  /\ readStatus' = "ok"
  /\ UNCHANGED <<world, writeStatus, timers, peerGone, cut>>

(* The peer takes a message (or the kernel's buffer does). *)
PeerReads ==
  /\ writeStatus = "pending" /\ socketOpen /\ ~peerGone
  /\ writeStatus' = "ok"
  /\ UNCHANGED <<world, readStatus, packets, timers, peerGone, cut>>

PeerResets ==
  /\ phase = "open" /\ ~peerGone
  /\ peerGone' = TRUE
  /\ cut' = TRUE
  /\ readStatus' = Aborted(readStatus) /\ writeStatus' = Aborted(writeStatus)
  /\ UNCHANGED <<world, packets, timers>>

(* A timer expires: its handler is queued and cancel() comes too late.     *)
TimerExpires ==
  /\ \/ readArmed /\ readArmed' = FALSE /\ UNCHANGED writeArmed
     \/ writeArmed /\ writeArmed' = FALSE /\ UNCHANGED readArmed
  /\ timeouts' = timeouts + 1
  /\ UNCHANGED <<world, readStatus, packets, writeStatus, peerGone, cut>>

handlers == OnAccept \/ ParseHeader \/ ParsePacket \/ OnWriteOperation \/ HandleTimeout \/ Destroy

ConnectionNext ==
  \/ handlers \/ Send \/ Disconnect \/ CloseAll
  \/ PeerSends \/ PeerReads \/ PeerResets \/ TimerExpires

ConnectionSpec == ConnectionInit /\ [][ConnectionNext]_connectionVars

(* The network thread runs the handlers and the clock goes on.  Nothing is *)
(* assumed of the peer.                                                    *)
ConnectionFairSpec ==
  /\ ConnectionSpec
  /\ WF_connectionVars(OnAccept) /\ WF_connectionVars(ParseHeader) /\ WF_connectionVars(ParsePacket)
  /\ WF_connectionVars(OnWriteOperation) /\ WF_connectionVars(HandleTimeout) /\ WF_connectionVars(Destroy)
  /\ WF_connectionVars(TimerExpires)

-----------------------------------------------------------------------------
(* The values the fields of Connection can hold; once the first packet is  *)
(* handled, parsePacket() has a protocol to call.                          *)
ConnectionTypeOK ==
  /\ phase \in {"accepting", "open", "destroyed"}
  /\ {socketOpen, closed, managed, protocol, receivedFirst, peerGone, cut} \subseteq BOOLEAN
  /\ {readArmed, writeArmed} \subseteq BOOLEAN
  /\ readOp \in {"none", "header", "body"} /\ readStatus \in {"pending", "ok", "error"}
  /\ writeStatus \in {"none", "pending", "ok", "error"}
  /\ receivedFirst /\ ~closed => protocol
  /\ timeouts \in Nat /\ packets \in 0 .. MaxPackets /\ sent \in 0 .. MaxMessages
  /\ queue \in Seq(1 .. MaxMessages) /\ written \in Seq(1 .. MaxMessages)
  /\ dispatched \in Seq({"onConnect", "packet", "release"})

(* close() may be called by both threads, by timeouts and from within a    *)
(* handler: the protocol is released once, and no packet of the connection *)
(* reaches the game after its release.                                     *)
ReleasedOnceAndLast ==
  \A i \in DOMAIN dispatched : dispatched[i] = "release" => i = Len(dispatched)

(* A protocol is never forgotten: when the object goes, the release (and   *)
(* with it the logout of the player) has been dispatched.                  *)
DestroyedWasReleased ==
  phase = "destroyed" /\ protocol => "release" \in Range(dispatched)

(* Messages go out one at a time, in the order of send(), none skipped.    *)
MessagesInOrder ==
  /\ queue # <<>> <=> writeStatus # "none"
  /\ \A i \in DOMAIN written : written[i] = i
  /\ \A i \in DOMAIN queue : queue[i] = Len(written) + i

(* close() without FORCE_CLOSE waits for the queue: the socket goes only   *)
(* when the last message is written, unless something else cuts it.        *)
GracefulCloseDelivers ==
  closed /\ ~socketOpen /\ ~cut => Len(written) = sent

(* A connection that is not closed is read from, and a timer watches the   *)
(* read, or its end is near: a read result or a timeout is on its way.     *)
OpenConnectionIsWatched ==
  phase = "open" /\ ~closed =>
     readOp # "none" /\ (readArmed \/ timeouts > 0 \/ readStatus # "pending")

(* A peer that falls silent is noticed, whoever else uses the connection.  *)
SilentPeerIsClosed ==
  (phase = "open" /\ readStatus = "pending") ~> (closed \/ readStatus = "ok")

(* "will be closed by the destructor or onWriteOperation" (connection.cpp, *)
(* line 83): a closed connection lets go of its socket in the end.         *)
ClosedLetsGo == closed ~> ~socketOpen

(* close(), by whatever thread, timeout or handler: a connection is either *)
(* open and watched, or its protocol is released, once, as the last that   *)
(* the game hears of it, and before the object goes.                       *)
LifeIsOrdered == /\ ConnectionTypeOK
                 /\ ReleasedOnceAndLast
                 /\ DestroyedWasReleased
                 /\ OpenConnectionIsWatched

(* What send() took goes out in order, and all of it before a graceful     *)
(* close() closes the socket.                                              *)
MessagesArrive == MessagesInOrder /\ GracefulCloseDelivers

(* Both of them. *)
ConnectionIsSound == LifeIsOrdered /\ MessagesArrive
=============================================================================
