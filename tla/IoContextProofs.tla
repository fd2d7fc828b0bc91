--------------------------- MODULE IoContextProofs ---------------------------
(***************************************************************************)
(* Proofs about what runs in the io_context of boost::asio.  Connection:   *)
(* whichever thread, timeout or handler closes it, the protocol is released*)
(* once and last, messages go out in order and a graceful close() waits for*)
(* them.  Scheduler: every task has one owner until it is deleted, and     *)
(* stopEvent() stops the event that was meant.                             *)
(***************************************************************************)
EXTENDS Connection, Scheduler, FiniteSetTheorems, TLAPS

-----------------------------------------------------------------------------
(* Connection.                                                             *)

(* A connection that ServicePort::onAccept() has not seen yet. *)
Fresh == phase = "accepting" =>
           /\ ~closed /\ ~protocol /\ queue = <<>> /\ writeStatus = "none"
           /\ readOp = "none" /\ readStatus = "pending" /\ ~readArmed /\ ~writeArmed

(* A connection that is destroyed. *)
Over == phase = "destroyed" =>
          closed /\ readOp = "none" /\ writeStatus = "none" /\ ~readArmed /\ ~writeArmed

(* close() releases the protocol, and it alone sets `closed'. *)
ReleaseInv == /\ "release" \in Range(dispatched) => closed
              /\ closed /\ protocol => "release" \in Range(dispatched)
              /\ ReleasedOnceAndLast

(* What send() took is written or in the queue, unless it was cut off. *)
CountInv == ~closed \/ ~cut => sent = Len(written) + Len(queue)

(* A socket that went before its time, and an error of a write, have a     *)
(* cause other than close().                                               *)
CutInv == /\ ~socketOpen /\ ~closed => cut
          /\ peerGone \/ writeStatus = "error" => cut
          /\ closed /\ ~socketOpen /\ ~cut => queue = <<>>

(* The inductive invariant. *)
ConnectionInv == /\ ConnectionTypeOK /\ Fresh /\ Over
        /\ ReleaseInv /\ OpenConnectionIsWatched
        /\ MessagesInOrder /\ CountInv /\ CutInv

-----------------------------------------------------------------------------
ProtocolTasks == {"onConnect", "packet", "release"}
Messages == 1 .. MaxMessages

LEMMA AppendFacts ==
  ASSUME NEW S, NEW s \in Seq(S), NEW x \in S
  PROVE  LET t == Append(s, x)
         IN  /\ t \in Seq(S) /\ Len(t) = Len(s) + 1 /\ Len(s) \in Nat
             /\ DOMAIN t = 1 .. (Len(s) + 1) /\ DOMAIN s = 1 .. Len(s)
             /\ \A i \in 1 .. Len(s) : t[i] = s[i]
             /\ t[Len(s) + 1] = x /\ t # <<>>
<1>. DEFINE t == Append(s, x)
<1>1. /\ t \in Seq(S) /\ Len(t) = Len(s) + 1 /\ Len(s) \in Nat
      /\ DOMAIN t = 1 .. (Len(s) + 1) /\ DOMAIN s = 1 .. Len(s)
      /\ \A i \in 1 .. Len(s) : t[i] = s[i]
      /\ t[Len(s) + 1] = x
  OBVIOUS
<1>2. t # <<>>
  <2>1. Len(<<>>) = 0 /\ Len(t) # 0
    BY <1>1
  <2>. QED BY <2>1
<1>. QED BY <1>1, <1>2

(* A task given to g_dispatcher before any release: a release is the last. *)
LEMMA Dispatching ==
  ASSUME NEW d \in Seq(ProtocolTasks), "release" \notin Range(d), NEW x \in ProtocolTasks
  PROVE  LET t == Append(d, x)
         IN  /\ t \in Seq(ProtocolTasks)
             /\ "release" \in Range(t) <=> x = "release"
             /\ \A i \in DOMAIN t : t[i] = "release" => i = Len(t)
<1>. DEFINE t == Append(d, x)
<1>1. /\ t \in Seq(ProtocolTasks) /\ Len(t) = Len(d) + 1 /\ Len(d) \in Nat
      /\ DOMAIN t = 1 .. (Len(d) + 1) /\ DOMAIN d = 1 .. Len(d)
      /\ \A i \in 1 .. Len(d) : t[i] = d[i]
      /\ t[Len(d) + 1] = x
  BY AppendFacts
<1>. HIDE DEF t
<1>2. \A i \in DOMAIN t : (i \in DOMAIN d /\ t[i] # "release") \/ i = Len(t)
  BY <1>1 DEF Range
<1>3. Len(t) \in DOMAIN t /\ t[Len(t)] = x
  BY <1>1
<1>. QED BY <1>1, <1>2, <1>3 DEF Range, t

(* close() *)
LEMMA CloseFacts ==
  ASSUME ConnectionTypeOK, ReleaseInv, CutInv, NEW force \in BOOLEAN, NEW made \in BOOLEAN,
         NEW r \in {"pending", "ok", "error"},
         NEW ra \in BOOLEAN, NEW wa \in BOOLEAN,
         made <=> protocol,
         Close(force, queue, dispatched, made, r, writeStatus, ra, wa)
  PROVE  /\ closed' /\ ~managed' /\ managed' \in BOOLEAN /\ closed' \in BOOLEAN /\ socketOpen' \in BOOLEAN
         /\ readStatus' \in {"pending", "ok", "error"} /\ writeStatus' \in {"none", "pending", "ok", "error"}
         /\ readArmed' \in BOOLEAN /\ writeArmed' \in BOOLEAN /\ cut' \in BOOLEAN
         /\ dispatched' \in Seq(ProtocolTasks)
         /\ protocol => "release" \in Range(dispatched')
         /\ \A i \in DOMAIN dispatched' : dispatched'[i] = "release" => i = Len(dispatched')
         /\ cut => cut'
         /\ writeStatus' = "none" <=> writeStatus = "none"
         /\ ~socketOpen' /\ ~cut' => queue = <<>>
         /\ writeStatus' = "error" => writeStatus = "error" \/ cut' \/ queue = <<>>
<1>. DEFINE now == ~closed /\ ClosesSocket(force, queue) /\ socketOpen
<1>1. /\ managed' = FALSE /\ closed' = TRUE
      /\ dispatched' = IF ~closed /\ made THEN Append(dispatched, "release") ELSE dispatched
      /\ socketOpen' = (socketOpen /\ ~now)
      /\ readStatus' = IF now THEN Aborted(r) ELSE r
      /\ writeStatus' = IF now THEN Aborted(writeStatus) ELSE writeStatus
      /\ readArmed' = (ra /\ ~now) /\ writeArmed' = (wa /\ ~now)
      /\ cut' = (cut \/ (now /\ force))
  BY DEF Close, AlreadyClosed, Releases
<1>2. /\ socketOpen \in BOOLEAN /\ closed \in BOOLEAN /\ cut \in BOOLEAN /\ protocol \in BOOLEAN
      /\ dispatched \in Seq(ProtocolTasks) /\ writeStatus \in {"none", "pending", "ok", "error"}
  BY DEF ConnectionTypeOK, ProtocolTasks
<1>3. /\ dispatched' \in Seq(ProtocolTasks) /\ (protocol => "release" \in Range(dispatched'))
      /\ \A i \in DOMAIN dispatched' : dispatched'[i] = "release" => i = Len(dispatched')
  <2>1. CASE ~closed /\ made
    <3>1. "release" \notin Range(dispatched) /\ "release" \in ProtocolTasks
      BY <2>1 DEF ReleaseInv, ProtocolTasks
    <3>2. dispatched' = Append(dispatched, "release")
      BY <1>1, <2>1
    <3>. QED BY <1>2, <3>1, <3>2, Dispatching
  <2>2. CASE ~(~closed /\ made)
    BY <1>1, <1>2, <2>2 DEF ReleaseInv, ReleasedOnceAndLast
  <2>. QED BY <2>1, <2>2
<1>4. Aborted(r) \in {"pending", "ok", "error"} /\ Aborted(writeStatus) \in {"none", "pending", "ok", "error"}
      /\ (Aborted(writeStatus) = "none" <=> writeStatus = "none") /\ (Aborted(writeStatus) = "error" => writeStatus = "error" \/ writeStatus = "pending")
  BY <1>2 DEF Aborted
<1>5. now => force \/ queue = <<>>
  BY DEF ClosesSocket
<1>6. ~socketOpen /\ ~cut => queue = <<>>
  BY DEF CutInv
<1>. HIDE DEF now
<1>. QED BY <1>1, <1>2, <1>3, <1>4, <1>5, <1>6

-----------------------------------------------------------------------------
(* Steps that close, and steps that leave the messages alone.              *)

(* close() called by a handler that does not touch the queue itself. *)
LEMMA ClosedStep ==
  ASSUME ConnectionInv, phase' = "open",
         NEW force \in BOOLEAN, NEW made \in BOOLEAN, NEW r \in {"pending", "ok", "error"},
         NEW ra \in BOOLEAN, NEW wa \in BOOLEAN, made <=> protocol,
         Close(force, queue, dispatched, made, r, writeStatus, ra, wa),
         UNCHANGED <<protocol, queue, sent, written, peerGone, packets>>,
         readOp' \in {"none", "header", "body"}, receivedFirst' \in BOOLEAN, timeouts' \in Nat
  PROVE  ConnectionInv'
<1>1. /\ closed' /\ ~managed' /\ managed' \in BOOLEAN /\ closed' \in BOOLEAN /\ socketOpen' \in BOOLEAN
      /\ readStatus' \in {"pending", "ok", "error"} /\ writeStatus' \in {"none", "pending", "ok", "error"}
      /\ readArmed' \in BOOLEAN /\ writeArmed' \in BOOLEAN /\ cut' \in BOOLEAN
      /\ dispatched' \in Seq(ProtocolTasks)
      /\ protocol => "release" \in Range(dispatched')
      /\ \A i \in DOMAIN dispatched' : dispatched'[i] = "release" => i = Len(dispatched')
      /\ cut => cut'
      /\ writeStatus' = "none" <=> writeStatus = "none"
      /\ ~socketOpen' /\ ~cut' => queue = <<>>
      /\ writeStatus' = "error" => writeStatus = "error" \/ cut' \/ queue = <<>>
  <2>1. ConnectionTypeOK /\ ReleaseInv /\ CutInv
    BY DEF ConnectionInv
  <2>. QED BY <2>1, CloseFacts
<1>2. ConnectionTypeOK'
  BY <1>1 DEF ConnectionInv, ConnectionTypeOK, ProtocolTasks
<1>3. Fresh' /\ Over' /\ OpenConnectionIsWatched'
  BY <1>1 DEF Fresh, Over, OpenConnectionIsWatched
<1>4. ReleaseInv'
  BY <1>1 DEF ReleaseInv, ReleasedOnceAndLast
<1>5. MessagesInOrder'
  BY <1>1 DEF ConnectionInv, MessagesInOrder
<1>6. CountInv' /\ CutInv'
  BY <1>1 DEF ConnectionInv, CountInv, CutInv, MessagesInOrder
<1>. QED BY <1>2, <1>3, <1>4, <1>5, <1>6 DEF ConnectionInv

LEMMA MessagesSame ==
  ASSUME ConnectionInv, UNCHANGED <<queue, sent, written, writeStatus, peerGone, socketOpen, closed, cut>>
  PROVE  MessagesInOrder' /\ CountInv' /\ CutInv'
BY DEF ConnectionInv, MessagesInOrder, CountInv, CutInv

(* A task is dispatched and nothing is closed. *)
LEMMA DispatchKeeps ==
  ASSUME ConnectionInv, ~closed, NEW x \in {"onConnect", "packet"}, dispatched' = Append(dispatched, x),
         closed' = closed
  PROVE  ReleaseInv' /\ dispatched' \in Seq(ProtocolTasks)
<1>1. dispatched \in Seq(ProtocolTasks) /\ "release" \notin Range(dispatched) /\ x \in ProtocolTasks /\ x # "release"
  BY DEF ConnectionInv, ConnectionTypeOK, ReleaseInv, ProtocolTasks
<1>2. /\ dispatched' \in Seq(ProtocolTasks) /\ "release" \notin Range(dispatched')
      /\ \A i \in DOMAIN dispatched' : dispatched'[i] = "release" => i = Len(dispatched')
  BY <1>1, Dispatching
<1>. QED BY <1>2 DEF ReleaseInv, ReleasedOnceAndLast

LEMMA ReleaseSame ==
  ASSUME ConnectionInv, UNCHANGED <<dispatched, closed>>, protocol' = protocol \/ ~closed
  PROVE  ReleaseInv'
BY DEF ConnectionInv, ReleaseInv, ReleasedOnceAndLast

(* The read that Read(op) starts is watched. *)
LEMMA ReadFacts ==
  ASSUME NEW op \in {"header", "body"}, Read(op)
  PROVE  /\ readOp' = op /\ readArmed' = TRUE /\ readStatus' \in {"pending", "error"}
         /\ OpenConnectionIsWatched'
BY DEF Read, Rearmed, OpenConnectionIsWatched

-----------------------------------------------------------------------------
(* One lemma for each handler.                                             *)
LEMMA AcceptKeeps ==
  ASSUME ConnectionInv, OnAccept
  PROVE  ConnectionInv'
<1>1. /\ phase = "accepting" /\ phase' = "open"
      /\ UNCHANGED <<queue, receivedFirst, packets, timeouts, peerGone, sent, written>>
  BY DEF OnAccept
<1>2. /\ ~closed /\ ~protocol /\ queue = <<>> /\ writeStatus = "none"
      /\ readOp = "none" /\ ~readArmed /\ ~writeArmed
  BY <1>1 DEF ConnectionInv, Fresh
<1>3. CASE Close(TRUE, queue, dispatched, FALSE, "pending", "none", FALSE, FALSE)
             /\ UNCHANGED <<protocol, readOp>>
  <2>1. Close(TRUE, queue, dispatched, FALSE, "pending", writeStatus, FALSE, FALSE)
    BY <1>2, <1>3
  <2>. QED BY <1>1, <1>2, <1>3, <2>1, ClosedStep DEF ConnectionInv, ConnectionTypeOK
<1>4. CASE protocol' = TRUE /\ Open(Append(dispatched, "onConnect")) /\ Read("header")
  <2>1. /\ dispatched' = Append(dispatched, "onConnect")
        /\ UNCHANGED <<managed, closed, socketOpen, writeStatus, writeArmed, cut>>
    BY <1>4 DEF Open
  <2>2. ReleaseInv' /\ dispatched' \in Seq(ProtocolTasks)
    BY <1>1, <1>2, <2>1, DispatchKeeps
  <2>3. /\ readOp' = "header" /\ readArmed' = TRUE /\ readStatus' \in {"pending", "error"}
        /\ OpenConnectionIsWatched'
    BY <1>4, ReadFacts
  <2>4. MessagesInOrder' /\ CountInv' /\ CutInv'
    BY <1>1, <2>1, MessagesSame
  <2>5. ConnectionTypeOK'
    BY <1>1, <1>4, <2>1, <2>2, <2>3 DEF ConnectionInv, ConnectionTypeOK, ProtocolTasks
  <2>6. Fresh' /\ Over'
    BY <1>1 DEF Fresh, Over
  <2>. QED BY <2>2, <2>3, <2>4, <2>5, <2>6 DEF ConnectionInv
<1>5. CASE UNCHANGED protocol /\ Open(dispatched) /\ Read("header")
  <2>1. UNCHANGED <<dispatched, managed, closed, socketOpen, writeStatus, writeArmed, cut, protocol>>
    BY <1>5 DEF Open
  <2>2. ReleaseInv'
    BY <1>1, <2>1, ReleaseSame
  <2>3. /\ readOp' = "header" /\ readArmed' = TRUE /\ readStatus' \in {"pending", "error"}
        /\ OpenConnectionIsWatched'
    BY <1>5, ReadFacts
  <2>4. MessagesInOrder' /\ CountInv' /\ CutInv'
    BY <1>1, <2>1, MessagesSame
  <2>5. ConnectionTypeOK'
    BY <1>1, <2>1, <2>3 DEF ConnectionInv, ConnectionTypeOK
  <2>6. Fresh' /\ Over'
    BY <1>1 DEF Fresh, Over
  <2>. QED BY <2>2, <2>3, <2>4, <2>5, <2>6 DEF ConnectionInv
<1>. QED BY <1>3, <1>4, <1>5 DEF OnAccept

(* Something is read, written or timed only while a connection is open. *)
LEMMA Busy ==
  ASSUME ConnectionInv, readOp # "none" \/ writeStatus # "none" \/ readArmed \/ writeArmed
  PROVE  phase = "open"
BY DEF ConnectionInv, Fresh, Over, ConnectionTypeOK

(* The same for the calls of close() in the code: by the handler of a read *)
(* that is over, or by anybody else.                                       *)
LEMMA Closing ==
  ASSUME ConnectionInv, phase' = "open", NEW force \in BOOLEAN,
         \/ Close(force, queue, dispatched, protocol, "pending", writeStatus, FALSE, writeArmed)
         \/ Close(force, queue, dispatched, protocol, readStatus, writeStatus, readArmed, writeArmed),
         UNCHANGED <<protocol, queue, sent, written, peerGone, packets>>,
         readOp' \in {"none", "header", "body"}, receivedFirst' \in BOOLEAN, timeouts' \in Nat
  PROVE  ConnectionInv'
<1>1. PICK made \in BOOLEAN, rs \in {"pending", "ok", "error"}, ra \in BOOLEAN, wa \in BOOLEAN :
        made = protocol /\ rs = readStatus /\ ra = readArmed /\ wa = writeArmed
  BY DEF ConnectionInv, ConnectionTypeOK
<1>2. CASE Close(force, queue, dispatched, protocol, "pending", writeStatus, FALSE, writeArmed)
  <2>1. Close(force, queue, dispatched, made, "pending", writeStatus, FALSE, wa)
    BY <1>1, <1>2
  <2>. QED BY <1>1, <2>1, ClosedStep
<1>3. CASE Close(force, queue, dispatched, protocol, readStatus, writeStatus, readArmed, writeArmed)
  <2>1. Close(force, queue, dispatched, made, rs, writeStatus, ra, wa)
    BY <1>1, <1>3
  <2>. QED BY <1>1, <2>1, ClosedStep
<1>. QED BY <1>2, <1>3

LEMMA HeaderKeeps ==
  ASSUME ConnectionInv, ParseHeader
  PROVE  ConnectionInv'
<1>1. /\ readOp = "header" /\ readStatus # "pending" /\ phase = "open"
      /\ UNCHANGED <<phase, protocol, queue, receivedFirst, packets, timeouts, peerGone, sent, written>>
  BY Busy DEF ParseHeader
<1>2. ASSUME NEW force \in BOOLEAN, readOp' = "none",
             Close(force, queue, dispatched, protocol, "pending", writeStatus, FALSE, writeArmed)
      PROVE  ConnectionInv'
  BY <1>1, <1>2, Closing DEF ConnectionInv, ConnectionTypeOK
<1>3. CASE closed /\ readOp' = "none" /\ readStatus' = "pending" /\ readArmed' = FALSE /\ Open(dispatched)
  <2>1. UNCHANGED <<dispatched, managed, closed, socketOpen, writeStatus, writeArmed, cut, protocol>>
    BY <1>1, <1>3 DEF Open
  <2>2. ReleaseInv'
    BY <2>1, ReleaseSame
  <2>3. MessagesInOrder' /\ CountInv' /\ CutInv'
    BY <1>1, <2>1, MessagesSame
  <2>4. ConnectionTypeOK'
    BY <1>1, <1>3, <2>1 DEF ConnectionInv, ConnectionTypeOK
  <2>5. Fresh' /\ Over' /\ OpenConnectionIsWatched'
    BY <1>1, <1>3, <2>1 DEF Fresh, Over, OpenConnectionIsWatched
  <2>. QED BY <2>2, <2>3, <2>4, <2>5 DEF ConnectionInv
<1>4. CASE ~closed /\ Open(dispatched) /\ Read("body")
  <2>1. UNCHANGED <<dispatched, managed, closed, socketOpen, writeStatus, writeArmed, cut, protocol>>
    BY <1>1, <1>4 DEF Open
  <2>2. ReleaseInv'
    BY <2>1, ReleaseSame
  <2>3. /\ readOp' = "body" /\ readArmed' = TRUE /\ readStatus' \in {"pending", "error"}
        /\ OpenConnectionIsWatched'
    BY <1>4, ReadFacts
  <2>4. MessagesInOrder' /\ CountInv' /\ CutInv'
    BY <1>1, <2>1, MessagesSame
  <2>5. ConnectionTypeOK'
    BY <1>1, <2>1, <2>3 DEF ConnectionInv, ConnectionTypeOK
  <2>6. Fresh' /\ Over'
    BY <1>1 DEF Fresh, Over
  <2>. QED BY <2>2, <2>3, <2>4, <2>5, <2>6 DEF ConnectionInv
<1>. QED BY <1>2, <1>3, <1>4 DEF ParseHeader

(* disconnect() called by the protocol while it handles a packet *)
LEMMA DisconnectedByHandler ==
  ASSUME ConnectionInv, ~closed, phase = "open",
         managed' = FALSE /\ closed' = TRUE,
         dispatched' = Append(dispatched, "release"),
         socketOpen' = (socketOpen /\ queue # <<>>),
         writeStatus' = (IF queue = <<>> THEN Aborted(writeStatus) ELSE writeStatus),
         writeArmed' = (writeArmed /\ queue # <<>>),
         readOp' \in {"none", "header", "body"}, readStatus' \in {"pending", "ok", "error"},
         readArmed' \in BOOLEAN, receivedFirst' \in BOOLEAN, protocol' \in BOOLEAN,
         UNCHANGED <<phase, queue, packets, timeouts, peerGone, sent, written, cut>>
  PROVE  ConnectionInv'
<1>1. /\ "release" \notin Range(dispatched) /\ dispatched \in Seq(ProtocolTasks) /\ "release" \in ProtocolTasks
  BY DEF ConnectionInv, ConnectionTypeOK, ReleaseInv, ProtocolTasks
<1>2. /\ dispatched' \in Seq(ProtocolTasks) /\ "release" \in Range(dispatched')
      /\ \A i \in DOMAIN dispatched' : dispatched'[i] = "release" => i = Len(dispatched')
  BY <1>1, Dispatching
<1>3. writeStatus' = writeStatus
  BY DEF ConnectionInv, MessagesInOrder, Aborted
<1>4. ConnectionTypeOK'
  BY <1>2, <1>3 DEF ConnectionInv, ConnectionTypeOK, ProtocolTasks
<1>5. Fresh' /\ Over' /\ OpenConnectionIsWatched'
  BY DEF Fresh, Over, OpenConnectionIsWatched
<1>6. ReleaseInv'
  BY <1>2 DEF ReleaseInv, ReleasedOnceAndLast
<1>7. MessagesInOrder' /\ CountInv' /\ CutInv'
  BY <1>3 DEF ConnectionInv, MessagesInOrder, CountInv, CutInv
<1>. QED BY <1>4, <1>5, <1>6, <1>7 DEF ConnectionInv

LEMMA PacketKeeps ==
  ASSUME ConnectionInv, ParsePacket
  PROVE  ConnectionInv'
<1>1. /\ readOp = "body" /\ readStatus # "pending" /\ phase = "open"
      /\ UNCHANGED <<phase, queue, packets, timeouts, peerGone, sent, written>>
  BY Busy DEF ParsePacket
<1>2. CASE /\ readOp' = "none"
           /\ Close(TRUE, queue, dispatched, protocol, "pending", writeStatus, FALSE, writeArmed)
           /\ UNCHANGED <<protocol, receivedFirst>>
  BY <1>1, <1>2, Closing DEF ConnectionInv, ConnectionTypeOK
<1>3. CASE /\ closed /\ readOp' = "none" /\ readStatus' = "pending" /\ readArmed' = FALSE /\ Open(dispatched)
           /\ UNCHANGED <<protocol, receivedFirst>>
  <2>1. UNCHANGED <<dispatched, managed, closed, socketOpen, writeStatus, writeArmed, cut, protocol>>
    BY <1>1, <1>3 DEF Open
  <2>2. ReleaseInv'
    BY <2>1, ReleaseSame
  <2>3. MessagesInOrder' /\ CountInv' /\ CutInv'
    BY <1>1, <2>1, MessagesSame
  <2>4. ConnectionTypeOK'
    BY <1>1, <1>3, <2>1 DEF ConnectionInv, ConnectionTypeOK
  <2>5. Fresh' /\ Over' /\ OpenConnectionIsWatched'
    BY <1>1, <1>3, <2>1 DEF Fresh, Over, OpenConnectionIsWatched
  <2>. QED BY <2>2, <2>3, <2>4, <2>5 DEF ConnectionInv
<1>4. CASE /\ ~closed /\ receivedFirst' = TRUE /\ ~protocol /\ readOp' = "none"
           /\ Close(TRUE, queue, dispatched, FALSE, "pending", writeStatus, FALSE, writeArmed)
           /\ UNCHANGED protocol
  <2>1. protocol = FALSE
    BY <1>4 DEF ConnectionInv, ConnectionTypeOK
  <2>2. Close(TRUE, queue, dispatched, protocol, "pending", writeStatus, FALSE, writeArmed)
    BY <1>4, <2>1
  <2>. QED BY <1>1, <1>4, <2>2, Closing DEF ConnectionInv, ConnectionTypeOK
<1>5. CASE ~closed /\ receivedFirst' = TRUE /\ protocol' = Stored /\ Handled(dispatched) /\ Read("header")
  <2>1. /\ readOp' = "header" /\ readArmed' = TRUE /\ readStatus' \in {"pending", "error"}
        /\ OpenConnectionIsWatched' /\ protocol' = TRUE
    BY <1>5, ReadFacts DEF Stored
  <2>2. ASSUME Open(dispatched) \/ Open(Append(dispatched, "packet"))
        PROVE  ConnectionInv'
    <3>1. UNCHANGED <<managed, closed, socketOpen, writeStatus, writeArmed, cut>>
      BY <2>2 DEF Open
    <3>2. ReleaseInv' /\ dispatched' \in Seq(ProtocolTasks)
      <4>1. CASE dispatched' = dispatched
        <5>1. ReleaseInv'
          BY <1>1, <1>5, <3>1, <4>1, ReleaseSame
        <5>. QED BY <4>1, <5>1 DEF ConnectionInv, ConnectionTypeOK, ProtocolTasks
      <4>2. CASE dispatched' = Append(dispatched, "packet")
        BY <1>1, <1>5, <3>1, <4>2, DispatchKeeps
      <4>. QED BY <2>2, <4>1, <4>2 DEF Open
    <3>3. MessagesInOrder' /\ CountInv' /\ CutInv'
      BY <1>1, <3>1, MessagesSame
    <3>4. ConnectionTypeOK'
      BY <1>1, <1>5, <2>1, <3>1, <3>2 DEF ConnectionInv, ConnectionTypeOK, ProtocolTasks
    <3>5. Fresh' /\ Over'
      BY <1>1 DEF Fresh, Over
    <3>. QED BY <2>1, <3>2, <3>3, <3>4, <3>5 DEF ConnectionInv
  <2>3. ASSUME /\ ~closed
               /\ managed' = FALSE /\ closed' = TRUE
               /\ dispatched' = Append(dispatched, "release")
               /\ socketOpen' = (socketOpen /\ queue # <<>>)
               /\ writeStatus' = IF queue = <<>> THEN Aborted(writeStatus) ELSE writeStatus
               /\ writeArmed' = (writeArmed /\ queue # <<>>)
               /\ UNCHANGED cut
        PROVE  ConnectionInv'
    BY <1>1, <1>5, <2>1, <2>3, DisconnectedByHandler
  <2>. QED BY <1>5, <2>2, <2>3 DEF Handled
<1>. QED BY <1>2, <1>3, <1>4, <1>5 DEF ParsePacket
LEMMA SendKeeps ==
  ASSUME ConnectionAssumption, ConnectionInv, Send
  PROVE  ConnectionInv'
<1>1. /\ phase = "open" /\ ~closed /\ sent < MaxMessages /\ sent' = sent + 1
      /\ queue' = Append(queue, sent + 1)
      /\ UNCHANGED <<phase, socketOpen, closed, managed, protocol, readOp, readStatus, packets,
                     receivedFirst, readArmed, timeouts, peerGone, dispatched, written, cut>>
  BY DEF Send, reading
<1>2. /\ sent \in 0 .. MaxMessages /\ sent + 1 \in Messages
      /\ queue \in Seq(Messages) /\ written \in Seq(Messages) /\ Len(written) \in Nat
      /\ sent = Len(written) + Len(queue)
  <2>1. sent \in 0 .. MaxMessages /\ queue \in Seq(Messages) /\ written \in Seq(Messages)
    BY DEF ConnectionInv, ConnectionTypeOK, Messages
  <2>2. sent + 1 \in Messages
    BY <1>1, <2>1 DEF Messages, ConnectionAssumption
  <2>3. sent = Len(written) + Len(queue) /\ Len(written) \in Nat
    BY <1>1, <2>1 DEF ConnectionInv, CountInv
  <2>. QED BY <2>1, <2>2, <2>3
<1>3. /\ queue' \in Seq(Messages) /\ Len(queue') = Len(queue) + 1 /\ Len(queue) \in Nat
      /\ DOMAIN queue' = 1 .. (Len(queue) + 1) /\ DOMAIN queue = 1 .. Len(queue)
      /\ \A i \in 1 .. Len(queue) : queue'[i] = queue[i]
      /\ queue'[Len(queue) + 1] = sent + 1 /\ queue' # <<>>
  BY <1>1, <1>2, AppendFacts
<1>4. /\ writeStatus' \in {"none", "pending", "ok", "error"} /\ writeArmed' \in BOOLEAN
      /\ writeStatus' # "none"
      /\ writeStatus' = "error" => writeStatus = "error" \/ ~socketOpen \/ peerGone
  <2>1. CASE queue = <<>>
    BY <2>1 DEF Send, NoPendingWrite, StartsWrite
  <2>2. CASE queue # <<>>
    BY <2>2 DEF Send, NoPendingWrite, ConnectionInv, ConnectionTypeOK, MessagesInOrder
  <2>. QED BY <2>1, <2>2
<1>5. ConnectionTypeOK'
  <2>1. sent' \in 0 .. MaxMessages
    BY <1>1, <1>2 DEF Messages, ConnectionAssumption
  <2>. QED BY <1>1, <1>3, <1>4, <2>1 DEF ConnectionInv, ConnectionTypeOK, Messages
<1>6. MessagesInOrder'
  <2>1. ASSUME NEW i \in DOMAIN queue'  PROVE  queue'[i] = Len(written) + i
    <3>1. CASE i \in 1 .. Len(queue)
      BY <1>3, <3>1 DEF ConnectionInv, MessagesInOrder
    <3>2. CASE i = Len(queue) + 1
      BY <1>2, <1>3, <3>2
    <3>. QED BY <1>3, <2>1, <3>1, <3>2
  <2>2. \A i \in DOMAIN written : written[i] = i
    BY DEF ConnectionInv, MessagesInOrder
  <2>3. written' = written /\ queue' # <<>> /\ writeStatus' # "none"
    BY <1>1, <1>3, <1>4
  <2>. QED BY <2>1, <2>2, <2>3 DEF MessagesInOrder
<1>7. CountInv'
  BY <1>1, <1>2, <1>3 DEF CountInv
<1>8. CutInv'
  BY <1>1, <1>4 DEF ConnectionInv, CutInv
<1>9. Fresh' /\ Over' /\ OpenConnectionIsWatched' /\ ReleaseInv'
  BY <1>1 DEF ConnectionInv, Fresh, Over, OpenConnectionIsWatched, ReleaseInv, ReleasedOnceAndLast
<1>. QED BY <1>5, <1>6, <1>7, <1>8, <1>9 DEF ConnectionInv

LEMMA DisconnectKeeps ==
  ASSUME ConnectionInv, Disconnect
  PROVE  ConnectionInv'
<1>1. /\ phase' = "open"
      /\ UNCHANGED <<protocol, queue, readOp, packets, receivedFirst, timeouts, peerGone, sent, written>>
  BY DEF Disconnect
<1>2. Close(FALSE, queue, dispatched, protocol, readStatus, writeStatus, readArmed, writeArmed)
  BY DEF Disconnect, Close
<1>. QED BY <1>1, <1>2, Closing DEF ConnectionInv, ConnectionTypeOK

LEMMA TimeoutKeeps ==
  ASSUME ConnectionInv, HandleTimeout
  PROVE  ConnectionInv'
<1>1. /\ timeouts > 0 /\ timeouts' = timeouts - 1
      /\ UNCHANGED <<phase, protocol, queue, readOp, packets, receivedFirst, peerGone, sent, written>>
  BY DEF HandleTimeout
<1>2. timeouts' \in Nat
  BY <1>1 DEF ConnectionInv, ConnectionTypeOK
<1>3. CASE phase = "open"
  <2>1. Close(TRUE, queue, dispatched, protocol, readStatus, writeStatus, readArmed, writeArmed)
    BY <1>3 DEF HandleTimeout
  <2>. QED BY <1>1, <1>2, <1>3, <2>1, Closing DEF ConnectionInv, ConnectionTypeOK
<1>4. CASE phase # "open"
  <2>1. UNCHANGED <<managed, closed, dispatched, socketOpen, readStatus, writeStatus,
                    readArmed, writeArmed, cut>>
    BY <1>4 DEF HandleTimeout
  <2>2. MessagesInOrder' /\ CountInv' /\ CutInv'
    BY <1>1, <2>1, MessagesSame
  <2>3. ReleaseInv'
    BY <1>1, <2>1, ReleaseSame
  <2>4. ConnectionTypeOK'
    BY <1>1, <1>2, <2>1 DEF ConnectionInv, ConnectionTypeOK
  <2>5. Fresh' /\ Over' /\ OpenConnectionIsWatched'
    BY <1>1, <1>4, <2>1 DEF ConnectionInv, Fresh, Over, OpenConnectionIsWatched
  <2>. QED BY <2>2, <2>3, <2>4, <2>5 DEF ConnectionInv
<1>. QED BY <1>3, <1>4

(* The socket is closed under the connection, or the peer is gone: the     *)
(* operations in progress end with an error.                               *)
LEMMA AbortKeeps ==
  ASSUME ConnectionInv, phase = "open", cut' = TRUE,
         readStatus' = Aborted(readStatus) /\ writeStatus' = Aborted(writeStatus),
         socketOpen' \in BOOLEAN, managed' \in BOOLEAN, peerGone' \in BOOLEAN,
         UNCHANGED <<phase, closed, protocol, queue, readOp, packets, receivedFirst, readArmed, writeArmed,
                     timeouts, dispatched, sent, written>>
  PROVE  ConnectionInv'
<1>1. /\ readStatus' \in {"pending", "ok", "error"} /\ writeStatus' \in {"none", "pending", "ok", "error"}
      /\ readStatus # "pending" => readStatus' # "pending"
      /\ writeStatus' = "none" <=> writeStatus = "none"
  BY DEF ConnectionInv, ConnectionTypeOK, Aborted
<1>2. ConnectionTypeOK'
  BY <1>1 DEF ConnectionInv, ConnectionTypeOK
<1>3. ReleaseInv'
  BY ReleaseSame
<1>4. Fresh' /\ Over' /\ OpenConnectionIsWatched'
  BY <1>1 DEF ConnectionInv, Fresh, Over, OpenConnectionIsWatched
<1>5. MessagesInOrder'
  BY <1>1 DEF ConnectionInv, MessagesInOrder
<1>6. CountInv' /\ CutInv'
  BY <1>1 DEF ConnectionInv, CountInv, CutInv
<1>. QED BY <1>2, <1>3, <1>4, <1>5, <1>6 DEF ConnectionInv

LEMMA CloseAllKeeps ==
  ASSUME ConnectionInv, CloseAll
  PROVE  ConnectionInv'
BY AbortKeeps DEF CloseAll, timers, ConnectionInv, ConnectionTypeOK

LEMMA ResetKeeps ==
  ASSUME ConnectionInv, PeerResets
  PROVE  ConnectionInv'
BY AbortKeeps DEF PeerResets, timers, world, ConnectionInv, ConnectionTypeOK
LEMMA WriteKeeps ==
  ASSUME ConnectionInv, OnWriteOperation
  PROVE  ConnectionInv'
<1>1. /\ writeStatus \in {"ok", "error"} /\ phase = "open"
      /\ UNCHANGED <<phase, protocol, readOp, packets, receivedFirst, timeouts, peerGone, sent>>
  BY Busy DEF OnWriteOperation
<1>2. queue # <<>>
  BY <1>1 DEF ConnectionInv, MessagesInOrder
<1>3. /\ queue \in Seq(Messages) /\ written \in Seq(Messages) /\ Len(written) \in Nat /\ Len(queue) \in Nat
  BY DEF ConnectionInv, ConnectionTypeOK, Messages
<1>4. CASE /\ writeStatus = "error" /\ queue' = <<>> /\ UNCHANGED written
           /\ Close(TRUE, <<>>, dispatched, protocol, readStatus, "none", readArmed, FALSE)
  <2>1. cut = TRUE
    BY <1>4 DEF ConnectionInv, CutInv, ConnectionTypeOK
  <2>2. /\ closed' = TRUE /\ managed' = FALSE /\ cut' = TRUE /\ writeStatus' = "none"
        /\ socketOpen' \in BOOLEAN /\ readStatus' \in {"pending", "ok", "error"}
        /\ readArmed' \in BOOLEAN /\ writeArmed' = FALSE
    BY <1>4, <2>1 DEF Close, AlreadyClosed, Aborted, ConnectionInv, ConnectionTypeOK
  <2>3. /\ dispatched' \in Seq(ProtocolTasks) /\ (protocol => "release" \in Range(dispatched'))
        /\ \A i \in DOMAIN dispatched' : dispatched'[i] = "release" => i = Len(dispatched')
    <3>1. dispatched' = IF ~closed /\ protocol THEN Append(dispatched, "release") ELSE dispatched
      BY <1>4 DEF Close, AlreadyClosed, Releases
    <3>2. dispatched \in Seq(ProtocolTasks)
      BY DEF ConnectionInv, ConnectionTypeOK, ProtocolTasks
    <3>3. CASE ~closed /\ protocol
      <4>1. "release" \notin Range(dispatched) /\ "release" \in ProtocolTasks
        BY <3>3 DEF ConnectionInv, ReleaseInv, ProtocolTasks
      <4>2. dispatched' = Append(dispatched, "release")
        BY <3>1, <3>3
      <4>. QED BY <3>2, <4>1, <4>2, Dispatching
    <3>4. CASE ~(~closed /\ protocol)
      BY <3>1, <3>2, <3>4 DEF ConnectionInv, ReleaseInv, ReleasedOnceAndLast
    <3>. QED BY <3>3, <3>4
  <2>4. ConnectionTypeOK'
    <3>1. queue' \in Seq(Messages)
      BY <1>4
    <3>. QED BY <1>1, <1>4, <2>2, <2>3, <3>1 DEF ConnectionInv, ConnectionTypeOK, ProtocolTasks, Messages
  <2>5. ReleaseInv'
    BY <1>1, <2>2, <2>3 DEF ReleaseInv, ReleasedOnceAndLast
  <2>6. MessagesInOrder'
    <3>1. DOMAIN queue' = {}
      BY <1>4
    <3>. QED BY <1>4, <2>2, <3>1 DEF ConnectionInv, MessagesInOrder
  <2>7. Fresh' /\ Over' /\ OpenConnectionIsWatched' /\ CountInv' /\ CutInv'
    BY <1>1, <2>2 DEF Fresh, Over, OpenConnectionIsWatched, CountInv, CutInv
  <2>. QED BY <2>4, <2>5, <2>6, <2>7 DEF ConnectionInv
<1>5. CASE /\ writeStatus = "ok" /\ queue' = Tail(queue) /\ written' = Append(written, Head(queue))
           /\ \/ /\ Continues(queue')
                 /\ StartsWrite
                 /\ UNCHANGED <<socketOpen, readStatus, readArmed>>
              \/ /\ ~Continues(queue')
                 /\ socketOpen' = (socketOpen /\ ~ClosesAfterLast)
                 /\ readStatus' = IF ClosesAfterLast THEN Aborted(readStatus) ELSE readStatus
                 /\ readArmed' = (readArmed /\ ~ClosesAfterLast)
                 /\ writeArmed' = FALSE
                 /\ writeStatus' = "none"
           /\ UNCHANGED <<managed, closed, dispatched, cut>>
  <2>1. /\ Head(queue) \in Messages /\ Head(queue) = queue[1] /\ 1 \in DOMAIN queue
        /\ queue' \in Seq(Messages) /\ Len(queue') = Len(queue) - 1 /\ Len(queue') \in Nat
        /\ DOMAIN queue' = 1 .. Len(queue') /\ DOMAIN queue = 1 .. Len(queue)
        /\ \A i \in DOMAIN queue' : i + 1 \in DOMAIN queue /\ queue'[i] = queue[i + 1]
    BY <1>2, <1>3, <1>5
  <2>2. /\ written' \in Seq(Messages) /\ Len(written') = Len(written) + 1
        /\ DOMAIN written' = 1 .. (Len(written) + 1) /\ DOMAIN written = 1 .. Len(written)
        /\ \A i \in 1 .. Len(written) : written'[i] = written[i]
        /\ written'[Len(written) + 1] = Head(queue)
    BY <1>3, <1>5, <2>1, AppendFacts
  <2>3. /\ socketOpen' \in BOOLEAN /\ readStatus' \in {"pending", "ok", "error"} /\ readArmed' \in BOOLEAN
        /\ writeArmed' \in BOOLEAN /\ writeStatus' \in {"none", "pending", "ok", "error"}
        /\ queue' # <<>> <=> writeStatus' # "none"
        /\ ~closed => UNCHANGED <<socketOpen, readStatus, readArmed>>
        /\ queue' # <<>> => UNCHANGED socketOpen
        /\ writeStatus' = "error" => ~socketOpen \/ peerGone
    BY <1>5 DEF Continues, StartsWrite, ClosesAfterLast, Aborted, ConnectionInv, ConnectionTypeOK
  <2>4. ConnectionTypeOK'
    BY <1>1, <1>5, <2>1, <2>2, <2>3 DEF ConnectionInv, ConnectionTypeOK, Messages
  <2>5. MessagesInOrder'
    <3>1. /\ \A i \in DOMAIN written : written[i] = i
          /\ \A i \in DOMAIN queue : queue[i] = Len(written) + i
      BY DEF ConnectionInv, MessagesInOrder
    <3>2. ASSUME NEW i \in DOMAIN written'  PROVE  written'[i] = i
      <4>1. CASE i \in 1 .. Len(written)
        BY <2>2, <3>1, <4>1
      <4>2. CASE i = Len(written) + 1
        BY <1>3, <2>1, <2>2, <3>1, <4>2
      <4>. QED BY <1>3, <2>2, <3>2, <4>1, <4>2
    <3>3. ASSUME NEW i \in DOMAIN queue'  PROVE  queue'[i] = Len(written') + i
      <4>1. i + 1 \in DOMAIN queue /\ queue'[i] = queue[i + 1] /\ i \in Nat
        BY <2>1, <3>3
      <4>2. queue[i + 1] = Len(written) + (i + 1)
        BY <3>1, <4>1
      <4>. QED BY <1>3, <2>2, <4>1, <4>2
    <3>. QED BY <2>3, <3>2, <3>3 DEF MessagesInOrder
  <2>6. CountInv'
    BY <1>1, <1>3, <1>5, <2>1, <2>2 DEF ConnectionInv, CountInv
  <2>7. CutInv'
    <3>1. writeStatus' = "error" => cut
      <4>1. ~socketOpen /\ closed /\ ~cut => queue = <<>>
        BY DEF ConnectionInv, CutInv
      <4>. QED BY <1>2, <2>3, <4>1 DEF ConnectionInv, CutInv
    <3>. QED BY <1>1, <1>5, <2>3, <3>1 DEF ConnectionInv, CutInv
  <2>8. ReleaseInv'
    BY <1>1, <1>5, ReleaseSame
  <2>9. Fresh' /\ Over' /\ OpenConnectionIsWatched'
    <3>1. ~closed => UNCHANGED <<socketOpen, readStatus, readArmed>>
      BY <2>3
    <3>. QED BY <1>1, <1>5, <3>1 DEF ConnectionInv, Fresh, Over, OpenConnectionIsWatched
  <2>. QED BY <2>4, <2>5, <2>6, <2>7, <2>8, <2>9 DEF ConnectionInv
<1>. QED BY <1>4, <1>5 DEF OnWriteOperation
LEMMA DestroyKeeps ==
  ASSUME ConnectionInv, Destroy
  PROVE  ConnectionInv'
<1>1. /\ phase = "open" /\ phase' = "destroyed" /\ readOp = "none" /\ writeStatus = "none"
      /\ socketOpen' = FALSE /\ readArmed' = FALSE /\ writeArmed' = FALSE
      /\ UNCHANGED <<closed, managed, protocol, queue, readOp, readStatus, packets, receivedFirst,
                     writeStatus, timeouts, peerGone, dispatched, sent, written, cut>>
  BY DEF Destroy, reading
<1>2. closed
  BY <1>1 DEF ConnectionInv, OpenConnectionIsWatched
<1>3. queue = <<>>
  BY <1>1 DEF ConnectionInv, MessagesInOrder
<1>4. ConnectionTypeOK'
  BY <1>1 DEF ConnectionInv, ConnectionTypeOK
<1>5. ReleaseInv'
  BY <1>1, ReleaseSame
<1>6. Fresh' /\ Over' /\ OpenConnectionIsWatched'
  BY <1>1, <1>2 DEF Fresh, Over, OpenConnectionIsWatched
<1>7. MessagesInOrder' /\ CountInv'
  BY <1>1 DEF ConnectionInv, MessagesInOrder, CountInv
<1>8. CutInv'
  BY <1>1, <1>2, <1>3 DEF ConnectionInv, CutInv
<1>. QED BY <1>4, <1>5, <1>6, <1>7, <1>8 DEF ConnectionInv

(* The peer sends or takes something, or a timer expires. *)
LEMMA WorldKeeps ==
  ASSUME ConnectionAssumption, ConnectionInv, PeerSends \/ PeerReads \/ TimerExpires
  PROVE  ConnectionInv'
<1>1. UNCHANGED <<phase, socketOpen, closed, managed, protocol, queue, receivedFirst, readOp,
                  dispatched, sent, written, peerGone, cut>>
  BY DEF PeerSends, PeerReads, TimerExpires, world
<1>2. ReleaseInv'
  BY <1>1, ReleaseSame
<1>3. /\ writeStatus' = "none" <=> writeStatus = "none"
      /\ writeStatus' = "error" => writeStatus = "error"
  BY DEF PeerSends, PeerReads, TimerExpires
<1>4. MessagesInOrder' /\ CountInv' /\ CutInv'
  BY <1>1, <1>3 DEF ConnectionInv, MessagesInOrder, CountInv, CutInv
<1>5. CASE PeerSends
  <2>1. readOp # "none" /\ readStatus' = "ok" /\ UNCHANGED <<writeStatus, readArmed, writeArmed, timeouts>>
        /\ phase = "open"
    BY <1>5, Busy DEF PeerSends, timers
  <2>2. packets' \in 0 .. MaxPackets
    BY <1>5 DEF PeerSends, ConnectionAssumption, ConnectionInv, ConnectionTypeOK
  <2>3. ConnectionTypeOK'
    BY <1>1, <2>1, <2>2 DEF ConnectionInv, ConnectionTypeOK
  <2>4. Fresh' /\ Over' /\ OpenConnectionIsWatched'
    BY <1>1, <2>1 DEF ConnectionInv, Fresh, Over, OpenConnectionIsWatched
  <2>. QED BY <1>2, <1>4, <2>3, <2>4 DEF ConnectionInv
<1>6. CASE PeerReads
  <2>1. writeStatus = "pending" /\ writeStatus' = "ok" /\ phase = "open"
        /\ UNCHANGED <<readStatus, packets, readArmed, writeArmed, timeouts>>
    BY <1>6, Busy DEF PeerReads, timers
  <2>2. ConnectionTypeOK'
    BY <1>1, <2>1 DEF ConnectionInv, ConnectionTypeOK
  <2>3. Fresh' /\ Over' /\ OpenConnectionIsWatched'
    BY <1>1, <2>1 DEF ConnectionInv, Fresh, Over, OpenConnectionIsWatched
  <2>. QED BY <1>2, <1>4, <2>2, <2>3 DEF ConnectionInv
<1>7. CASE TimerExpires
  <2>1. /\ readArmed' \in BOOLEAN /\ writeArmed' \in BOOLEAN /\ phase = "open"
        /\ timeouts' = timeouts + 1 /\ UNCHANGED <<readStatus, packets, writeStatus>>
    BY <1>7, Busy DEF TimerExpires, ConnectionInv, ConnectionTypeOK
  <2>2. timeouts' \in Nat /\ timeouts' > 0
    BY <2>1 DEF ConnectionInv, ConnectionTypeOK
  <2>3. ConnectionTypeOK'
    BY <1>1, <2>1, <2>2 DEF ConnectionInv, ConnectionTypeOK
  <2>4. Fresh' /\ Over' /\ OpenConnectionIsWatched'
    BY <1>1, <2>1, <2>2 DEF ConnectionInv, Fresh, Over, OpenConnectionIsWatched
  <2>. QED BY <1>2, <1>4, <2>3, <2>4 DEF ConnectionInv
<1>. QED BY <1>5, <1>6, <1>7

LEMMA StutterKeeps ==
  ASSUME ConnectionInv, UNCHANGED connectionVars
  PROVE  ConnectionInv'
<1>1. UNCHANGED <<phase, socketOpen, closed, managed, protocol, queue, readOp, readStatus, packets,
                  receivedFirst, writeStatus, readArmed, writeArmed, timeouts, peerGone, dispatched,
                  sent, written, cut>>
  BY DEF connectionVars, reading, timers
<1>2. ConnectionTypeOK' /\ Fresh' /\ Over' /\ OpenConnectionIsWatched'
  BY <1>1 DEF ConnectionInv, ConnectionTypeOK, Fresh, Over, OpenConnectionIsWatched
<1>3. MessagesInOrder' /\ CountInv' /\ CutInv'
  BY <1>1, MessagesSame
<1>4. ReleaseInv'
  BY <1>1, ReleaseSame
<1>. QED BY <1>2, <1>3, <1>4 DEF ConnectionInv

-----------------------------------------------------------------------------
(* The invariant holds initially, every step keeps it, and it says what    *)
(* the runs check.                                                         *)
LEMMA InitHolds ==
  ASSUME ConnectionAssumption, ConnectionInit
  PROVE  ConnectionInv
<1>1. /\ DOMAIN queue = {} /\ DOMAIN written = {} /\ DOMAIN dispatched = {}
      /\ Len(queue) = 0 /\ Len(written) = 0
      /\ queue \in Seq(1 .. MaxMessages) /\ written \in Seq(1 .. MaxMessages)
      /\ dispatched \in Seq({"onConnect", "packet", "release"})
  BY DEF ConnectionInit
<1>2. 0 \in 0 .. MaxPackets /\ 0 \in 0 .. MaxMessages
  BY DEF ConnectionAssumption
<1>3. ConnectionTypeOK
  BY <1>1, <1>2 DEF ConnectionInit, ConnectionTypeOK
<1>4. Fresh /\ Over /\ OpenConnectionIsWatched /\ CutInv
  BY DEF ConnectionInit, Fresh, Over, OpenConnectionIsWatched, CutInv
<1>5. ReleaseInv /\ MessagesInOrder /\ CountInv
  BY <1>1 DEF ConnectionInit, ReleaseInv, ReleasedOnceAndLast, Range, MessagesInOrder, CountInv
<1>. QED BY <1>3, <1>4, <1>5 DEF ConnectionInv

LEMMA NextKeeps ==
  ASSUME ConnectionAssumption, ConnectionInv, [ConnectionNext]_connectionVars
  PROVE  ConnectionInv'
BY AcceptKeeps, HeaderKeeps, PacketKeeps, SendKeeps, DisconnectKeeps, WriteKeeps, TimeoutKeeps,
   CloseAllKeeps, DestroyKeeps, WorldKeeps, ResetKeeps, StutterKeeps DEF ConnectionNext, handlers

LEMMA InvariantSays ==
  ASSUME ConnectionInv
  PROVE  ConnectionIsSound
<1>1. DestroyedWasReleased
  BY DEF ConnectionInv, Over, ReleaseInv, DestroyedWasReleased
<1>2. GracefulCloseDelivers
  <2>1. ASSUME closed, ~socketOpen, ~cut  PROVE  Len(written) = sent
    <3>1. queue = <<>> /\ sent = Len(written) + Len(queue)
      BY <2>1 DEF ConnectionInv, CutInv, CountInv
    <3>2. Len(queue) = 0 /\ Len(written) \in Nat
      BY <3>1 DEF ConnectionInv, ConnectionTypeOK
    <3>. QED BY <3>1, <3>2
  <2>. QED BY <2>1 DEF GracefulCloseDelivers
<1>. QED BY <1>1, <1>2 DEF ConnectionInv, ReleaseInv, ConnectionIsSound, LifeIsOrdered, MessagesArrive

(* Whoever closes a connection, and whatever races with it: its protocol   *)
(* is released once, after every packet and before the object goes; an     *)
(* open connection is watched by a timer; messages go out in the order of  *)
(* send(), all of them before a graceful close() ends.  For every number   *)
(* of packets and messages.                                                *)
THEOREM ConnectionStaysSound == ASSUME ConnectionAssumption PROVE ConnectionSpec => []ConnectionIsSound
<1>1. ConnectionInit => ConnectionInv
  BY InitHolds
<1>2. ConnectionInv /\ [ConnectionNext]_connectionVars => ConnectionInv'
  BY NextKeeps
<1>3. ConnectionInv => ConnectionIsSound
  BY InvariantSays
<1>. QED BY <1>1, <1>2, <1>3, PTL DEF ConnectionSpec

-----------------------------------------------------------------------------
(* Scheduler.                                                              *)

(* The handlers that addEvent(), stopEvent() and shutdown() post, and the  *)
(* completions of timers.                                                  *)
Handlers == {Insert(t) : t \in Tasks} \cup {Cancel(id) : id \in Ids}
              \cup {ShutdownOp}
              \cup {Done(t, TRUE) : t \in Tasks} \cup {Done(t, FALSE) : t \in Tasks}

(* A handler that owns a task, the tasks a queue of handlers owns, and a   *)
(* queue that owns each of them once.                                      *)
Carries(h) == h.op \in {"insert", "done"}
Carried(s) == {s[i].task : i \in {i \in DOMAIN s : Carries(s[i])}}
Once(s) == \A i, j \in DOMAIN s :
              Carries(s[i]) /\ Carries(s[j]) /\ s[i].task = s[j].task => i = j

(* The tasks that wait in a map, and the one that waits on an id. *)
WaitingIn(m) == {m[id] : id \in DOMAIN m} \ {NoTask}
WaitingOn(id) == IF id \in DOMAIN eventIdTimerMap /\ eventIdTimerMap[id] # NoTask
                 THEN {eventIdTimerMap[id]} ELSE {}

QueueInv == ready \in Seq(Handlers) /\ Once(ready)

(* A task waits on its own id. *)
MapInv == /\ eventIdTimerMap = [i \in DOMAIN eventIdTimerMap |-> eventIdTimerMap[i]]
          /\ \A id \in DOMAIN eventIdTimerMap :
               eventIdTimerMap[id] # NoTask => eventId[eventIdTimerMap[id]] = id

(* Everything added is in one place. *)
OwnerInv ==
  LET queued == Carried(ready)
      waiting == WaitingIn(eventIdTimerMap)
  IN  /\ added = queued \cup waiting \cup handed \cup deleted \cup leaked
      /\ queued \cap (waiting \cup handed \cup deleted \cup leaked) = {}
      /\ waiting \cap (handed \cup deleted \cup leaked) = {}
      /\ handed \cap (deleted \cup leaked) = {}
      /\ deleted \cap leaked = {}

(* What became of a wait is decided when its handler runs. *)
FateInv == aborted \cap fired = {} /\ aborted \cup fired \subseteq handed \cup deleted

(* A task whose id addEvent() still has to read was added by that call, and *)
(* nobody has the id.                                                      *)
CallInv == /\ \A c \in Callers : adding[c] # NoTask => adding[c] \in added \ returned
           /\ \A c, d \in Callers : adding[c] = adding[d] /\ adding[c] # NoTask => c = d

(* The inductive invariant, whether ids are used again or not. *)
OwnersInv == SchedulerTypeOK /\ QueueInv /\ MapInv /\ OwnerInv /\ FateInv /\ CallInv

-----------------------------------------------------------------------------
LEMMA AppendHandler ==
  ASSUME NEW s \in Seq(Handlers), NEW h \in Handlers
  PROVE  LET r == Append(s, h)
         IN  /\ r \in Seq(Handlers)
             /\ Range(r) = Range(s) \cup {h}
             /\ Carries(h) => Carried(r) = Carried(s) \cup {h.task}
             /\ ~Carries(h) => Carried(r) = Carried(s)
             /\ Once(s) /\ (Carries(h) => h.task \notin Carried(s)) => Once(r)
<1>. DEFINE r == Append(s, h)
<1>1. /\ r \in Seq(Handlers) /\ Len(s) \in Nat
      /\ DOMAIN s = 1 .. Len(s) /\ DOMAIN r = 1 .. (Len(s) + 1)
      /\ \A i \in 1 .. Len(s) : r[i] = s[i]
      /\ r[Len(s) + 1] = h
  OBVIOUS
<1>. HIDE DEF r
<1>. DEFINE n == Len(s)
<1>2. /\ DOMAIN r = DOMAIN s \cup {n + 1} /\ n + 1 \notin DOMAIN s
      /\ \A i \in DOMAIN s : r[i] = s[i]
      /\ r[n + 1] = h
  BY <1>1
<1>. HIDE DEF n
<1>3. Range(r) = Range(s) \cup {h}
  BY <1>2 DEF Range
<1>4. Carries(h) => Carried(r) = Carried(s) \cup {h.task}
  BY <1>2 DEF Carried
<1>5. ~Carries(h) => Carried(r) = Carried(s)
  BY <1>2 DEF Carried
<1>6. ASSUME Once(s), Carries(h) => h.task \notin Carried(s)
      PROVE  Once(r)
  <2>. SUFFICES ASSUME NEW i \in DOMAIN r, NEW j \in DOMAIN r,
                       Carries(r[i]), Carries(r[j]), r[i].task = r[j].task
                PROVE  i = j
    BY DEF Once
  <2>1. CASE i \in DOMAIN s /\ j \in DOMAIN s
    BY <1>2, <1>6, <2>1 DEF Once
  <2>2. CASE i = n + 1 /\ j \in DOMAIN s
    BY <1>2, <1>6, <2>2 DEF Carried
  <2>3. CASE j = n + 1 /\ i \in DOMAIN s
    BY <1>2, <1>6, <2>3 DEF Carried
  <2>. QED BY <1>2, <2>1, <2>2, <2>3
<1>. QED BY <1>1, <1>3, <1>4, <1>5, <1>6 DEF r

LEMMA TailHandler ==
  ASSUME NEW s \in Seq(Handlers), s # <<>>
  PROVE  /\ Head(s) \in Handlers /\ Tail(s) \in Seq(Handlers)
         /\ Range(s) = Range(Tail(s)) \cup {Head(s)}
         /\ Carries(Head(s)) => Carried(s) = Carried(Tail(s)) \cup {Head(s).task}
         /\ ~Carries(Head(s)) => Carried(s) = Carried(Tail(s))
         /\ Once(s) => /\ Once(Tail(s))
                       /\ Carries(Head(s)) => Head(s).task \notin Carried(Tail(s))
<1>. DEFINE r == Tail(s)
            h == Head(s)
<1>1. /\ h \in Handlers /\ r \in Seq(Handlers)
      /\ Len(s) \in Nat \ {0} /\ DOMAIN s = 1 .. Len(s) /\ DOMAIN r = 1 .. (Len(s) - 1)
      /\ \A i \in 1 .. (Len(s) - 1) : r[i] = s[i + 1]
      /\ s[1] = h
  OBVIOUS
<1>. HIDE DEF r, h
<1>. DEFINE n == Len(s)
<1>2. /\ \A i \in DOMAIN r : i + 1 \in DOMAIN s /\ i + 1 # 1 /\ r[i] = s[i + 1]
      /\ \A i \in DOMAIN s : i # 1 => i - 1 \in DOMAIN r /\ (i - 1) + 1 = i
      /\ \A i, j \in DOMAIN r : i + 1 = j + 1 => i = j
      /\ 1 \in DOMAIN s
  BY <1>1
<1>a. \A i \in DOMAIN s : i # 1 => i - 1 \in DOMAIN r /\ r[i - 1] = s[i]
  BY <1>2
<1>. HIDE DEF n
<1>3. Range(s) = Range(r) \cup {h}
  BY <1>1, <1>2, <1>a DEF Range
<1>4. Carries(h) => Carried(s) = Carried(r) \cup {h.task}
  BY <1>1, <1>2, <1>a DEF Carried
<1>5. ~Carries(h) => Carried(s) = Carried(r)
  BY <1>1, <1>2, <1>a DEF Carried
<1>6. ASSUME Once(s)
      PROVE  Once(r) /\ (Carries(h) => h.task \notin Carried(r))
  <2>1. Once(r)
    BY <1>2, <1>6 DEF Once
  <2>2. ASSUME Carries(h), h.task \in Carried(r) PROVE FALSE
    <3>1. PICK i \in DOMAIN r : Carries(r[i]) /\ r[i].task = h.task
      BY <2>2 DEF Carried
    <3>. QED BY <1>1, <1>2, <1>6, <2>2, <3>1 DEF Once
  <2>. QED BY <2>1, <2>2
<1>. QED BY <1>1, <1>3, <1>4, <1>5, <1>6 DEF r, h

LEMMA QueuedIsCarried ==
  ASSUME ready \in Seq(Handlers)
  PROVE  Queued = Carried(ready)
BY DEF Queued, Carried, Carries, Range

(* What the handlers of an id do to the map. *)
LEMMA MapFacts ==
  ASSUME OwnersInv, NEW id
  PROVE  LET m == eventIdTimerMap
         IN  /\ WaitingOn(id) \subseteq WaitingIn(m)
             /\ WaitingIn([i \in DOMAIN m \ {id} |-> m[i]]) = WaitingIn(m) \ WaitingOn(id)
             /\ WaitingIn([i \in DOMAIN m |-> IF i = id THEN NoTask ELSE m[i]])
                  = WaitingIn(m) \ WaitingOn(id)
             /\ \A t : t # NoTask =>
                  WaitingIn([i \in DOMAIN m \cup {id} |-> IF i = id THEN t ELSE m[i]])
                    = (WaitingIn(m) \ WaitingOn(id)) \cup {t}
<1>. DEFINE m == eventIdTimerMap
<1>1. \A i, j \in DOMAIN m : m[i] # NoTask /\ m[i] = m[j] => i = j
  BY DEF OwnersInv, MapInv
<1>2. WaitingOn(id) \subseteq WaitingIn(m)
  BY DEF WaitingOn, WaitingIn
<1>3. \A i \in DOMAIN m : m[i] # NoTask => (m[i] \in WaitingOn(id) <=> i = id)
  BY <1>1 DEF WaitingOn
<1>. HIDE DEF m
<1>4. WaitingIn([i \in DOMAIN m \ {id} |-> m[i]]) = WaitingIn(m) \ WaitingOn(id)
  BY <1>3 DEF WaitingIn
<1>5. WaitingIn([i \in DOMAIN m |-> IF i = id THEN NoTask ELSE m[i]]) = WaitingIn(m) \ WaitingOn(id)
  BY <1>3 DEF WaitingIn
<1>6. ASSUME NEW t, t # NoTask
      PROVE  WaitingIn([i \in DOMAIN m \cup {id} |-> IF i = id THEN t ELSE m[i]])
               = (WaitingIn(m) \ WaitingOn(id)) \cup {t}
  BY <1>3, <1>6 DEF WaitingIn
<1>. QED BY <1>2, <1>4, <1>5, <1>6 DEF m

(* A wait that is aborted moves from the map to the queue. *)
LEMMA AbortFacts ==
  ASSUME SchedulerAssumption, OwnersInv, NEW id, NEW s \in Seq(Handlers), Once(s),
         Carried(s) \cap WaitingOn(id) = {}
  PROVE  LET r == s \o AbortOf(id)
         IN  /\ r \in Seq(Handlers) /\ Once(r)
             /\ Carried(r) = Carried(s) \cup WaitingOn(id)
             /\ Range(r) = Range(s) \cup {Done(t, TRUE) : t \in WaitingOn(id)}
<1>. DEFINE r == s \o AbortOf(id)
            m == eventIdTimerMap
<1>1. CASE id \in DOMAIN m /\ m[id] # NoTask
  <2>1. m[id] \in Tasks
    BY <1>1 DEF OwnersInv, SchedulerTypeOK
  <2>2. WaitingOn(id) = {m[id]} /\ AbortOf(id) = <<Done(m[id], TRUE)>>
    BY <1>1 DEF WaitingOn, AbortOf
  <2>. DEFINE d == Done(m[id], TRUE)
  <2>3. /\ d \in Handlers /\ Carries(d) /\ d.task = m[id]
    <3>1. Done(m[id], TRUE) \in {Done(t, TRUE) : t \in Tasks}
      BY <2>1
    <3>2. Done(m[id], TRUE) \in Handlers
      BY <3>1 DEF Handlers
    <3>. QED BY <3>2 DEF Carries, Done
  <2>. HIDE DEF d
  <2>4. s \o <<d>> = Append(s, d)
    BY <2>3
  <2>5. r = Append(s, d)
    BY <2>2, <2>4 DEF d
  <2>6. d.task \notin Carried(s)
    BY <2>2, <2>3
  <2>7. {Done(t, TRUE) : t \in WaitingOn(id)} = {d}
    BY <2>2 DEF d
  <2>8. /\ Append(s, d) \in Seq(Handlers) /\ Once(Append(s, d))
        /\ Carried(Append(s, d)) = Carried(s) \cup {d.task}
        /\ Range(Append(s, d)) = Range(s) \cup {d}
    BY <2>3, <2>6, AppendHandler
  <2>. QED BY <2>2, <2>3, <2>5, <2>7, <2>8
<1>2. CASE ~(id \in DOMAIN m /\ m[id] # NoTask)
  <2>1. WaitingOn(id) = {} /\ AbortOf(id) = <<>>
    BY <1>2 DEF WaitingOn, AbortOf
  <2>2. s \o <<>> = s
    OBVIOUS
  <2>. QED BY <2>1, <2>2
<1>. QED BY <1>1, <1>2

(* The handler at the head of the queue that carries a task leaves it.     *)
LEMMA HeadFacts ==
  ASSUME SchedulerAssumption, OwnersInv, ready # <<>>
  PROVE  LET h == Head(ready)
             s == Tail(ready)
         IN  /\ h \in Handlers /\ s \in Seq(Handlers) /\ Once(s)
             /\ Range(ready) = Range(s) \cup {h}
             /\ ~Carries(h) => Carried(s) = Carried(ready)
             /\ Carries(h) => /\ Carried(s) = Carried(ready) \ {h.task}
                              /\ h.task \in Carried(ready) /\ h.task \in added
                              /\ h.task \in Tasks /\ eventId[h.task] \in Ids
<1>1. ready \in Seq(Handlers) /\ Once(ready)
  BY DEF OwnersInv, QueueInv
<1>. DEFINE h == Head(ready)
            s == Tail(ready)
<1>2. /\ h \in Handlers /\ s \in Seq(Handlers) /\ Once(s)
      /\ Range(ready) = Range(s) \cup {h}
      /\ Carries(h) => Carried(ready) = Carried(s) \cup {h.task}
      /\ ~Carries(h) => Carried(ready) = Carried(s)
      /\ Carries(h) => h.task \notin Carried(s)
  BY <1>1, TailHandler
<1>. HIDE DEF h, s
<1>3. Carries(h) => h.task \in added
  BY <1>2 DEF OwnersInv, OwnerInv
<1>4. Carries(h) => h.task \in Tasks /\ eventId[h.task] \in Ids
  BY <1>3 DEF OwnersInv, SchedulerTypeOK
<1>. QED BY <1>2, <1>3, <1>4 DEF h, s

(* The part of the type invariant that is about the queue. *)
LEMMA QueueType ==
  ASSUME ready \in Seq(Handlers), Carried(ready) \subseteq added
  PROVE  \A h \in Range(ready) : h.op \in {"insert", "done"} => h.task \in added
BY DEF Range, Carried, Carries

LEMMA OwnersInit ==
  ASSUME SchedulerAssumption PROVE SchedulerInit => OwnersInv
<1>. SUFFICES ASSUME SchedulerInit PROVE OwnersInv
  OBVIOUS
<1>1. Carried(ready) = {} /\ Range(ready) = {} /\ WaitingIn(eventIdTimerMap) = {}
  BY DEF SchedulerInit, Carried, Range, WaitingIn
<1>2. SchedulerTypeOK
  <2>1. 0 \in Ids
    BY DEF SchedulerAssumption, Ids
  <2>2. /\ schedulerState \in {"RUNNING", "CLOSING", "TERMINATED"} /\ running \in BOOLEAN
        /\ lastEventId \in Ids /\ eventId \in [Tasks -> Ids] /\ added \subseteq Tasks
        /\ DOMAIN eventIdTimerMap = {}
        /\ adding \in [Callers -> Tasks \cup {NoTask}]
        /\ UNION {handed, deleted, leaked, returned, fired, aborted} \subseteq added
        /\ stopAsked \subseteq Ids \ {0}
    BY <2>1 DEF SchedulerInit
  <2>. QED BY <1>1, <2>2 DEF SchedulerTypeOK
<1>3. QueueInv /\ MapInv
  BY DEF SchedulerInit, QueueInv, Once, MapInv
<1>4. OwnerInv /\ FateInv
  BY <1>1 DEF SchedulerInit, OwnerInv, FateInv
<1>5. CallInv
  BY DEF SchedulerInit, CallInv
<1>. QED BY <1>2, <1>3, <1>4, <1>5 DEF OwnersInv

(* The calls of other threads: a task enters with its handler. *)
LEMMA OwnersCall ==
  ASSUME SchedulerAssumption, OwnersInv
  PROVE  /\ \A c \in Callers, t \in Tasks : AddEvent(c, t) \/ StopEvent(c, t) => OwnersInv'
         /\ \A c \in Callers : AddEventReturn(c) \/ ShutdownScheduler(c) => OwnersInv'
         /\ StopScheduler => OwnersInv'
<1>. USE DEF OwnersInv
<1>0. NextId \in Ids
  BY DEF NextId, Ids, SchedulerTypeOK, SchedulerAssumption
<1>1. ASSUME NEW c \in Callers, NEW t \in Tasks, AddEvent(c, t) PROVE OwnersInv'
  <2>1. /\ Insert(t) \in Handlers /\ Carries(Insert(t)) /\ Insert(t).task = t
    BY DEF Handlers, Carries, Insert
  <2>2. t \notin Carried(ready)
    BY <1>1 DEF AddEvent, OwnerInv
  <2>. DEFINE r == Append(ready, Insert(t))
  <2>3. r \in Seq(Handlers) /\ Once(r) /\ Carried(r) = Carried(ready) \cup {t}
    BY <2>1, <2>2, AppendHandler DEF QueueInv
  <2>4. ready' = r /\ added' = added \cup {t} /\ t \notin added
    BY <1>1 DEF AddEvent
  <2>. HIDE DEF r
  <2>5. /\ UNCHANGED <<eventIdTimerMap, handed, deleted, leaked, fired, aborted>>
        /\ WaitingIn(eventIdTimerMap)' = WaitingIn(eventIdTimerMap)
        /\ Carried(ready)' = Carried(ready) \cup {t}
    BY <1>1, <2>3, <2>4 DEF AddEvent, fate, WaitingIn, Carried
  <2>6. QueueInv' /\ OwnerInv' /\ FateInv'
    BY <2>3, <2>4, <2>5 DEF QueueInv, Once, OwnerInv, FateInv
  <2>7. MapInv'
    BY <1>1, <2>5 DEF AddEvent, MapInv, OwnerInv, WaitingIn, SchedulerTypeOK
  <2>8. SchedulerTypeOK'
    <3>1. (\A h \in Range(ready) : h.op \in {"insert", "done"} => h.task \in added)'
      BY <2>6, QueueType DEF QueueInv, OwnerInv, Range, Carried, Carries
    <3>. QED BY <1>0, <1>1, <2>4, <3>1 DEF AddEvent, SchedulerTypeOK, fate
  <2>9. CallInv'
    BY <1>1 DEF AddEvent, Idle, CallInv, SchedulerTypeOK
  <2>. QED BY <2>6, <2>7, <2>8, <2>9
<1>2. ASSUME NEW h \in Handlers, ~Carries(h), ready' = Append(ready, h),
             UNCHANGED <<eventId, added, eventIdTimerMap, fate>>
      PROVE  QueueInv' /\ MapInv' /\ OwnerInv' /\ FateInv'
  <2>. DEFINE r == Append(ready, h)
  <2>1. r \in Seq(Handlers) /\ Once(r) /\ Carried(r) = Carried(ready)
    BY <1>2, AppendHandler DEF QueueInv
  <2>2. ready' = r
    BY <1>2
  <2>. HIDE DEF r
  <2>3. Carried(ready)' = Carried(ready) /\ WaitingIn(eventIdTimerMap)' = WaitingIn(eventIdTimerMap)
    BY <1>2, <2>1, <2>2 DEF Carried, WaitingIn
  <2>. QED BY <1>2, <2>1, <2>2, <2>3 DEF fate, QueueInv, Once, MapInv, OwnerInv, FateInv
<1>3. ASSUME QueueInv', OwnerInv'
      PROVE  (\A h \in Range(ready) : h.op \in {"insert", "done"} => h.task \in added)'
  BY <1>3, QueueType DEF QueueInv, OwnerInv, Range, Carried, Carries
<1>4. ASSUME NEW c \in Callers, NEW t \in Tasks, StopEvent(c, t) PROVE OwnersInv'
  <2>1. eventId[t] \in Ids \ {0}
    BY <1>4 DEF StopEvent, SchedulerTypeOK
  <2>2. Cancel(eventId[t]) \in Handlers /\ ~Carries(Cancel(eventId[t]))
    BY <2>1 DEF Handlers, Carries, Cancel
  <2>3. QueueInv' /\ MapInv' /\ OwnerInv' /\ FateInv'
    BY <1>2, <1>4, <2>2 DEF StopEvent
  <2>4. SchedulerTypeOK'
    BY <1>3, <1>4, <2>1, <2>3 DEF StopEvent, SchedulerTypeOK, fate
  <2>5. CallInv'
    BY <1>4 DEF StopEvent, CallInv
  <2>. QED BY <2>3, <2>4, <2>5
<1>5. ASSUME NEW c \in Callers, ShutdownScheduler(c) PROVE OwnersInv'
  <2>1. ShutdownOp \in Handlers /\ ~Carries(ShutdownOp)
    BY DEF Handlers, Carries, ShutdownOp
  <2>2. QueueInv' /\ MapInv' /\ OwnerInv' /\ FateInv'
    BY <1>2, <1>5, <2>1 DEF ShutdownScheduler, callerVars
  <2>3. SchedulerTypeOK'
    BY <1>3, <1>5, <2>2 DEF ShutdownScheduler, callerVars, SchedulerTypeOK, fate
  <2>4. CallInv'
    BY <1>5 DEF ShutdownScheduler, callerVars, CallInv
  <2>. QED BY <2>2, <2>3, <2>4
<1>6. ASSUME NEW c \in Callers, AddEventReturn(c) PROVE OwnersInv'
  <2>1. adding[c] \in added
    BY <1>6 DEF AddEventReturn, Idle, CallInv
  <2>2. SchedulerTypeOK'
    BY <1>6, <2>1 DEF AddEventReturn, SchedulerTypeOK, fate
  <2>3. CallInv'
    BY <1>6 DEF AddEventReturn, Idle, CallInv, SchedulerTypeOK
  <2>4. QueueInv' /\ MapInv' /\ OwnerInv' /\ FateInv'
    BY <1>6 DEF AddEventReturn, fate, QueueInv, Once, Carried, WaitingIn, MapInv, OwnerInv, FateInv
  <2>. QED BY <2>2, <2>3, <2>4
<1>7. ASSUME StopScheduler PROVE OwnersInv'
  <2>1. /\ UNCHANGED <<callerVars, ready, eventIdTimerMap, running, fate>>
        /\ schedulerState' = "CLOSING"
    BY <1>7 DEF StopScheduler
  <2>2. SchedulerTypeOK'
    BY <2>1 DEF callerVars, fate, SchedulerTypeOK
  <2>3. QueueInv' /\ MapInv' /\ CallInv'
    BY <2>1 DEF callerVars, QueueInv, Once, MapInv, CallInv
  <2>4. OwnerInv' /\ FateInv'
    BY <2>1 DEF callerVars, fate, Carried, WaitingIn, OwnerInv, FateInv
  <2>. QED BY <2>2, <2>3, <2>4
<1>. QED BY <1>1, <1>4, <1>5, <1>6, <1>7

(* The handlers and the dispatcher: a task changes its place. *)
LEMMA OwnersThread ==
  ASSUME SchedulerAssumption, OwnersInv
  PROVE  /\ schedulerThread => OwnersInv'
         /\ \A t \in Tasks : Dispatch(t) => OwnersInv'
<1>. USE DEF OwnersInv
<1>. DEFINE m == eventIdTimerMap
            h == Head(ready)
            s == Tail(ready)
(* What does not touch the callers keeps what the types and CallInv say.   *)
<1>1. ASSUME UNCHANGED callerVars, UNCHANGED schedulerState, running' \in BOOLEAN,
             DOMAIN eventIdTimerMap' \subseteq Ids,
             WaitingIn(eventIdTimerMap)' \subseteq Tasks,
             UNION {handed, deleted, leaked, fired, aborted}' \subseteq added,
             QueueInv', OwnerInv'
      PROVE  SchedulerTypeOK' /\ CallInv'
  <2>1. (\A x \in Range(ready) : x.op \in {"insert", "done"} => x.task \in added)'
    BY <1>1, QueueType DEF QueueInv, OwnerInv, Range, Carried, Carries
  <2>2. \A i \in DOMAIN eventIdTimerMap' : eventIdTimerMap'[i] \in Tasks \cup {NoTask}
    BY <1>1 DEF WaitingIn
  <2>3. CallInv'
    BY <1>1 DEF callerVars, CallInv
  <2>. QED BY <1>1, <2>1, <2>2, <2>3 DEF callerVars, SchedulerTypeOK
<1>2. WaitingIn(m) \subseteq added /\ added \subseteq Tasks /\ NoTask \notin Tasks
  BY DEF OwnerInv, SchedulerTypeOK, SchedulerAssumption
<1>3. ASSUME NEW op \in {"insert", "done"}, Next1(op)
      PROVE  /\ ready # <<>> /\ h.op = op /\ Carries(h) /\ h \in Handlers
             /\ h.task \in Carried(ready) /\ h.task \in added /\ h.task \in Tasks
             /\ eventId[h.task] \in Ids /\ s \in Seq(Handlers) /\ Once(s)
             /\ Carried(s) = Carried(ready) \ {h.task}
             /\ h.task \notin WaitingIn(m)
  <2>1. ready # <<>> /\ h.op = op /\ Carries(h)
    BY <1>3 DEF Next1, Carries
  <2>. HIDE DEF h, s
  <2>2. /\ h \in Handlers /\ h.task \in Carried(ready) /\ h.task \in added /\ h.task \in Tasks
        /\ eventId[h.task] \in Ids /\ s \in Seq(Handlers) /\ Once(s)
        /\ Carried(s) = Carried(ready) \ {h.task}
    BY <2>1, HeadFacts DEF h, s
  <2>3. h.task \notin WaitingIn(m)
    BY <2>2 DEF OwnerInv
  <2>. QED BY <2>1, <2>2, <2>3
<1>4. ASSUME RunInsert PROVE OwnersInv'
  <2>. DEFINE t == h.task
              id == eventId[t]
              r == s \o AbortOf(id)
              n == [i \in DOMAIN m \cup {id} |-> IF i = id THEN t ELSE m[i]]
  <2>1. /\ t \in Carried(ready) /\ t \in added /\ t \in Tasks /\ id \in Ids
        /\ s \in Seq(Handlers) /\ Once(s) /\ Carried(s) = Carried(ready) \ {t}
    BY <1>3, <1>4 DEF RunInsert
  <2>2. ready' = r /\ eventIdTimerMap' = n /\ UNCHANGED <<schedulerState, callerVars, running, fate>>
    BY <1>4 DEF RunInsert
  <2>. HIDE DEF h, s, t, id, r
  <2>3. WaitingOn(id) \subseteq WaitingIn(m) /\ WaitingIn(n) = (WaitingIn(m) \ WaitingOn(id)) \cup {t}
    BY <1>2, <2>1, MapFacts
  <2>4. Carried(s) \cap WaitingOn(id) = {}
    BY <2>1, <2>3 DEF OwnerInv
  <2>5. r \in Seq(Handlers) /\ Once(r) /\ Carried(r) = Carried(s) \cup WaitingOn(id)
    BY <2>1, <2>4, AbortFacts DEF r
  <2>6. QueueInv'
    BY <2>2, <2>5 DEF QueueInv, Once
  <2>7. MapInv'
    <3>1. /\ DOMAIN n = DOMAIN m \cup {id} /\ n = [i \in DOMAIN n |-> n[i]]
          /\ \A i \in DOMAIN n : n[i] = IF i = id THEN t ELSE m[i]
      OBVIOUS
    <3>. HIDE DEF n
    <3>2. \A i \in DOMAIN n : n[i] # NoTask => eventId[n[i]] = i
      BY <3>1 DEF MapInv, id
    <3>. QED BY <2>2, <3>1, <3>2 DEF MapInv, callerVars
  <2>. HIDE DEF n
  <2>8. /\ Carried(ready)' = (Carried(ready) \ {t}) \cup WaitingOn(id)
        /\ WaitingIn(eventIdTimerMap)' = (WaitingIn(m) \ WaitingOn(id)) \cup {t}
        /\ UNCHANGED <<added, handed, deleted, leaked, fired, aborted>>
    <3>1. Carried(ready)' = Carried(r) /\ WaitingIn(eventIdTimerMap)' = WaitingIn(n)
      BY <2>2 DEF Carried, WaitingIn
    <3>2. UNCHANGED <<added, handed, deleted, leaked, fired, aborted>>
      BY <2>2 DEF callerVars, fate
    <3>. QED BY <2>1, <2>3, <2>5, <3>1, <3>2
  <2>9. OwnerInv'
    BY <2>1, <2>3, <2>8 DEF OwnerInv
  <2>10. FateInv'
    BY <2>8 DEF FateInv
  <2>11. SchedulerTypeOK' /\ CallInv'
    <3>1. DOMAIN eventIdTimerMap' \subseteq Ids
      BY <2>1, <2>2 DEF n, SchedulerTypeOK
    <3>2. /\ WaitingIn(eventIdTimerMap)' \subseteq Tasks
          /\ UNION {handed, deleted, leaked, fired, aborted}' \subseteq added
          /\ running' \in BOOLEAN
      BY <1>2, <2>1, <2>2, <2>8 DEF SchedulerTypeOK
    <3>. QED BY <1>1, <2>2, <2>6, <2>9, <3>1, <3>2
  <2>. QED BY <2>6, <2>7, <2>9, <2>10, <2>11
<1>5. ASSUME NEW id \in DOMAIN eventIdTimerMap, Expire(id) PROVE OwnersInv'
  <2>. DEFINE t == m[id]
              d == Done(t, FALSE)
              r == Append(ready, d)
              n == [i \in DOMAIN m |-> IF i = id THEN NoTask ELSE m[i]]
  <2>1. t \in Tasks /\ t # NoTask /\ WaitingOn(id) = {t} /\ id \in Ids
    BY <1>5 DEF Expire, SchedulerTypeOK, WaitingOn
  <2>2. /\ ready' = r /\ eventIdTimerMap' = [m EXCEPT ![id] = NoTask]
        /\ UNCHANGED <<schedulerState, callerVars, running, fate>>
    BY <1>5 DEF Expire
  <2>a. [m EXCEPT ![id] = NoTask] = n
    BY DEF MapInv
  <2>3. d \in Handlers /\ Carries(d) /\ d.task = t
    <3>1. d \in {Done(u, FALSE) : u \in Tasks}
      BY <2>1
    <3>2. d \in Handlers
      BY <3>1 DEF Handlers
    <3>. QED BY <3>2 DEF Carries, Done
  <2>. HIDE DEF d, t
  <2>4. t \in WaitingIn(m) /\ WaitingIn(n) = WaitingIn(m) \ {t}
    BY <2>1, MapFacts
  <2>5. r \in Seq(Handlers) /\ Once(r) /\ Carried(r) = Carried(ready) \cup {t}
    BY <2>3, <2>4, AppendHandler DEF QueueInv, OwnerInv
  <2>. HIDE DEF r
  <2>6. QueueInv'
    BY <2>2, <2>5 DEF QueueInv, Once
  <2>7. MapInv'
    <3>1. /\ DOMAIN n = DOMAIN m /\ n = [i \in DOMAIN n |-> n[i]]
          /\ \A i \in DOMAIN n : n[i] # NoTask => n[i] = m[i]
      OBVIOUS
    <3>. HIDE DEF n
    <3>2. \A i \in DOMAIN n : n[i] # NoTask => eventId[n[i]] = i
      BY <3>1 DEF MapInv
    <3>3. eventIdTimerMap' = n /\ UNCHANGED eventId
      BY <2>2, <2>a DEF callerVars
    <3>. QED BY <3>1, <3>2, <3>3 DEF MapInv
  <2>8. DOMAIN eventIdTimerMap' \subseteq Ids
    BY <2>2, <2>a DEF SchedulerTypeOK
  <2>. HIDE DEF n
  <2>9. /\ Carried(ready)' = Carried(ready) \cup {t}
        /\ WaitingIn(eventIdTimerMap)' = WaitingIn(m) \ {t}
        /\ UNCHANGED <<added, handed, deleted, leaked, fired, aborted>>
    <3>1. Carried(ready)' = Carried(r) /\ WaitingIn(eventIdTimerMap)' = WaitingIn(n)
      BY <2>2, <2>a DEF Carried, WaitingIn
    <3>2. UNCHANGED <<added, handed, deleted, leaked, fired, aborted>>
      BY <2>2 DEF callerVars, fate
    <3>. QED BY <2>4, <2>5, <3>1, <3>2
  <2>10. OwnerInv' /\ FateInv'
    BY <2>4, <2>9 DEF OwnerInv, FateInv
  <2>11. SchedulerTypeOK' /\ CallInv'
    <3>1. /\ WaitingIn(eventIdTimerMap)' \subseteq Tasks
          /\ UNION {handed, deleted, leaked, fired, aborted}' \subseteq added
          /\ running' \in BOOLEAN
      BY <1>2, <2>2, <2>9, ZenonT(60) DEF SchedulerTypeOK
    <3>. QED BY <1>1, <2>2, <2>6, <2>8, <2>10, <3>1
  <2>. QED BY <2>6, <2>7, <2>10, <2>11
<1>6. ASSUME RunCancel PROVE OwnersInv'
  <2>. DEFINE id == h.id
              r == s \o AbortOf(id)
              n == [i \in DOMAIN m |-> IF i = id THEN NoTask ELSE m[i]]
  <2>1. s \in Seq(Handlers) /\ Once(s) /\ Carried(s) = Carried(ready)
    <3>1. ready # <<>> /\ ~Carries(Head(ready))
      BY <1>6 DEF RunCancel, Next1, Carries
    <3>. QED BY <3>1, HeadFacts
  <2>2. ready' = r /\ eventIdTimerMap' = n /\ UNCHANGED <<schedulerState, callerVars, running, fate>>
    BY <1>6 DEF RunCancel
  <2>. HIDE DEF h, s, id, r
  <2>3. WaitingOn(id) \subseteq WaitingIn(m) /\ WaitingIn(n) = WaitingIn(m) \ WaitingOn(id)
    BY MapFacts
  <2>4. Carried(s) \cap WaitingOn(id) = {}
    BY <2>1, <2>3 DEF OwnerInv
  <2>5. r \in Seq(Handlers) /\ Once(r) /\ Carried(r) = Carried(ready) \cup WaitingOn(id)
    BY <2>1, <2>4, AbortFacts DEF r
  <2>6. QueueInv'
    BY <2>2, <2>5 DEF QueueInv, Once
  <2>7. MapInv'
    <3>1. /\ DOMAIN n = DOMAIN m /\ n = [i \in DOMAIN n |-> n[i]]
          /\ \A i \in DOMAIN n : n[i] # NoTask => n[i] = m[i]
      OBVIOUS
    <3>. HIDE DEF n
    <3>2. \A i \in DOMAIN n : n[i] # NoTask => eventId[n[i]] = i
      BY <3>1 DEF MapInv
    <3>. QED BY <2>2, <3>1, <3>2 DEF MapInv, callerVars
  <2>8. DOMAIN eventIdTimerMap' \subseteq Ids
    BY <2>2 DEF SchedulerTypeOK
  <2>. HIDE DEF n
  <2>9. /\ Carried(ready)' = Carried(ready) \cup WaitingOn(id)
        /\ WaitingIn(eventIdTimerMap)' = WaitingIn(m) \ WaitingOn(id)
        /\ UNCHANGED <<added, handed, deleted, leaked, fired, aborted>>
    <3>1. Carried(ready)' = Carried(r) /\ WaitingIn(eventIdTimerMap)' = WaitingIn(n)
      BY <2>2 DEF Carried, WaitingIn
    <3>2. UNCHANGED <<added, handed, deleted, leaked, fired, aborted>>
      BY <2>2 DEF callerVars, fate
    <3>. QED BY <2>3, <2>5, <3>1, <3>2
  <2>10. OwnerInv' /\ FateInv'
    BY <2>3, <2>9 DEF OwnerInv, FateInv
  <2>11. SchedulerTypeOK' /\ CallInv'
    <3>1. /\ WaitingIn(eventIdTimerMap)' \subseteq Tasks
          /\ UNION {handed, deleted, leaked, fired, aborted}' \subseteq added
          /\ running' \in BOOLEAN
      BY <1>2, <2>2, <2>9 DEF SchedulerTypeOK
    <3>. QED BY <1>1, <2>2, <2>6, <2>8, <2>10, <3>1
  <2>. QED BY <2>6, <2>7, <2>10, <2>11
<1>7. ASSUME RunDone PROVE OwnersInv'
  <2>. DEFINE t == h.task
              id == eventId[t]
              r == s \o AbortOf(id)
              n == [i \in DOMAIN m \ {id} |-> m[i]]
  <2>1. /\ t \in Carried(ready) /\ t \in added /\ t \in Tasks /\ id \in Ids
        /\ s \in Seq(Handlers) /\ Once(s) /\ Carried(s) = Carried(ready) \ {t}
        /\ h \in Handlers /\ h.op = "done"
    BY <1>3, <1>7 DEF RunDone
  <2>2. /\ ready' = r /\ eventIdTimerMap' = n
        /\ UNCHANGED <<schedulerState, callerVars, running, leaked>>
    BY <1>7 DEF RunDone
  (* The task is deleted or handed over, and counted as aborted or fired.  *)
  <2>3. /\ aborted' \cup fired' \subseteq aborted \cup fired \cup {t}
        /\ t \in aborted' => t \notin fired' \/ t \in aborted \cup fired
        /\ \/ handed' = handed \cup {t} /\ deleted' = deleted
           \/ deleted' = deleted \cup {t} /\ handed' = handed
    <3>. DEFINE e == h.aborted
    <3>1. /\ aborted' = IF e THEN aborted \cup {t} ELSE aborted
          /\ fired' = IF HandsOver(e) THEN fired \cup {t} ELSE fired
          /\ deleted' = IF Discards(e) \/ schedulerState # "RUNNING"
                        THEN deleted \cup {t} ELSE deleted
          /\ handed' = IF HandsOver(e) /\ schedulerState = "RUNNING"
                       THEN handed \cup {t} ELSE handed
      BY <1>7 DEF RunDone
    <3>. HIDE DEF e, t
    <3>2. HandsOver(e) <=> ~e /\ schedulerState # "TERMINATED"
      BY DEF HandsOver, Discards
    <3>3. Discards(e) <=> ~HandsOver(e)
      BY DEF HandsOver
    <3>4. /\ aborted' \cup fired' \subseteq aborted \cup fired \cup {t}
          /\ t \in aborted' => t \notin fired' \/ t \in aborted \cup fired
      BY <3>1, <3>2
    <3>5. \/ handed' = handed \cup {t} /\ deleted' = deleted
          \/ deleted' = deleted \cup {t} /\ handed' = handed
      BY <3>1, <3>3
    <3>. QED BY <3>4, <3>5
  <2>. HIDE DEF h, s, t, id, r
  <2>4. WaitingOn(id) \subseteq WaitingIn(m) /\ WaitingIn(n) = WaitingIn(m) \ WaitingOn(id)
    BY MapFacts
  <2>5. Carried(s) \cap WaitingOn(id) = {}
    BY <2>1, <2>4 DEF OwnerInv
  <2>6. r \in Seq(Handlers) /\ Once(r) /\ Carried(r) = Carried(s) \cup WaitingOn(id)
    BY <2>1, <2>5, AbortFacts DEF r
  <2>7. QueueInv'
    BY <2>2, <2>6 DEF QueueInv, Once
  <2>8. MapInv' /\ DOMAIN eventIdTimerMap' \subseteq Ids
    <3>1. /\ DOMAIN n = DOMAIN m \ {id} /\ n = [i \in DOMAIN n |-> n[i]]
          /\ \A i \in DOMAIN n : n[i] = m[i]
      OBVIOUS
    <3>. HIDE DEF n
    <3>2. \A i \in DOMAIN n : n[i] # NoTask => eventId[n[i]] = i
      BY <3>1 DEF MapInv
    <3>3. eventIdTimerMap' = n /\ UNCHANGED eventId
      BY <2>2 DEF callerVars
    <3>. QED BY <3>1, <3>2, <3>3 DEF MapInv, SchedulerTypeOK
  <2>. HIDE DEF n
  <2>9. /\ Carried(ready)' = (Carried(ready) \ {t}) \cup WaitingOn(id)
        /\ WaitingIn(eventIdTimerMap)' = WaitingIn(m) \ WaitingOn(id)
        /\ UNCHANGED <<added, leaked>>
    <3>1. Carried(ready)' = Carried(r) /\ WaitingIn(eventIdTimerMap)' = WaitingIn(n)
      BY <2>2 DEF Carried, WaitingIn
    <3>2. UNCHANGED <<added, leaked>>
      BY <2>2 DEF callerVars
    <3>. QED BY <2>1, <2>4, <2>6, <3>1, <3>2
  <2>10. t \notin WaitingIn(m) \cup handed \cup deleted \cup leaked \cup aborted \cup fired
    BY <2>1 DEF OwnerInv, FateInv
  <2>11. OwnerInv'
    BY <2>1, <2>3, <2>4, <2>9, <2>10 DEF OwnerInv
  <2>12. FateInv'
    <3>1. \A u \in aborted' \cup fired' : u \in aborted \cup fired \/ u = t
      BY <2>3
    <3>2. aborted' \cap fired' = {}
      <4>1. \A u \in aborted' \cap fired' : u # t
        BY <2>3, <2>10
      <4>2. /\ aborted' \subseteq aborted \cup {t}
            /\ fired' \subseteq fired \cup {t}
        BY <1>7 DEF RunDone, t, h
      <4>. QED BY <4>1, <4>2 DEF FateInv
    <3>3. t \in handed' \cup deleted' /\ handed \cup deleted \subseteq handed' \cup deleted'
      BY <2>3
    <3>. QED BY <3>1, <3>2, <3>3 DEF FateInv
  <2>13. SchedulerTypeOK' /\ CallInv'
    <3>1. /\ WaitingIn(eventIdTimerMap)' \subseteq Tasks
          /\ running' \in BOOLEAN
      BY <1>2, <2>2, <2>9 DEF SchedulerTypeOK
    <3>2. UNION {handed, deleted, leaked, fired, aborted}' \subseteq added
      <4>1. handed' \cup deleted' \cup leaked' \subseteq added
        BY <2>1, <2>3, <2>9 DEF SchedulerTypeOK
      <4>2. fired' \cup aborted' \subseteq added
        BY <2>1, <2>3 DEF SchedulerTypeOK
      <4>. QED BY <4>1, <4>2
    <3>. QED BY <1>1, <2>2, <2>7, <2>8, <2>11, <3>1, <3>2
  <2>. QED BY <2>7, <2>8, <2>11, <2>12, <2>13
<1>8. ASSUME RunShutdown PROVE OwnersInv'
  <2>1. /\ UNCHANGED <<schedulerState, callerVars, handed, deleted, fired, aborted>>
        /\ leaked' = leaked \cup Waiting \cup Queued
        /\ ready' = <<>> /\ eventIdTimerMap' = [id \in {} |-> NoTask]
        /\ running' \in BOOLEAN
    BY <1>8 DEF RunShutdown, RunningAfterShutdown
  <2>2. Queued = Carried(ready) /\ Waiting = WaitingIn(m)
    BY QueuedIsCarried DEF QueueInv, Waiting, WaitingIn
  <2>3. Carried(ready)' = {} /\ WaitingIn(eventIdTimerMap)' = {} /\ DOMAIN eventIdTimerMap' = {}
    BY <2>1 DEF Carried, WaitingIn
  <2>4. UNCHANGED added
    BY <2>1 DEF callerVars
  <2>5. QueueInv' /\ MapInv'
    BY <2>1 DEF QueueInv, Once, MapInv
  <2>. HIDE DEF m
  <2>6. OwnerInv' /\ FateInv'
    BY <2>1, <2>2, <2>3, <2>4 DEF OwnerInv, FateInv, m
  <2>7. UNION {handed, deleted, leaked, fired, aborted}' \subseteq added
    <3>1. leaked' \subseteq added
      BY <2>4, <2>6 DEF OwnerInv
    <3>. QED BY <2>1, <3>1 DEF SchedulerTypeOK
  <2>. QED BY <1>1, <2>1, <2>3, <2>5, <2>6, <2>7
<1>9. ASSUME NEW t \in Tasks, Dispatch(t) PROVE OwnersInv'
  <2>1. /\ UNCHANGED <<schedulerState, callerVars, ready, eventIdTimerMap, running, leaked,
                       fired, aborted>>
        /\ t \in handed /\ handed' = handed \ {t} /\ deleted' = deleted \cup {t}
    BY <1>9 DEF Dispatch
  <2>2. UNCHANGED <<added, Carried(ready), WaitingIn(m)>>
    BY <2>1 DEF callerVars, Carried, WaitingIn
  <2>3. QueueInv' /\ MapInv'
    BY <2>1 DEF QueueInv, Once, MapInv, callerVars
  <2>4. OwnerInv'
    BY <2>1, <2>2 DEF OwnerInv
  <2>5. FateInv'
    BY <2>1 DEF FateInv
  <2>6. /\ UNION {handed, deleted, leaked, fired, aborted}' \subseteq added
        /\ running' \in BOOLEAN /\ DOMAIN eventIdTimerMap' \subseteq Ids
    BY <2>1 DEF SchedulerTypeOK
  <2>7. WaitingIn(eventIdTimerMap)' \subseteq Tasks
    BY <1>2, <2>2
  <2>. QED BY <1>1, <2>1, <2>3, <2>4, <2>5, <2>6, <2>7
<1>. QED BY <1>4, <1>5, <1>6, <1>7, <1>8, <1>9 DEF schedulerThread

LEMMA OwnersStep ==
  ASSUME SchedulerAssumption, OwnersInv, [SchedulerNext]_schedulerVars PROVE OwnersInv'
<1>1. CASE UNCHANGED schedulerVars
  <2>1. SchedulerTypeOK'
    BY <1>1 DEF schedulerVars, callerVars, fate, OwnersInv, SchedulerTypeOK
  <2>2. QueueInv' /\ MapInv' /\ CallInv'
    BY <1>1 DEF schedulerVars, callerVars, OwnersInv, QueueInv, Once, MapInv, CallInv
  <2>3. OwnerInv' /\ FateInv'
    BY <1>1 DEF schedulerVars, callerVars, fate, OwnersInv, OwnerInv, FateInv, Carried, WaitingIn
  <2>. QED BY <2>1, <2>2, <2>3 DEF OwnersInv
<1>2. CASE SchedulerNext
  <2>1. ASSUME NEW c \in Callers, NEW t \in Tasks, AddEvent(c, t) \/ StopEvent(c, t)
        PROVE  OwnersInv'
    BY <2>1, OwnersCall
  <2>2. ASSUME NEW c \in Callers, AddEventReturn(c) \/ ShutdownScheduler(c) PROVE OwnersInv'
    BY <2>2, OwnersCall
  <2>3. CASE StopScheduler
    BY <2>3, OwnersCall
  <2>4. CASE schedulerThread
    BY <2>4, OwnersThread
  <2>5. ASSUME NEW t \in Tasks, Dispatch(t) PROVE OwnersInv'
    BY <2>5, OwnersThread
  <2>. QED BY <1>2, <2>1, <2>2, <2>3, <2>4, <2>5 DEF SchedulerNext
<1>. QED BY <1>1, <1>2

(* The places of OwnerInv, counted. *)
LEMMA OwnersAreCounted ==
  ASSUME SchedulerAssumption, OwnersInv PROVE OneOwner
<1>. USE DEF OwnersInv
<1>. SUFFICES ASSUME NEW t \in added
              PROVE  Insertions(t) + Waits(t) + Completions(t)
                       + One(t \in handed) + One(t \in deleted) + One(t \in leaked) = 1
  BY DEF OneOwner
<1>. DEFINE I == {i \in DOMAIN ready : ready[i].op = "insert" /\ ready[i].task = t}
            D == {i \in DOMAIN ready : ready[i].op = "done" /\ ready[i].task = t}
            W == {i \in DOMAIN eventIdTimerMap : eventIdTimerMap[i] = t}
<1>1. t # NoTask
  BY DEF SchedulerTypeOK, SchedulerAssumption
<1>2. Cardinality({}) = 0 /\ \A x : Cardinality({x}) = 1
  BY FS_EmptySet, FS_Singleton
<1>3. CASE t \in Carried(ready)
  <2>1. PICK k \in DOMAIN ready : Carries(ready[k]) /\ ready[k].task = t
    BY <1>3 DEF Carried
  <2>2. \A i \in DOMAIN ready : Carries(ready[i]) /\ ready[i].task = t => i = k
    BY <2>1 DEF QueueInv, Once
  <2>3. \/ I = {k} /\ D = {}
        \/ I = {} /\ D = {k}
    BY <2>1, <2>2 DEF Carries
  <2>4. W = {} /\ t \notin handed /\ t \notin deleted /\ t \notin leaked
    BY <1>1, <1>3 DEF OwnerInv, WaitingIn
  <2>5. Insertions(t) + Completions(t) = 1 /\ Waits(t) = 0
    <3>. HIDE DEF I, D, W
    <3>1. Insertions(t) = Cardinality(I) /\ Completions(t) = Cardinality(D) /\ Waits(t) = Cardinality(W)
      BY DEF Insertions, Completions, Waits, I, D, W
    <3>. QED BY <1>2, <2>3, <2>4, <3>1
  <2>6. Insertions(t) \in {0, 1} /\ Completions(t) \in {0, 1}
    <3>. HIDE DEF I, D, W
    <3>1. Insertions(t) = Cardinality(I) /\ Completions(t) = Cardinality(D)
      BY DEF Insertions, Completions, I, D
    <3>. QED BY <1>2, <2>3, <3>1
  <2>. QED BY <2>4, <2>5, <2>6 DEF One
<1>4. CASE t \notin Carried(ready)
  <2>1. I = {} /\ D = {}
    BY <1>4 DEF Carried, Carries
  <2>2. Insertions(t) = 0 /\ Completions(t) = 0
    BY <1>2, <2>1 DEF Insertions, Completions
  <2>3. Waits(t) = One(t \in WaitingIn(eventIdTimerMap))
    <3>1. CASE t \in WaitingIn(eventIdTimerMap)
      <4>1. PICK k \in DOMAIN eventIdTimerMap : eventIdTimerMap[k] = t
        BY <3>1 DEF WaitingIn
      <4>2. W = {k}
        BY <1>1, <4>1 DEF MapInv
      <4>. QED BY <1>2, <3>1, <4>2 DEF Waits, One
    <3>2. CASE t \notin WaitingIn(eventIdTimerMap)
      <4>1. W = {}
        BY <1>1, <3>2 DEF WaitingIn
      <4>. QED BY <1>2, <3>2, <4>1 DEF Waits, One
    <3>. QED BY <3>1, <3>2
  <2>4. One(t \in WaitingIn(eventIdTimerMap)) + One(t \in handed) + One(t \in deleted)
          + One(t \in leaked) = 1
    BY <1>4 DEF OwnerInv, One
  <2>. QED BY <2>2, <2>3, <2>4 DEF One
<1>. QED BY <1>3, <1>4

(* Whatever the callers, the timers and the dispatcher do, and even when   *)
(* the 32-bit counter has come round and ids are used again, every task    *)
(* that addEvent() was given has one owner, so that it is executed or      *)
(* deleted once at most.                                                   *)
THEOREM TasksHaveOneOwner ==
  ASSUME SchedulerAssumption
  PROVE  SchedulerSpec => [](SchedulerTypeOK /\ OneOwner /\ StoppedInTimeNeverRuns)
<1>1. SchedulerInit => OwnersInv
  BY OwnersInit
<1>2. OwnersInv /\ [SchedulerNext]_schedulerVars => OwnersInv'
  BY OwnersStep
<1>3. OwnersInv => SchedulerTypeOK /\ OneOwner /\ StoppedInTimeNeverRuns
  BY OwnersAreCounted DEF OwnersInv, FateInv, StoppedInTimeNeverRuns
<1>. QED BY <1>1, <1>2, <1>3, PTL DEF SchedulerSpec

-----------------------------------------------------------------------------
(* While ids suffice, they are 1, 2, ... and at the very end 0.            *)
IdInv == /\ lastEventId = IF Cardinality(added) = IdSpace THEN 0 ELSE Cardinality(added)
         /\ \A t \in added : /\ eventId[t] <= Cardinality(added)
                             /\ eventId[t] = 0 => Cardinality(added) = IdSpace
         /\ \A t, u \in added : eventId[t] = eventId[u] => t = u

(* Only ids that addEvent() has returned are stopped, and what is          *)
(* cancelled, aborted or going to be was stopped.                          *)
StopInv == /\ \A id \in stopAsked : \E t \in returned : eventId[t] = id
           /\ \A h \in Range(ready) : h.op = "cancel" => h.id \in stopAsked
           /\ \A h \in Range(ready) :
                h.op = "done" /\ h.aborted => h.task \in added /\ eventId[h.task] \in stopAsked
           /\ \A t \in aborted : eventId[t] \in stopAsked

(* The inductive invariant while ids suffice. *)
ExactInv == OwnersInv /\ IdInv /\ StopInv /\ AddEventReadsLiveTask

LEMMA FreshId ==
  ASSUME SchedulerAssumption, IdsSuffice, OwnersInv, IdInv, NEW t \in Tasks \ added
  PROVE  /\ Cardinality(added) \in Nat /\ Cardinality(added \cup {t}) = Cardinality(added) + 1
         /\ Cardinality(added) + 1 <= IdSpace
         /\ NextId = IF Cardinality(added) + 1 = IdSpace THEN 0 ELSE Cardinality(added) + 1
<1>1. added \cup {t} \subseteq Tasks /\ IdSpace \in Nat \ {0}
  BY DEF OwnersInv, SchedulerTypeOK, SchedulerAssumption
<1>2. IsFiniteSet(added) /\ IsFiniteSet(added \cup {t}) /\ Cardinality(added \cup {t}) <= Cardinality(Tasks)
  BY <1>1, FS_Subset DEF IdsSuffice
<1>3. Cardinality(added) \in Nat /\ Cardinality(added \cup {t}) = Cardinality(added) + 1
  BY <1>2, FS_CardinalityType, FS_AddElement
<1>4. Cardinality(Tasks) \in Nat /\ Cardinality(Tasks) <= IdSpace
  BY FS_CardinalityType DEF IdsSuffice
<1>5. Cardinality(added) + 1 <= IdSpace
  BY <1>1, <1>2, <1>3, <1>4
<1>6. lastEventId = Cardinality(added)
  BY <1>3, <1>5 DEF IdInv, SchedulerAssumption
<1>7. NextId = IF Cardinality(added) + 1 = IdSpace THEN 0 ELSE Cardinality(added) + 1
  <2>. DEFINE n == Cardinality(added)
  <2>1. n \in Nat /\ n + 1 <= IdSpace
    BY <1>3, <1>5
  <2>2. NextId = (n + 1) % IdSpace
    BY <1>6 DEF NextId
  <2>. HIDE DEF n
  <2>3. ASSUME n + 1 # IdSpace PROVE (n + 1) % IdSpace = n + 1
    BY <1>1, <2>1, <2>3
  <2>4. ASSUME n + 1 = IdSpace PROVE (n + 1) % IdSpace = 0
    BY <1>1, <2>1, <2>4
  <2>. QED BY <2>2, <2>3, <2>4 DEF n
<1>. QED BY <1>3, <1>5, <1>7

(* Every step keeps ids apart: only addEvent() gives one. *)
LEMMA IdsStep ==
  ASSUME SchedulerAssumption, IdsSuffice, OwnersInv, IdInv, [SchedulerNext]_schedulerVars
  PROVE  IdInv'
<1>1. ASSUME UNCHANGED <<lastEventId, eventId, added>> PROVE IdInv'
  BY <1>1 DEF IdInv
<1>2. ASSUME NEW c \in Callers, NEW t \in Tasks, AddEvent(c, t) PROVE IdInv'
  <2>. DEFINE n == Cardinality(added)
  <2>1. /\ t \notin added /\ lastEventId' = NextId /\ added' = added \cup {t}
        /\ eventId' = [eventId EXCEPT ![t] = NextId]
    BY <1>2 DEF AddEvent
  <2>2. /\ n \in Nat /\ Cardinality(added') = n + 1 /\ n + 1 <= IdSpace
        /\ NextId = IF n + 1 = IdSpace THEN 0 ELSE n + 1
    BY <2>1, FreshId
  <2>3. /\ eventId'[t] = NextId /\ \A u \in added : eventId'[u] = eventId[u] /\ eventId[u] \in Nat
    BY <2>1 DEF OwnersInv, SchedulerTypeOK, Ids
  <2>4. \A u \in added : eventId[u] <= n /\ eventId[u] # 0 /\ IdSpace \in Nat
    BY <2>2 DEF IdInv, SchedulerAssumption
  <2>. HIDE DEF n
  <2>5. \A u \in added : eventId'[u] # NextId
    BY <2>2, <2>3, <2>4
  <2>6. \A u \in added' : u = t \/ u \in added
    BY <2>1
  <2>7. (\A u \in added : eventId[u] <= Cardinality(added) /\ (eventId[u] = 0 => Cardinality(added) = IdSpace))'
    BY <2>2, <2>3, <2>4, <2>6
  <2>8. (\A u, v \in added : eventId[u] = eventId[v] => u = v)'
    BY <2>3, <2>5, <2>6 DEF IdInv
  <2>9. lastEventId' = IF Cardinality(added') = IdSpace THEN 0 ELSE Cardinality(added')
    BY <2>1, <2>2
  <2>. QED BY <2>7, <2>8, <2>9 DEF IdInv
<1>3. \/ UNCHANGED <<lastEventId, eventId, added>>
      \/ \E c \in Callers, t \in Tasks : AddEvent(c, t)
  BY DEF SchedulerNext, schedulerVars, callerVars, StopEvent, AddEventReturn, ShutdownScheduler,
         StopScheduler, schedulerThread, RunInsert, RunCancel, RunDone, RunShutdown, Expire, Dispatch
<1>. QED BY <1>1, <1>2, <1>3

(* A handler of a task finds no other task waiting on the same id. *)
LEMMA NobodyWaits ==
  ASSUME SchedulerAssumption, OwnersInv, IdInv, ready # <<>>, Carries(Head(ready))
  PROVE  Tail(ready) \o AbortOf(eventId[Head(ready).task]) = Tail(ready)
<1>. DEFINE t == Head(ready).task
            id == eventId[t]
<1>1. t \in Carried(ready) /\ t \in added
  BY HeadFacts
<1>. HIDE DEF t
<1>2. ASSUME NEW u \in WaitingOn(id) PROVE FALSE
  <2>1. u \in WaitingIn(eventIdTimerMap) /\ eventId[u] = id
    BY <1>2 DEF WaitingOn, WaitingIn, OwnersInv, MapInv
  <2>2. u \in added /\ u # t
    BY <1>1, <2>1 DEF OwnersInv, OwnerInv
  <2>. QED BY <1>1, <2>1, <2>2 DEF IdInv
<1>3. AbortOf(id) = <<>>
  BY <1>2 DEF WaitingOn, AbortOf
<1>4. Tail(ready) \in Seq(Handlers)
  BY HeadFacts
<1>5. Tail(ready) \o <<>> = Tail(ready)
  BY <1>4
<1>. QED BY <1>3, <1>5 DEF t

LEMMA StopsInit == ASSUME SchedulerAssumption PROVE SchedulerInit => IdInv /\ StopInv /\ AddEventReadsLiveTask
<1>. SUFFICES ASSUME SchedulerInit PROVE IdInv /\ StopInv /\ AddEventReadsLiveTask
  OBVIOUS
<1>1. Cardinality(added) = 0
  BY FS_EmptySet DEF SchedulerInit
<1>2. IdInv
  BY <1>1 DEF SchedulerInit, IdInv, SchedulerAssumption
<1>3. Range(ready) = {}
  BY DEF SchedulerInit, Range
<1>4. StopInv
  BY <1>3 DEF SchedulerInit, StopInv
<1>5. AddEventReadsLiveTask
  BY DEF SchedulerInit, AddEventReadsLiveTask
<1>. QED BY <1>2, <1>4, <1>5

(* Every step keeps what is known of stopped ids. *)
LEMMA StopsStep ==
  ASSUME SchedulerAssumption, IdsSuffice, ExactInv, [SchedulerNext]_schedulerVars
  PROVE  StopInv' /\ AddEventReadsLiveTask'
<1>. USE DEF ExactInv
<1>0. /\ ready \in Seq(Handlers) /\ NoTask \notin Tasks /\ DispatcherThread \in Callers
      /\ added \subseteq Tasks /\ eventId \in [Tasks -> Ids] /\ adding \in [Callers -> Tasks \cup {NoTask}]
      /\ returned \subseteq added /\ aborted \subseteq added /\ deleted \subseteq added
  BY DEF OwnersInv, QueueInv, SchedulerTypeOK, SchedulerAssumption
(* A step of a thread that neither aborts nor deletes.                     *)
<1>1. ASSUME Range(ready') \subseteq Range(ready), UNCHANGED <<callerVars, aborted>>
      PROVE  StopInv'
  BY <1>1 DEF StopInv, callerVars
<1>2. ASSUME UNCHANGED <<schedulerState, adding, deleted>> PROVE AddEventReadsLiveTask'
  BY <1>2 DEF AddEventReadsLiveTask
<1>3. CASE UNCHANGED schedulerVars
  BY <1>1, <1>2, <1>3 DEF schedulerVars, callerVars, fate
<1>4. ASSUME NEW c \in Callers, NEW t \in Tasks, AddEvent(c, t)
      PROVE  StopInv' /\ AddEventReadsLiveTask'
  <2>1. /\ t \notin added /\ added' = added \cup {t}
        /\ eventId' = [eventId EXCEPT ![t] = NextId]
        /\ ready' = Append(ready, Insert(t)) /\ adding' = [adding EXCEPT ![c] = t]
        /\ UNCHANGED <<schedulerState, returned, stopAsked, aborted, deleted>>
    BY <1>4 DEF AddEvent, fate
  <2>2. Range(ready') = Range(ready) \cup {Insert(t)}
    <3>1. Insert(t) \in Handlers
      BY DEF Handlers
    <3>. QED BY <1>0, <2>1, <3>1, AppendHandler
  <2>3. Insert(t).op = "insert"
    BY DEF Insert
  <2>4. \A u \in added : eventId'[u] = eventId[u]
    BY <1>0, <2>1
  <2>5. StopInv'
    BY <1>0, <2>1, <2>2, <2>3, <2>4 DEF StopInv
  <2>6. AddEventReadsLiveTask'
    BY <1>0, <2>1 DEF AddEventReadsLiveTask
  <2>. QED BY <2>5, <2>6
<1>5. ASSUME NEW c \in Callers, NEW t \in Tasks, StopEvent(c, t)
      PROVE  StopInv' /\ AddEventReadsLiveTask'
  <2>. DEFINE h == Cancel(eventId[t])
  <2>1. /\ t \in returned /\ stopAsked' = stopAsked \cup {eventId[t]} /\ ready' = Append(ready, h)
        /\ UNCHANGED <<schedulerState, eventId, added, adding, returned, aborted, deleted>>
    BY <1>5 DEF StopEvent, fate
  <2>2. h \in Handlers /\ h.op = "cancel" /\ h.id = eventId[t]
    BY <1>0 DEF Handlers, Cancel
  <2>. HIDE DEF h
  <2>3. Range(ready') = Range(ready) \cup {h}
    BY <1>0, <2>1, <2>2, AppendHandler
  <2>4. StopInv'
    BY <2>1, <2>2, <2>3 DEF StopInv
  <2>. QED BY <1>2, <2>1, <2>4
<1>6. ASSUME NEW c \in Callers, AddEventReturn(c) PROVE StopInv' /\ AddEventReadsLiveTask'
  <2>1. /\ adding' = [adding EXCEPT ![c] = NoTask] /\ returned' = returned \cup {adding[c]}
        /\ UNCHANGED <<schedulerState, eventId, added, stopAsked, ready, aborted, deleted>>
    BY <1>6 DEF AddEventReturn, fate
  <2>2. StopInv'
    BY <2>1 DEF StopInv
  <2>3. AddEventReadsLiveTask'
    BY <1>0, <2>1 DEF AddEventReadsLiveTask
  <2>. QED BY <2>2, <2>3
<1>7. ASSUME NEW c \in Callers, ShutdownScheduler(c) PROVE StopInv' /\ AddEventReadsLiveTask'
  <2>1. /\ ready' = Append(ready, ShutdownOp) /\ schedulerState' = "TERMINATED"
        /\ UNCHANGED <<callerVars, aborted>>
    BY <1>7 DEF ShutdownScheduler, fate
  <2>2. ShutdownOp \in Handlers /\ ShutdownOp.op = "shutdown"
    BY DEF Handlers, ShutdownOp
  <2>3. Range(ready') = Range(ready) \cup {ShutdownOp}
    BY <1>0, <2>1, <2>2, AppendHandler
  <2>4. StopInv'
    BY <2>1, <2>2, <2>3 DEF StopInv, callerVars
  <2>. QED BY <2>1, <2>4 DEF AddEventReadsLiveTask
<1>8. ASSUME StopScheduler PROVE StopInv' /\ AddEventReadsLiveTask'
  <2>1. UNCHANGED <<callerVars, ready, aborted>> /\ schedulerState' = "CLOSING"
    BY <1>8 DEF StopScheduler, fate
  <2>. QED BY <1>1, <2>1 DEF AddEventReadsLiveTask
<1>9. ASSUME RunInsert PROVE StopInv' /\ AddEventReadsLiveTask'
  <2>1. ready # <<>> /\ Carries(Head(ready))
    BY <1>9 DEF RunInsert, Next1, Carries
  <2>2. /\ ready' = Tail(ready) \o AbortOf(eventId[Head(ready).task])
        /\ UNCHANGED <<schedulerState, callerVars, fate>>
    BY <1>9 DEF RunInsert
  <2>3. ready' = Tail(ready)
    BY <2>1, <2>2, NobodyWaits
  <2>4. Range(ready') \subseteq Range(ready)
    BY <2>1, <2>3, HeadFacts
  <2>5. UNCHANGED <<schedulerState, adding, deleted, aborted>>
    BY <2>2 DEF callerVars, fate
  <2>. QED BY <1>1, <1>2, <2>2, <2>4, <2>5
<1>10. ASSUME NEW id \in DOMAIN eventIdTimerMap, Expire(id) PROVE StopInv' /\ AddEventReadsLiveTask'
  <2>. DEFINE t == eventIdTimerMap[id]
              h == Done(t, FALSE)
  <2>1. /\ ready' = Append(ready, h) /\ t \in Tasks
        /\ UNCHANGED <<schedulerState, callerVars, fate>>
    BY <1>10 DEF Expire, OwnersInv, SchedulerTypeOK
  <2>2. h \in Handlers /\ h.op = "done" /\ h.aborted = FALSE
    <3>1. h \in {Done(u, FALSE) : u \in Tasks}
      BY <2>1
    <3>2. h \in Handlers
      BY <3>1 DEF Handlers
    <3>. QED BY <3>2 DEF Done
  <2>. HIDE DEF h
  <2>3. Range(ready') = Range(ready) \cup {h}
    BY <1>0, <2>1, <2>2, AppendHandler
  <2>4. StopInv'
    BY <2>1, <2>2, <2>3 DEF StopInv, callerVars, fate
  <2>5. UNCHANGED <<schedulerState, adding, deleted>>
    BY <2>1 DEF callerVars, fate
  <2>. QED BY <1>2, <2>4, <2>5
<1>11. ASSUME RunCancel PROVE StopInv' /\ AddEventReadsLiveTask'
  <2>. DEFINE id == Head(ready).id
  <2>1. ready # <<>> /\ Head(ready).op = "cancel" /\ ~Carries(Head(ready))
    BY <1>11 DEF RunCancel, Next1, Carries
  <2>2. /\ ready' = Tail(ready) \o AbortOf(id)
        /\ UNCHANGED <<schedulerState, callerVars, fate>>
    BY <1>11 DEF RunCancel
  <2>3. /\ Tail(ready) \in Seq(Handlers) /\ Once(Tail(ready)) /\ Head(ready) \in Range(ready)
        /\ Carried(Tail(ready)) = Carried(ready) /\ Range(Tail(ready)) \subseteq Range(ready)
    BY <2>1, HeadFacts
  <2>4. id \in stopAsked
    BY <2>1, <2>3 DEF StopInv
  <2>. HIDE DEF id
  <2>5. \A u \in WaitingOn(id) : u \in WaitingIn(eventIdTimerMap) /\ eventId[u] = id
    BY DEF WaitingOn, WaitingIn, OwnersInv, MapInv
  <2>6. Carried(Tail(ready)) \cap WaitingOn(id) = {}
    BY <2>3, <2>5 DEF OwnersInv, OwnerInv
  <2>7. \A u \in WaitingOn(id) : u \in added
    BY <2>5 DEF OwnersInv, OwnerInv
  <2>8. Range(ready') \subseteq Range(ready) \cup {Done(u, TRUE) : u \in WaitingOn(id)}
    BY <2>2, <2>3, <2>6, AbortFacts
  <2>9. \A u : Done(u, TRUE).op = "done" /\ Done(u, TRUE).task = u
    BY DEF Done
  <2>10. StopInv'
    <3>1. ASSUME NEW x \in Range(ready'), x \notin Range(ready)
          PROVE  x.op = "done" /\ x.task \in added /\ eventId[x.task] \in stopAsked
      <4>1. PICK u \in WaitingOn(id) : x = Done(u, TRUE)
        BY <2>8, <3>1
      <4>. QED BY <2>4, <2>5, <2>7, <2>9, <4>1
    <3>2. UNCHANGED <<eventId, added, returned, stopAsked, aborted>>
      BY <2>2 DEF callerVars, fate
    <3>. QED BY <3>1, <3>2 DEF StopInv
  <2>11. UNCHANGED <<schedulerState, adding, deleted>>
    BY <2>2 DEF callerVars, fate
  <2>. QED BY <1>2, <2>10, <2>11
<1>12. ASSUME RunDone PROVE StopInv' /\ AddEventReadsLiveTask'
  <2>. DEFINE h == Head(ready)
              t == h.task
              id == eventId[t]
  <2>1. ready # <<>> /\ h.op = "done" /\ Carries(h)
    BY <1>12 DEF RunDone, Next1, Carries
  <2>2. /\ ready' = Tail(ready) \o AbortOf(id)
        /\ aborted' = IF h.aborted THEN aborted \cup {t} ELSE aborted
        /\ deleted' = IF Discards(h.aborted) \/ schedulerState # "RUNNING"
                      THEN deleted \cup {t} ELSE deleted
        /\ UNCHANGED <<schedulerState, callerVars>>
    BY <1>12 DEF RunDone
  <2>3. ready' = Tail(ready)
    BY <2>1, <2>2, NobodyWaits
  <2>4. Range(ready') \subseteq Range(ready) /\ h \in Range(ready)
    BY <2>1, <2>3, HeadFacts
  <2>. HIDE DEF h
  <2>5. h.aborted => id \in stopAsked
    BY <2>1, <2>4 DEF StopInv
  <2>. HIDE DEF t, id
  <2>6. StopInv'
    BY <2>2, <2>4, <2>5 DEF StopInv, callerVars, id
  <2>7. AddEventReadsLiveTask'
    <3>1. UNCHANGED adding
      BY <2>2 DEF callerVars
    <3>2. CASE schedulerState = "RUNNING" /\ h.aborted
      <4>1. PICK r \in returned : eventId[r] = id
        BY <2>5, <3>2 DEF StopInv
      <4>2. t \in added
        BY <2>1, HeadFacts DEF t, h
      <4>3. t \in returned
        BY <1>0, <4>1, <4>2 DEF IdInv, id
      <4>4. adding[DispatcherThread] # t
        BY <1>0, <4>2, <4>3 DEF OwnersInv, CallInv
      <4>. QED BY <2>2, <3>1, <4>4 DEF AddEventReadsLiveTask
    <3>3. CASE ~(schedulerState = "RUNNING" /\ h.aborted)
      BY <2>2, <3>1, <3>3 DEF AddEventReadsLiveTask, Discards
    <3>. QED BY <3>2, <3>3
  <2>. QED BY <2>6, <2>7
<1>13. ASSUME RunShutdown PROVE StopInv' /\ AddEventReadsLiveTask'
  <2>1. ready' = <<>> /\ UNCHANGED <<schedulerState, callerVars, deleted, aborted>>
    BY <1>13 DEF RunShutdown
  <2>2. Range(ready') = {}
    BY <2>1 DEF Range
  <2>. QED BY <1>1, <1>2, <2>1, <2>2 DEF callerVars
<1>14. ASSUME NEW t \in Tasks, Dispatch(t) PROVE StopInv' /\ AddEventReadsLiveTask'
  <2>1. /\ adding[DispatcherThread] = NoTask /\ deleted' = deleted \cup {t}
        /\ UNCHANGED <<schedulerState, callerVars, ready, aborted>>
    BY <1>14 DEF Dispatch, Idle
  <2>2. AddEventReadsLiveTask'
    BY <1>0, <2>1 DEF AddEventReadsLiveTask, callerVars
  <2>. QED BY <1>1, <2>1, <2>2
<1>. QED BY <1>3, <1>4, <1>5, <1>6, <1>7, <1>8, <1>9, <1>10, <1>11, <1>12, <1>13, <1>14
         DEF SchedulerNext, schedulerThread

(* addEvent() finds the task alive whose id it reads, and stopEvent()      *)
(* stops the event that was meant and no other one, while no id is used    *)
(* twice.                                                                  *)
THEOREM TimersStaySound ==
  ASSUME SchedulerAssumption, IdsSuffice PROVE SchedulerSpec => []TimersAreSound
<1>1. SchedulerInit => ExactInv
  BY OwnersInit, StopsInit DEF ExactInv
<1>2. ExactInv /\ [SchedulerNext]_schedulerVars => ExactInv'
  BY OwnersStep, IdsStep, StopsStep DEF ExactInv
<1>3. ExactInv => TimersAreSound
  <2>1. ASSUME ExactInv PROVE SchedulerTypeOK /\ OneOwner /\ StoppedInTimeNeverRuns
    BY <2>1, OwnersAreCounted DEF ExactInv, OwnersInv, FateInv, StoppedInTimeNeverRuns
  <2>2. ASSUME ExactInv PROVE AbortedWasStopped
    BY <2>2 DEF ExactInv, StopInv, AbortedWasStopped
  <2>. QED BY <2>1, <2>2 DEF ExactInv, TimersAreSound, TasksAreOwned, StopIsExact
<1>. QED BY <1>1, <1>2, <1>3, PTL DEF SchedulerSpec
=============================================================================
