---------------------------- MODULE PlayerProofs ----------------------------
(***************************************************************************)
(* Proofs about the players.  GameSession: for any number of clients and of*)
(* lives of the character, the clients' own pointers and the owner,        *)
(* spectators and broadcast flag of each Player object agree after every   *)
(* order of tasks, timers and closed connections.  Party: for any players, *)
(* parties, levels and places, the Party objects, the players' party       *)
(* pointers and the two lists of invitations agree after every sequence of *)
(* handlers, and a party of three or more outlives its leader.  WaitList:  *)
(* for any number of players, a full server admits them fairly.  Chat: for *)
(* any channels and guilds, no list keeps a player who has left.  Spells:  *)
(* for any spells and words, cooldowns last, words find their spell, and   *)
(* charges add up.                                                         *)
(***************************************************************************)
EXTENDS GameSession, Party, WaitList, Chat, Spells, FiniteSetTheorems, WellFoundedInduction, TLAPS

-----------------------------------------------------------------------------
(* GameSession.                                                            *)

(* The tasks that give a client its player. *)
Entries == {"login", "spectate", "connect"}
Kinds == Entries \cup {"release", "logout", "cast"}
Tasks == Kinds \X Clients

(* The i-th task of the dispatcher is the task k of client c. *)
At(i, k, c) == i \in DOMAIN tasks /\ tasks[i] = <<k, c>>
Enters(i, c) == \E k \in Entries : At(i, k, c)

(* A client that has sent nothing is not known to anybody; release() is a  *)
(* task of a connection that was closed.                                   *)
Known(c) ==
  /\ conn[c] = "none" => /\ player[c] = 0 /\ ~spectator[c] /\ c \notin timers
                         /\ \A i \in DOMAIN tasks : tasks[i][2] # c
  /\ \A i \in DOMAIN tasks : At(i, "release", c) => conn[c] = "closed"
  /\ released[c] => conn[c] = "closed"

(* A client that waits to get in has no player yet and waits once; a       *)
(* delayed connect() names a player.                                       *)
EntersOnce(c) ==
  /\ c \in timers => /\ player[c] = 0 /\ ~spectator[c] /\ target[c] # 0
                     /\ \A i \in DOMAIN tasks : ~Enters(i, c)
  /\ \A i \in DOMAIN tasks : Enters(i, c) => /\ player[c] = 0 /\ ~spectator[c]
                                             /\ At(i, "connect", c) => target[c] # 0
  /\ \A i, j \in DOMAIN tasks : Enters(i, c) /\ Enters(j, c) => i = j

(* spectate() runs before the release() of the same protocol. *)
SpectatesFirst(c) ==
  \A i \in DOMAIN tasks : At(i, "spectate", c) =>
    ~released[c] /\ \A j \in DOMAIN tasks : At(j, "release", c) => i < j

(* Who asked for a cast is the owner of its player until it is released.   *)
CasterOwns(c) ==
  \A i \in DOMAIN tasks : At(i, "cast", c) =>
    /\ ~spectator[c] /\ c \notin timers
    /\ \A j \in DOMAIN tasks : ~Enters(j, c)
    /\ player[c] # 0 => owner[player[c]] = c

ClientInv(c) == Known(c) /\ EntersOnce(c) /\ SpectatesFirst(c) /\ CasterOwns(c)

(* Owners and players point at each other; players are objects made, and   *)
(* whoever plays with an open connection is the owner.                     *)
OwnersAgree ==
  /\ \A n \in Lives : owner[n] # NoClient => player[owner[n]] = n /\ ~spectator[owner[n]]
  /\ \A c \in Clients :
       /\ player[c] <= made
       /\ player[c] # 0 /\ ~spectator[c] /\ conn[c] = "open" => owner[player[c]] = c

WatchersAgree ==
  \A c \in Clients : spectator[c] /\ conn[c] = "open" => player[c] # 0

PlayersInv == OwnersAgree /\ WatchersAgree /\ SpectatorsAgree /\ BroadcasterHasOwner

(* The inductive invariant: what is said of the tasks that wait is needed  *)
(* so that a protocol that was released is never made a spectator, and a   *)
(* cast is never opened for a player that lost its owner in the meantime.  *)
SessionInv == SessionTypeOK /\ (\A c \in Clients : ClientInv(c)) /\ PlayersInv

-----------------------------------------------------------------------------
(* What a step does to the queue, seen by one client: k tasks are taken    *)
(* from its front, and what comes to its end for this client is the        *)
(* release() of a connection that is closed.                               *)
Shifted(d, k) ==
  \A i \in DOMAIN tasks' : tasks'[i][2] = d =>
    \/ i + k \in DOMAIN tasks /\ tasks'[i] = tasks[i + k]
    \/ i + k > Len(tasks) /\ tasks'[i] = <<"release", d>> /\ conn'[d] = "closed"

Closes(d) == conn'[d] = conn[d] \/ (conn[d] = "open" /\ conn'[d] = "closed")

(* The client keeps what it has, or loses its player; its release() is the *)
(* task that runs, or was.                                                 *)
Stays(d) ==
  /\ \/ player'[d] = 0
     \/ player'[d] = player[d] /\ (owner[player[d]] = d => owner'[player[d]] = d)
  /\ spectator'[d] = spectator[d] /\ target'[d] = target[d]
  /\ (d \in timers' <=> d \in timers)
  /\ released'[d] => released[d] \/ At(1, "release", d)

LEMMA TasksType == SessionTypeOK => tasks \in Seq(Tasks)
BY DEF SessionTypeOK, Tasks, Kinds, Entries

(* Taking the front of the queue. *)
LEMMA Popped ==
  ASSUME SessionTypeOK, tasks # <<>>
  PROVE  /\ Tail(tasks) \in Seq(Tasks) /\ Head(tasks) = tasks[1] /\ 1 \in DOMAIN tasks
         /\ Head(tasks)[1] \in Kinds /\ Head(tasks)[2] \in Clients
         /\ Head(tasks) = <<Head(tasks)[1], Head(tasks)[2]>>
         /\ Len(Tail(tasks)) = Len(tasks) - 1
         /\ \A i \in DOMAIN Tail(tasks) : i + 1 \in DOMAIN tasks /\ Tail(tasks)[i] = tasks[i + 1]
<1>1. tasks \in Seq(Tasks)
  BY TasksType
<1>2. tasks[1] \in Tasks /\ 1 \in DOMAIN tasks /\ Head(tasks) = tasks[1]
  BY <1>1
<1>. QED BY <1>1, <1>2 DEF Tasks

(* Connection::close() of a set of clients: each that was open is closed,  *)
(* and only release() tasks come to the queue.                             *)
LEMMA Disconnected ==
  ASSUME SessionTypeOK, GameSessionAssumption, NEW set \in SUBSET Clients,
         NEW k \in {0, 1}, k = 1 => tasks # <<>>,
         Disconnect(set, IF k = 1 THEN Tail(tasks) ELSE tasks)
  PROVE  /\ tasks' \in Seq(Tasks)
         /\ conn' \in [Clients -> {"none", "open", "closed"}]
         /\ \A d \in Clients : Closes(d) /\ Shifted(d, k)
         /\ \A d \in set : conn'[d] # "open"
<1>. DEFINE queue == IF k = 1 THEN Tail(tasks) ELSE tasks
            rel == {<<"release", c>> : c \in Open(set)}
<1>1. /\ queue \in Seq(Tasks)
      /\ Len(queue) = Len(tasks) - k
      /\ \A i \in DOMAIN queue : i + k \in DOMAIN tasks /\ queue[i] = tasks[i + k]
  BY TasksType, Popped
<1>2. conn' = [c \in Clients |-> IF c \in Open(set) THEN "closed" ELSE conn[c]]
  BY DEF Disconnect
<1>3. /\ conn' \in [Clients -> {"none", "open", "closed"}]
      /\ \A d \in Clients : Closes(d)
      /\ \A d \in set : conn'[d] # "open"
      /\ \A d \in Open(set) : d \in Clients /\ conn'[d] = "closed"
  BY <1>2 DEF Open, Closes, SessionTypeOK
<1>4. PICK order \in SetToSeqs(rel) : tasks' = queue \o order
  BY DEF Disconnect
<1>5. IsFiniteSet(rel)
  <2>1. IsFiniteSet(Open(set))
    BY FS_Subset DEF GameSessionAssumption, Open
  <2>2. [c \in Open(set) |-> <<"release", c>>] \in Surjection(Open(set), rel)
    BY DEF Surjection
  <2>. QED BY <2>1, <2>2, FS_Surjection
<1>6. Cardinality(rel) \in Nat
  BY <1>5, FS_CardinalityType
<1>7. order \in Seq(rel)
  BY <1>6 DEF SetToSeqs
<1>8. rel \subseteq Tasks
  BY <1>3 DEF Tasks, Kinds
<1>9. tasks' \in Seq(Tasks)
  BY <1>1, <1>4, <1>7, <1>8
<1>10. ASSUME NEW d \in Clients PROVE Shifted(d, k)
  <2>. SUFFICES ASSUME NEW i \in DOMAIN tasks', tasks'[i][2] = d
                PROVE  \/ i + k \in DOMAIN tasks /\ tasks'[i] = tasks[i + k]
                       \/ i + k > Len(tasks) /\ tasks'[i] = <<"release", d>> /\ conn'[d] = "closed"
    BY DEF Shifted
  <2>1. i \in Nat /\ i \in 1..(Len(queue) + Len(order))
    BY <1>1, <1>4, <1>7
  <2>2. CASE i <= Len(queue)
    <3>1. i \in DOMAIN queue /\ tasks'[i] = queue[i]
      BY <1>1, <1>4, <1>7, <2>1, <2>2
    <3>. QED BY <1>1, <3>1
  <2>3. CASE i > Len(queue)
    <3>1. i - Len(queue) \in DOMAIN order /\ tasks'[i] = order[i - Len(queue)]
      BY <1>1, <1>4, <1>7, <2>1, <2>3
    <3>2. tasks'[i] \in rel
      BY <1>7, <3>1
    <3>3. PICK e \in Open(set) : tasks'[i] = <<"release", e>>
      BY <3>2
    <3>4. e = d
      BY <3>3
    <3>5. i + k > Len(tasks)
      <4>. Len(tasks) \in Nat
        BY TasksType
      <4>. QED BY <1>1, <2>1, <2>3
    <3>. QED BY <1>3, <3>3, <3>4, <3>5
  <2>. QED BY <1>1, <2>1, <2>2, <2>3
<1>. QED BY <1>3, <1>9, <1>10

(* The queue after its first task was taken and nothing was added.         *)
LEMMA JustPopped ==
  ASSUME SessionTypeOK, tasks # <<>>, tasks' = Tail(tasks), conn' = conn
  PROVE  /\ tasks' \in Seq(Tasks)
         /\ \A d \in Clients : Closes(d) /\ Shifted(d, 1)
BY Popped DEF Closes, Shifted

LEMMA QueueUnchanged ==
  ASSUME SessionTypeOK, tasks' = tasks, conn' = conn
  PROVE  /\ tasks' \in Seq(Tasks)
         /\ \A d \in Clients : Closes(d) /\ Shifted(d, 0)
BY TasksType DEF Closes, Shifted

(* A task of client c at the end of the queue.                             *)
LEMMA Appended ==
  ASSUME SessionTypeOK, NEW k \in Kinds, NEW c \in Clients, tasks' = Append(tasks, <<k, c>>),
         \A d \in Clients \ {c} : conn'[d] = conn[d]
  PROVE  /\ tasks' \in Seq(Tasks)
         /\ DOMAIN tasks' = 1 .. (Len(tasks) + 1) /\ Len(tasks) \in Nat
         /\ DOMAIN tasks = 1 .. Len(tasks)
         /\ tasks'[Len(tasks) + 1] = <<k, c>>
         /\ \A i \in DOMAIN tasks : tasks'[i] = tasks[i]
         /\ \A d \in Clients \ {c} : Closes(d) /\ Shifted(d, 0)
<1>1. tasks \in Seq(Tasks) /\ <<k, c>> \in Tasks
  BY TasksType DEF Tasks
<1>2. /\ tasks' \in Seq(Tasks)
      /\ DOMAIN tasks' = 1 .. (Len(tasks) + 1) /\ Len(tasks) \in Nat
      /\ DOMAIN tasks = 1 .. Len(tasks)
      /\ tasks'[Len(tasks) + 1] = <<k, c>>
      /\ \A i \in DOMAIN tasks : tasks'[i] = tasks[i]
  BY <1>1
<1>3. ASSUME NEW d \in Clients \ {c} PROVE Closes(d) /\ Shifted(d, 0)
  <2>1. \A i \in DOMAIN tasks' : i \in DOMAIN tasks \/ i = Len(tasks) + 1
    BY <1>2
  <2>. QED BY <1>2, <2>1 DEF Closes, Shifted
<1>. QED BY <1>2, <1>3

-----------------------------------------------------------------------------
(* A client that a step gives no player to.                                *)
LEMMA OthersKeep ==
  ASSUME SessionTypeOK, NEW d \in Clients, ClientInv(d), NEW k \in {0, 1}, Shifted(d, k), Closes(d), Stays(d),
         tasks' \in Seq(Tasks)
  PROVE  ClientInv(d)'
<1>0. tasks \in Seq(Tasks)
  BY TasksType
<1>1. ASSUME NEW i \in DOMAIN tasks', NEW t \in Kinds, tasks'[i] = <<t, d>>
      PROVE  /\ i \in Nat /\ i + k \in Nat
             /\ \/ At(i + k, t, d)
                \/ i + k > Len(tasks) /\ t = "release" /\ conn'[d] = "closed"
  <2>1. i \in Nat /\ i + k \in Nat /\ tasks'[i][2] = d
    BY <1>1
  <2>. QED BY <1>1, <2>1 DEF Shifted, At, Kinds, Entries
<1>2. \A i, t : At(i, t, d)' <=> i \in DOMAIN tasks' /\ tasks'[i] = <<t, d>>
  BY DEF At
<1>3. \A i, t : At(i, t, d) => i \in 1 .. Len(tasks)
  BY <1>0 DEF At
<1>4. Len(tasks) \in Nat
  BY <1>0
<1>5. ASSUME NEW i \in DOMAIN tasks', Enters(i, d)'
      PROVE  Enters(i + k, d) /\ (At(i, "connect", d)' => At(i + k, "connect", d))
  <2>1. PICK t \in Entries : tasks'[i] = <<t, d>>
    BY <1>5, <1>2 DEF Enters
  <2>2. At(i + k, t, d)
    BY <1>1, <2>1 DEF Kinds, Entries
  <2>. QED BY <2>1, <2>2, <1>2 DEF Enters, At
<1>6. Known(d)'
  <2>1. ASSUME conn'[d] = "none", NEW i \in DOMAIN tasks' PROVE tasks'[i][2] # d
    BY <2>1, <1>1, <1>0 DEF ClientInv, Known, Closes, Shifted
  <2>2. ASSUME NEW i \in DOMAIN tasks', At(i, "release", d)' PROVE conn'[d] = "closed"
    BY <2>2, <1>1, <1>2 DEF ClientInv, Known, Closes, Kinds, At
  <2>3. conn'[d] = "none" => player'[d] = 0 /\ ~spectator'[d] /\ d \notin timers'
    BY DEF ClientInv, Known, Closes, Stays
  <2>4. released'[d] => conn'[d] = "closed"
    BY DEF ClientInv, Known, Closes, Stays, At
  <2>. QED BY <2>1, <2>2, <2>3, <2>4 DEF Known
<1>7. EntersOnce(d)'
  <2>. USE DEF ClientInv, EntersOnce, Stays
  <2>1. ASSUME d \in timers'
        PROVE  /\ player'[d] = 0 /\ ~spectator'[d] /\ target'[d] # 0
               /\ \A i \in DOMAIN tasks' : ~Enters(i, d)'
    BY <2>1, <1>5 DEF Enters, At
  <2>2. ASSUME NEW i \in DOMAIN tasks', Enters(i, d)'
        PROVE  player'[d] = 0 /\ ~spectator'[d] /\ (At(i, "connect", d)' => target'[d] # 0)
    BY <2>2, <1>5 DEF Enters, At
  <2>3. ASSUME NEW i \in DOMAIN tasks', NEW j \in DOMAIN tasks', Enters(i, d)', Enters(j, d)'
        PROVE  i = j
    <3>1. i \in Nat /\ j \in Nat
      BY <2>3
    <3>2. i + k \in DOMAIN tasks /\ j + k \in DOMAIN tasks /\ Enters(i + k, d) /\ Enters(j + k, d)
      BY <2>3, <1>5 DEF Enters, At
    <3>3. i + k = j + k
      BY <3>2
    <3>. QED BY <3>1, <3>3
  <2>. QED BY <2>1, <2>2, <2>3
<1>8. SpectatesFirst(d)'
  <2>. SUFFICES ASSUME NEW i \in DOMAIN tasks', At(i, "spectate", d)'
                PROVE  ~released'[d] /\ \A j \in DOMAIN tasks' : At(j, "release", d)' => i < j
    BY DEF SpectatesFirst
  <2>1. At(i + k, "spectate", d) /\ i \in Nat /\ i + k \in DOMAIN tasks
    BY <1>1, <1>2 DEF Kinds, Entries, At
  <2>2. ~released'[d]
    <3>1. ~released[d] /\ (At(1, "release", d) => i + k < 1)
      BY <2>1 DEF ClientInv, SpectatesFirst, At
    <3>2. i >= 1 /\ i + k >= 1
      BY <1>1, <2>1
    <3>. QED BY <2>1, <3>1, <3>2 DEF Stays
  <2>3. ASSUME NEW j \in DOMAIN tasks', At(j, "release", d)' PROVE i < j
    <3>1. j \in Nat /\ (At(j + k, "release", d) \/ j + k > Len(tasks))
      BY <2>3, <1>1, <1>2 DEF Kinds
    <3>2. i + k < j + k
      BY <3>1, <2>1, <1>3, <1>4 DEF ClientInv, SpectatesFirst, At
    <3>. QED BY <3>1, <3>2, <2>1
  <2>. QED BY <2>2, <2>3
<1>9. CasterOwns(d)'
  <2>. SUFFICES ASSUME NEW i \in DOMAIN tasks', At(i, "cast", d)'
                PROVE  /\ ~spectator'[d] /\ d \notin timers'
                       /\ \A j \in DOMAIN tasks' : ~Enters(j, d)'
                       /\ player'[d] # 0 => owner'[player'[d]] = d
    BY DEF CasterOwns
  <2>1. At(i + k, "cast", d) /\ i + k \in DOMAIN tasks
    BY <1>1, <1>2 DEF Kinds, At
  <2>2. /\ ~spectator[d] /\ d \notin timers
        /\ \A j \in DOMAIN tasks : ~Enters(j, d)
        /\ player[d] # 0 => owner[player[d]] = d
    BY <2>1 DEF ClientInv, CasterOwns
  <2>3. \A j \in DOMAIN tasks' : ~Enters(j, d)'
    BY <2>2, <1>5 DEF Enters, At
  <2>. QED BY <2>2, <2>3 DEF Stays
<1>. QED BY <1>6, <1>7, <1>8, <1>9 DEF ClientInv

(* A client whose login(), spectate() or connect() was run: it waits for   *)
(* nothing any more, or for the delayed connect() that login() asked for.  *)
LEMMA EntryTaken ==
  ASSUME SessionTypeOK, NEW c \in Clients, ClientInv(c), Enters(1, c), Shifted(c, 1), Closes(c),
         tasks' \in Seq(Tasks), released'[c] = released[c],
         c \in timers' => player'[c] = 0 /\ ~spectator'[c] /\ target'[c] # 0
  PROVE  ClientInv(c)'
<1>1. \A i, t : At(i, t, c)' => i \in Nat \ {0} /\ (At(i + 1, t, c) \/ (t = "release" /\ conn'[c] = "closed"))
  <2>. SUFFICES ASSUME NEW i, NEW t, At(i, t, c)'
                PROVE  i \in Nat \ {0} /\ (At(i + 1, t, c) \/ (t = "release" /\ conn'[c] = "closed"))
    OBVIOUS
  <2>1. i \in DOMAIN tasks' /\ tasks'[i] = <<t, c>> /\ tasks'[i][2] = c
    BY DEF At
  <2>2. i \in Nat \ {0}
    BY <2>1
  <2>3. \/ i + 1 \in DOMAIN tasks /\ tasks[i + 1] = <<t, c>>
        \/ <<t, c>> = <<"release", c>> /\ conn'[c] = "closed"
    BY <2>1 DEF Shifted
  <2>. QED BY <2>2, <2>3 DEF At
<1>2. /\ \A i \in DOMAIN tasks : Enters(i, c) => i = 1
      /\ \A i \in DOMAIN tasks : ~At(i, "cast", c)
      /\ c \notin timers
      /\ 1 \in DOMAIN tasks /\ conn[c] # "none"
  <2>1. 1 \in DOMAIN tasks /\ tasks[1][2] = c
    BY DEF Enters, At
  <2>2. \A i \in DOMAIN tasks : Enters(i, c) => i = 1
    BY <2>1 DEF ClientInv, EntersOnce
  <2>3. \A i \in DOMAIN tasks : ~At(i, "cast", c)
    BY <2>1 DEF ClientInv, CasterOwns
  <2>4. c \notin timers
    BY <2>1 DEF ClientInv, EntersOnce
  <2>5. conn[c] # "none"
    BY <2>1 DEF ClientInv, Known
  <2>. QED BY <2>1, <2>2, <2>3, <2>4, <2>5
<1>3. \A i : ~Enters(i, c)'
  <2>. SUFFICES ASSUME NEW i, Enters(i, c)' PROVE FALSE
    OBVIOUS
  <2>1. PICK t \in Entries : At(i, t, c)'
    BY DEF Enters
  <2>2. i \in Nat \ {0} /\ At(i + 1, t, c)
    BY <1>1, <2>1 DEF Entries
  <2>3. i + 1 \in DOMAIN tasks /\ Enters(i + 1, c)
    BY <2>1, <2>2 DEF Enters, At
  <2>. QED BY <1>2, <2>2, <2>3
<1>4. \A i : ~At(i, "spectate", c)' /\ ~At(i, "cast", c)'
  <2>1. \A i : ~At(i, "spectate", c)'
    BY <1>3 DEF Enters, Entries
  <2>2. \A i : ~At(i, "cast", c)
    BY <1>2 DEF At
  <2>. QED BY <1>1, <2>1, <2>2
<1>5. Known(c)'
  BY <1>1, <1>2 DEF ClientInv, Known, Closes, At
<1>6. EntersOnce(c)'
  BY <1>3 DEF EntersOnce
<1>. QED BY <1>4, <1>5, <1>6 DEF ClientInv, SpectatesFirst, CasterOwns

(* A task for a client of its own at the end of the queue.                 *)
LEMMA OwnTask ==
  ASSUME SessionTypeOK, NEW k \in Kinds, NEW c \in Clients, tasks' = Append(tasks, <<k, c>>),
         \A d \in Clients \ {c} : conn'[d] = conn[d],
         ClientInv(c), k # "release", conn'[c] = "open" \/ (conn'[c] = conn[c] /\ conn[c] # "none"),
         conn'[c] = "open" => conn[c] \in {"none", "open"},
         clientVars' = clientVars, target' = target, owner' = owner,
         IF k \in Entries
         THEN /\ player[c] = 0 /\ ~spectator[c] /\ c \notin timers'
              /\ k = "connect" => target[c] # 0
              /\ k = "spectate" => conn[c] = "none"
              /\ \A i \in DOMAIN tasks : ~Enters(i, c) /\ ~At(i, "cast", c)
         ELSE /\ player[c] # 0 /\ ~spectator[c] /\ conn[c] = "open" /\ owner[player[c]] = c
              /\ timers' = timers
  PROVE  ClientInv(c)'
<1>1. /\ tasks' \in Seq(Tasks)
      /\ DOMAIN tasks' = 1 .. (Len(tasks) + 1) /\ Len(tasks) \in Nat
      /\ DOMAIN tasks = 1 .. Len(tasks)
      /\ tasks'[Len(tasks) + 1] = <<k, c>>
      /\ \A i \in DOMAIN tasks : tasks'[i] = tasks[i]
  BY Appended
<1>2. \A i, t : At(i, t, c)' <=> At(i, t, c) \/ (i = Len(tasks) + 1 /\ t = k)
  BY <1>1 DEF At
<1>3. \A i : Enters(i, c)' <=> Enters(i, c) \/ (i = Len(tasks) + 1 /\ k \in Entries)
  BY <1>2 DEF Enters
<1>4. /\ player'[c] = player[c] /\ spectator'[c] = spectator[c] /\ released'[c] = released[c]
      /\ target'[c] = target[c] /\ owner'[player'[c]] = owner[player[c]]
  BY DEF clientVars
<1>5. Known(c)'
  <2>1. \A i \in DOMAIN tasks : At(i, "release", c) => conn'[c] = "closed"
    BY DEF ClientInv, Known, At
  <2>2. released[c] => conn'[c] = "closed"
    BY DEF ClientInv, Known
  <2>. QED BY <1>2, <1>4, <2>1, <2>2 DEF Known, At
<1>6. EntersOnce(c)'
  <2>1. CASE k \in Entries
    <3>1. \A i : Enters(i, c)' => i = Len(tasks) + 1
      BY <1>3, <2>1 DEF Enters, At
    <3>2. \A i : ~At(i, "connect", c)' \/ k = "connect"
      BY <1>2, <2>1 DEF Enters, Entries, At
    <3>. QED BY <3>1, <3>2, <1>4, <2>1 DEF EntersOnce
  <2>2. CASE k \notin Entries
    <3>1. \A i : ~Enters(i, c)
      BY <2>2 DEF ClientInv, EntersOnce, Enters, At
    <3>2. c \notin timers
      BY <2>2 DEF ClientInv, EntersOnce
    <3>. QED BY <3>1, <3>2, <1>3, <2>2 DEF EntersOnce
  <2>. QED BY <2>1, <2>2
<1>7. SpectatesFirst(c)'
  <2>1. \A i, j : At(i, "spectate", c) /\ At(j, "release", c) => i < j
    BY DEF ClientInv, SpectatesFirst, At
  <2>2. \A i : At(i, "spectate", c) => ~released[c]
    BY DEF ClientInv, SpectatesFirst, At
  <2>3. k = "spectate" => ~released[c] /\ \A j : ~At(j, "release", c)
    BY DEF ClientInv, Known, Entries, At
  <2>. QED BY <1>2, <1>4, <2>1, <2>2, <2>3 DEF SpectatesFirst
<1>8. CasterOwns(c)'
  <2>1. CASE k \in Entries
    <3>1. \A i : ~At(i, "cast", c)'
      BY <1>2, <2>1 DEF Entries, At
    <3>. QED BY <3>1 DEF CasterOwns
  <2>2. CASE k \notin Entries
    <3>1. c \notin timers' /\ \A j : ~Enters(j, c)'
      BY <1>3, <2>2 DEF ClientInv, EntersOnce, Enters, At
    <3>. QED BY <3>1, <1>4, <2>2 DEF CasterOwns
  <2>. QED BY <2>1, <2>2
<1>. QED BY <1>5, <1>6, <1>7, <1>8 DEF ClientInv

-----------------------------------------------------------------------------
(* The tasks of SessionTypeOK by their short name. *)
LEMMA TasksAre == Tasks = {"login", "spectate", "connect", "release", "logout", "cast"} \X Clients
BY DEF Tasks, Kinds, Entries

(* What changes in a step that gives no client a player or an owner.       *)
CastsEnd ==
  /\ spectators' \in [Lives -> SUBSET Clients] /\ broadcast' \in [Lives -> BOOLEAN]
  /\ \A n \in Lives :
       /\ spectators'[n] \subseteq spectators[n]
       /\ \A d \in spectators[n] \ spectators'[n] : conn'[d] # "open"
       /\ broadcast'[n] => broadcast[n] \/ owner[n] # NoClient

(* A step that only closes connections, ends casts, opens that of a player *)
(* with an owner, or takes a player out of the game.                       *)
LEMMA QuietStep ==
  ASSUME SessionInv, GameSessionAssumption, NEW k \in {0, 1},
         \A d \in Clients : Closes(d) /\ Shifted(d, k),
         tasks' \in Seq(Tasks), conn' \in [Clients -> {"none", "open", "closed"}],
         object' \in [Clients -> BOOLEAN],
         clientVars' = clientVars, timers' = timers, target' = target,
         owner' = owner, made' = made, inGame' \in {0, inGame},
         isConnecting' \in [Lives -> BOOLEAN], CastsEnd
  PROVE  SessionInv'
<1>1. SessionTypeOK'
  BY TasksAre DEF SessionInv, CastsEnd, clientVars, SessionTypeOK
<1>2. ASSUME NEW d \in Clients PROVE ClientInv(d)'
  <2>1. Stays(d)
    BY DEF Stays, clientVars
  <2>. QED BY <2>1, OthersKeep DEF SessionInv
<1>3. PlayersInv'
  <2>. USE DEF SessionInv, PlayersInv, clientVars, CastsEnd, Closes
  <2>1. OwnersAgree'
    BY DEF OwnersAgree
  <2>2. WatchersAgree'
    BY DEF WatchersAgree
  <2>3. SpectatorsAgree'
    <3>. SUFFICES ASSUME NEW c \in Clients
                  PROVE  /\ \A n \in Lives : c \in spectators'[n] =>
                              spectator'[c] /\ player'[c] = n /\ ~released'[c]
                         /\ spectator'[c] /\ conn'[c] = "open" => c \in spectators'[player'[c]]
      BY DEF SpectatorsAgree
    <3>1. \A n \in Lives : c \in spectators'[n] => spectator'[c] /\ player'[c] = n /\ ~released'[c]
      BY DEF SpectatorsAgree
    <3>2. ASSUME spectator'[c], conn'[c] = "open" PROVE c \in spectators'[player'[c]]
      <4>1. conn[c] = "open" /\ spectator[c]
        BY <3>2
      <4>2. player[c] \in Lives
        BY <4>1 DEF WatchersAgree, Lives, GameSessionAssumption, SessionTypeOK
      <4>3. c \in spectators[player[c]]
        BY <4>1 DEF SpectatorsAgree
      <4>. QED BY <4>2, <4>3, <3>2
    <3>. QED BY <3>1, <3>2
  <2>4. BroadcasterHasOwner'
    BY DEF BroadcasterHasOwner
  <2>. QED BY <2>1, <2>2, <2>3, <2>4
<1>. QED BY <1>1, <1>2, <1>3 DEF SessionInv

(* The same, when connections are closed by Disconnect().                  *)
LEMMA DisconnectStep ==
  ASSUME SessionInv, GameSessionAssumption, NEW set \in SUBSET Clients,
         NEW k \in {0, 1}, k = 1 => tasks # <<>>,
         Disconnect(set, IF k = 1 THEN Tail(tasks) ELSE tasks),
         object' = object, clientVars' = clientVars, timers' = timers, target' = target,
         owner' = owner, made' = made, inGame' \in {0, inGame}, isConnecting' = isConnecting,
         CastsEnd
  PROVE  SessionInv'
<1>1. SessionTypeOK
  BY DEF SessionInv
<1>2. /\ tasks' \in Seq(Tasks)
      /\ conn' \in [Clients -> {"none", "open", "closed"}]
      /\ \A d \in Clients : Closes(d) /\ Shifted(d, k)
  BY <1>1, Disconnected
<1>. QED BY <1>1, <1>2, QuietStep DEF SessionTypeOK

(* Nothing but the queue changes.                                          *)
LEMMA NothingHappens ==
  ASSUME SessionInv, GameSessionAssumption, tasks # <<>>, tasks' = Tail(tasks), conn' = conn,
         object' = object, timers' = timers, target' = target,
         clientVars' = clientVars, playerVars' = playerVars
  PROVE  SessionInv'
<1>1. SessionTypeOK
  BY DEF SessionInv
<1>2. tasks' \in Seq(Tasks) /\ \A d \in Clients : Closes(d) /\ Shifted(d, 1)
  BY <1>1, JustPopped
<1>3. CastsEnd
  BY <1>1 DEF CastsEnd, playerVars, SessionTypeOK
<1>. QED BY <1>1, <1>2, <1>3, QuietStep DEF playerVars, SessionTypeOK

-----------------------------------------------------------------------------
(* What the invariant says of the client whose first task is run.          *)
LEMMA FirstEntry ==
  ASSUME SessionInv, GameSessionAssumption, NEW c \in Clients, Enters(1, c)
  PROVE  /\ player[c] = 0 /\ ~spectator[c] /\ c \notin timers /\ conn[c] # "none"
         /\ At(1, "connect", c) => target[c] # 0
         /\ \A n \in Lives : owner[n] # c /\ c \notin spectators[n]
<1>1. 1 \in DOMAIN tasks /\ tasks[1][2] = c /\ ClientInv(c)
  BY DEF Enters, At, SessionInv
<1>2. player[c] = 0 /\ ~spectator[c] /\ c \notin timers /\ conn[c] # "none"
  BY <1>1 DEF ClientInv, EntersOnce, Known
<1>3. At(1, "connect", c) => target[c] # 0
  BY <1>1 DEF ClientInv, EntersOnce
<1>4. \A n \in Lives : owner[n] # c /\ c \notin spectators[n]
  <2>1. ASSUME NEW n \in Lives PROVE owner[n] # c
    <3>1. n # 0 /\ c # NoClient
      BY DEF Lives, GameSessionAssumption
    <3>. QED BY <1>2, <3>1 DEF SessionInv, PlayersInv, OwnersAgree
  <2>2. ASSUME NEW n \in Lives PROVE c \notin spectators[n]
    BY <1>2 DEF SessionInv, PlayersInv, SpectatorsAgree
  <2>. QED BY <2>1, <2>2
<1>. QED BY <1>2, <1>3, <1>4

(* connect(): the client becomes the owner of a player that had none.      *)
LEMMA ConnectKeeps ==
  ASSUME SessionInv, GameSessionAssumption, tasks # <<>>, NEW c \in Clients, Enters(1, c), NEW n \in Lives,
         Connect(c, n, Tail(tasks)), UNCHANGED <<object, timers, target>>
  PROVE  SessionInv'
<1>1. CASE ConnectRefused(n)
  <2>1. /\ Disconnect({c}, Tail(tasks)) /\ clientVars' = clientVars /\ playerVars' = playerVars
    BY <1>1 DEF Connect
  <2>2. CastsEnd
    BY <2>1 DEF CastsEnd, playerVars, SessionInv, SessionTypeOK
  <2>. QED BY <2>1, <2>2, DisconnectStep DEF playerVars
<1>2. CASE ~ConnectRefused(n) /\ ConnectionExpired(c)
  BY <1>2, NothingHappens DEF Connect
<1>3. CASE ~ConnectRefused(n) /\ ~ConnectionExpired(c)
  <2>1. /\ n = inGame /\ owner[n] = NoClient
        /\ player' = [player EXCEPT ![c] = n]
        /\ accepts' = [accepts EXCEPT ![c] = TRUE]
        /\ isConnecting' = [isConnecting EXCEPT ![n] = FALSE]
        /\ owner' = [owner EXCEPT ![n] = c]
        /\ UNCHANGED <<spectator, released, made, inGame, spectators, broadcast>>
        /\ conn' = conn /\ tasks' = Tail(tasks)
    BY <1>3 DEF Connect, ConnectRefused, HasOwner
  <2>2. /\ SessionTypeOK
        /\ player[c] = 0 /\ ~spectator[c] /\ c \notin timers
        /\ \A m \in Lives : owner[m] # c /\ c \notin spectators[m]
        /\ NoClient \notin Clients
    BY FirstEntry DEF SessionInv, GameSessionAssumption
  <2>3. tasks' \in Seq(Tasks) /\ \A d \in Clients : Closes(d) /\ Shifted(d, 1)
    BY <2>1, <2>2, JustPopped
  <2>4. SessionTypeOK'
    BY <2>1, <2>2, <2>3, TasksAre DEF SessionTypeOK, Lives
  <2>5. ASSUME NEW d \in Clients PROVE ClientInv(d)'
    <3>1. CASE d = c
      BY <3>1, <2>1, <2>2, <2>3, EntryTaken DEF SessionInv
    <3>2. CASE d # c
      <4>1. player'[d] = player[d] /\ (owner[player[d]] = d => owner'[player[d]] = d)
        BY <3>2, <2>1, <2>2 DEF SessionTypeOK
      <4>2. Stays(d)
        BY <4>1, <2>1 DEF Stays
      <4>. QED BY <4>2, <2>2, <2>3, OthersKeep DEF SessionInv
    <3>. QED BY <3>1, <3>2
  <2>6. PlayersInv'
    <3>. USE DEF SessionInv, PlayersInv, SessionTypeOK
    <3>1. OwnersAgree'
      BY <2>1, <2>2 DEF OwnersAgree
    <3>2. WatchersAgree'
      BY <2>1, <2>2 DEF WatchersAgree
    <3>3. SpectatorsAgree'
      BY <2>1, <2>2 DEF SpectatorsAgree
    <3>4. BroadcasterHasOwner'
      BY <2>1, <2>2 DEF BroadcasterHasOwner
    <3>. QED BY <3>1, <3>2, <3>3, <3>4
  <2>. QED BY <2>4, <2>5, <2>6 DEF SessionInv
<1>. QED BY <1>1, <1>2, <1>3

(* login() of a character that is not in the game.                         *)
LEMMA LoginNewKeeps ==
  ASSUME SessionInv, GameSessionAssumption, tasks # <<>>, NEW c \in Clients, Enters(1, c), LoginNew(c)
  PROVE  SessionInv'
<1>0. SessionTypeOK
  BY DEF SessionInv
<1>1. CASE made = MaxLives
  <2>1. /\ Disconnect({c}, Tail(tasks)) /\ clientVars' = clientVars /\ playerVars' = playerVars
        /\ UNCHANGED <<object, timers, target>>
    BY <1>1 DEF LoginNew
  <2>2. CastsEnd
    BY <1>0, <2>1 DEF CastsEnd, playerVars, SessionTypeOK
  <2>. QED BY <2>1, <2>2, DisconnectStep DEF playerVars
<1>2. CASE made # MaxLives
  <2>. DEFINE n == made + 1
  <2>1. /\ made' = n /\ n \in Lives
        /\ player' = [player EXCEPT ![c] = n]
        /\ owner' = [owner EXCEPT ![n] = c]
        /\ inGame' \in {n, inGame} /\ accepts' \in [Clients -> BOOLEAN]
        /\ UNCHANGED <<spectator, released, spectators, broadcast, isConnecting, object, timers, target>>
    <3>1. n \in Lives
      BY <1>0, <1>2 DEF SessionTypeOK, Lives, GameSessionAssumption
    <3>2. accepts' \in [Clients -> BOOLEAN] /\ inGame' \in {n, inGame}
      BY <1>0, <1>2 DEF LoginNew, SessionTypeOK
    <3>. QED BY <1>2, <3>1, <3>2 DEF LoginNew
  <2>2. /\ player[c] = 0 /\ ~spectator[c] /\ c \notin timers
        /\ \A m \in Lives : owner[m] # c /\ c \notin spectators[m]
        /\ NoClient \notin Clients
    BY FirstEntry DEF GameSessionAssumption
  <2>3. /\ tasks' \in Seq(Tasks) /\ conn' \in [Clients -> {"none", "open", "closed"}]
        /\ \A d \in Clients : Closes(d) /\ Shifted(d, 1)
    <3>1. (conn' = conn /\ tasks' = Tail(tasks)) \/ Disconnect({c}, Tail(tasks))
      BY <1>2 DEF LoginNew
    <3>2. CASE conn' = conn /\ tasks' = Tail(tasks)
      BY <3>2, <1>0, JustPopped DEF SessionTypeOK
    <3>3. CASE Disconnect({c}, Tail(tasks))
      BY <3>3, <1>0, Disconnected
    <3>. QED BY <3>1, <3>2, <3>3
  <2>4. \A d \in Clients : player[d] # n /\ player[d] <= made
    BY <1>0 DEF SessionInv, PlayersInv, OwnersAgree, SessionTypeOK
  <2>5. owner[n] = NoClient /\ spectators[n] = {}
    BY <1>0, <2>1, <2>4 DEF SessionInv, PlayersInv, OwnersAgree, SpectatorsAgree, SessionTypeOK
  <2>6. SessionTypeOK'
    <3>1. made' \in 0 .. MaxLives /\ inGame' \in 0 .. made'
      BY <1>0, <2>1 DEF SessionTypeOK, Lives, GameSessionAssumption
    <3>2. /\ player' \in [Clients -> 0 .. MaxLives]
          /\ owner' \in [Lives -> Clients \cup {NoClient}]
      BY <1>0, <2>1 DEF SessionTypeOK, Lives, GameSessionAssumption
    <3>. QED BY <1>0, <2>1, <2>3, <3>1, <3>2, TasksAre DEF SessionTypeOK
  <2>. HIDE DEF n
  <2>7. ASSUME NEW d \in Clients PROVE ClientInv(d)'
    <3>1. CASE d = c
      BY <3>1, <1>0, <2>1, <2>2, <2>3, EntryTaken DEF SessionInv
    <3>2. CASE d # c
      <4>1. player'[d] = player[d] /\ (owner[player[d]] = d => owner'[player[d]] = d)
        BY <3>2, <1>0, <2>1, <2>4 DEF SessionTypeOK
      <4>2. Stays(d)
        BY <4>1, <2>1 DEF Stays
      <4>. QED BY <4>2, <1>0, <2>3, OthersKeep DEF SessionInv
    <3>. QED BY <3>1, <3>2
  <2>8. PlayersInv'
    <3>. USE DEF SessionInv, PlayersInv, SessionTypeOK
    <3>1. OwnersAgree'
      <4>1. \A m \in Lives : owner'[m] # NoClient => player'[owner'[m]] = m /\ ~spectator'[owner'[m]]
        BY <2>1, <2>2 DEF OwnersAgree
      <4>2. \A d \in Clients : player'[d] <= made'
        BY <2>1, <2>4 DEF n
      <4>3. \A d \in Clients : player'[d] # 0 /\ ~spectator'[d] /\ conn'[d] = "open" => owner'[player'[d]] = d
        BY <2>1, <2>3, <2>4 DEF OwnersAgree, Closes
      <4>. QED BY <4>1, <4>2, <4>3 DEF OwnersAgree
    <3>2. WatchersAgree'
      BY <2>1, <2>2, <2>3 DEF WatchersAgree, Closes
    <3>3. SpectatorsAgree'
      BY <2>1, <2>2, <2>3 DEF SpectatorsAgree, Closes
    <3>4. BroadcasterHasOwner'
      BY <2>1, <2>2 DEF BroadcasterHasOwner
    <3>. QED BY <3>1, <3>2, <3>3, <3>4
  <2>. QED BY <2>6, <2>7, <2>8 DEF SessionInv
<1>. QED BY <1>1, <1>2

(* login() of a character that is: the other client is sent away and this  *)
(* one waits, or it takes over at once.                                    *)
LEMMA LoginAgainKeeps ==
  ASSUME SessionInv, GameSessionAssumption, tasks # <<>>, NEW c \in Clients, Enters(1, c),
         inGame # 0, LoginAgain(c)
  PROVE  SessionInv'
<1>0. SessionTypeOK /\ inGame \in Lives
  BY DEF SessionInv, SessionTypeOK, Lives, GameSessionAssumption
<1>1. CASE ~HasOwner(inGame)
  BY <1>0, <1>1, ConnectKeeps DEF LoginAgain
<1>2. CASE HasOwner(inGame)
  <2>. DEFINE set == {owner[inGame]} \cup spectators[inGame]
  <2>1. /\ Disconnect(set, Tail(tasks))
        /\ isConnecting' = [isConnecting EXCEPT ![inGame] = TRUE]
        /\ timers' = timers \cup {c}
        /\ target' = [target EXCEPT ![c] = inGame]
        /\ UNCHANGED <<clientVars, made, inGame, owner, spectators, broadcast, object>>
    BY <1>2 DEF LoginAgain, Scheduled
  <2>2. set \in SUBSET Clients
    BY <1>0, <1>2 DEF SessionTypeOK, HasOwner
  <2>. HIDE DEF set
  <2>3. /\ tasks' \in Seq(Tasks) /\ conn' \in [Clients -> {"none", "open", "closed"}]
        /\ \A d \in Clients : Closes(d) /\ Shifted(d, 1)
    BY <1>0, <2>1, <2>2, Disconnected
  <2>4. SessionTypeOK'
    <3>1. target' \in [Clients -> 0 .. MaxLives] /\ isConnecting' \in [Lives -> BOOLEAN]
      BY <1>0, <2>1 DEF SessionTypeOK, Lives, GameSessionAssumption
    <3>2. timers' \subseteq Clients
      BY <1>0, <2>1 DEF SessionTypeOK
    <3>. QED BY <1>0, <2>1, <2>3, <3>1, <3>2, TasksAre DEF SessionTypeOK, clientVars
  <2>5. player[c] = 0 /\ ~spectator[c] /\ c \notin timers
    BY FirstEntry
  <2>6. ASSUME NEW d \in Clients PROVE ClientInv(d)'
    <3>1. CASE d = c
      BY <3>1, <1>0, <2>1, <2>3, <2>5, EntryTaken DEF SessionInv, clientVars, SessionTypeOK
    <3>2. CASE d # c
      <4>1. Stays(d)
        BY <3>2, <2>1 DEF Stays, clientVars
      <4>. QED BY <4>1, <1>0, <2>3, OthersKeep DEF SessionInv
    <3>. QED BY <3>1, <3>2
  <2>7. PlayersInv'
    <3>. USE DEF SessionInv, PlayersInv, clientVars
    <3>1. OwnersAgree'
      BY <2>1, <2>3 DEF OwnersAgree, Closes
    <3>2. WatchersAgree'
      BY <2>1, <2>3 DEF WatchersAgree, Closes
    <3>3. SpectatorsAgree'
      BY <2>1, <2>3 DEF SpectatorsAgree, Closes
    <3>4. BroadcasterHasOwner'
      BY <2>1 DEF BroadcasterHasOwner
    <3>. QED BY <3>1, <3>2, <3>3, <3>4
  <2>. QED BY <2>4, <2>6, <2>7 DEF SessionInv
<1>. QED BY <1>1, <1>2

(* spectate() *)
LEMMA SpectateKeeps ==
  ASSUME SessionInv, GameSessionAssumption, tasks # <<>>, NEW c \in Clients, At(1, "spectate", c), Spectate(c)
  PROVE  SessionInv'
<1>0. SessionTypeOK /\ Enters(1, c)
  BY DEF SessionInv, Enters, Entries
<1>1. CASE ConnectionExpired(c)
  BY <1>1, NothingHappens DEF Spectate
<1>2. CASE ~ConnectionExpired(c) /\ CastRefused
  <2>1. /\ Disconnect({c}, Tail(tasks)) /\ clientVars' = clientVars /\ playerVars' = playerVars
        /\ UNCHANGED <<object, timers, target>>
    BY <1>2 DEF Spectate
  <2>2. CastsEnd
    BY <1>0, <2>1 DEF CastsEnd, playerVars, SessionTypeOK
  <2>. QED BY <2>1, <2>2, DisconnectStep DEF playerVars
<1>3. CASE ~ConnectionExpired(c) /\ ~CastRefused
  <2>1. /\ player' = [player EXCEPT ![c] = inGame]
        /\ spectator' = [spectator EXCEPT ![c] = TRUE]
        /\ accepts' = [accepts EXCEPT ![c] = TRUE]
        /\ spectators' = [spectators EXCEPT ![inGame] = @ \cup {c}]
        /\ conn' = conn /\ tasks' = Tail(tasks)
        /\ UNCHANGED <<released, made, inGame, owner, broadcast, isConnecting, object, timers, target>>
    BY <1>3 DEF Spectate
  <2>2. inGame \in Lives /\ inGame # 0 /\ inGame <= made
    BY <1>0, <1>3 DEF CastRefused, SessionTypeOK, Lives, GameSessionAssumption
  <2>3. /\ player[c] = 0 /\ ~spectator[c] /\ c \notin timers
        /\ \A m \in Lives : owner[m] # c /\ c \notin spectators[m]
    BY <1>0, FirstEntry
  <2>4. ~released[c]
    BY DEF SessionInv, ClientInv, SpectatesFirst, At
  <2>5. tasks' \in Seq(Tasks) /\ \A d \in Clients : Closes(d) /\ Shifted(d, 1)
    BY <1>0, <2>1, JustPopped
  <2>6. SessionTypeOK'
    <3>1. player' \in [Clients -> 0 .. MaxLives]
      BY <1>0, <2>1, <2>2 DEF SessionTypeOK, Lives, GameSessionAssumption
    <3>2. spectators' \in [Lives -> SUBSET Clients]
      BY <1>0, <2>1, <2>2 DEF SessionTypeOK
    <3>3. spectator' \in [Clients -> BOOLEAN] /\ accepts' \in [Clients -> BOOLEAN]
      BY <1>0, <2>1 DEF SessionTypeOK
    <3>. QED BY <1>0, <2>1, <2>5, <3>1, <3>2, <3>3, TasksAre DEF SessionTypeOK
  <2>7. ASSUME NEW d \in Clients PROVE ClientInv(d)'
    <3>1. CASE d = c
      BY <3>1, <1>0, <2>1, <2>3, <2>5, EntryTaken DEF SessionInv
    <3>2. CASE d # c
      <4>1. Stays(d)
        BY <3>2, <1>0, <2>1 DEF Stays, SessionTypeOK
      <4>. QED BY <4>1, <1>0, <2>5, OthersKeep DEF SessionInv
    <3>. QED BY <3>1, <3>2
  <2>8. PlayersInv'
    <3>. USE DEF SessionInv, PlayersInv, SessionTypeOK
    <3>1. OwnersAgree'
      BY <2>1, <2>2, <2>3 DEF OwnersAgree
    <3>2. WatchersAgree'
      BY <2>1, <2>2 DEF WatchersAgree
    <3>3. SpectatorsAgree'
      BY <2>1, <2>2, <2>3, <2>4 DEF SpectatorsAgree
    <3>4. BroadcasterHasOwner'
      BY <2>1 DEF BroadcasterHasOwner
    <3>. QED BY <3>1, <3>2, <3>3, <3>4
  <2>. QED BY <2>6, <2>7, <2>8 DEF SessionInv
<1>. QED BY <1>1, <1>2, <1>3

(* release() of a spectator, of an owner, and of neither.                  *)
LEMMA ReleaseKeeps ==
  ASSUME SessionInv, GameSessionAssumption, tasks # <<>>, NEW c \in Clients, At(1, "release", c), Release(c)
  PROVE  SessionInv'
<1>. DEFINE n == player[c]
            nobodys == n = 0 \/ (~spectator[c] /\ ~IsOwner(c, n))
<1>0. SessionTypeOK
  BY DEF SessionInv
<1>1. /\ player' = [player EXCEPT ![c] = 0]
      /\ released' = [released EXCEPT ![c] = TRUE]
      /\ UNCHANGED <<object, timers, target, spectator, accepts, made, inGame, isConnecting>>
  BY DEF Release
<1>2. \/ /\ nobodys
         /\ UNCHANGED <<owner, spectators, broadcast>> /\ conn' = conn /\ tasks' = Tail(tasks)
      \/ /\ ~nobodys /\ spectator[c]
         /\ spectators' = [spectators EXCEPT ![n] = @ \ {c}]
         /\ UNCHANGED <<owner, broadcast>> /\ conn' = conn /\ tasks' = Tail(tasks)
      \/ /\ ~nobodys /\ ~spectator[c]
         /\ GivesUp(c, n)
  BY DEF Release, StopsWatching
<1>3. n # 0 => n \in Lives
  BY <1>0 DEF SessionTypeOK, Lives, GameSessionAssumption
<1>4. conn[c] = "closed"
  BY DEF SessionInv, ClientInv, Known, At
<1>5. /\ tasks' \in Seq(Tasks) /\ conn' \in [Clients -> {"none", "open", "closed"}]
      /\ \A d \in Clients : Closes(d) /\ Shifted(d, 1)
  <2>1. CASE conn' = conn /\ tasks' = Tail(tasks)
    BY <2>1, <1>0, JustPopped DEF SessionTypeOK
  <2>2. CASE GivesUp(c, n) /\ n # 0
    <3>1. spectators[n] \in SUBSET Clients /\ Disconnect(spectators[n], Tail(tasks))
      BY <2>2, <1>0, <1>3 DEF GivesUp, SessionTypeOK
    <3>. QED BY <3>1, <1>0, Disconnected
  <2>. QED BY <1>2, <2>1, <2>2
<1>6. /\ owner' \in [Lives -> Clients \cup {NoClient}]
      /\ spectators' \in [Lives -> SUBSET Clients]
      /\ broadcast' \in [Lives -> BOOLEAN]
      /\ \A m \in Lives :
           /\ owner'[m] = IF owner[m] = c THEN NoClient ELSE owner[m]
           /\ owner[m] = c => ~broadcast'[m] /\ spectators'[m] = {}
                              /\ \A d \in spectators[m] : conn'[d] # "open"
           /\ owner[m] # c => broadcast'[m] = broadcast[m] /\ spectators'[m] = spectators[m] \ {c}
  <2>1. \A m \in Lives : owner[m] = c => m = n /\ ~spectator[c] /\ n # 0
    BY DEF SessionInv, PlayersInv, OwnersAgree, Lives, GameSessionAssumption
  <2>2. \A m \in Lives : c \in spectators[m] => m = n /\ spectator[c] /\ n # 0
    BY DEF SessionInv, PlayersInv, SpectatorsAgree, Lives, GameSessionAssumption
  <2>3. CASE nobodys /\ UNCHANGED <<owner, spectators, broadcast>>
    <3>1. \A m \in Lives : owner[m] # c /\ c \notin spectators[m]
      BY <2>1, <2>2, <2>3, <1>3 DEF IsOwner
    <3>. QED BY <3>1, <2>3, <1>0 DEF SessionTypeOK
  <2>4. CASE ~nobodys /\ spectator[c] /\ spectators' = [spectators EXCEPT ![n] = @ \ {c}]
             /\ UNCHANGED <<owner, broadcast>>
    <3>1. \A m \in Lives : owner[m] # c /\ (m # n => c \notin spectators[m])
      BY <2>1, <2>2, <2>4
    <3>. QED BY <3>1, <2>4, <1>0, <1>3 DEF SessionTypeOK
  <2>5. CASE ~nobodys /\ ~spectator[c] /\ GivesUp(c, n)
    <3>1. /\ owner[n] = c /\ n \in Lives /\ \A m \in Lives : c \notin spectators[m]
          /\ \A m \in Lives : owner[m] = c => m = n
      BY <2>1, <2>2, <2>5, <1>3 DEF IsOwner
    <3>2. /\ owner' = [owner EXCEPT ![n] = NoClient]
          /\ spectators' = [spectators EXCEPT ![n] = {}]
          /\ broadcast' = [broadcast EXCEPT ![n] = FALSE]
          /\ Disconnect(spectators[n], Tail(tasks))
      BY <2>5 DEF GivesUp, Nobody, CastEnded
    <3>3. \A d \in spectators[n] : conn'[d] # "open"
      BY <3>1, <3>2, <1>0, Disconnected DEF SessionTypeOK
    <3>. QED BY <3>1, <3>2, <3>3, <1>0 DEF SessionTypeOK
  <2>. QED BY <1>2, <2>3, <2>4, <2>5
<1>. HIDE DEF nobodys
<1>7. SessionTypeOK'
  <2>1. player' \in [Clients -> 0 .. MaxLives] /\ released' \in [Clients -> BOOLEAN]
    BY <1>0, <1>1 DEF SessionTypeOK, GameSessionAssumption
  <2>2. /\ owner' \in [Lives -> Clients \cup {NoClient}]
        /\ spectators' \in [Lives -> SUBSET Clients]
        /\ broadcast' \in [Lives -> BOOLEAN]
    BY <1>6
  <2>. QED BY <1>0, <1>1, <1>5, <2>1, <2>2, TasksAre DEF SessionTypeOK
<1>8. ASSUME NEW d \in Clients PROVE ClientInv(d)'
  <2>1. player'[d] = 0 \/ (player'[d] = player[d] /\ player[d] \in 0 .. MaxLives /\ d # c)
    BY <1>0, <1>1 DEF SessionTypeOK
  <2>2. player'[d] # 0 => player[d] \in Lives
    BY <2>1 DEF Lives, GameSessionAssumption
  <2>3. Stays(d)
    BY <2>1, <2>2, <1>0, <1>1, <1>6 DEF Stays, SessionTypeOK
  <2>. QED BY <2>3, <1>0, <1>5, OthersKeep DEF SessionInv
<1>9. PlayersInv'
  <2>. USE DEF SessionInv, PlayersInv, SessionTypeOK
  <2>0. \A d \in Clients : player[d] # 0 => player[d] \in Lives
    BY <1>0 DEF Lives, GameSessionAssumption
  <2>1. OwnersAgree'
    <3>1. \A m \in Lives : owner'[m] # NoClient => player'[owner'[m]] = m /\ ~spectator'[owner'[m]]
      BY <1>0, <1>1, <1>6 DEF OwnersAgree
    <3>2. \A d \in Clients : player'[d] <= made'
      BY <1>0, <1>1 DEF OwnersAgree
    <3>3. \A d \in Clients : player'[d] # 0 /\ ~spectator'[d] /\ conn'[d] = "open" => owner'[player'[d]] = d
      BY <1>0, <1>1, <1>5, <1>6, <2>0, ZenonT(60) DEF OwnersAgree, Closes
    <3>. QED BY <3>1, <3>2, <3>3 DEF OwnersAgree
  <2>2. WatchersAgree'
    BY <1>0, <1>1, <1>4, <1>5 DEF WatchersAgree, Closes
  <2>3. SpectatorsAgree'
    <3>. SUFFICES ASSUME NEW d \in Clients
                  PROVE  /\ \A m \in Lives : d \in spectators'[m] =>
                              spectator'[d] /\ player'[d] = m /\ ~released'[d]
                         /\ spectator'[d] /\ conn'[d] = "open" => d \in spectators'[player'[d]]
      BY DEF SpectatorsAgree
    <3>1. ASSUME NEW m \in Lives, d \in spectators'[m] PROVE d # c /\ d \in spectators[m]
      <4>1. spectators'[m] = {} \/ spectators'[m] = spectators[m] \ {c}
        BY <1>6
      <4>. QED BY <3>1, <4>1
    <3>2. \A m \in Lives : d \in spectators'[m] => spectator'[d] /\ player'[d] = m /\ ~released'[d]
      BY <3>1, <1>0, <1>1 DEF SpectatorsAgree
    <3>3. ASSUME spectator'[d], conn'[d] = "open" PROVE d \in spectators'[player'[d]]
      <4>1. conn[d] = "open" /\ spectator[d] /\ d # c
        BY <3>3, <1>1, <1>4, <1>5 DEF Closes
      <4>2. player[d] \in Lives /\ d \in spectators[player[d]]
        BY <4>1, <2>0 DEF WatchersAgree, SpectatorsAgree
      <4>3. player'[d] = player[d]
        BY <4>1, <1>0, <1>1
      <4>. QED BY <4>1, <4>2, <4>3, <3>3, <1>6
    <3>. QED BY <3>2, <3>3
  <2>4. BroadcasterHasOwner'
    BY <1>6 DEF BroadcasterHasOwner
  <2>. QED BY <2>1, <2>2, <2>3, <2>4
<1>. QED BY <1>7, <1>8, <1>9 DEF SessionInv

(* logout(), kickPlayer(), sendPing(): a player leaves the game.           *)
LEMMA RemovePlayerKeeps ==
  ASSUME SessionInv, GameSessionAssumption, NEW n \in Lives, NEW closing \in SUBSET Clients,
         NEW k \in {0, 1}, k = 1 => tasks # <<>>,
         RemovePlayer(n, closing, IF k = 1 THEN Tail(tasks) ELSE tasks)
  PROVE  SessionInv'
<1>. DEFINE set == closing \cup spectators[n]
            queue == IF k = 1 THEN Tail(tasks) ELSE tasks
<1>0. SessionTypeOK
  BY DEF SessionInv
<1>1. /\ Disconnect(set, queue)
      /\ spectators' = [spectators EXCEPT ![n] = {}]
      /\ broadcast' = [broadcast EXCEPT ![n] = FALSE]
      /\ inGame' \in {0, inGame}
      /\ UNCHANGED <<object, timers, target, clientVars, made, owner, isConnecting>>
  BY DEF RemovePlayer, CastEnded
<1>2. set \in SUBSET Clients
  BY <1>0 DEF SessionTypeOK
<1>3. \A d \in set : conn'[d] # "open"
  BY <1>0, <1>1, <1>2, Disconnected
<1>4. CastsEnd
  BY <1>0, <1>1, <1>3 DEF CastsEnd, SessionTypeOK
<1>. HIDE DEF set
<1>. QED BY <1>1, <1>2, <1>4, DisconnectStep

LEMMA SessionLogoutKeeps ==
  ASSUME SessionInv, GameSessionAssumption, tasks # <<>>, NEW c \in Clients, Logout(c)
  PROVE  SessionInv'
<1>1. CASE player[c] # 0 /\ RemovePlayer(player[c], {c}, Tail(tasks))
  <2>1. player[c] \in Lives
    BY <1>1 DEF SessionInv, SessionTypeOK, Lives, GameSessionAssumption
  <2>. QED BY <1>1, <2>1, RemovePlayerKeeps
<1>2. CASE tasks' = Tail(tasks) /\ UNCHANGED <<conn, object, timers, target, clientVars, playerVars>>
  BY <1>2, NothingHappens
<1>. QED BY <1>1, <1>2 DEF Logout

(* setBroadcast(): a cast ends, or begins for a player that has an owner.  *)
LEMMA SetBroadcastKeeps ==
  ASSUME SessionInv, GameSessionAssumption, tasks # <<>>, NEW c \in Clients, At(1, "cast", c), SetBroadcast(c)
  PROVE  SessionInv'
<1>0. SessionTypeOK
  BY DEF SessionInv
<1>1. UNCHANGED <<object, timers, target, clientVars, made, inGame, owner, isConnecting>>
  BY DEF SetBroadcast
<1>2. CASE player[c] = 0 \/ player[c] # inGame
  BY <1>1, <1>2, NothingHappens DEF SetBroadcast, playerVars
<1>3. CASE player[c] # 0 /\ player[c] = inGame /\ broadcast[inGame]
  <2>1. /\ Disconnect(spectators[inGame], Tail(tasks))
        /\ spectators' = [spectators EXCEPT ![inGame] = {}]
        /\ broadcast' = [broadcast EXCEPT ![inGame] = FALSE]
    BY <1>3 DEF SetBroadcast, CastEnded
  <2>2. inGame \in Lives
    BY <1>0, <1>3 DEF SessionTypeOK, Lives, GameSessionAssumption
  <2>3. spectators[inGame] \in SUBSET Clients
    BY <1>0, <2>2 DEF SessionTypeOK
  <2>4. \A d \in spectators[inGame] : conn'[d] # "open"
    BY <1>0, <2>1, <2>3, Disconnected
  <2>5. CastsEnd
    BY <1>0, <2>1, <2>2, <2>4 DEF CastsEnd, SessionTypeOK
  <2>. QED BY <1>1, <2>1, <2>3, <2>5, DisconnectStep
<1>4. CASE player[c] # 0 /\ player[c] = inGame /\ ~broadcast[inGame]
  <2>1. /\ broadcast' = [broadcast EXCEPT ![inGame] = TRUE]
        /\ UNCHANGED <<conn, spectators>> /\ tasks' = Tail(tasks)
    BY <1>4 DEF SetBroadcast
  <2>2. inGame \in Lives
    BY <1>0, <1>4 DEF SessionTypeOK, Lives, GameSessionAssumption
  <2>3. owner[inGame] = c /\ c # NoClient
    BY <1>4 DEF SessionInv, ClientInv, CasterOwns, At, GameSessionAssumption
  <2>4. CastsEnd
    BY <1>0, <2>1, <2>2, <2>3 DEF CastsEnd, SessionTypeOK
  <2>5. tasks' \in Seq(Tasks) /\ \A d \in Clients : Closes(d) /\ Shifted(d, 1)
    BY <1>0, <2>1, JustPopped
  <2>. QED BY <1>0, <1>1, <2>1, <2>4, <2>5, QuietStep DEF SessionTypeOK
<1>. QED BY <1>2, <1>3, <1>4

(* A task of its own of a client; nothing else changes but its connection, *)
(* which may open, and its timer, which may be gone.                       *)
LEMMA OwnTaskStep ==
  ASSUME SessionInv, GameSessionAssumption, NEW k \in Kinds, NEW c \in Clients,
         tasks' = Append(tasks, <<k, c>>), ClientInv(c)',
         \A d \in Clients \ {c} : conn'[d] = conn[d] /\ (d \in timers' <=> d \in timers),
         conn'[c] = conn[c] \/ (conn'[c] = "open" /\ player[c] = 0 /\ ~spectator[c]),
         conn' \in [Clients -> {"none", "open", "closed"}], timers' \subseteq Clients,
         UNCHANGED <<object, target, clientVars, playerVars>>
  PROVE  SessionInv'
<1>0. SessionTypeOK
  BY DEF SessionInv
<1>1. tasks' \in Seq(Tasks) /\ \A d \in Clients \ {c} : Closes(d) /\ Shifted(d, 0)
  BY <1>0, Appended
<1>2. SessionTypeOK'
  BY <1>0, <1>1, TasksAre DEF SessionTypeOK, clientVars, playerVars
<1>3. ASSUME NEW d \in Clients \ {c} PROVE ClientInv(d)'
  <2>1. Stays(d)
    BY DEF Stays, clientVars, playerVars
  <2>. QED BY <2>1, <1>0, <1>1, OthersKeep DEF SessionInv
<1>4. PlayersInv'
  BY DEF SessionInv, PlayersInv, OwnersAgree, WatchersAgree, SpectatorsAgree, BroadcasterHasOwner, clientVars, playerVars
<1>. QED BY <1>2, <1>3, <1>4 DEF SessionInv

LEMMA FirstMessageKeeps ==
  ASSUME SessionInv, GameSessionAssumption, NEW c \in Clients, NEW k \in {"login", "spectate"}, FirstMessage(c, k)
  PROVE  SessionInv'
<1>1. /\ conn[c] = "none" /\ conn' = [conn EXCEPT ![c] = "open"]
      /\ tasks' = Append(tasks, <<k, c>>)
      /\ UNCHANGED <<object, timers, target, clientVars, playerVars>>
  BY DEF FirstMessage
<1>2. /\ player[c] = 0 /\ ~spectator[c] /\ c \notin timers
      /\ \A i \in DOMAIN tasks : ~Enters(i, c) /\ ~At(i, "cast", c)
  BY <1>1 DEF SessionInv, ClientInv, Known, Enters, At
<1>3. SessionTypeOK /\ ClientInv(c) /\ k \in Kinds /\ k \in Entries /\ k # "connect" /\ k # "release"
  BY DEF SessionInv, Kinds, Entries
<1>4. /\ conn' \in [Clients -> {"none", "open", "closed"}] /\ conn'[c] = "open"
      /\ \A d \in Clients \ {c} : conn'[d] = conn[d]
  BY <1>1, <1>3 DEF SessionTypeOK
<1>5. ClientInv(c)'
  BY <1>1, <1>2, <1>3, <1>4, OwnTask DEF playerVars
<1>. QED BY <1>1, <1>2, <1>3, <1>4, <1>5, OwnTaskStep DEF SessionTypeOK

LEMMA PacketKeeps ==
  ASSUME SessionInv, GameSessionAssumption, NEW c \in Clients, NEW k \in {"logout", "cast"}, Packet(c, k)
  PROVE  SessionInv'
<1>1. /\ conn[c] = "open" /\ player[c] # 0 /\ ~spectator[c]
      /\ tasks' = Append(tasks, <<k, c>>)
      /\ UNCHANGED <<conn, object, timers, target, clientVars, playerVars>>
  BY DEF Packet
<1>2. owner[player[c]] = c
  BY <1>1 DEF SessionInv, PlayersInv, OwnersAgree
<1>3. SessionTypeOK /\ ClientInv(c) /\ k \in Kinds /\ k \notin Entries /\ k # "release"
  BY DEF SessionInv, Kinds, Entries
<1>4. ClientInv(c)'
  BY <1>1, <1>2, <1>3, OwnTask DEF playerVars
<1>. QED BY <1>1, <1>3, <1>4, OwnTaskStep DEF SessionTypeOK

LEMMA TimerFiresKeeps ==
  ASSUME SessionInv, GameSessionAssumption, NEW c \in Clients, TimerFires(c)
  PROVE  SessionInv'
<1>1. /\ c \in timers /\ timers' = timers \ {c}
      /\ tasks' = Append(tasks, <<"connect", c>>)
      /\ UNCHANGED <<conn, object, target, clientVars, playerVars>>
  BY DEF TimerFires
<1>2. SessionTypeOK /\ ClientInv(c) /\ "connect" \in Kinds /\ "connect" \in Entries
  BY DEF SessionInv, Kinds, Entries
<1>3. /\ player[c] = 0 /\ ~spectator[c] /\ target[c] # 0 /\ conn[c] # "none"
      /\ \A i \in DOMAIN tasks : ~Enters(i, c) /\ ~At(i, "cast", c)
  BY <1>1, <1>2 DEF ClientInv, Known, EntersOnce, CasterOwns
<1>4. ClientInv(c)'
  BY <1>1, <1>2, <1>3, OwnTask DEF playerVars
<1>. QED BY <1>1, <1>2, <1>3, <1>4, OwnTaskStep DEF SessionTypeOK

-----------------------------------------------------------------------------
LEMMA RunTaskKeeps == ASSUME SessionInv, GameSessionAssumption, RunTask PROVE SessionInv'
<1>. DEFINE c == Head(tasks)[2]
<1>1. /\ tasks # <<>> /\ c \in Clients /\ SessionTypeOK
      /\ \A k : Head(tasks)[1] = k => At(1, k, c)
  BY Popped DEF RunTask, SessionInv, At
<1>2. \A k \in Entries : Head(tasks)[1] = k => Enters(1, c)
  BY <1>1 DEF Enters
<1>3. Enters(1, c) /\ At(1, "connect", c) => target[c] # 0
  BY <1>1, FirstEntry
<1>. HIDE DEF c
<1>4. CASE Head(tasks)[1] = "login" /\ inGame = 0 /\ LoginNew(c)
  BY <1>1, <1>2, <1>4, LoginNewKeeps DEF Entries
<1>5. CASE Head(tasks)[1] = "login" /\ inGame # 0 /\ LoginAgain(c)
  BY <1>1, <1>2, <1>5, LoginAgainKeeps DEF Entries
<1>6. CASE Head(tasks)[1] = "spectate" /\ Spectate(c)
  BY <1>1, <1>6, SpectateKeeps
<1>7. CASE Head(tasks)[1] = "connect" /\ Connect(c, target[c], Tail(tasks)) /\ UNCHANGED <<object, timers, target>>
  <2>1. Enters(1, c) /\ target[c] # 0
    BY <1>1, <1>2, <1>3, <1>7 DEF Entries
  <2>2. target[c] \in Lives
    BY <1>1, <2>1 DEF SessionTypeOK, Lives, GameSessionAssumption
  <2>. QED BY <1>1, <1>7, <2>1, <2>2, ConnectKeeps
<1>8. CASE Head(tasks)[1] = "release" /\ Release(c)
  BY <1>1, <1>8, ReleaseKeeps
<1>9. CASE Head(tasks)[1] = "logout" /\ Logout(c)
  BY <1>1, <1>9, SessionLogoutKeeps
<1>10. CASE Head(tasks)[1] = "cast" /\ SetBroadcast(c)
  BY <1>1, <1>10, SetBroadcastKeeps
<1>. QED BY <1>4, <1>5, <1>6, <1>7, <1>8, <1>9, <1>10 DEF RunTask, c

LEMMA SessionInitHolds == GameSessionAssumption /\ SessionInit => SessionInv
<1>. SUFFICES ASSUME GameSessionAssumption, SessionInit PROVE SessionInv
  OBVIOUS
<1>. USE DEF SessionInit, GameSessionAssumption
<1>1. SessionTypeOK
  BY DEF SessionTypeOK
<1>2. \A c \in Clients : ClientInv(c)
  BY DEF ClientInv, Known, EntersOnce, SpectatesFirst, CasterOwns
<1>3. PlayersInv
  BY DEF PlayersInv, OwnersAgree, WatchersAgree, SpectatorsAgree, BroadcasterHasOwner, Lives
<1>. QED BY <1>1, <1>2, <1>3 DEF SessionInv

LEMMA SessionNextKeeps == GameSessionAssumption /\ SessionInv /\ [SessionNext]_sessionVars => SessionInv'
<1>. SUFFICES ASSUME GameSessionAssumption, SessionInv, [SessionNext]_sessionVars PROVE SessionInv'
  OBVIOUS
<1>0. SessionTypeOK
  BY DEF SessionInv
<1>1. CASE RunTask
  BY <1>1, RunTaskKeeps
<1>2. CASE NoPong \/ KickPlayer
  <2>1. /\ inGame # 0 /\ RemovePlayer(inGame, {owner[inGame]} \ {NoClient}, tasks)
    BY <1>2 DEF NoPong, KickPlayer
  <2>2. inGame \in Lives
    BY <1>0, <2>1 DEF SessionTypeOK, Lives, GameSessionAssumption
  <2>3. {owner[inGame]} \ {NoClient} \in SUBSET Clients
    BY <1>0, <2>2 DEF SessionTypeOK
  <2>. QED BY <2>1, <2>2, <2>3, RemovePlayerKeeps
<1>3. CASE Death
  <2>1. tasks' \in Seq(Tasks) /\ \A d \in Clients : Closes(d) /\ Shifted(d, 0)
    BY <1>0, <1>3, QueueUnchanged DEF Death
  <2>2. CastsEnd
    BY <1>0, <1>3 DEF Death, CastsEnd, SessionTypeOK
  <2>. QED BY <1>0, <1>3, <2>1, <2>2, QuietStep DEF Death, SessionTypeOK
<1>4. ASSUME NEW c \in Clients, FirstMessage(c, "login") \/ FirstMessage(c, "spectate") PROVE SessionInv'
  BY <1>4, FirstMessageKeeps
<1>5. ASSUME NEW c \in Clients, Packet(c, "logout") \/ Packet(c, "cast") PROVE SessionInv'
  BY <1>5, PacketKeeps
<1>6. ASSUME NEW c \in Clients, PeerCloses(c) PROVE SessionInv'
  <2>1. /\ Disconnect({c}, tasks)
        /\ UNCHANGED <<object, timers, target, clientVars, playerVars>>
    BY <1>6 DEF PeerCloses
  <2>2. CastsEnd
    BY <1>0, <2>1 DEF CastsEnd, playerVars, SessionTypeOK
  <2>. QED BY <2>1, <2>2, DisconnectStep DEF playerVars
<1>7. ASSUME NEW c \in Clients, ObjectGoes(c) PROVE SessionInv'
  <2>1. /\ object' = [object EXCEPT ![c] = FALSE]
        /\ UNCHANGED <<conn, tasks, timers, target, clientVars, playerVars>>
    BY <1>7 DEF ObjectGoes
  <2>2. tasks' \in Seq(Tasks) /\ \A d \in Clients : Closes(d) /\ Shifted(d, 0)
    BY <1>0, <2>1, QueueUnchanged
  <2>3. CastsEnd
    BY <1>0, <2>1 DEF CastsEnd, playerVars, SessionTypeOK
  <2>. QED BY <1>0, <2>1, <2>2, <2>3, QuietStep DEF playerVars, SessionTypeOK
<1>8. ASSUME NEW c \in Clients, TimerFires(c) PROVE SessionInv'
  BY <1>8, TimerFiresKeeps
<1>9. CASE UNCHANGED sessionVars
  <2>1. tasks' \in Seq(Tasks) /\ \A d \in Clients : Closes(d) /\ Shifted(d, 0)
    BY <1>0, <1>9, QueueUnchanged DEF sessionVars
  <2>2. CastsEnd
    BY <1>0, <1>9 DEF sessionVars, playerVars, CastsEnd, SessionTypeOK
  <2>. QED BY <1>0, <1>9, <2>1, <2>2, QuietStep DEF sessionVars, playerVars, SessionTypeOK
<1>. QED BY <1>1, <1>2, <1>3, <1>4, <1>5, <1>6, <1>7, <1>8, <1>9 DEF SessionNext

(* Two clients never control a player: an open client that plays is the    *)
(* owner, and a player has one.                                            *)
LEMMA AgreementFollows == GameSessionAssumption /\ SessionInv => SessionAgrees
<1>. SUFFICES ASSUME GameSessionAssumption, SessionInv PROVE SessionAgrees
  OBVIOUS
<1>1. OneClientControls
  BY DEF SessionInv, PlayersInv, OwnersAgree, OneClientControls
<1>. QED BY <1>1 DEF SessionInv, PlayersInv, SessionAgrees

(* Whatever the order in which clients log in, take over, cast, watch, are *)
(* kicked or lose their connection, login(), connect(), spectate(),        *)
(* logout() and release() leave the pointers of clients and players in     *)
(* agreement: one client controls a player, spectators are where they are  *)
(* listed and none is a protocol that was released, and who broadcasts has *)
(* an owner.                                                               *)
THEOREM SessionStaysAgreed ==
  ASSUME GameSessionAssumption
  PROVE  SessionSpec => []SessionAgrees
<1>1. SessionInit => SessionInv
  BY SessionInitHolds
<1>2. SessionInv /\ [SessionNext]_sessionVars => SessionInv'
  BY SessionNextKeeps
<1>3. SessionInv => SessionAgrees
  BY AgreementFollows
<1>. QED BY <1>1, <1>2, <1>3, PTL DEF SessionSpec

-----------------------------------------------------------------------------
(* Party.                                                                  *)

NoneTwice(s) == \A m, n \in DOMAIN s : s[m] = s[n] => m = n

(* The object of a party that exists; its cache says what would be computed. *)
WellFormed(pt) == /\ pt \in Objects /\ pt.leader \in Players
                  /\ pt.leader \notin InSeq(pt.members) /\ NoneTwice(pt.members)

Settled(pt, lv, zn) == pt.active /\ ~pt.stale => pt.enabled = CanEnable(pt, lv, zn)

(* All that refers to a party, while it exists and when it does not.       *)
Alive(g) ==
  /\ WellFormed(heap[g]) /\ Settled(heap[g], level, zone) /\ ~Empty(heap[g])
  /\ \A p \in Players : /\ party[p] = g <=> p \in Everybody(heap[g])
                        /\ g \in invitations[p] <=> p \in heap[g].invites
                        /\ p \in Everybody(heap[g]) \cup heap[g].invites => p \in online
                        /\ p \notin Everybody(heap[g]) \cap heap[g].invites

Gone(g) == heap[g] = Free /\ \A p \in Players : party[p] # g /\ g \notin invitations[p]

VarTypes == /\ online \subseteq Players
            /\ level \in [Players -> Levels] /\ zone \in [Players -> Zones]
            /\ party \in [Players -> Parties \cup {NoParty}]
            /\ invitations \in [Players -> SUBSET Parties]
            /\ DOMAIN heap = Parties /\ heap = [g \in Parties |-> heap[g]]

(* The inductive invariant: what the runs check, party by party, and that  *)
(* nothing is left in an object that was deleted.                          *)
PartiesInv == VarTypes /\ \A g \in Parties : Alive(g) \/ Gone(g)

-----------------------------------------------------------------------------
(* find() and erase() of a list that holds nobody twice.                   *)
LEMMA WithoutFacts ==
  ASSUME NEW S, NEW s \in Seq(S), NoneTwice(s), NEW p
  PROVE  /\ Without(s, p) \in Seq(S)
         /\ InSeq(Without(s, p)) = InSeq(s) \ {p}
         /\ NoneTwice(Without(s, p))
         /\ s # <<>> /\ p = s[1] => Without(s, p) = Tail(s)
<1>1. CASE p \notin InSeq(s)
  <2>1. Without(s, p) = s
    BY <1>1 DEF Without
  <2>2. s # <<>> => s[1] \in InSeq(s)
    BY DEF InSeq
  <2>. QED BY <1>1, <2>1, <2>2
<1>2. CASE p \in InSeq(s)
  <2>. DEFINE i == CHOOSE n \in DOMAIN s : s[n] = p /\ \A m \in 1 .. (n - 1) : s[m] # p
              t == SubSeq(s, 1, i - 1) \o SubSeq(s, i + 1, Len(s))
  <2>1. i \in DOMAIN s /\ s[i] = p
    <3>1. PICK n \in DOMAIN s : s[n] = p
      BY <1>2 DEF InSeq
    <3>2. \A m \in 1 .. (n - 1) : s[m] # p
      BY <3>1 DEF NoneTwice
    <3>. QED BY <3>1, <3>2
  <2>2. Without(s, p) = t
    BY <1>2 DEF Without
  <2>. HIDE DEF i
  <2>3. i \in 1 .. Len(s) /\ Len(s) \in Nat
    BY <2>1
  <2>4. /\ t \in Seq(S) /\ Len(t) = Len(s) - 1
        /\ \A k \in 1 .. (Len(s) - 1) : t[k] = IF k < i THEN s[k] ELSE s[k + 1]
    <3>. DEFINE a == SubSeq(s, 1, i - 1)
                b == SubSeq(s, i + 1, Len(s))
    <3>1. a \in Seq(S) /\ Len(a) = i - 1 /\ \A k \in 1 .. (i - 1) : a[k] = s[k]
      BY <2>3
    <3>2. b \in Seq(S) /\ Len(b) = Len(s) - i /\ \A k \in 1 .. (Len(s) - i) : b[k] = s[k + i]
      BY <2>3
    <3>. HIDE DEF a, b
    <3>3. t = a \o b
      BY DEF a, b
    <3>. HIDE DEF t
    <3>4. /\ t \in Seq(S) /\ Len(t) = Len(s) - 1
          /\ \A k \in 1 .. (Len(s) - 1) : t[k] = IF k < i THEN a[k] ELSE b[k - (i - 1)]
      <4>1. t \in Seq(S) /\ Len(t) = Len(a) + Len(b)
        BY <3>1, <3>2, <3>3
      <4>2. \A k \in 1 .. (Len(a) + Len(b)) : t[k] = IF k <= Len(a) THEN a[k] ELSE b[k - Len(a)]
        BY <3>1, <3>2, <3>3
      <4>3. Len(a) = i - 1 /\ Len(b) = Len(s) - i /\ Len(a) + Len(b) = Len(s) - 1
        BY <2>3, <3>1, <3>2
      <4>4. \A k \in 1 .. (Len(s) - 1) : k < i <=> k <= i - 1
        BY <2>3
      <4>. QED BY <4>1, <4>2, <4>3, <4>4
    <3>5. ASSUME NEW k \in 1 .. (Len(s) - 1) PROVE t[k] = IF k < i THEN s[k] ELSE s[k + 1]
      <4>1. CASE k < i
        BY <4>1, <2>3, <3>1, <3>4
      <4>2. CASE k >= i
        <5>1. k - (i - 1) \in 1 .. (Len(s) - i) /\ (k - (i - 1)) + i = k + 1
          BY <4>2, <2>3
        <5>. QED BY <4>2, <5>1, <2>3, <3>2, <3>4
      <4>. QED BY <4>1, <4>2, <2>3
    <3>. QED BY <3>4, <3>5
  <2>. HIDE DEF t
  <2>5. \A k \in DOMAIN s : s[k] = p => k = i
    BY <2>1 DEF NoneTwice
  <2>6. InSeq(t) = InSeq(s) \ {p}
    <3>1. ASSUME NEW x \in InSeq(t) PROVE x \in InSeq(s) \ {p}
      <4>1. PICK k \in 1 .. (Len(s) - 1) : x = t[k]
        BY <2>3, <2>4 DEF InSeq
      <4>2. CASE k < i
        BY <4>1, <4>2, <2>3, <2>4, <2>5 DEF InSeq
      <4>3. CASE k >= i
        BY <4>1, <4>3, <2>3, <2>4, <2>5 DEF InSeq
      <4>. QED BY <4>2, <4>3, <2>3
    <3>2. ASSUME NEW x \in InSeq(s) \ {p} PROVE x \in InSeq(t)
      <4>1. PICK k \in 1 .. Len(s) : x = s[k]
        BY <3>2 DEF InSeq
      <4>2. k # i
        BY <4>1, <3>2, <2>1
      <4>3. CASE k < i
        BY <4>1, <4>3, <2>3, <2>4 DEF InSeq
      <4>4. CASE k > i
        <5>1. k - 1 \in 1 .. (Len(s) - 1) /\ t[k - 1] = s[k]
          BY <4>4, <2>3, <2>4
        <5>. QED BY <5>1, <4>1, <2>3, <2>4 DEF InSeq
      <4>. QED BY <4>2, <4>3, <4>4, <2>3
    <3>. QED BY <3>1, <3>2
  <2>7. NoneTwice(t)
    <3>. SUFFICES ASSUME NEW m \in 1 .. (Len(s) - 1), NEW n \in 1 .. (Len(s) - 1), t[m] = t[n]
                  PROVE  m = n
      BY <2>3, <2>4 DEF NoneTwice
    <3>1. PICK a \in DOMAIN s : t[m] = s[a] /\ a = IF m < i THEN m ELSE m + 1
      BY <2>3, <2>4
    <3>2. PICK b \in DOMAIN s : t[n] = s[b] /\ b = IF n < i THEN n ELSE n + 1
      BY <2>3, <2>4
    <3>3. a = b
      BY <3>1, <3>2 DEF NoneTwice
    <3>. QED BY <3>1, <3>2, <3>3, <2>3
  <2>8. p = s[1] => t = Tail(s)
    <3>. SUFFICES ASSUME p = s[1] PROVE t = Tail(s)
      OBVIOUS
    <3>1. i = 1
      BY <2>3, <2>5
    <3>2. \A k \in 1 .. (Len(s) - 1) : t[k] = Tail(s)[k]
      BY <3>1, <2>3, <2>4
    <3>3. Tail(s) \in Seq(S) /\ Len(Tail(s)) = Len(s) - 1
      BY <2>3
    <3>. QED BY <3>2, <3>3, <2>4, <2>3
  <2>. QED BY <2>2, <2>4, <2>6, <2>7, <2>8
<1>. QED BY <1>1, <1>2

LEMMA AppendFacts ==
  ASSUME NEW S, NEW s \in Seq(S), NoneTwice(s), NEW p \in S, p \notin InSeq(s)
  PROVE  /\ Append(s, p) \in Seq(S)
         /\ InSeq(Append(s, p)) = InSeq(s) \cup {p}
         /\ NoneTwice(Append(s, p))
         /\ <<p>> \o s \in Seq(S)
         /\ InSeq(<<p>> \o s) = InSeq(s) \cup {p}
         /\ NoneTwice(<<p>> \o s)
<1>1. /\ Append(s, p) \in Seq(S) /\ Len(Append(s, p)) = Len(s) + 1 /\ Len(s) \in Nat
      /\ \A k \in 1 .. Len(s) : Append(s, p)[k] = s[k] /\ s[k] # p
      /\ Append(s, p)[Len(s) + 1] = p
  BY DEF InSeq
<1>2. /\ <<p>> \o s \in Seq(S) /\ Len(<<p>> \o s) = Len(s) + 1
      /\ \A k \in 1 .. Len(s) : (<<p>> \o s)[k + 1] = s[k]
      /\ (<<p>> \o s)[1] = p
  <2>1. <<p>> \in Seq(S) /\ Len(<<p>>) = 1 /\ <<p>>[1] = p
    OBVIOUS
  <2>. QED BY <2>1
<1>3. InSeq(Append(s, p)) = InSeq(s) \cup {p} /\ NoneTwice(Append(s, p))
  <2>. DEFINE t == Append(s, p)
  <2>1. DOMAIN t = 1 .. (Len(s) + 1) /\ DOMAIN s = 1 .. Len(s)
    BY <1>1
  <2>. HIDE DEF t
  <2>2. \A k \in DOMAIN t : k \in DOMAIN s \/ k = Len(s) + 1
    BY <2>1, <1>1
  <2>. QED BY <2>1, <2>2, <1>1 DEF InSeq, NoneTwice, t
<1>4. InSeq(<<p>> \o s) = InSeq(s) \cup {p}
  <2>. DEFINE t == <<p>> \o s
  <2>1. DOMAIN t = 1 .. (Len(s) + 1) /\ DOMAIN s = 1 .. Len(s)
    BY <1>2
  <2>2. \A k \in DOMAIN t : k = 1 \/ (k - 1 \in DOMAIN s /\ t[k] = s[k - 1])
    BY <2>1, <1>1, <1>2
  <2>3. \A k \in DOMAIN s : k + 1 \in DOMAIN t /\ t[k + 1] = s[k]
    BY <2>1, <1>1, <1>2
  <2>4. 1 \in DOMAIN t /\ t[1] = p
    BY <2>1, <1>1, <1>2
  <2>. HIDE DEF t
  <2>5. ASSUME NEW x \in InSeq(t) PROVE x \in InSeq(s) \cup {p}
    <3>1. PICK k \in DOMAIN t : x = t[k]
      BY <2>5 DEF InSeq
    <3>. QED BY <3>1, <2>2, <2>4 DEF InSeq
  <2>6. ASSUME NEW x \in InSeq(s) \cup {p} PROVE x \in InSeq(t)
    <3>1. CASE x = p
      BY <3>1, <2>4 DEF InSeq
    <3>2. CASE x \in InSeq(s)
      <4>1. PICK k \in DOMAIN s : x = s[k]
        BY <3>2 DEF InSeq
      <4>. QED BY <4>1, <2>3 DEF InSeq
    <3>. QED BY <3>1, <3>2, <2>6
  <2>. QED BY <2>5, <2>6 DEF t
<1>5. NoneTwice(<<p>> \o s)
  <2>. DEFINE t == <<p>> \o s
  <2>1. DOMAIN t = 1 .. (Len(s) + 1) /\ DOMAIN s = 1 .. Len(s) /\ t[1] = p
    BY <1>2
  <2>2. \A k \in DOMAIN t : k # 1 => k - 1 \in DOMAIN s /\ t[k] = s[k - 1] /\ t[k] # p
    BY <2>1, <1>1, <1>2
  <2>. HIDE DEF t
  <2>3. ASSUME NEW m \in DOMAIN t, NEW n \in DOMAIN t, t[m] = t[n] PROVE m = n
    <3>1. m = 1 <=> n = 1
      BY <2>1, <2>2, <2>3
    <3>2. CASE m # 1
      <4>1. m - 1 = n - 1
        BY <2>2, <2>3, <3>1, <3>2 DEF NoneTwice
      <4>. QED BY <4>1, <2>1, <1>1
    <3>. QED BY <3>1, <3>2
  <2>. QED BY <2>3 DEF NoneTwice, t
<1>. QED BY <1>1, <1>2, <1>3, <1>4, <1>5

-----------------------------------------------------------------------------
(* Who is in a party and who is invited: all that matters of an object     *)
(* besides its cache.                                                      *)
SameParty(u, pt) == /\ u.leader = pt.leader /\ u.members = pt.members
                    /\ u.invites = pt.invites

(* The cache does not enter into what would be computed.                   *)
LEMMA CanEnableSame ==
  ASSUME NEW u, NEW pt, NEW lv, NEW zn, SameParty(u, pt), u.ticks = pt.ticks
  PROVE  CanEnable(u, lv, zn) = CanEnable(pt, lv, zn)
BY DEF CanEnable, CanUse, Everybody, SameParty

(* updateSharedExperience() changes the cache alone and brings it up to    *)
(* date.                                                                   *)
LEMMA UpdatedFacts ==
  ASSUME NEW pt \in Objects, NEW lv, NEW zn
  PROVE  /\ Updated(pt, lv, zn) \in Objects
         /\ SameParty(Updated(pt, lv, zn), pt)
         /\ Updated(pt, lv, zn).ticks = pt.ticks
         /\ Settled(Updated(pt, lv, zn), lv, zn)
<1>1. CASE ~pt.active
  BY <1>1 DEF Updated, Settled, SameParty
<1>2. CASE pt.active
  <2>. DEFINE b == CanEnable(pt, lv, zn)
              u == [pt EXCEPT !.enabled = b, !.stale = FALSE]
  <2>1. b \in BOOLEAN
    BY DEF CanEnable
  <2>2. Updated(pt, lv, zn) = u
    BY <1>2 DEF Updated
  <2>. HIDE DEF b
  <2>3. /\ u \in Objects /\ SameParty(u, pt) /\ u.ticks = pt.ticks /\ u.enabled = b
    BY <2>1 DEF Objects, SameParty
  <2>. HIDE DEF u
  <2>4. CanEnable(u, lv, zn) = b
    BY <2>3, CanEnableSame DEF b
  <2>5. Settled(u, lv, zn)
    BY <2>3, <2>4 DEF Settled
  <2>. QED BY <2>2, <2>3, <2>5
<1>. QED BY <1>1, <1>2

(* clearPlayerPoints() *)
LEMMA PointsFacts ==
  ASSUME NEW pt \in Objects, NEW p \in Players, Settled(pt, level, zone)
  PROVE  /\ WithoutPoints(pt, p) \in Objects
         /\ SameParty(WithoutPoints(pt, p), pt)
         /\ Settled(WithoutPoints(pt, p), level, zone)
<1>1. CASE p \notin pt.ticks
  BY <1>1 DEF WithoutPoints, SameParty
<1>2. CASE p \in pt.ticks
  <2>. DEFINE u == [pt EXCEPT !.ticks = @ \ {p}]
  <2>1. u \in Objects /\ SameParty(u, pt)
    BY DEF Objects, SameParty
  <2>2. WithoutPoints(pt, p) = Updated(u, level, zone)
    BY <1>2 DEF WithoutPoints, UpdatedNow
  <2>. HIDE DEF u
  <2>. QED BY <2>1, <2>2, UpdatedFacts DEF SameParty
<1>. QED BY <1>1, <1>2

(* passPartyLeadership(): the same people with another leader. *)
LEMMA PassedFacts ==
  ASSUME NEW pt, WellFormed(pt), NEW q \in InSeq(pt.members)
  PROVE  LET u == Passed(pt, q)
         IN  /\ WellFormed(u) /\ Settled(u, level, zone)
             /\ Everybody(u) = Everybody(pt) /\ u.invites = pt.invites
             /\ u.leader = q /\ u.members = <<pt.leader>> \o Without(pt.members, q)
<1>. DEFINE ms == <<pt.leader>> \o Without(pt.members, q)
            v == [pt EXCEPT !.leader = q, !.members = ms]
            u == Updated(v, level, zone)
<1>1. /\ pt \in Objects /\ pt.leader \in Players /\ pt.members \in Seq(Players)
      /\ pt.leader \notin InSeq(pt.members) /\ NoneTwice(pt.members) /\ q \in Players
  BY DEF WellFormed, Objects, InSeq
<1>2. Passed(pt, q) = u
  BY DEF Passed, UpdatedNow, OldLeader
<1>3. /\ Without(pt.members, q) \in Seq(Players)
      /\ InSeq(Without(pt.members, q)) = InSeq(pt.members) \ {q}
      /\ NoneTwice(Without(pt.members, q))
  BY <1>1, WithoutFacts
<1>4. /\ ms \in Seq(Players) /\ InSeq(ms) = (InSeq(pt.members) \ {q}) \cup {pt.leader}
      /\ NoneTwice(ms)
  BY <1>1, <1>3, AppendFacts
<1>. HIDE DEF ms
<1>5. v \in Objects /\ v.leader = q /\ v.members = ms /\ v.invites = pt.invites
  BY <1>1, <1>4 DEF Objects
<1>. HIDE DEF v
<1>6. u \in Objects /\ SameParty(u, v) /\ Settled(u, level, zone)
  BY <1>5, UpdatedFacts
<1>. HIDE DEF u
<1>7. u.leader = q /\ u.members = ms /\ u.invites = pt.invites
  BY <1>5, <1>6 DEF SameParty
<1>8. WellFormed(u)
  BY <1>1, <1>4, <1>6, <1>7 DEF WellFormed
<1>9. Everybody(u) = Everybody(pt)
  BY <1>1, <1>4, <1>7 DEF Everybody
<1>. QED BY <1>2, <1>6, <1>7, <1>8, <1>9 DEF ms

(* leaveParty() of a party that goes on: the others stay; who has been a   *)
(* member longest takes the place of the leader.                           *)
LEMMA LeftFacts ==
  ASSUME NEW pt, WellFormed(pt), NEW p \in Everybody(pt), p = pt.leader => ~MissingLeader(pt)
  PROVE  LET u == Left(pt, p)
         IN  /\ WellFormed(u) /\ Settled(u, level, zone)
             /\ Everybody(u) = Everybody(pt) \ {p} /\ u.invites = pt.invites
             /\ p = pt.leader => u.leader = Head(pt.members) /\ u.members = Tail(pt.members)
             /\ p # pt.leader => u.leader = pt.leader
<1>. DEFINE passed == IF pt.leader = p /\ ~MissingLeader(pt) THEN Passed(pt, Head(pt.members)) ELSE pt
            v == [passed EXCEPT !.members = Without(passed.members, p)]
            w == Updated(v, level, zone)
            u == WithoutPoints(w, p)
<1>1. p \in Players /\ Left(pt, p) = u
  BY DEF Left, UpdatedNow, Everybody, WellFormed, Objects, InSeq
<1>2. /\ WellFormed(passed) /\ Everybody(passed) = Everybody(pt) /\ passed.invites = pt.invites
      /\ p # passed.leader
      /\ p = pt.leader => /\ passed.leader = Head(pt.members)
                          /\ passed.members = <<p>> \o Without(pt.members, Head(pt.members))
      /\ p # pt.leader => passed.leader = pt.leader
  <2>1. CASE p = pt.leader
    <3>1. pt.members # <<>> /\ pt.members \in Seq(Players)
      BY <2>1 DEF MissingLeader, NobodyToLead, WellFormed, Objects
    <3>2. Head(pt.members) \in InSeq(pt.members)
      BY <3>1 DEF InSeq
    <3>3. p # Head(pt.members)
      BY <2>1, <3>2 DEF WellFormed
    <3>. QED BY <2>1, <3>2, <3>3, PassedFacts
  <2>2. CASE p # pt.leader
    BY <2>2
  <2>. QED BY <2>1, <2>2
<1>. HIDE DEF passed
<1>3. /\ passed \in Objects /\ passed.members \in Seq(Players) /\ NoneTwice(passed.members)
      /\ passed.leader \in Players /\ passed.leader \notin InSeq(passed.members)
  BY <1>2 DEF WellFormed, Objects
<1>. DEFINE ms == Without(passed.members, p)
<1>4. ms \in Seq(Players) /\ InSeq(ms) = InSeq(passed.members) \ {p} /\ NoneTwice(ms)
  BY <1>3, WithoutFacts
<1>5. p = pt.leader => ms = Tail(pt.members)
  <2>. SUFFICES ASSUME p = pt.leader PROVE ms = Tail(pt.members)
    OBVIOUS
  <2>. DEFINE rest == Without(pt.members, Head(pt.members))
  <2>1. pt.members # <<>> /\ pt.members \in Seq(Players) /\ NoneTwice(pt.members)
        /\ p \notin InSeq(pt.members) /\ Head(pt.members) = pt.members[1]
    BY DEF MissingLeader, NobodyToLead, WellFormed, Objects
  <2>2. rest = Tail(pt.members) /\ rest \in Seq(Players) /\ InSeq(rest) \subseteq InSeq(pt.members)
        /\ NoneTwice(rest)
    BY <2>1, WithoutFacts
  <2>. HIDE DEF rest
  <2>3. /\ passed.members = <<p>> \o rest /\ <<p>> \o rest # <<>> /\ (<<p>> \o rest)[1] = p
        /\ Tail(<<p>> \o rest) = rest /\ <<p>> \o rest \in Seq(Players)
    <3>1. <<p>> \in Seq(Players) /\ Len(<<p>>) = 1 /\ <<p>>[1] = p
      BY <1>1
    <3>2. /\ <<p>> \o rest \in Seq(Players) /\ Len(<<p>> \o rest) = 1 + Len(rest)
          /\ (<<p>> \o rest)[1] = p
          /\ \A k \in 1 .. Len(rest) : (<<p>> \o rest)[k + 1] = rest[k]
      BY <3>1, <2>2
    <3>3. Tail(<<p>> \o rest) = rest
      BY <3>2, <2>2
    <3>4. passed.members = <<p>> \o rest
      BY <1>2 DEF rest
    <3>. QED BY <3>2, <3>3, <3>4, <2>2
  <2>4. Without(passed.members, p) = Tail(passed.members)
    BY <2>3, <1>3, WithoutFacts
  <2>. QED BY <2>2, <2>3, <2>4
<1>. HIDE DEF ms
<1>6. v \in Objects /\ v.leader = passed.leader /\ v.members = ms /\ v.invites = pt.invites
  BY <1>2, <1>3, <1>4 DEF Objects, ms
<1>. HIDE DEF v
<1>7. w \in Objects /\ SameParty(w, v) /\ Settled(w, level, zone)
  BY <1>6, UpdatedFacts
<1>. HIDE DEF w
<1>8. u \in Objects /\ SameParty(u, w) /\ Settled(u, level, zone)
  BY <1>1, <1>7, PointsFacts
<1>. HIDE DEF u
<1>9. u.leader = passed.leader /\ u.members = ms /\ u.invites = pt.invites
  BY <1>6, <1>7, <1>8 DEF SameParty
<1>10. WellFormed(u)
  BY <1>3, <1>4, <1>8, <1>9 DEF WellFormed
<1>11. Everybody(u) = Everybody(pt) \ {p}
  BY <1>2, <1>4, <1>9 DEF Everybody
<1>. QED BY <1>1, <1>2, <1>5, <1>8, <1>9, <1>10, <1>11

-----------------------------------------------------------------------------
(* Only those in the party count for the shared experience.                *)
LEMMA CanEnableLocal ==
  ASSUME NEW pt, NEW lv, NEW zn, NEW lw, NEW zw,
         \A p \in Everybody(pt) : lv[p] = lw[p] /\ zn[p] = zw[p]
  PROVE  CanEnable(pt, lv, zn) = CanEnable(pt, lw, zw)
BY DEF CanEnable, CanUse, Everybody

(* A party that a step does not concern. *)
LEMMA Untouched ==
  ASSUME PartiesInv, NEW g \in Parties, heap'[g] = heap[g],
         \A p \in Players : /\ party'[p] = g <=> party[p] = g
                            /\ g \in invitations'[p] <=> g \in invitations[p]
                            /\ party[p] = g \/ g \in invitations[p] => p \notin online \ online'
                            /\ party[p] = g => level'[p] = level[p] /\ zone'[p] = zone[p]
  PROVE  Alive(g)' \/ Gone(g)'
<1>1. CASE Gone(g)
  BY <1>1 DEF Gone
<1>2. CASE Alive(g)
  <2>1. CanEnable(heap[g], level', zone') = CanEnable(heap[g], level, zone)
    <3>1. \A p \in Everybody(heap[g]) : p \in Players
      BY <1>2 DEF Alive, WellFormed, Everybody, Objects, InSeq
    <3>2. \A p \in Everybody(heap[g]) : level'[p] = level[p] /\ zone'[p] = zone[p]
      BY <1>2, <3>1 DEF Alive
    <3>. QED BY <3>2, CanEnableLocal
  <2>2. Settled(heap[g], level', zone')
    BY <1>2, <2>1 DEF Alive, Settled
  <2>3. Alive(g)'
    BY <1>2, <2>2 DEF Alive
  <2>. QED BY <2>3
<1>. QED BY <1>1, <1>2 DEF PartiesInv

(* Whoever points to a party, leads it or is invited to it finds it alive. *)
LEMMA PointedAt ==
  ASSUME PartiesInv, NEW g \in Parties
  PROVE  /\ (\E p \in Players : party[p] = g \/ g \in invitations[p]) => Alive(g)
         /\ PartyAssumption => (Live(g) => Alive(g)) /\ (~Live(g) => Gone(g))
         /\ Alive(g) => /\ heap[g] \in Objects /\ heap[g].leader \in Players
                        /\ heap[g].members \in Seq(Players)
                        /\ Everybody(heap[g]) \subseteq Players
<1>1. (\E p \in Players : party[p] = g \/ g \in invitations[p]) => Alive(g)
  BY DEF PartiesInv, Gone
<1>2. PartyAssumption => (Live(g) => Alive(g)) /\ (~Live(g) => Gone(g))
  <2>1. PartyAssumption /\ Alive(g) => Live(g)
    BY DEF Alive, WellFormed, Live, PartyAssumption
  <2>2. Gone(g) => ~Live(g)
    BY DEF Gone, Live, Free
  <2>. QED BY <2>1, <2>2 DEF PartiesInv
<1>3. Alive(g) => /\ heap[g] \in Objects /\ heap[g].leader \in Players
                  /\ heap[g].members \in Seq(Players)
                  /\ Everybody(heap[g]) \subseteq Players
  BY DEF Alive, WellFormed, Objects, Everybody, InSeq
<1>. QED BY <1>1, <1>2, <1>3

(* An object whose list of the invited alone changed. *)
LEMMA InvitesChange ==
  ASSUME NEW pt, WellFormed(pt), Settled(pt, level, zone), NEW invited \in SUBSET Players
  PROVE  LET u == [pt EXCEPT !.invites = invited]
         IN  /\ WellFormed(u) /\ Settled(u, level, zone) /\ Everybody(u) = Everybody(pt)
             /\ u.invites = invited /\ u.leader = pt.leader /\ u.members = pt.members
<1>. DEFINE u == [pt EXCEPT !.invites = invited]
<1>1. /\ u \in Objects /\ u.leader = pt.leader /\ u.members = pt.members /\ u.ticks = pt.ticks
      /\ u.active = pt.active /\ u.stale = pt.stale /\ u.enabled = pt.enabled /\ u.invites = invited
  BY DEF WellFormed, Objects
<1>. HIDE DEF u
<1>2. CanEnable(u, level, zone) = CanEnable(pt, level, zone)
  BY <1>1 DEF CanEnable, CanUse, Everybody
<1>3. WellFormed(u) /\ Settled(u, level, zone) /\ Everybody(u) = Everybody(pt)
  BY <1>1, <1>2 DEF WellFormed, Settled, Everybody
<1>. QED BY <1>1, <1>3 DEF u

-----------------------------------------------------------------------------
(* One lemma for each handler.                                             *)
LEMMA InviteKeeps ==
  ASSUME PartyAssumption, PartiesInv, NEW p \in Players, NEW q \in Players, PlayerInviteToParty(p, q)
  PROVE  PartiesInv'
<1>1. PICK g \in Parties :
        /\ IF party[p] = NoParty THEN ~Live(g) ELSE party[p] = g /\ heap[g].leader = p
        /\ heap' = [heap EXCEPT ![g] = [InvitingParty(p, g) EXCEPT !.invites = @ \cup {q}]]
        /\ party' = [party EXCEPT ![p] = g]
        /\ invitations' = [invitations EXCEPT ![q] = @ \cup {g}]
  BY DEF PlayerInviteToParty
<1>2. /\ p \in online /\ q \in online /\ p # q /\ party[q] = NoParty /\ NoParty \notin Parties
      /\ UNCHANGED <<online, level, zone>>
  BY DEF PlayerInviteToParty, InvitedHasParty, PartyAssumption
<1>. DEFINE old == InvitingParty(p, g)
            pt == [old EXCEPT !.invites = old.invites \cup {q}]
<1>3. VarTypes' /\ heap'[g] = pt /\ \A h \in Parties \ {g} : heap'[h] = heap[h]
  <2>1. heap' = [heap EXCEPT ![g] = pt]
    BY <1>1
  <2>. HIDE DEF pt, old
  <2>2. /\ party' \in [Players -> Parties \cup {NoParty}]
        /\ invitations' \in [Players -> SUBSET Parties]
    BY <1>1 DEF PartiesInv, VarTypes
  <2>3. DOMAIN heap' = Parties /\ heap' = [h \in Parties |-> heap'[h]]
    BY <2>1 DEF PartiesInv, VarTypes
  <2>4. VarTypes'
    BY <2>2, <2>3, <1>2 DEF PartiesInv, VarTypes
  <2>. QED BY <2>1, <2>4 DEF PartiesInv, VarTypes
<1>4. /\ WellFormed(old) /\ Settled(old, level, zone) /\ old.invites \in SUBSET Players
      /\ \A r \in Players : /\ r = p \/ party[r] = g <=> r \in Everybody(old)
                            /\ g \in invitations[r] <=> r \in old.invites
                            /\ r \in Everybody(old) \cup old.invites => r \in online
                            /\ r \notin Everybody(old) \cap old.invites
  <2>1. CASE party[p] = NoParty
    <3>1. Gone(g)
      BY <1>1, <2>1, PointedAt
    <3>2. /\ old \in Objects /\ old.leader = p /\ old.members = <<>> /\ old.invites = {} /\ ~old.active
      <4>1. old = [leader |-> p, members |-> <<>>, invites |-> {}, active |-> FALSE,
                   enabled |-> FALSE, ticks |-> {}, stale |-> FALSE]
        BY <2>1 DEF Free, InvitingParty
      <4>2. <<>> \in Seq(Players)
        OBVIOUS
      <4>. HIDE DEF old
      <4>. QED BY <4>1, <4>2 DEF Objects
    <3>. HIDE DEF old
    <3>3. Everybody(old) = {p} /\ InSeq(old.members) = {}
      BY <3>2 DEF Everybody, InSeq
    <3>4. NoneTwice(old.members)
      BY <3>2 DEF NoneTwice
    <3>. QED BY <3>1, <3>2, <3>3, <3>4, <1>2 DEF WellFormed, Settled, Gone
  <2>2. CASE party[p] # NoParty
    <3>1. Alive(g) /\ old = heap[g] /\ party[p] = g
      BY <1>1, <2>2, PointedAt DEF InvitingParty
    <3>. QED BY <3>1 DEF Alive, WellFormed, Objects
  <2>. QED BY <2>1, <2>2
<1>5. /\ WellFormed(pt) /\ Settled(pt, level, zone) /\ Everybody(pt) = Everybody(old)
      /\ pt.invites = old.invites \cup {q}
  BY <1>4, InvitesChange
<1>. HIDE DEF old, pt
<1>6. Alive(g)'
  <2>1. ~Empty(pt)
    BY <1>5 DEF Empty
  <2>2. ASSUME NEW r \in Players
        PROVE  /\ party'[r] = g <=> r \in Everybody(pt)
               /\ g \in invitations'[r] <=> r \in pt.invites
               /\ r \in Everybody(pt) \cup pt.invites => r \in online'
               /\ r \notin Everybody(pt) \cap pt.invites
    <3>1. party'[r] = g <=> r = p \/ party[r] = g
      BY <1>1 DEF PartiesInv, VarTypes
    <3>2. g \in invitations'[r] <=> r = q \/ g \in invitations[r]
      BY <1>1 DEF PartiesInv, VarTypes
    <3>. QED BY <3>1, <3>2, <1>2, <1>4, <1>5
  <2>. QED BY <2>1, <2>2, <1>2, <1>3, <1>5 DEF Alive
<1>7. ASSUME NEW h \in Parties \ {g} PROVE Alive(h)' \/ Gone(h)'
  <2>1. party[p] # h
    BY <1>1, <1>2
  <2>2. \A r \in Players : /\ party'[r] = h <=> party[r] = h
                           /\ h \in invitations'[r] <=> h \in invitations[r]
    BY <1>1, <2>1 DEF PartiesInv, VarTypes
  <2>. QED BY <1>2, <1>3, <2>2, Untouched
<1>. QED BY <1>3, <1>6, <1>7 DEF PartiesInv

(* A step after which one party has a new object pt. *)
LEMMA OneObject ==
  ASSUME PartiesInv, NEW g \in Parties, NEW pt, heap' = [heap EXCEPT ![g] = pt],
         WellFormed(pt), Settled(pt, level', zone'), ~Empty(pt), online' = online,
         level' \in [Players -> Levels], zone' \in [Players -> Zones],
         party' \in [Players -> Parties \cup {NoParty}], invitations' \in [Players -> SUBSET Parties],
         \A r \in Players : /\ party'[r] = g <=> r \in Everybody(pt)
                            /\ g \in invitations'[r] <=> r \in pt.invites
                            /\ r \in Everybody(pt) \cup pt.invites => r \in online
                            /\ r \notin Everybody(pt) \cap pt.invites,
         \A r \in Players, h \in Parties \ {g} :
                            /\ party'[r] = h <=> party[r] = h
                            /\ h \in invitations'[r] <=> h \in invitations[r]
                            /\ party[r] = h => level'[r] = level[r] /\ zone'[r] = zone[r]
  PROVE  PartiesInv'
<1>1. VarTypes' /\ heap'[g] = pt /\ \A h \in Parties \ {g} : heap'[h] = heap[h]
  <2>1. online \subseteq Players /\ DOMAIN heap = Parties
    BY DEF PartiesInv, VarTypes
  <2>2. heap'[g] = pt /\ \A h \in Parties \ {g} : heap'[h] = heap[h]
    BY <2>1
  <2>3. DOMAIN heap' = Parties /\ heap' = [h \in Parties |-> heap'[h]]
    BY <2>1
  <2>. QED BY <2>1, <2>2, <2>3 DEF VarTypes
<1>2. Alive(g)'
  BY <1>1 DEF Alive
<1>3. ASSUME NEW h \in Parties \ {g} PROVE Alive(h)' \/ Gone(h)'
  BY <1>1, Untouched
<1>. QED BY <1>1, <1>2, <1>3 DEF PartiesInv

(* The same, when only the object changes and the people in it stay. *)
LEMMA SamePeople ==
  ASSUME PartiesInv, NEW p \in Players, party[p] \in Parties, NEW pt, heap' = [heap EXCEPT ![party[p]] = pt],
         WellFormed(pt), Settled(pt, level', zone'),
         Everybody(pt) = Everybody(heap[party[p]]), pt.invites = heap[party[p]].invites,
         pt.members = <<>> <=> heap[party[p]].members = <<>>,
         level' \in [Players -> Levels], zone' \in [Players -> Zones],
         \A r \in Players \ {p} : level'[r] = level[r] /\ zone'[r] = zone[r],
         UNCHANGED <<online, party, invitations>>
  PROVE  PartiesInv'
<1>. DEFINE g == party[p]
<1>1. Alive(g)
  BY PointedAt
<1>2. ~Empty(pt)
  BY <1>1 DEF Alive, Empty
<1>3. VarTypes
  BY DEF PartiesInv
<1>. QED BY <1>1, <1>2, <1>3, OneObject DEF Alive, VarTypes

(* An object whose cache was just brought up to date. *)
LEMMA UpdatedIsWellFormed ==
  ASSUME NEW pt, WellFormed(pt), NEW lv, NEW zn
  PROVE  LET u == Updated(pt, lv, zn)
         IN  /\ WellFormed(u) /\ Settled(u, lv, zn) /\ Everybody(u) = Everybody(pt)
             /\ u.invites = pt.invites /\ u.members = pt.members /\ u.leader = pt.leader
<1>1. pt \in Objects
  BY DEF WellFormed
<1>. QED BY <1>1, UpdatedFacts DEF WellFormed, SameParty, Everybody

(* joinParty() *)
LEMMA JoinedFacts ==
  ASSUME NEW old, WellFormed(old), NEW p \in Players, p \notin Everybody(old), NEW lv, NEW zn
  PROVE  LET u == Updated([old EXCEPT !.invites = @ \ {p}, !.members = Append(@, p)], lv, zn)
         IN  /\ WellFormed(u) /\ Settled(u, lv, zn) /\ Everybody(u) = Everybody(old) \cup {p}
             /\ u.invites = old.invites \ {p} /\ ~Empty(u)
<1>. DEFINE ms == Append(old.members, p)
            pt == [old EXCEPT !.invites = old.invites \ {p}, !.members = ms]
            u == Updated(pt, lv, zn)
<1>1. old \in Objects /\ old.members \in Seq(Players) /\ NoneTwice(old.members) /\ p \notin InSeq(old.members)
  BY DEF WellFormed, Objects, Everybody
<1>2. ms \in Seq(Players) /\ InSeq(ms) = InSeq(old.members) \cup {p} /\ NoneTwice(ms)
  <2>. DEFINE s == old.members
  <2>1. s \in Seq(Players) /\ NoneTwice(s) /\ p \in Players /\ p \notin InSeq(s)
    BY <1>1
  <2>. HIDE DEF s
  <2>2. <<p>> \o s \in Seq(Players)
    BY <2>1, AppendFacts
  <2>3. NoneTwice(Append(s, p))
    BY <2>1, AppendFacts
  <2>4. InSeq(Append(s, p)) = InSeq(s) \cup {p}
    <3>1. DOMAIN Append(s, p) = DOMAIN s \cup {Len(s) + 1} /\ Append(s, p)[Len(s) + 1] = p
      BY <2>1
    <3>2. \A n \in DOMAIN s : Append(s, p)[n] = s[n]
      BY <2>1
    <3>. QED BY <3>1, <3>2 DEF InSeq
  <2>5. Append(s, p) \in Seq(Players)
    BY <2>1
  <2>. QED BY <2>3, <2>4, <2>5 DEF s
<1>3. ms # <<>>
  <2>1. Len(ms) = Len(old.members) + 1 /\ Len(old.members) \in Nat
    BY <1>1
  <2>. QED BY <2>1
<1>. HIDE DEF ms
<1>4. /\ pt \in Objects /\ pt.leader = old.leader /\ pt.members = ms /\ pt.invites = old.invites \ {p}
  BY <1>1, <1>2 DEF Objects
<1>. HIDE DEF pt
<1>5. WellFormed(pt) /\ Everybody(pt) = Everybody(old) \cup {p}
  BY <1>1, <1>2, <1>4 DEF WellFormed, Everybody
<1>6. /\ WellFormed(u) /\ Settled(u, lv, zn) /\ Everybody(u) = Everybody(old) \cup {p}
      /\ u.invites = old.invites \ {p} /\ u.members = ms
  BY <1>4, <1>5, UpdatedIsWellFormed
<1>. QED BY <1>3, <1>6 DEF Empty, pt, ms

LEMMA JoinKeeps ==
  ASSUME PartyAssumption, PartiesInv, NEW p \in Players, NEW l \in Players, PlayerJoinParty(p, l)
  PROVE  PartiesInv'
<1>. DEFINE g == party[l]
            pt == [heap[g] EXCEPT !.invites = @ \ {p}, !.members = Append(@, p)]
            u == Updated(pt, level, zone)
<1>1. /\ p \in online /\ l \in online /\ g \in Parties /\ party[p] = NoParty /\ NoParty \notin Parties
      /\ p \in heap[g].invites
      /\ heap' = [heap EXCEPT ![g] = u]
      /\ party' = [party EXCEPT ![p] = g]
      /\ invitations' = [invitations EXCEPT ![p] = @ \ {g}]
      /\ UNCHANGED <<online, level, zone>>
  <2>1. /\ p \in online /\ l \in online /\ g \in Parties /\ party[p] = NoParty /\ NoParty \notin Parties
        /\ p \in heap[g].invites
    BY DEF PlayerJoinParty, Inviting, HasNoParty, PartiesInv, VarTypes, PartyAssumption
  <2>2. heap' = [heap EXCEPT ![g] = u]
    BY DEF PlayerJoinParty, UpdatedNow
  <2>3. /\ party' = [party EXCEPT ![p] = g]
        /\ invitations' = [invitations EXCEPT ![p] = @ \ {g}]
        /\ UNCHANGED <<online, level, zone>>
    BY DEF PlayerJoinParty
  <2>. QED BY <2>1, <2>2, <2>3
<1>2. Alive(g) /\ heap[g] \in Objects /\ heap[g].members \in Seq(Players) /\ NoneTwice(heap[g].members)
  BY <1>1, PointedAt DEF Alive, WellFormed
<1>3. p \notin Everybody(heap[g])
  BY <1>1, <1>2 DEF Alive
<1>. HIDE DEF pt, u
<1>7. /\ WellFormed(u) /\ Settled(u, level, zone) /\ Everybody(u) = Everybody(heap[g]) \cup {p}
      /\ u.invites = heap[g].invites \ {p} /\ ~Empty(u)
  BY <1>2, <1>3, JoinedFacts DEF Alive, u, pt
<1>8. /\ party' \in [Players -> Parties \cup {NoParty}] /\ invitations' \in [Players -> SUBSET Parties]
      /\ level \in [Players -> Levels] /\ zone \in [Players -> Zones]
      /\ \A r \in Players : party'[r] = (IF r = p THEN g ELSE party[r])
      /\ \A r \in Players : invitations'[r] = (IF r = p THEN invitations[r] \ {g} ELSE invitations[r])
  BY <1>1 DEF PartiesInv, VarTypes
<1>9. ASSUME NEW r \in Players
      PROVE  /\ party'[r] = g <=> r \in Everybody(u)
             /\ g \in invitations'[r] <=> r \in u.invites
             /\ r \in Everybody(u) \cup u.invites => r \in online
             /\ r \notin Everybody(u) \cap u.invites
  BY <1>1, <1>2, <1>3, <1>7, <1>8 DEF Alive
<1>10. ASSUME NEW r \in Players, NEW h \in Parties \ {g}
       PROVE  /\ party'[r] = h <=> party[r] = h
              /\ h \in invitations'[r] <=> h \in invitations[r]
  BY <1>1, <1>8
<1>. HIDE DEF g
<1>. QED BY <1>1, <1>7, <1>8, <1>9, <1>10, OneObject

LEMMA RevokeKeeps ==
  ASSUME PartyAssumption, PartiesInv, NEW p \in Players, NEW q \in Players, PlayerRevokePartyInvitation(p, q)
  PROVE  PartiesInv'
<1>. DEFINE g == party[p]
            pt == [heap[g] EXCEPT !.invites = heap[g].invites \ {q}]
<1>1. /\ g \in Parties /\ NoParty \notin Parties /\ heap[g].leader = p
      /\ heap' = [heap EXCEPT ![g] = IF Empty(pt) THEN Free ELSE pt]
      /\ party' = [party EXCEPT ![p] = IF Empty(pt) THEN NoParty ELSE @]
      /\ invitations' = [invitations EXCEPT ![q] = @ \ {g}]
      /\ UNCHANGED <<online, level, zone>>
  BY DEF PlayerRevokePartyInvitation, Inviting, BecomesEmpty, PartiesInv, VarTypes, PartyAssumption
<1>2. Alive(g) /\ heap[g].invites \ {q} \in SUBSET Players
  BY <1>1, PointedAt DEF Alive, Objects
<1>3. /\ WellFormed(pt) /\ Settled(pt, level, zone) /\ Everybody(pt) = Everybody(heap[g])
      /\ pt.invites = heap[g].invites \ {q} /\ pt.members = heap[g].members
  BY <1>2, InvitesChange DEF Alive
<1>. HIDE DEF pt
<1>4. /\ party' \in [Players -> Parties \cup {NoParty}] /\ invitations' \in [Players -> SUBSET Parties]
      /\ level \in [Players -> Levels] /\ zone \in [Players -> Zones]
      /\ \A r \in Players : party'[r] = (IF r = p /\ Empty(pt) THEN NoParty ELSE party[r])
      /\ \A r \in Players : invitations'[r] = (IF r = q THEN invitations[r] \ {g} ELSE invitations[r])
  BY <1>1 DEF PartiesInv, VarTypes
<1>5. ASSUME NEW r \in Players, NEW h \in Parties \ {g}
      PROVE  /\ party'[r] = h <=> party[r] = h
             /\ h \in invitations'[r] <=> h \in invitations[r]
  BY <1>1, <1>4
<1>6. CASE ~Empty(pt)
  <2>1. heap' = [heap EXCEPT ![g] = pt]
    BY <1>1, <1>6
  <2>2. ASSUME NEW r \in Players
        PROVE  /\ party'[r] = g <=> r \in Everybody(pt)
               /\ g \in invitations'[r] <=> r \in pt.invites
               /\ r \in Everybody(pt) \cup pt.invites => r \in online
               /\ r \notin Everybody(pt) \cap pt.invites
    BY <1>2, <1>3, <1>4, <1>6 DEF Alive
  <2>3. /\ \A r \in Players, h \in Parties \ {g} :
              /\ party'[r] = h <=> party[r] = h
              /\ h \in invitations'[r] <=> h \in invitations[r]
              /\ party[r] = h => level'[r] = level[r] /\ zone'[r] = zone[r]
        /\ Settled(pt, level', zone') /\ online' = online
        /\ level' \in [Players -> Levels] /\ zone' \in [Players -> Zones]
    BY <1>1, <1>3, <1>4, <1>5
  <2>. HIDE DEF g
  <2>. QED BY <1>1, <1>3, <1>4, <1>6, <2>1, <2>2, <2>3, OneObject
<1>7. CASE Empty(pt)
  <2>1. Everybody(heap[g]) = {p} /\ heap[g].invites \ {q} = {}
    BY <1>1, <1>3, <1>7 DEF Empty, Everybody, InSeq
  <2>2. VarTypes' /\ heap'[g] = Free /\ \A h \in Parties \ {g} : heap'[h] = heap[h]
    BY <1>1, <1>4, <1>7 DEF PartiesInv, VarTypes
  <2>3. \A r \in Players : party'[r] # g /\ g \notin invitations'[r]
    <3>. TAKE r \in Players
    <3>1. party[r] = g => r = p
      BY <1>2, <2>1 DEF Alive
    <3>2. g \in invitations[r] => r = q
      BY <1>2, <2>1 DEF Alive
    <3>. QED BY <3>1, <3>2, <1>1, <1>4, <1>7
  <2>4. ASSUME NEW h \in Parties PROVE Alive(h)' \/ Gone(h)'
    <3>1. CASE h = g
      <4>. HIDE DEF g
      <4>1. Gone(h)'
        BY <2>2, <2>3, <3>1 DEF Gone
      <4>. QED BY <4>1
    <3>2. CASE h # g
      BY <1>1, <1>5, <2>2, <3>2, Untouched
    <3>. QED BY <3>1, <3>2
  <2>. QED BY <2>2, <2>4 DEF PartiesInv
<1>. QED BY <1>6, <1>7

LEMMA PassKeeps ==
  ASSUME PartyAssumption, PartiesInv, NEW p \in Players, NEW q \in Players, PlayerPassPartyLeadership(p, q)
  PROVE  PartiesInv'
<1>1. /\ p # q /\ party[p] \in Parties /\ heap[party[p]].leader = p /\ party[q] = party[p]
      /\ heap' = [heap EXCEPT ![party[p]] = Passed(heap[party[p]], q)]
      /\ UNCHANGED <<online, level, zone, party, invitations>>
  BY DEF PlayerPassPartyLeadership, PartiesInv, VarTypes
<1>2. Alive(party[p])
  BY <1>1, PointedAt
<1>3. WellFormed(heap[party[p]]) /\ q \in InSeq(heap[party[p]].members)
  BY <1>1, <1>2 DEF Alive, Everybody
<1>. DEFINE pt == Passed(heap[party[p]], q)
<1>4. /\ WellFormed(pt) /\ Settled(pt, level, zone) /\ Everybody(pt) = Everybody(heap[party[p]])
      /\ pt.invites = heap[party[p]].invites /\ pt.leader = q
  BY <1>3, PassedFacts
<1>5. pt.members # <<>> /\ heap[party[p]].members # <<>>
  <2>1. p \in Everybody(pt)
    BY <1>1, <1>4 DEF Everybody
  <2>. QED BY <1>1, <1>3, <1>4, <2>1 DEF Everybody, InSeq
<1>. HIDE DEF pt
<1>. QED BY <1>1, <1>4, <1>5, SamePeople DEF PartiesInv, VarTypes, pt

-----------------------------------------------------------------------------
(* leaveParty() *)

(* Whether or not the party disbands, it has lost the one who left. *)
LEMMA LeftPeople ==
  ASSUME NEW pt, WellFormed(pt), NEW p \in Everybody(pt)
  PROVE  /\ Everybody(Left(pt, p)) \cup {p} = Everybody(pt)
         /\ Left(pt, p).invites = pt.invites
<1>1. CASE ~(p = pt.leader /\ MissingLeader(pt))
  BY <1>1, LeftFacts
<1>2. CASE p = pt.leader /\ MissingLeader(pt)
  <2>. DEFINE v == [pt EXCEPT !.members = Without(pt.members, p)]
              w == Updated(v, level, zone)
              u == WithoutPoints(w, p)
  <2>1. pt \in Objects /\ pt.members \in Seq(Players) /\ p \notin InSeq(pt.members) /\ p \in Players
    BY <1>2 DEF WellFormed, Objects
  <2>2. Without(pt.members, p) = pt.members
    BY <2>1 DEF Without
  <2>3. v \in Objects /\ SameParty(v, pt)
    BY <2>1, <2>2 DEF Objects, SameParty
  <2>4. Left(pt, p) = u
    BY <1>2 DEF Left, UpdatedNow
  <2>. HIDE DEF v
  <2>5. w \in Objects /\ SameParty(w, v) /\ Settled(w, level, zone)
    BY <2>3, UpdatedFacts
  <2>. HIDE DEF w
  <2>6. SameParty(u, w)
    BY <2>1, <2>5, PointsFacts
  <2>. HIDE DEF u
  <2>. QED BY <1>2, <2>3, <2>4, <2>5, <2>6 DEF SameParty, Everybody
<1>. QED BY <1>1, <1>2

LEMMA DisbandKeeps ==
  ASSUME PartyAssumption, PartiesInv, NEW g \in Parties, Alive(g), NEW pt, NEW p \in Players,
         Everybody(pt) \cup {p} = Everybody(heap[g]), pt.invites = heap[g].invites,
         Disband(g, pt, {p}), UNCHANGED <<online, level, zone>>
  PROVE  PartiesInv'
<1>1. /\ heap' = [heap EXCEPT ![g] = Free]
      /\ party' = [r \in Players |-> IF r \in Everybody(heap[g]) THEN NoParty ELSE party[r]]
      /\ invitations' = [r \in Players |-> IF r \in heap[g].invites THEN invitations[r] \ {g} ELSE invitations[r]]
  <2>1. {p} \cup Everybody(pt) = Everybody(heap[g])
    OBVIOUS
  <2>. QED BY <2>1, Zenon DEF Disband, InvitesDropped
<1>2. VarTypes' /\ heap'[g] = Free /\ \A h \in Parties \ {g} : heap'[h] = heap[h]
  BY <1>1 DEF PartiesInv, VarTypes
<1>3. \A r \in Players : /\ party'[r] # g /\ g \notin invitations'[r]
                         /\ party'[r] \in {party[r], NoParty}
                         /\ \A h \in Parties \ {g} : h \in invitations'[r] <=> h \in invitations[r]
                         /\ party'[r] # party[r] => party[r] = g
  BY <1>1 DEF Alive, PartyAssumption
<1>4. ASSUME NEW h \in Parties PROVE Alive(h)' \/ Gone(h)'
  <2>1. CASE h = g
    BY <1>2, <1>3, <2>1 DEF Gone
  <2>2. CASE h # g
    <3>1. \A r \in Players : party'[r] = h <=> party[r] = h
      BY <1>3, <2>2 DEF PartyAssumption
    <3>. QED BY <1>2, <1>3, <2>2, <3>1, Untouched
  <2>. QED BY <2>1, <2>2
<1>. QED BY <1>2, <1>4 DEF PartiesInv

LEMMA LeaveKeeps ==
  ASSUME PartyAssumption, PartiesInv, NEW p \in Players, PlayerLeaveParty(p)
  PROVE  PartiesInv'
<1>. DEFINE g  == party[p]
            pt == Left(heap[g], p)
<1>1. g \in Parties /\ NoParty \notin Parties /\ UNCHANGED <<online, level, zone>>
  BY DEF PlayerLeaveParty, PartiesInv, VarTypes, PartyAssumption
<1>2. Alive(g) /\ WellFormed(heap[g]) /\ p \in Everybody(heap[g])
  BY <1>1, PointedAt DEF Alive
<1>3. Everybody(pt) \cup {p} = Everybody(heap[g]) /\ pt.invites = heap[g].invites
  BY <1>2, LeftPeople
<1>4. CASE (heap[g].leader = p /\ MissingLeader(heap[g])) \/ BecomesEmpty(pt)
  <2>1. Disband(g, pt, {p})
    BY <1>4 DEF PlayerLeaveParty, LeaveParty
  <2>. HIDE DEF pt, g
  <2>. QED BY <1>1, <1>2, <1>3, <2>1, DisbandKeeps
<1>5. CASE ~((heap[g].leader = p /\ MissingLeader(heap[g])) \/ BecomesEmpty(pt))
  <2>1. Keep(g, pt, {p}) /\ ~Empty(pt)
    BY <1>5 DEF PlayerLeaveParty, LeaveParty, BecomesEmpty
  <2>2. /\ WellFormed(pt) /\ Settled(pt, level, zone)
        /\ Everybody(pt) = Everybody(heap[g]) \ {p} /\ pt.invites = heap[g].invites
    BY <1>2, <1>5, LeftFacts
  <2>. HIDE DEF pt
  <2>3. /\ heap' = [heap EXCEPT ![g] = pt]
        /\ party' = [r \in Players |-> IF r = p THEN NoParty ELSE party[r]]
        /\ invitations' = invitations
    BY <2>1 DEF Keep
  <2>4. /\ party' \in [Players -> Parties \cup {NoParty}] /\ invitations' \in [Players -> SUBSET Parties]
        /\ level' \in [Players -> Levels] /\ zone' \in [Players -> Zones]
        /\ \A r \in Players : party'[r] = (IF r = p THEN NoParty ELSE party[r])
    BY <1>1, <2>3 DEF PartiesInv, VarTypes
  <2>5. ASSUME NEW r \in Players
        PROVE  /\ party'[r] = g <=> r \in Everybody(pt)
               /\ g \in invitations'[r] <=> r \in pt.invites
               /\ r \in Everybody(pt) \cup pt.invites => r \in online
               /\ r \notin Everybody(pt) \cap pt.invites
    BY <1>1, <1>2, <2>2, <2>3, <2>4 DEF Alive
  <2>6. /\ \A r \in Players, h \in Parties \ {g} :
              /\ party'[r] = h <=> party[r] = h
              /\ h \in invitations'[r] <=> h \in invitations[r]
              /\ party[r] = h => level'[r] = level[r] /\ zone'[r] = zone[r]
        /\ Settled(pt, level', zone') /\ online' = online
    BY <1>1, <2>2, <2>3, <2>4
  <2>. HIDE DEF g
  <2>. QED BY <1>1, <2>1, <2>2, <2>3, <2>4, <2>5, <2>6, OneObject
<1>. QED BY <1>4, <1>5

-----------------------------------------------------------------------------
(* The handlers that change one object and nobody's place in it.           *)

(* updateSharedExperience() after a change of the object's other fields *)
LEMMA Recomputed ==
  ASSUME NEW old, WellFormed(old), NEW v \in Objects, SameParty(v, old), NEW lv, NEW zn
  PROVE  LET u == Updated(v, lv, zn)
         IN  /\ WellFormed(u) /\ Settled(u, lv, zn) /\ Everybody(u) = Everybody(old)
             /\ u.invites = old.invites /\ u.members = old.members
<1>1. WellFormed(v)
  BY DEF WellFormed, SameParty
<1>. QED BY <1>1, UpdatedIsWellFormed DEF SameParty, Everybody

LEMMA EnableKeeps ==
  ASSUME PartyAssumption, PartiesInv, NEW p \in Players, NEW active \in BOOLEAN,
         PlayerEnableSharedPartyExperience(p, active)
  PROVE  PartiesInv'
<1>. DEFINE g == party[p]
            v == [heap[g] EXCEPT !.active = active]
            u == Updated(v, level, zone)
<1>1. /\ g \in Parties /\ UNCHANGED <<online, level, zone, party, invitations>>
      /\ heap' = [heap EXCEPT ![g] = u]
  BY DEF PlayerEnableSharedPartyExperience, UpdatedNow, PartiesInv, VarTypes
<1>2. WellFormed(heap[g]) /\ heap[g] \in Objects
  BY <1>1, PointedAt DEF Alive
<1>3. v \in Objects /\ SameParty(v, heap[g])
  BY <1>2 DEF Objects, SameParty
<1>. HIDE DEF v
<1>4. /\ WellFormed(u) /\ Settled(u, level, zone) /\ Everybody(u) = Everybody(heap[g])
      /\ u.invites = heap[g].invites /\ u.members = heap[g].members
  BY <1>2, <1>3, Recomputed
<1>. HIDE DEF u
<1>. QED BY <1>1, <1>4, SamePeople DEF PartiesInv, VarTypes

LEMMA TicksKeeps ==
  ASSUME PartyAssumption, PartiesInv, NEW p \in Players, UpdatePlayerTicks(p)
  PROVE  PartiesInv'
<1>. DEFINE g == party[p]
            v == [heap[g] EXCEPT !.ticks = @ \cup {p}]
            u == Updated(v, level, zone)
<1>1. /\ g \in Parties /\ UNCHANGED <<online, level, zone, party, invitations>>
      /\ heap' = [heap EXCEPT ![g] = u]
  BY DEF UpdatePlayerTicks, UpdatedNow, PartiesInv, VarTypes
<1>2. WellFormed(heap[g]) /\ heap[g] \in Objects
  BY <1>1, PointedAt DEF Alive
<1>3. v \in Objects /\ SameParty(v, heap[g])
  BY <1>2 DEF Objects, SameParty
<1>. HIDE DEF v
<1>4. /\ WellFormed(u) /\ Settled(u, level, zone) /\ Everybody(u) = Everybody(heap[g])
      /\ u.invites = heap[g].invites /\ u.members = heap[g].members
  BY <1>2, <1>3, Recomputed
<1>. HIDE DEF u
<1>. QED BY <1>1, <1>4, SamePeople DEF PartiesInv, VarTypes

LEMMA IdleKeeps ==
  ASSUME PartyAssumption, PartiesInv, NEW p \in Players, OnIdleStatus(p)
  PROVE  PartiesInv'
<1>. DEFINE g == party[p]
            u == WithoutPoints(heap[g], p)
<1>1. /\ g \in Parties /\ UNCHANGED <<online, level, zone, party, invitations>>
      /\ heap' = [heap EXCEPT ![g] = u]
  BY DEF OnIdleStatus, PartiesInv, VarTypes
<1>2. WellFormed(heap[g]) /\ heap[g] \in Objects /\ Settled(heap[g], level, zone)
  BY <1>1, PointedAt DEF Alive
<1>3. u \in Objects /\ SameParty(u, heap[g]) /\ Settled(u, level, zone)
  BY <1>2, PointsFacts
<1>. HIDE DEF u
<1>4. /\ WellFormed(u) /\ Everybody(u) = Everybody(heap[g])
      /\ u.invites = heap[g].invites /\ u.members = heap[g].members
  BY <1>2, <1>3 DEF SameParty, WellFormed, Everybody
<1>. QED BY <1>1, <1>3, <1>4, SamePeople DEF PartiesInv, VarTypes

(* Nothing is computed when an entry of ticksMap grows old: the object is  *)
(* stale from then on.                                                     *)
LEMMA OldTicksKeep ==
  ASSUME PartyAssumption, PartiesInv, NEW p \in Players, TicksGrowOld(p)
  PROVE  PartiesInv'
<1>. DEFINE g == party[p]
            u == [heap[g] EXCEPT !.ticks = @ \ {p}, !.stale = TRUE]
<1>1. /\ g \in Parties /\ UNCHANGED <<online, level, zone, party, invitations>>
      /\ heap' = [heap EXCEPT ![g] = u]
  BY DEF TicksGrowOld, PartiesInv, VarTypes
<1>2. WellFormed(heap[g]) /\ heap[g] \in Objects
  BY <1>1, PointedAt DEF Alive
<1>3. u \in Objects /\ SameParty(u, heap[g]) /\ Settled(u, level, zone)
  BY <1>2 DEF Objects, SameParty, Settled
<1>. HIDE DEF u
<1>4. /\ WellFormed(u) /\ Everybody(u) = Everybody(heap[g])
      /\ u.invites = heap[g].invites /\ u.members = heap[g].members
  BY <1>2, <1>3 DEF SameParty, WellFormed, Everybody
<1>. QED BY <1>1, <1>3, <1>4, SamePeople DEF PartiesInv, VarTypes

(* A player walks or changes level. *)
LEMMA RefreshedKeeps ==
  ASSUME PartyAssumption, PartiesInv, NEW p \in Players, Refreshed(p, level', zone'),
         level' \in [Players -> Levels], zone' \in [Players -> Zones],
         \A r \in Players \ {p} : level'[r] = level[r] /\ zone'[r] = zone[r],
         UNCHANGED <<online, party, invitations>>
  PROVE  PartiesInv'
<1>1. CASE party[p] = NoParty
  <2>1. heap' = heap /\ VarTypes'
    BY <1>1 DEF Refreshed, PartiesInv, VarTypes
  <2>2. ASSUME NEW h \in Parties PROVE Alive(h)' \/ Gone(h)'
    <3>1. party[p] # h
      BY <1>1 DEF PartyAssumption
    <3>. QED BY <2>1, <3>1, Untouched
  <2>. QED BY <2>1, <2>2 DEF PartiesInv
<1>2. CASE party[p] # NoParty
  <2>. DEFINE g == party[p]
              u == Updated(heap[g], level', zone')
  <2>1. g \in Parties /\ heap' = [heap EXCEPT ![g] = u]
    BY <1>2 DEF Refreshed, PartiesInv, VarTypes
  <2>2. WellFormed(heap[g])
    BY <2>1, PointedAt DEF Alive
  <2>3. /\ WellFormed(u) /\ Settled(u, level', zone') /\ Everybody(u) = Everybody(heap[g])
        /\ u.invites = heap[g].invites /\ u.members = heap[g].members
    BY <2>2, UpdatedIsWellFormed
  <2>. HIDE DEF u
  <2>. QED BY <2>1, <2>3, SamePeople
<1>. QED BY <1>1, <1>2

LEMMA MoveKeeps ==
  ASSUME PartyAssumption, PartiesInv, NEW p \in Players, OnCreatureMove(p)
  PROVE  PartiesInv'
<1>1. PICK z \in Zones : zone' = [zone EXCEPT ![p] = z] /\ Refreshed(p, level, zone')
  BY DEF OnCreatureMove
<1>2. UNCHANGED <<online, level, party, invitations>>
  BY DEF OnCreatureMove
<1>3. /\ Refreshed(p, level', zone') /\ zone' \in [Players -> Zones] /\ level' \in [Players -> Levels]
      /\ \A r \in Players \ {p} : level'[r] = level[r] /\ zone'[r] = zone[r]
  BY <1>1, <1>2 DEF PartiesInv, VarTypes
<1>. QED BY <1>2, <1>3, RefreshedKeeps

LEMMA LevelKeeps ==
  ASSUME PartyAssumption, PartiesInv, NEW p \in Players, ChangeLevel(p)
  PROVE  PartiesInv'
<1>1. PICK l \in Levels : level' = [level EXCEPT ![p] = l] /\ Refreshed(p, level', zone)
  BY DEF ChangeLevel
<1>2. UNCHANGED <<online, zone, party, invitations>>
  BY DEF ChangeLevel
<1>3. /\ Refreshed(p, level', zone') /\ zone' \in [Players -> Zones] /\ level' \in [Players -> Levels]
      /\ \A r \in Players \ {p} : level'[r] = level[r] /\ zone'[r] = zone[r]
  BY <1>1, <1>2 DEF PartiesInv, VarTypes
<1>. QED BY <1>2, <1>3, RefreshedKeeps

-----------------------------------------------------------------------------
(* Logging out: every party that had invited the player forgets it, and he *)
(* leaves his own.                                                         *)
LEMMA LogoutKeeps ==
  ASSUME PartyAssumption, PartiesInv, NEW p \in Players, OnRemoveCreature(p)
  PROVE  PartiesInv'
<1>. DEFINE cleared == [g \in Parties |-> IF g \in invitations[p] THEN Uninvited(g, p) ELSE heap[g]]
            ended   == {g \in invitations[p] : Empty(cleared[g])}
            own     == party[p]
            pt      == Left(cleared[own], p)
            disband == \/ cleared[own].leader = p /\ MissingLeader(cleared[own])
                       \/ Empty(pt)
            gone    == ended \cup {g \in {own} \ {NoParty} : disband}
<1>1. /\ online' = online \ {p} /\ UNCHANGED <<level, zone>>
      /\ heap' = [g \in Parties |-> IF g \in gone THEN Free ELSE IF g = own THEN pt ELSE cleared[g]]
      /\ party' = [q \in Players |-> IF q = p \/ party[q] \in gone THEN NoParty ELSE party[q]]
      /\ invitations' = [q \in Players |-> IF q = p THEN {} ELSE invitations[q] \ gone]
  BY DEF OnRemoveCreature
<1>2. NoParty \notin Parties /\ invitations[p] \subseteq Parties /\ own \in Parties \cup {NoParty}
  BY DEF PartyAssumption, PartiesInv, VarTypes
<1>3. \A g \in gone : g \in invitations[p] \/ (g = own /\ g # NoParty)
  OBVIOUS
<1>4. gone \subseteq Parties
  BY <1>2, <1>3
<1>5. VarTypes'
  <2>. HIDE DEF gone, pt, cleared, own
  <2>1. party' \in [Players -> Parties \cup {NoParty}] /\ invitations' \in [Players -> SUBSET Parties]
    BY <1>1 DEF PartiesInv, VarTypes
  <2>2. DOMAIN heap' = Parties /\ heap' = [g \in Parties |-> heap'[g]]
    BY <1>1
  <2>. QED BY <1>1, <2>1, <2>2 DEF PartiesInv, VarTypes
<1>6. ASSUME NEW r \in Players, NEW h \in Parties
      PROVE  /\ party'[r] = h <=> r # p /\ party[r] = h /\ h \notin gone
             /\ h \in invitations'[r] <=> r # p /\ h \in invitations[r] /\ h \notin gone
  <2>. HIDE DEF gone, pt, cleared, own
  <2>. QED BY <1>1, <1>2
<1>7. ASSUME NEW h \in gone PROVE Gone(h)'
  <2>. HIDE DEF gone, pt, cleared, own
  <2>1. heap'[h] = Free
    BY <1>1, <1>4
  <2>. QED BY <1>4, <1>6, <2>1 DEF Gone
<1>8. ASSUME NEW h \in Parties, h = own, h \notin gone PROVE Alive(h)'
  <2>1. Alive(h) /\ WellFormed(heap[h]) /\ p \in Everybody(heap[h]) /\ h \notin invitations[p]
    BY <1>8, PointedAt DEF Alive
  <2>2. cleared[own] = heap[h]
    BY <1>8, <2>1
  <2>. HIDE DEF cleared
  <2>3. /\ ~(heap[h].leader = p /\ MissingLeader(heap[h]))
        /\ pt = Left(heap[h], p) /\ ~Empty(pt)
    BY <1>2, <1>8, <2>2
  <2>4. /\ WellFormed(pt) /\ Settled(pt, level, zone)
        /\ Everybody(pt) = Everybody(heap[h]) \ {p} /\ pt.invites = heap[h].invites
    BY <2>1, <2>3, LeftFacts
  <2>. HIDE DEF gone, pt
  <2>5. heap'[h] = pt
    BY <1>1, <1>8
  <2>6. ASSUME NEW r \in Players
        PROVE  /\ party'[r] = h <=> r \in Everybody(pt)
               /\ h \in invitations'[r] <=> r \in pt.invites
               /\ r \in Everybody(pt) \cup pt.invites => r \in online'
               /\ r \notin Everybody(pt) \cap pt.invites
    BY <1>1, <1>6, <1>8, <2>1, <2>4 DEF Alive
  <2>. QED BY <1>1, <2>3, <2>4, <2>5, <2>6 DEF Alive
<1>9. ASSUME NEW h \in Parties, h \in invitations[p], h \notin gone PROVE Alive(h)'
  <2>1. Alive(h) /\ WellFormed(heap[h]) /\ Settled(heap[h], level, zone) /\ heap[h].invites \subseteq Players
    BY <1>9, PointedAt DEF Alive, Objects
  <2>2. h # own
    BY <1>9, <2>1 DEF Alive
  <2>. DEFINE u == [heap[h] EXCEPT !.invites = heap[h].invites \ {p}]
  <2>3. /\ WellFormed(u) /\ Settled(u, level, zone) /\ Everybody(u) = Everybody(heap[h])
        /\ u.invites = heap[h].invites \ {p}
    BY <2>1, InvitesChange
  <2>4. cleared[h] = u
    BY <1>9 DEF Uninvited
  <2>. HIDE DEF cleared, u
  <2>5. ~Empty(u)
    BY <1>9, <2>4
  <2>. HIDE DEF gone, pt
  <2>6. heap'[h] = u
    BY <1>1, <1>9, <2>2, <2>4
  <2>7. ASSUME NEW r \in Players
        PROVE  /\ party'[r] = h <=> r \in Everybody(u)
               /\ h \in invitations'[r] <=> r \in u.invites
               /\ r \in Everybody(u) \cup u.invites => r \in online'
               /\ r \notin Everybody(u) \cap u.invites
    BY <1>1, <1>6, <1>9, <2>1, <2>2, <2>3 DEF Alive
  <2>. QED BY <1>1, <2>3, <2>5, <2>6, <2>7 DEF Alive
<1>10. ASSUME NEW h \in Parties, h # own, h \notin invitations[p] PROVE Alive(h)' \/ Gone(h)'
  <2>1. h \notin gone
    BY <1>3, <1>10
  <2>2. heap'[h] = heap[h]
    BY <1>1, <1>10, <2>1
  <2>. HIDE DEF gone, pt, cleared
  <2>3. \A r \in Players : /\ party'[r] = h <=> party[r] = h
                           /\ h \in invitations'[r] <=> h \in invitations[r]
                           /\ party[r] = h \/ h \in invitations[r] => r \notin online \ online'
    BY <1>1, <1>6, <1>10, <2>1
  <2>. QED BY <1>1, <2>2, <2>3, Untouched
<1>. QED
  <2>. HIDE DEF gone, pt, cleared, own
  <2>. QED BY <1>5, <1>7, <1>8, <1>9, <1>10 DEF PartiesInv

LEMMA LoginKeeps ==
  ASSUME PartiesInv, NEW p \in Players, Login(p)
  PROVE  PartiesInv'
<1>1. online' = online \cup {p} /\ UNCHANGED <<level, zone, party, invitations, heap>>
  BY DEF Login
<1>2. VarTypes'
  BY <1>1 DEF PartiesInv, VarTypes
<1>. QED BY <1>1, <1>2, Untouched DEF PartiesInv

-----------------------------------------------------------------------------
LEMMA InitHolds == PartyAssumption /\ Init => PartiesInv
<1>. SUFFICES ASSUME PartyAssumption, Init PROVE PartiesInv
  OBVIOUS
<1>1. VarTypes
  BY DEF Init, VarTypes
<1>2. ASSUME NEW g \in Parties PROVE Gone(g)
  BY DEF Init, Gone, PartyAssumption
<1>. QED BY <1>1, <1>2 DEF PartiesInv

LEMMA NextKeeps == PartyAssumption /\ PartiesInv /\ [Next]_vars => PartiesInv'
<1>. SUFFICES ASSUME PartyAssumption, PartiesInv, [Next]_vars PROVE PartiesInv'
  OBVIOUS
<1>1. CASE UNCHANGED vars
  <2>1. \A g \in Parties : Alive(g)' \/ Gone(g)'
    BY <1>1, Untouched DEF vars
  <2>. QED BY <1>1, <2>1 DEF PartiesInv, VarTypes, vars
<1>2. CASE Next
  <2>. PICK p \in Players :
         \/ PlayerLeaveParty(p) \/ OnRemoveCreature(p) \/ Login(p)
         \/ OnCreatureMove(p) \/ ChangeLevel(p)
         \/ UpdatePlayerTicks(p) \/ OnIdleStatus(p) \/ TicksGrowOld(p)
         \/ \E active \in BOOLEAN : PlayerEnableSharedPartyExperience(p, active)
         \/ \E q \in Players : \/ PlayerInviteToParty(p, q) \/ PlayerJoinParty(p, q)
                               \/ PlayerRevokePartyInvitation(p, q) \/ PlayerPassPartyLeadership(p, q)
    BY <1>2 DEF Next
  <2>1. CASE PlayerLeaveParty(p)
    BY <2>1, LeaveKeeps
  <2>2. CASE OnRemoveCreature(p)
    BY <2>2, LogoutKeeps
  <2>3. CASE Login(p)
    BY <2>3, LoginKeeps
  <2>4. CASE OnCreatureMove(p)
    BY <2>4, MoveKeeps
  <2>5. CASE ChangeLevel(p)
    BY <2>5, LevelKeeps
  <2>6. CASE UpdatePlayerTicks(p)
    BY <2>6, TicksKeeps
  <2>7. CASE OnIdleStatus(p)
    BY <2>7, IdleKeeps
  <2>8. CASE TicksGrowOld(p)
    BY <2>8, OldTicksKeep
  <2>9. CASE \E active \in BOOLEAN : PlayerEnableSharedPartyExperience(p, active)
    BY <2>9, EnableKeeps
  <2>10. ASSUME NEW q \in Players,
                \/ PlayerInviteToParty(p, q) \/ PlayerJoinParty(p, q)
                \/ PlayerRevokePartyInvitation(p, q) \/ PlayerPassPartyLeadership(p, q)
         PROVE  PartiesInv'
    BY <2>10, InviteKeeps, JoinKeeps, RevokeKeeps, PassKeeps
  <2>. QED BY <2>1, <2>2, <2>3, <2>4, <2>5, <2>6, <2>7, <2>8, <2>9, <2>10
<1>. QED BY <1>1, <1>2

-----------------------------------------------------------------------------
(* What is read out of the inductive invariant. *)
LEMMA InvariantSays == PartyAssumption /\ PartiesInv => PartiesAgree
<1>. SUFFICES ASSUME PartyAssumption, PartiesInv PROVE PartiesAgree
  OBVIOUS
<1>1. Free \in Objects
  <2>1. <<>> \in Seq(Players)
    OBVIOUS
  <2>. QED BY <2>1 DEF Free, Objects
<1>2. TypeOK
  <2>1. \A g \in Parties : heap[g] \in Objects
    BY <1>1 DEF PartiesInv, Alive, WellFormed, Gone
  <2>. QED BY <2>1 DEF TypeOK, PartiesInv, VarTypes
<1>3. ASSUME NEW g \in Parties, Alive(g)
      PROVE  /\ {p \in Players : party[p] = g} = Everybody(heap[g]) \ {NoPlayer}
             /\ Everybody(heap[g]) \subseteq online
             /\ heap[g].leader \notin InSeq(heap[g].members)
             /\ \A m, n \in DOMAIN heap[g].members : heap[g].members[m] = heap[g].members[n] => m = n
  <2>1. Everybody(heap[g]) \subseteq Players
    BY <1>3, PointedAt
  <2>. QED BY <1>3, <2>1 DEF Alive, WellFormed, NoneTwice, PartyAssumption
<1>4. ASSUME NEW g \in Parties, Gone(g)
      PROVE  /\ {p \in Players : party[p] = g} = Everybody(heap[g]) \ {NoPlayer}
             /\ ~Live(g)
             /\ heap[g].leader \notin InSeq(heap[g].members)
             /\ \A m, n \in DOMAIN heap[g].members : heap[g].members[m] = heap[g].members[n] => m = n
  <2>1. heap[g].leader = NoPlayer /\ heap[g].members = <<>>
    BY <1>4 DEF Gone, Free
  <2>2. InSeq(heap[g].members) = {}
    BY <2>1 DEF InSeq
  <2>3. {p \in Players : party[p] = g} = {}
    BY <1>4 DEF Gone
  <2>. QED BY <2>1, <2>2, <2>3 DEF Everybody, Live
<1>5. MembershipAgrees
  BY <1>3, <1>4 DEF MembershipAgrees, PartiesInv
<1>6. InvitationsAgree
  <2>. SUFFICES ASSUME NEW p \in Players, NEW g \in Parties
                PROVE  /\ (g \in invitations[p]) <=> (p \in heap[g].invites)
                       /\ g \in invitations[p] => Live(g) /\ p \in online /\ party[p] # g
    BY DEF InvitationsAgree
  <2>1. CASE Gone(g)
    BY <2>1 DEF Gone, Free
  <2>2. CASE Alive(g)
    BY <2>2 DEF Alive, WellFormed, Live, PartyAssumption
  <2>. QED BY <2>1, <2>2 DEF PartiesInv
<1>7. NoPartyOfOne /\ SharedExperienceUpToDate
  <2>1. ASSUME NEW g \in Parties, Live(g) PROVE Alive(g)
    BY <2>1, PointedAt
  <2>. QED BY <2>1 DEF NoPartyOfOne, SharedExperienceUpToDate, Alive, Settled
<1>. QED BY <1>2, <1>5, <1>6, <1>7 DEF PartiesAgree

(* For any players, Party objects, levels and places: after every sequence *)
(* of the handlers of game.cpp and the callbacks of player.cpp that reach  *)
(* party.cpp, the party pointers of the players and the lists of the       *)
(* parties say the same, no pointer is left to a deleted party or to a     *)
(* player that is off line, and the cached sharedExpEnabled is what        *)
(* canEnableSharedExperience() would say.                                  *)
THEOREM PartiesStayAgreed == ASSUME PartyAssumption PROVE Spec => []PartiesAgree
<1>1. Init => PartiesInv
  BY InitHolds
<1>2. PartiesInv /\ [Next]_vars => PartiesInv'
  BY NextKeeps
<1>3. PartiesInv => PartiesAgree
  BY InvariantSays
<1>. QED BY <1>1, <1>2, <1>3, PTL DEF Spec

-----------------------------------------------------------------------------
(* Who leaves a party of three or more leaves at least a leader and a      *)
(* member.                                                                 *)
LEMMA LongPartyGoesOn ==
  ASSUME NEW pt, WellFormed(pt), NEW p \in Everybody(pt), Len(pt.members) > 1
  PROVE  /\ ~MissingLeader(pt) /\ ~Empty(Left(pt, p))
         /\ p = pt.leader => /\ Left(pt, p).leader = Head(pt.members)
                             /\ Left(pt, p).members = Tail(pt.members)
<1>. DEFINE ms == pt.members
<1>1. /\ ms \in Seq(Players) /\ Len(ms) > 1 /\ NoneTwice(ms) /\ pt.leader \notin InSeq(ms)
      /\ Len(<<>>) = 0
  BY DEF WellFormed, Objects
<1>2. ~MissingLeader(pt) /\ ms # <<>>
  <2>1. ms # <<>> /\ Len(ms) # 1
    <3>. HIDE DEF ms
    <3>1. ms = <<>> => Len(ms) = Len(<<>>)
      OBVIOUS
    <3>2. Len(ms) \in Nat /\ Len(ms) > 1 /\ Len(<<>>) = 0
      BY <1>1
    <3>3. Len(ms) # 1
      <4>1. \A k \in Nat : k > 1 => k # 1
        OBVIOUS
      <4>. QED BY <3>2, <4>1, Zenon
    <3>4. Len(ms) # Len(<<>>)
      BY <3>2
    <3>. QED BY <3>1, <3>3, <3>4, Zenon
  <2>. QED BY <2>1 DEF MissingLeader, NobodyToLead
<1>3. /\ WellFormed(Left(pt, p)) /\ Everybody(Left(pt, p)) = Everybody(pt) \ {p}
      /\ p = pt.leader => Left(pt, p).leader = Head(ms) /\ Left(pt, p).members = Tail(ms)
      /\ p # pt.leader => Left(pt, p).leader = pt.leader
  BY <1>2, LeftFacts
<1>4. ms[1] \in InSeq(ms) /\ ms[2] \in InSeq(ms) /\ ms[1] # ms[2]
  <2>. HIDE DEF ms
  <2>1. 1 \in DOMAIN ms /\ 2 \in DOMAIN ms
    BY <1>1
  <2>. QED BY <1>1, <2>1 DEF InSeq, NoneTwice
<1>5. ~Empty(Left(pt, p))
  <2>1. CASE p = pt.leader
    <3>1. Tail(ms) # <<>>
      <4>. HIDE DEF ms
      <4>1. Len(Tail(ms)) = Len(ms) - 1 /\ Len(ms) \in Nat
        BY <1>1, <1>2
      <4>2. Len(Tail(ms)) # 0
        BY <1>1, <4>1
      <4>3. Tail(ms) = <<>> => Len(Tail(ms)) = Len(<<>>)
        OBVIOUS
      <4>. QED BY <1>1, <4>2, <4>3
    <3>. QED BY <1>3, <2>1, <3>1 DEF Empty
  <2>2. CASE p # pt.leader
    <3>1. PICK r \in InSeq(ms) : r # p
      BY <1>4
    <3>2. r \in Everybody(Left(pt, p)) /\ r # pt.leader
      BY <1>1, <1>3, <3>1 DEF Everybody
    <3>3. r \in InSeq(Left(pt, p).members)
      BY <1>3, <2>2, <3>2 DEF Everybody
    <3>4. Left(pt, p).members # <<>>
      BY <3>3 DEF InSeq
    <3>. QED BY <3>4 DEF Empty
  <2>. QED BY <2>1, <2>2
<1>. QED BY <1>2, <1>3, <1>5

LEMMA LeaderKept ==
  ASSUME PartyAssumption, PartiesInv, [Next]_vars
  PROVE  LeaderSucceeded
<1>. SUFFICES ASSUME NEW g \in Parties, Live(g), Len(heap[g].members) > 1, party'[heap[g].leader] # g
              PROVE  heap'[g].leader = Head(heap[g].members) /\ heap'[g].members = Tail(heap[g].members)
  BY DEF LeaderSucceeded
<1>. DEFINE l == heap[g].leader
<1>1. /\ Alive(g) /\ WellFormed(heap[g]) /\ l \in Players /\ party[l] = g /\ l \in Everybody(heap[g])
      /\ ~Empty(heap[g]) /\ heap[g].members # <<>> /\ g # NoParty
  <2>1. Alive(g) /\ l \in Players
    BY PointedAt
  <2>2. heap[g].members # <<>>
    BY <2>1, PointedAt
  <2>. QED BY <2>1, <2>2 DEF Alive, Everybody, Empty, PartyAssumption
<1>2. party'[l] # party[l]
  BY <1>1
<1>3. /\ ~MissingLeader(heap[g])
      /\ \A p \in Everybody(heap[g]) : ~Empty(Left(heap[g], p))
      /\ Left(heap[g], l).leader = Head(heap[g].members) /\ Left(heap[g], l).members = Tail(heap[g].members)
  BY <1>1, LongPartyGoesOn
<1>4. ASSUME NEW p \in Players, NEW q \in Players, PlayerInviteToParty(p, q) PROVE FALSE
  <2>1. PICK h \in Parties : /\ party' = [party EXCEPT ![p] = h]
                             /\ IF party[p] = NoParty THEN ~Live(h) ELSE party[p] = h
    BY <1>4 DEF PlayerInviteToParty
  <2>. QED BY <1>1, <1>2, <2>1 DEF PartiesInv, VarTypes
<1>5. ASSUME NEW p \in Players, NEW q \in Players, PlayerJoinParty(p, q) PROVE FALSE
  <2>1. party[p] = NoParty /\ party' = [party EXCEPT ![p] = party[q]]
    BY <1>5 DEF PlayerJoinParty, HasNoParty
  <2>. QED BY <1>1, <1>2, <2>1 DEF PartiesInv, VarTypes
<1>6. ASSUME NEW p \in Players, NEW q \in Players, PlayerRevokePartyInvitation(p, q) PROVE FALSE
  <2>. DEFINE pt == [heap[party[p]] EXCEPT !.invites = heap[party[p]].invites \ {q}]
  <2>1. party' = [party EXCEPT ![p] = IF Empty(pt) THEN NoParty ELSE @]
    BY <1>6 DEF PlayerRevokePartyInvitation, BecomesEmpty
  <2>2. CASE p = l
    <3>1. pt.members = heap[g].members
      BY <1>1, <2>2 DEF WellFormed, Objects
    <3>2. ~Empty(pt)
      BY <1>1, <3>1 DEF Empty
    <3>. QED BY <1>1, <1>2, <2>1, <2>2, <3>2 DEF PartiesInv, VarTypes
  <2>3. CASE p # l
    BY <1>1, <1>2, <2>1, <2>3 DEF PartiesInv, VarTypes
  <2>. QED BY <2>2, <2>3
<1>7. ASSUME NEW p \in Players, PlayerLeaveParty(p)
      PROVE  heap'[g].leader = Head(heap[g].members) /\ heap'[g].members = Tail(heap[g].members)
  <2>. DEFINE h  == party[p]
              pt == Left(heap[h], p)
  <2>1. h \in Parties
    BY <1>7 DEF PlayerLeaveParty, PartiesInv, VarTypes
  <2>2. WellFormed(heap[h]) /\ p \in Everybody(heap[h]) /\ Alive(h)
    BY <2>1, PointedAt DEF Alive
  <2>3. CASE h = g
    <3>1. ~MissingLeader(heap[h]) /\ ~BecomesEmpty(pt)
      BY <1>3, <2>2, <2>3 DEF BecomesEmpty
    <3>2. Keep(h, pt, {p})
      BY <1>7, <3>1 DEF PlayerLeaveParty, LeaveParty
    <3>. HIDE DEF pt
    <3>3. heap'[g] = pt /\ party'[l] = (IF l = p THEN NoParty ELSE party[l])
      BY <1>1, <2>3, <3>2 DEF Keep, PartiesInv, VarTypes
    <3>. QED BY <1>2, <1>3, <2>3, <3>3 DEF pt
  <2>4. CASE h # g
    <3>1. l # p /\ l \notin Everybody(pt)
      <4>1. Everybody(pt) \subseteq Everybody(heap[h])
        BY <2>2, LeftPeople
      <4>2. l \notin Everybody(heap[h])
        BY <1>1, <2>2, <2>4 DEF Alive
      <4>. QED BY <1>1, <2>4, <4>1, <4>2
    <3>2. Keep(h, pt, {p}) \/ Disband(h, pt, {p})
      BY <1>7 DEF PlayerLeaveParty, LeaveParty
    <3>. HIDE DEF pt, h
    <3>3. party'[l] = party[l]
      BY <1>1, <3>1, <3>2, Zenon DEF Keep, Disband
    <3>. QED BY <1>2, <3>3
  <2>. QED BY <2>3, <2>4
<1>8. ASSUME NEW p \in Players, OnRemoveCreature(p)
      PROVE  heap'[g].leader = Head(heap[g].members) /\ heap'[g].members = Tail(heap[g].members)
  <2>. DEFINE cleared == [h \in Parties |-> IF h \in invitations[p] THEN Uninvited(h, p) ELSE heap[h]]
              ended   == {h \in invitations[p] : Empty(cleared[h])}
              own     == party[p]
              pt      == Left(cleared[own], p)
              disband == \/ cleared[own].leader = p /\ MissingLeader(cleared[own])
                         \/ Empty(pt)
              gone    == ended \cup {h \in {own} \ {NoParty} : disband}
  <2>1. /\ heap' = [h \in Parties |-> IF h \in gone THEN Free ELSE IF h = own THEN pt ELSE cleared[h]]
        /\ party' = [q \in Players |-> IF q = p \/ party[q] \in gone THEN NoParty ELSE party[q]]
    BY <1>8 DEF OnRemoveCreature
  <2>2. g \notin ended
    <3>1. CASE g \notin invitations[p]
      BY <3>1
    <3>2. CASE g \in invitations[p]
      <4>1. cleared[g] = Uninvited(g, p)
        BY <3>2
      <4>2. Uninvited(g, p).members = heap[g].members
        BY <1>1 DEF Uninvited, WellFormed, Objects
      <4>3. ~Empty(cleared[g])
        BY <1>1, <4>1, <4>2 DEF Empty
      <4>. QED BY <4>3
    <3>. QED BY <3>1, <3>2
  <2>3. own = g => /\ cleared[own] = heap[g] /\ p \in Everybody(heap[g]) /\ pt = Left(heap[g], p)
    BY <1>1 DEF Alive
  <2>4. g \notin gone
    BY <1>3, <2>2, <2>3
  <2>. HIDE DEF gone, pt, cleared
  <2>5. l = p
    BY <1>1, <1>2, <2>1, <2>4
  <2>6. heap'[g] = pt
    BY <1>1, <2>1, <2>4, <2>5
  <2>. QED BY <1>1, <1>3, <2>3, <2>5, <2>6
<1>9. ASSUME NEW p \in Players,
             \/ Login(p) \/ OnCreatureMove(p) \/ ChangeLevel(p)
             \/ UpdatePlayerTicks(p) \/ OnIdleStatus(p) \/ TicksGrowOld(p)
             \/ \E active \in BOOLEAN : PlayerEnableSharedPartyExperience(p, active)
             \/ \E q \in Players : PlayerPassPartyLeadership(p, q)
      PROVE  FALSE
  <2>1. party' = party
    BY <1>9 DEF Login, OnCreatureMove, ChangeLevel, UpdatePlayerTicks, OnIdleStatus, TicksGrowOld,
                PlayerEnableSharedPartyExperience, PlayerPassPartyLeadership
  <2>. QED BY <1>2, <2>1
<1>10. CASE UNCHANGED vars
  BY <1>2, <1>10 DEF vars
<1>11. CASE Next
  BY <1>4, <1>5, <1>6, <1>7, <1>8, <1>9, <1>11 DEF Next
<1>. QED BY <1>10, <1>11

(* For any number of players: however the leader of a party of three or    *)
(* more leaves it (by playerLeaveParty() or by logging out), the party     *)
(* goes on, led by who has been a member longest, with the others in the   *)
(* order in which they joined.                                             *)
THEOREM LeaderIsSucceeded ==
  ASSUME PartyAssumption PROVE Spec => PartyOutlivesLeader
<1>1. Init => PartiesInv
  BY InitHolds
<1>2. PartiesInv /\ [Next]_vars => PartiesInv'
  BY NextKeeps
<1>3. PartiesInv /\ [Next]_vars => [LeaderSucceeded]_vars
  BY LeaderKept
<1>. QED BY <1>1, <1>2, <1>3, PTL DEF Spec, PartyOutlivesLeader

-----------------------------------------------------------------------------
(* WaitList.                                                               *)

(* Induction: a set with 0 that is closed under successor is Nat. *)
LEMMA SetInduction ==
  ASSUME NEW G, G \subseteq Nat, 0 \in G, \A n \in Nat : n \in G => n + 1 \in G
  PROVE  G = Nat
<1>. DEFINE B == Nat \ G
            R == OpToRel(<, Nat)
<1>. SUFFICES ASSUME B # {} PROVE FALSE
  OBVIOUS
<1>1. IsWellFoundedOn(R, Nat)
  BY NatLessThanWellFounded
<1>2. \A x, y \in Nat : <<x, y>> \in R <=> x < y
  BY DEF OpToRel
<1>. HIDE DEF R
<1>3. PICK n \in B : \A m \in B : ~(<<m, n>> \in R)
  BY <1>1, WFMin
<1>4. n # 0 /\ n - 1 \in Nat /\ n - 1 < n
  BY <1>3
<1>5. n - 1 \in G
  BY <1>2, <1>3, <1>4
<1>. QED BY <1>3, <1>4, <1>5

(* A player has at most one entry in the list, in the two lists. *)
Once(l, g) == \A i, j \in DOMAIN l : l[i].guid = g /\ l[j].guid = g => i = j
OneEntry(p, w, g) == Once(p, g) /\ Once(w, g) /\ ~(Has(p, g) /\ Has(w, g))

(* The list k has no entries that l has not, and names nobody more often. *)
Thinned(l, k) == /\ k \in Seq(WaitEntries)
                 /\ \A g \in Guids : (Has(k, g) => Has(l, g)) /\ (Once(l, g) => Once(k, g))

LEMMA ThinnedAgain ==
  ASSUME NEW l, NEW k, NEW m, Thinned(l, k), Thinned(k, m)
  PROVE  Thinned(l, m)
BY DEF Thinned

(* The lists that the loop of cleanupList() has built after 0, 1, ... n    *)
(* entries.                                                                *)
IsCleaning(c, l, n) ==
  c = [m \in 0..n |-> IF m = 0 THEN <<>>
                      ELSE IF Unexpired(l[m]) THEN Append(c[m - 1], l[m]) ELSE c[m - 1]]

LEMMA CleaningExists ==
  ASSUME NEW l, NEW k \in Nat
  PROVE  \E c : IsCleaning(c, l, k)
<1>. DEFINE G == {n \in Nat : \E c : IsCleaning(c, l, n)}
<1>1. 0 \in G
  <2>1. IsCleaning([m \in 0..0 |-> <<>>], l, 0)
    BY DEF IsCleaning
  <2>. QED BY <2>1
<1>2. ASSUME NEW n \in Nat, n \in G
      PROVE  n + 1 \in G
  <2>1. PICK c : IsCleaning(c, l, n)
    BY <1>2
  <2>. DEFINE last == IF Unexpired(l[n + 1]) THEN Append(c[n], l[n + 1]) ELSE c[n]
              longer == [m \in 0..n + 1 |-> IF m <= n THEN c[m] ELSE last]
  <2>2. (\A m \in 0..n : longer[m] = c[m]) /\ longer[n + 1] = last
    OBVIOUS
  <2>3. \A m \in 0..n + 1 : longer[m] =
          IF m = 0 THEN <<>> ELSE IF Unexpired(l[m]) THEN Append(longer[m - 1], l[m]) ELSE longer[m - 1]
    <3>1. c = [m \in 0..n |-> IF m = 0 THEN <<>> ELSE IF Unexpired(l[m]) THEN Append(c[m - 1], l[m]) ELSE c[m - 1]]
      BY <2>1 DEF IsCleaning
    <3>. HIDE DEF longer
    <3>2. ASSUME NEW m \in 0..n + 1, m <= n
          PROVE longer[m] = IF m = 0 THEN <<>> ELSE IF Unexpired(l[m]) THEN Append(longer[m - 1], l[m]) ELSE longer[m - 1]
      <4>1. m \in 0..n /\ (m # 0 => m - 1 \in 0..n)
        BY <3>2
      <4>. QED BY <4>1, <2>2, <3>1
    <3>3. longer[n] = c[n] /\ (n + 1) - 1 = n /\ n + 1 # 0
      BY <2>2
    <3>4. \A m \in 0..n + 1 : m <= n \/ m = n + 1
      OBVIOUS
    <3>. QED BY <3>2, <3>3, <3>4, <2>2
  <2>4. longer = [m \in 0..n + 1 |-> longer[m]]
    OBVIOUS
  <2>5. IsCleaning(longer, l, n + 1)
    <3>. HIDE DEF longer
    <3>. QED BY <2>3, <2>4 DEF IsCleaning
  <2>. QED BY <2>5
<1>3. G = Nat
  <2>. HIDE DEF G
  <2>1. G \subseteq Nat
    BY DEF G
  <2>. QED BY <1>1, <1>2, <2>1, SetInduction
<1>. QED BY <1>3

(* What cleanupList() leaves are entries of the list, each once. *)
LEMMA CleanupThins ==
  ASSUME NEW l \in Seq(WaitEntries)
  PROVE  Thinned(l, CleanupList(l))
<1>. DEFINE N == Len(l)
            c == CHOOSE f : f = [m \in 0..N |-> IF m = 0 THEN <<>>
                      ELSE IF Unexpired(l[m]) THEN Append(f[m - 1], l[m]) ELSE f[m - 1]]
            G == {n \in Nat : n <= N =>
                    /\ c[n] \in Seq(WaitEntries)
                    /\ \A g : Has(c[n], g) => \E i \in 1..n : l[i].guid = g
                    /\ \A g : Once(l, g) => Once(c[n], g)}
<1>1. N \in Nat
  OBVIOUS
<1>2. IsCleaning(c, l, N)
  <2>1. \E f : IsCleaning(f, l, N)
    BY <1>1, CleaningExists
  <2>. QED BY <2>1 DEF IsCleaning
<1>3. CleanupList(l) = c[N]
  BY DEF CleanupList
<1>. HIDE DEF c
<1>4. \A m \in 0..N : c[m] = IF m = 0 THEN <<>> ELSE IF Unexpired(l[m]) THEN Append(c[m - 1], l[m]) ELSE c[m - 1]
  BY <1>2 DEF IsCleaning
<1>5. 0 \in G
  <2>1. c[0] = <<>>
    BY <1>1, <1>4
  <2>2. c[0] \in Seq(WaitEntries) /\ DOMAIN c[0] = {}
    BY <2>1
  <2>. QED BY <2>2 DEF Has, Once
<1>6. ASSUME NEW n \in Nat, n \in G PROVE n + 1 \in G
  <2>. SUFFICES ASSUME n + 1 <= N PROVE n + 1 \in G
    OBVIOUS
  <2>1. n + 1 \in 0..N /\ n + 1 # 0 /\ (n + 1) - 1 = n /\ n + 1 \in DOMAIN l /\ l[n + 1] \in WaitEntries /\ n <= N
    OBVIOUS
  <2>2. /\ c[n] \in Seq(WaitEntries)
        /\ \A g : Has(c[n], g) => \E i \in 1..n : l[i].guid = g
        /\ \A g : Once(l, g) => Once(c[n], g)
    BY <1>6, <2>1
  <2>3. c[n + 1] = IF Unexpired(l[n + 1]) THEN Append(c[n], l[n + 1]) ELSE c[n]
    BY <1>4, <2>1
  <2>4. c[n + 1] \in Seq(WaitEntries)
    BY <2>1, <2>2, <2>3
  <2>5. DOMAIN c[n] = 1..Len(c[n]) /\ DOMAIN c[n + 1] = 1..Len(c[n + 1]) /\ Len(c[n]) \in Nat
    BY <2>2, <2>4
  <2>6. \A j \in DOMAIN c[n + 1] : \/ j \in DOMAIN c[n] /\ c[n + 1][j] = c[n][j]
                                   \/ j = Len(c[n]) + 1 /\ c[n + 1][j] = l[n + 1]
    BY <2>2, <2>3, <2>5
  <2>7. ASSUME NEW g, Has(c[n + 1], g) PROVE \E i \in 1..n + 1 : l[i].guid = g
    <3>1. PICK j \in DOMAIN c[n + 1] : c[n + 1][j].guid = g
      BY <2>7 DEF Has
    <3>2. CASE j \in DOMAIN c[n] /\ c[n + 1][j] = c[n][j]
      <4>1. Has(c[n], g)
        BY <3>1, <3>2 DEF Has
      <4>2. PICK i \in 1..n : l[i].guid = g
        BY <4>1, <2>2
      <4>. QED BY <4>2
    <3>3. CASE c[n + 1][j] = l[n + 1]
      BY <3>1, <3>3
    <3>. QED BY <2>6, <3>2, <3>3
  <2>8. ASSUME NEW g, Once(l, g) PROVE Once(c[n + 1], g)
    <3>. SUFFICES ASSUME NEW i \in DOMAIN c[n + 1], NEW j \in DOMAIN c[n + 1],
                         c[n + 1][i].guid = g, c[n + 1][j].guid = g
                  PROVE  i = j
      BY DEF Once
    <3>1. CASE l[n + 1].guid = g
      <4>1. ~Has(c[n], g)
        <5>1. ASSUME NEW k \in 1..n, l[k].guid = g PROVE FALSE
          <6>1. k \in DOMAIN l /\ n + 1 \in DOMAIN l /\ k # n + 1
            BY <2>1
          <6>. QED BY <2>8, <3>1, <5>1, <6>1 DEF Once
        <5>. QED BY <5>1, <2>2
      <4>2. \A k \in DOMAIN c[n] : c[n][k].guid # g
        BY <4>1 DEF Has
      <4>. QED BY <4>2, <2>6
    <3>2. CASE l[n + 1].guid # g
      <4>1. i \in DOMAIN c[n] /\ j \in DOMAIN c[n] /\ c[n][i].guid = g /\ c[n][j].guid = g
        BY <3>2, <2>6
      <4>. QED BY <4>1, <2>2, <2>8 DEF Once
    <3>. QED BY <3>1, <3>2
  <2>. QED BY <2>4, <2>7, <2>8
<1>7. G = Nat
  <2>. HIDE DEF G
  <2>1. G \subseteq Nat
    BY DEF G
  <2>. QED BY <1>5, <1>6, <2>1, SetInduction
<1>8. /\ c[N] \in Seq(WaitEntries)
      /\ \A g : Has(c[N], g) => \E i \in 1..N : l[i].guid = g
      /\ \A g : Once(l, g) => Once(c[N], g)
  BY <1>1, <1>7, SMTT(30)
<1>9. \A g \in Guids : Has(c[N], g) => Has(l, g)
  BY <1>8 DEF Has
<1>. QED BY <1>3, <1>8, <1>9 DEF Thinned

(* Older entries are the same entries. *)
LEMMA OlderThins ==
  ASSUME WaitListAssumption, NEW l \in Seq(WaitEntries)
  PROVE  Thinned(l, Older(l))
<1>. DEFINE D == 135 \div TickSeconds
            older(e) == [e EXCEPT !.left = IF @ = 0 THEN 0 ELSE @ - 1]
<1>0. D \in Int
  BY DEF WaitListAssumption
<1>1. ASSUME NEW e \in WaitEntries PROVE older(e) \in WaitEntries /\ older(e).guid = e.guid
  <2>1. e.left \in 0..D /\ e = [left |-> e.left, guid |-> e.guid] /\ e.guid \in Guids \cup {NoGuid}
    BY DEF WaitEntries
  <2>2. (IF e.left = 0 THEN 0 ELSE e.left - 1) \in 0..D
    <3>. HIDE DEF D
    <3>. QED BY <1>0, <2>1
  <2>3. older(e) = [left |-> IF e.left = 0 THEN 0 ELSE e.left - 1, guid |-> e.guid]
    BY <2>1
  <2>. QED BY <2>1, <2>2, <2>3 DEF WaitEntries
<1>2. Older(l) = [i \in 1..Len(l) |-> older(l[i])]
  BY DEF Older
<1>3. \A i \in 1..Len(l) : l[i] \in WaitEntries
  OBVIOUS
<1>. HIDE DEF older
<1>4. Older(l) \in Seq(WaitEntries) /\ DOMAIN Older(l) = DOMAIN l /\ \A i \in DOMAIN l : Older(l)[i].guid = l[i].guid
  BY <1>1, <1>2, <1>3
<1>. QED BY <1>4 DEF Thinned, Has, Once

(* The entry of a player is where find_if() finds it. *)
LEMMA EntryIsFound ==
  ASSUME NEW l \in Seq(WaitEntries), NEW g, Once(l, g), Has(l, g)
  PROVE  /\ IndexOf(l, g) \in DOMAIN l /\ l[IndexOf(l, g)].guid = g
         /\ Distance(l, g) \in Nat \ {0}
<1>1. PICK i \in DOMAIN l : l[i].guid = g
  BY DEF Has
<1>2. \A j \in 1..(i - 1) : l[j].guid # g
  BY <1>1 DEF Once
<1>3. IndexOf(l, g) \in DOMAIN l /\ l[IndexOf(l, g)].guid = g
  BY <1>1, <1>2 DEF IndexOf
<1>. QED BY <1>3 DEF Distance

LEMMA RemovedThins ==
  ASSUME NEW l \in Seq(WaitEntries), NEW g, Once(l, g)
  PROVE  Thinned(l, Removed(l, g)) /\ Len(Removed(l, g)) \in Nat /\ Len(Removed(l, g)) <= Len(l)
<1>1. CASE ~Has(l, g)
  BY <1>1 DEF Removed, Thinned
<1>2. CASE Has(l, g)
  <2>. DEFINE k == IndexOf(l, g)
              r == Removed(l, g)
  <2>1. k \in 1..Len(l)
    BY <1>2, EntryIsFound
  <2>2. r = SubSeq(l, 1, k - 1) \o SubSeq(l, k + 1, Len(l))
    BY <1>2 DEF Removed, RemoveAt
  <2>. HIDE DEF k, r
  <2>. DEFINE a == SubSeq(l, 1, k - 1)
              b == SubSeq(l, k + 1, Len(l))
  <2>a. /\ a \in Seq(WaitEntries) /\ Len(a) = k - 1 /\ \A i \in 1..(k - 1) : a[i] = l[i]
    BY <2>1
  <2>b. /\ b \in Seq(WaitEntries) /\ Len(b) = Len(l) - k /\ \A i \in 1..(Len(l) - k) : b[i] = l[k + i]
    BY <2>1
  <2>e. r = a \o b /\ Len(l) \in Nat /\ k \in Int /\ k >= 1 /\ k <= Len(l)
    BY <2>1, <2>2
  <2>. HIDE DEF a, b
  <2>c. r \in Seq(WaitEntries) /\ Len(r) = Len(l) - 1
    <3>1. r \in Seq(WaitEntries)
      BY <2>e, <2>a, <2>b
    <3>2. Len(r) = Len(a) + Len(b)
      <4>1. r = a \o b /\ a \in Seq(WaitEntries) /\ b \in Seq(WaitEntries)
        BY <2>e, <2>a, <2>b
      <4>. QED BY <4>1
    <3>. QED BY <2>e, <2>a, <2>b, <3>1, <3>2
  <2>d. \A i \in 1..(Len(l) - 1) : r[i] = IF i < k THEN l[i] ELSE l[i + 1]
    <3>. SUFFICES ASSUME NEW i \in 1..(Len(l) - 1) PROVE r[i] = IF i < k THEN l[i] ELSE l[i + 1]
      OBVIOUS
    <3>1. CASE i < k
      BY <2>e, <2>a, <2>b, <3>1
    <3>2. CASE ~(i < k)
      <4>1. PICK j \in 1..(Len(l) - k) : j = i - (k - 1)
        BY <2>e, <3>2
      <4>2. r[i] = b[j]
        BY <2>e, <2>a, <2>b, <3>2, <4>1
      <4>3. b[j] = l[k + j]
        BY <2>b, <4>1
      <4>4. k + j = i + 1
        BY <2>e, <3>2, <4>1
      <4>. QED BY <3>2, <4>2, <4>3, <4>4
    <3>. QED BY <3>1, <3>2
  <2>3. /\ r \in Seq(WaitEntries) /\ Len(r) = Len(l) - 1
        /\ \A i \in 1..(Len(l) - 1) : r[i] = IF i < k THEN l[i] ELSE l[i + 1]
    BY <2>c, <2>d
  <2>4. DOMAIN r = 1..(Len(l) - 1) /\ DOMAIN l = 1..Len(l) /\ Len(l) \in Nat
    BY <2>3
  <2>5. ASSUME NEW h, Has(r, h) PROVE Has(l, h)
    <3>1. PICK i \in 1..(Len(l) - 1) : r[i].guid = h
      BY <2>4, <2>5 DEF Has
    <3>2. i \in DOMAIN l /\ i + 1 \in DOMAIN l
      BY <2>4
    <3>. QED BY <2>3, <3>1, <3>2 DEF Has
  <2>6. ASSUME NEW h, Once(l, h) PROVE Once(r, h)
    <3>. SUFFICES ASSUME NEW i \in 1..(Len(l) - 1), NEW j \in 1..(Len(l) - 1), r[i].guid = h, r[j].guid = h
                  PROVE  i = j
      BY <2>4 DEF Once
    <3>. DEFINE up(n) == IF n < k THEN n ELSE n + 1
    <3>1. r[i] = l[up(i)] /\ r[j] = l[up(j)] /\ up(i) \in DOMAIN l /\ up(j) \in DOMAIN l
      BY <2>1, <2>3, <2>4, SMTT(30)
    <3>2. up(i) = up(j)
      <4>. HIDE DEF up
      <4>. QED BY <2>6, <3>1 DEF Once
    <3>. QED BY <2>1, <3>2
  <2>. QED BY <2>3, <2>5, <2>6 DEF Thinned, r
<1>. QED BY <1>1, <1>2

LEMMA LongerThins ==
  ASSUME WaitListAssumption, NEW l \in Seq(WaitEntries), NEW g, Once(l, g)
  PROVE  Thinned(l, Longer(l, g))
<1>1. CASE ~Has(l, g)
  BY <1>1 DEF Longer, Thinned
<1>2. CASE Has(l, g)
  <2>. DEFINE k == IndexOf(l, g)
              r == Longer(l, g)
  <2>1. k \in 1..Len(l)
    BY <1>2, EntryIsFound
  <2>2. r = [l EXCEPT ![k].guid = NoGuid]
    BY <1>2 DEF Longer
  <2>. HIDE DEF k, r
  <2>. DEFINE e == [left |-> l[k].left, guid |-> NoGuid]
  <2>a. l[k] \in WaitEntries /\ e \in WaitEntries /\ [l[k] EXCEPT !.guid = NoGuid] = e /\ e.guid = NoGuid
    <3>1. l[k] \in WaitEntries
      BY <2>1
    <3>2. \A x \in WaitEntries : [x EXCEPT !.guid = NoGuid] = [left |-> x.left, guid |-> NoGuid]
                                 /\ [left |-> x.left, guid |-> NoGuid] \in WaitEntries
      BY DEF WaitEntries
    <3>. QED BY <3>1, <3>2
  <2>b. r = [l EXCEPT ![k] = e]
    BY <2>1, <2>2, <2>a
  <2>. HIDE DEF e
  <2>3. r \in Seq(WaitEntries) /\ DOMAIN r = DOMAIN l
        /\ \A i \in DOMAIN l : r[i].guid = IF i = k THEN NoGuid ELSE l[i].guid
    BY <2>1, <2>a, <2>b
  <2>4. \A h \in Guids : (Has(r, h) => Has(l, h)) /\ (Once(l, h) => Once(r, h))
    BY <2>1, <2>3 DEF Has, Once, WaitListAssumption
  <2>. QED BY <2>3, <2>4 DEF Thinned, r
<1>. QED BY <1>1, <1>2

-----------------------------------------------------------------------------
(* The inductive invariant. *)
WaitInv == /\ WaitTypeOK /\ IsFiniteSet(admitted)
           /\ \A g \in Guids : OneEntry(priorityWaitList, waitList, g)

LEMMA ThinnedKeepsOne ==
  ASSUME NEW p, NEW w, NEW p2, NEW w2, Thinned(p, p2), Thinned(w, w2),
         \A g \in Guids : OneEntry(p, w, g)
  PROVE  \A g \in Guids : OneEntry(p2, w2, g)
BY DEF Thinned, OneEntry

(* What a list with one more entry has. *)
LEMMA EnlistKeepsOne ==
  ASSUME WaitListAssumption, NEW p \in Seq(WaitEntries), NEW w \in Seq(WaitEntries),
         \A h \in Guids : OneEntry(p, w, h),
         NEW e \in WaitEntries, ~Has(p, e.guid), ~Has(w, e.guid)
  PROVE  /\ Append(p, e) \in Seq(WaitEntries) /\ Append(w, e) \in Seq(WaitEntries)
         /\ \A h \in Guids : OneEntry(Append(p, e), w, h) /\ OneEntry(p, Append(w, e), h)
<1>1. ASSUME NEW l \in Seq(WaitEntries), ~Has(l, e.guid)
      PROVE  /\ Append(l, e) \in Seq(WaitEntries)
             /\ \A h \in Guids : /\ Has(Append(l, e), h) => Has(l, h) \/ h = e.guid
                                 /\ Once(l, h) => Once(Append(l, e), h)
  <2>. DEFINE r == Append(l, e)
  <2>1. /\ r \in Seq(WaitEntries) /\ DOMAIN l = 1..Len(l) /\ DOMAIN r = 1..(Len(l) + 1) /\ Len(l) \in Nat
        /\ r[Len(l) + 1] = e /\ \A i \in DOMAIN l : r[i] = l[i]
    OBVIOUS
  <2>. HIDE DEF r
  <2>2. \A i \in DOMAIN r : (i \in DOMAIN l /\ r[i] = l[i]) \/ (i = Len(l) + 1 /\ r[i] = e)
    <3>. SUFFICES ASSUME NEW i \in 1..(Len(l) + 1)
                  PROVE  (i \in DOMAIN l /\ r[i] = l[i]) \/ (i = Len(l) + 1 /\ r[i] = e)
      BY <2>1
    <3>1. i \in 1..Len(l) \/ i = Len(l) + 1
      BY <2>1
    <3>2. CASE i \in 1..Len(l)
      BY <2>1, <3>2
    <3>3. CASE i = Len(l) + 1
      BY <2>1, <3>3
    <3>. QED BY <3>1, <3>2, <3>3
  <2>3. \A h \in Guids : Has(r, h) => Has(l, h) \/ h = e.guid
    BY <2>2 DEF Has
  <2>4. \A i \in DOMAIN l : l[i].guid # e.guid
    BY <1>1 DEF Has
  <2>5. \A h \in Guids : Once(l, h) => Once(r, h)
    BY <2>2, <2>4 DEF Once
  <2>. QED BY <2>1, <2>3, <2>5 DEF r
<1>. QED BY <1>1 DEF OneEntry

LEMMA NewEntryIsEntry ==
  ASSUME WaitListAssumption, NEW slot \in Nat, NEW g \in Guids
  PROVE  WaitEntry(slot, g) \in WaitEntries /\ WaitEntry(slot, g).guid = g
<1>. DEFINE T == TickSeconds
<1>1. T \in Nat \ {0}
  BY DEF WaitListAssumption
<1>2. \A a \in 0..135 : a \div T \in 0..(135 \div T)
  <2>. HIDE DEF T
  <2>. SUFFICES ASSUME NEW a \in 0..135 PROVE a \div T \in 0..(135 \div T)
    OBVIOUS
  <2>. QED BY <1>1
<1>3. GetWaitTime(slot) + 15 \in 0..135
  BY DEF GetWaitTime
<1>4. GetTimeout(slot) \in 0..(135 \div TickSeconds)
  BY <1>2, <1>3 DEF GetTimeout
<1>. QED BY <1>4 DEF WaitEntry, WaitEntries

(* cleanupList() for both lists. *)
LEMMA CleanupKeepsOne ==
  ASSUME WaitInv, NEW p, p = CleanupList(priorityWaitList), NEW w, w = CleanupList(waitList)
  PROVE  /\ p \in Seq(WaitEntries) /\ w \in Seq(WaitEntries)
         /\ \A g \in Guids : OneEntry(p, w, g)
         /\ \A g \in Guids : Has(p, g) => Has(priorityWaitList, g)
<1>1. priorityWaitList \in Seq(WaitEntries) /\ waitList \in Seq(WaitEntries)
  BY DEF WaitInv, WaitTypeOK
<1>2. Thinned(priorityWaitList, p) /\ Thinned(waitList, w)
  BY <1>1, CleanupThins
<1>3. \A g \in Guids : OneEntry(priorityWaitList, waitList, g)
  BY DEF WaitInv
<1>4. \A g \in Guids : OneEntry(p, w, g)
  BY <1>2, <1>3, ThinnedKeepsOne
<1>. QED BY <1>2, <1>4 DEF Thinned

(* Who gets in makes one player more. *)
LEMMA LetInCounts ==
  ASSUME WaitInv, NEW g \in Guids, LetIn(g)
  PROVE  /\ admitted' \subseteq admitted \cup {g} /\ admitted' \subseteq Guids /\ IsFiniteSet(admitted')
         /\ Cardinality(admitted) \in Nat /\ Cardinality(admitted') \in Nat
         /\ Cardinality(admitted') <= Cardinality(admitted) + 1
         /\ answer' = [guid |-> g, slot |-> 0]
<1>1. IsFiniteSet(admitted) /\ admitted \subseteq Guids
  BY DEF WaitInv, WaitTypeOK
<1>2. Cardinality(admitted) \in Nat
  BY <1>1, FS_CardinalityType
<1>. DEFINE more == admitted \cup {g}
<1>3. /\ IsFiniteSet(more)
      /\ Cardinality(more) = IF g \in admitted THEN Cardinality(admitted) ELSE Cardinality(admitted) + 1
  BY <1>1, FS_AddElement, Zenon
<1>4. Cardinality(more) \in Nat /\ Cardinality(more) <= Cardinality(admitted) + 1
  BY <1>2, <1>3
<1>5. admitted' = admitted \/ admitted' = more
  BY DEF LetIn
<1>6. more \subseteq admitted \cup {g} /\ more \subseteq Guids
  BY <1>1
<1>7. answer' = [guid |-> g, slot |-> 0]
  BY DEF LetIn
<1>. HIDE DEF more
<1>8. CASE admitted' = admitted
  BY <1>1, <1>2, <1>7, <1>8
<1>9. CASE admitted' = more
  BY <1>2, <1>3, <1>4, <1>6, <1>7, <1>9
<1>. QED BY <1>5, <1>8, <1>9

(* What a login does to what counts: the player that gets in finds a place *)
(* beside all who wait with priority, unless it is one of them.            *)
Served(g) == \/ admitted' = admitted
             \/ g \in Privileged
             \/ MaxPlayers = 0
             \/ /\ Cardinality(admitted') <= MaxPlayers
                /\ Has(priorityWaitList, g) \/ Cardinality(admitted') + Len(priorityWaitList') <= MaxPlayers

LoginServes(g) == WaitInv' /\ admitted' \subseteq admitted \cup {g} /\ Served(g)

(* The parts of the invariant after a login. *)
LEMMA LoginParts ==
  ASSUME NEW g \in Guids, admitted' \subseteq admitted \cup {g}, admitted' \subseteq Guids, IsFiniteSet(admitted'),
         Served(g), NEW slot \in Nat, answer' = [guid |-> g, slot |-> slot],
         priorityWaitList' \in Seq(WaitEntries), waitList' \in Seq(WaitEntries),
         \A h \in Guids : OneEntry(priorityWaitList', waitList', h)
  PROVE  LoginServes(g)
BY DEF LoginServes, WaitInv, WaitTypeOK, OneEntry, Once, Has

LEMMA PrivilegedServes ==
  ASSUME WaitInv, NEW g \in Guids, LoginPrivileged(g)
  PROVE  LoginServes(g)
<1>1. LetIn(g) /\ g \in Privileged /\ priorityWaitList' = priorityWaitList /\ waitList' = waitList
  BY DEF LoginPrivileged, waitLists
<1>2. Served(g)
  BY <1>1 DEF Served
<1>3. /\ admitted' \subseteq admitted \cup {g} /\ admitted' \subseteq Guids /\ IsFiniteSet(admitted')
      /\ answer' = [guid |-> g, slot |-> 0]
  BY <1>1, LetInCounts
<1>4. /\ priorityWaitList' \in Seq(WaitEntries) /\ waitList' \in Seq(WaitEntries)
      /\ \A h \in Guids : OneEntry(priorityWaitList', waitList', h)
  BY <1>1 DEF WaitInv, WaitTypeOK
<1>. QED BY <1>2, <1>3, <1>4, LoginParts

LEMMA DirectServes ==
  ASSUME WaitListAssumption, WaitInv, NEW g \in Guids,
         NEW p, p = CleanupList(priorityWaitList), NEW w, w = CleanupList(waitList), LoginDirect(g, p, w)
  PROVE  LoginServes(g)
<1>1. DirectAccess(p, w) /\ LetIn(g) /\ priorityWaitList' = p /\ waitList' = w
  BY DEF LoginDirect
<1>2. /\ admitted' \subseteq admitted \cup {g} /\ admitted' \subseteq Guids /\ IsFiniteSet(admitted')
      /\ Cardinality(admitted) \in Nat /\ Cardinality(admitted') \in Nat
      /\ Cardinality(admitted') <= Cardinality(admitted) + 1
      /\ answer' = [guid |-> g, slot |-> 0]
  BY <1>1, LetInCounts
<1>3. /\ priorityWaitList' \in Seq(WaitEntries) /\ waitList' \in Seq(WaitEntries)
      /\ \A h \in Guids : OneEntry(priorityWaitList', waitList', h)
  BY <1>1, CleanupKeepsOne
<1>4. Served(g)
  <2>1. CASE MaxPlayers = 0
    BY <2>1 DEF Served
  <2>2. CASE MaxPlayers # 0
    <3>1. p = <<>> /\ Cardinality(admitted) < MaxPlayers /\ MaxPlayers \in Nat
      BY <1>1, <2>2 DEF DirectAccess, WaitListAssumption
    <3>2. Len(priorityWaitList') = 0
      BY <1>1, <3>1
    <3>. QED BY <1>2, <3>1, <3>2 DEF Served
  <2>. QED BY <2>1, <2>2
<1>. QED BY <1>2, <1>3, <1>4, LoginParts

(* A player that has a place in a list gets in when there is room for it   *)
(* and for those before it, and keeps its entry otherwise.                 *)
LEMMA FromListServes ==
  ASSUME WaitListAssumption, WaitInv, NEW g \in Guids,
         NEW p, p = CleanupList(priorityWaitList), NEW w, w = CleanupList(waitList), LoginFromList(g, p, w)
  PROVE  LoginServes(g)
<1>1. /\ p \in Seq(WaitEntries) /\ w \in Seq(WaitEntries)
      /\ \A h \in Guids : OneEntry(p, w, h)
      /\ \A h \in Guids : Has(p, h) => Has(priorityWaitList, h)
  BY CleanupKeepsOne
<1>2. Once(p, g) /\ Once(w, g) /\ (Has(p, g) \/ Has(w, g))
  BY <1>1 DEF OneEntry, LoginFromList, Waits
<1>. DEFINE slot == FindSlot(p, w, g)
<1>3. /\ slot \in Nat /\ slot > 0
      /\ ~Has(p, g) => slot > Len(p)
  <2>1. CASE Has(p, g)
    <3>1. Distance(p, g) \in Nat \ {0} /\ slot = Distance(p, g) + 1
      BY <1>1, <1>2, <2>1, EntryIsFound DEF FindSlot
    <3>. HIDE DEF slot
    <3>. QED BY <2>1, <3>1
  <2>2. CASE ~Has(p, g)
    <3>1. Distance(w, g) \in Nat \ {0} /\ slot = Len(p) + Distance(w, g) + 1
      BY <1>1, <1>2, <2>2, EntryIsFound DEF FindSlot, WaitSlot
    <3>. HIDE DEF slot
    <3>. QED BY <1>1, <3>1
  <2>. QED BY <2>1, <2>2
<1>4. CASE HasCapacity(slot)
  <2>1. /\ LetIn(g) /\ priorityWaitList' = Removed(p, g)
        /\ waitList' = IF Has(p, g) THEN w ELSE Removed(w, g)
    BY <1>4 DEF LoginFromList
  <2>2. /\ admitted' \subseteq admitted \cup {g} /\ admitted' \subseteq Guids /\ IsFiniteSet(admitted')
        /\ Cardinality(admitted) \in Nat /\ Cardinality(admitted') \in Nat
        /\ Cardinality(admitted') <= Cardinality(admitted) + 1
        /\ answer' = [guid |-> g, slot |-> 0]
    BY <2>1, LetInCounts
  <2>3. /\ Thinned(p, Removed(p, g)) /\ Thinned(w, Removed(w, g)) /\ Thinned(w, w)
        /\ Len(Removed(p, g)) \in Nat /\ Len(Removed(p, g)) <= Len(p)
    BY <1>1, <1>2, RemovedThins DEF Thinned
  <2>4. Thinned(p, priorityWaitList') /\ Thinned(w, waitList')
    BY <2>1, <2>3
  <2>5. \A h \in Guids : OneEntry(priorityWaitList', waitList', h)
    BY <1>1, <2>4, ThinnedKeepsOne
  <2>6. Served(g)
    <3>1. Cardinality(admitted) + slot <= MaxPlayers /\ MaxPlayers \in Nat
      BY <1>4 DEF HasCapacity, WaitListAssumption
    <3>2. Cardinality(admitted') <= MaxPlayers
      <4>. HIDE DEF slot
      <4>. QED BY <1>3, <2>2, <3>1
    <3>3. CASE Has(p, g)
      BY <1>1, <3>2, <3>3 DEF Served
    <3>4. CASE ~Has(p, g)
      <4>1. Cardinality(admitted') + Len(priorityWaitList') <= MaxPlayers
        <5>. HIDE DEF slot
        <5>1. Len(p) \in Nat /\ slot >= Len(p) + 1
          BY <1>1, <1>3, <3>4
        <5>. QED BY <1>3, <2>1, <2>2, <2>3, <3>1, <5>1
      <4>. QED BY <3>2, <4>1 DEF Served
    <3>. QED BY <3>3, <3>4
  <2>. QED BY <2>2, <2>4, <2>5, <2>6, LoginParts DEF Thinned
<1>5. CASE ~HasCapacity(slot)
  <2>1. /\ Refused(g, slot) /\ priorityWaitList' = Longer(p, g)
        /\ waitList' = IF Has(p, g) THEN w ELSE Longer(w, g)
    BY <1>5 DEF LoginFromList
  <2>2. Thinned(p, Longer(p, g)) /\ Thinned(w, Longer(w, g)) /\ Thinned(w, w)
    BY <1>1, <1>2, LongerThins DEF Thinned
  <2>3. Thinned(p, priorityWaitList') /\ Thinned(w, waitList')
    BY <2>1, <2>2
  <2>4. \A h \in Guids : OneEntry(priorityWaitList', waitList', h)
    BY <1>1, <2>3, ThinnedKeepsOne
  <2>5. /\ admitted' = admitted /\ answer' = [guid |-> g, slot |-> slot]
        /\ admitted \subseteq Guids /\ IsFiniteSet(admitted)
    BY <2>1 DEF Refused, WaitInv, WaitTypeOK
  <2>6. Served(g)
    BY <2>5 DEF Served
  <2>7. priorityWaitList' \in Seq(WaitEntries) /\ waitList' \in Seq(WaitEntries)
    BY <2>3 DEF Thinned
  <2>. HIDE DEF slot
  <2>. QED BY <1>3, <2>4, <2>5, <2>6, <2>7, LoginParts
<1>. QED BY <1>4, <1>5

(* A player that asks for the first time gets the last place of its list. *)
LEMMA EnlistServes ==
  ASSUME WaitListAssumption, WaitInv, NEW g \in Guids, NEW premium \in BOOLEAN,
         NEW p, p = CleanupList(priorityWaitList), NEW w, w = CleanupList(waitList), LoginEnlist(g, p, w, premium)
  PROVE  LoginServes(g)
<1>1. /\ p \in Seq(WaitEntries) /\ w \in Seq(WaitEntries)
      /\ \A h \in Guids : OneEntry(p, w, h)
  BY CleanupKeepsOne
<1>. DEFINE slot == Len(p) + (IF premium THEN 0 ELSE Len(w)) + 1
            e == WaitEntry(slot, g)
<1>2. slot \in Nat
  BY <1>1
<1>3. /\ ~Has(p, g) /\ ~Has(w, g) /\ Refused(g, slot)
      /\ priorityWaitList' = IF premium THEN Append(p, e) ELSE p
      /\ waitList' = IF premium THEN w ELSE Append(w, e)
  BY DEF LoginEnlist, Waits
<1>. HIDE DEF slot
<1>4. e \in WaitEntries /\ e.guid = g
  BY <1>2, NewEntryIsEntry
<1>. HIDE DEF e
<1>5. /\ Append(p, e) \in Seq(WaitEntries) /\ Append(w, e) \in Seq(WaitEntries)
      /\ \A h \in Guids : OneEntry(Append(p, e), w, h) /\ OneEntry(p, Append(w, e), h)
  BY <1>1, <1>3, <1>4, EnlistKeepsOne
<1>6. /\ priorityWaitList' \in Seq(WaitEntries) /\ waitList' \in Seq(WaitEntries)
      /\ \A h \in Guids : OneEntry(priorityWaitList', waitList', h)
  BY <1>1, <1>3, <1>5
<1>7. /\ admitted' = admitted /\ answer' = [guid |-> g, slot |-> slot]
      /\ admitted \subseteq Guids /\ IsFiniteSet(admitted)
  BY <1>3 DEF Refused, WaitInv, WaitTypeOK
<1>8. Served(g)
  BY <1>7 DEF Served
<1>. QED BY <1>2, <1>6, <1>7, <1>8, LoginParts

LEMMA ClientLoginServes ==
  ASSUME WaitListAssumption, WaitInv, NEW g \in Guids, NEW premium \in BOOLEAN, ClientLogin(g, premium)
  PROVE  LoginServes(g)
<1>. DEFINE p == CleanupList(priorityWaitList)
            w == CleanupList(waitList)
<1>1. \/ LoginPrivileged(g) \/ LoginDirect(g, p, w) \/ LoginFromList(g, p, w) \/ LoginEnlist(g, p, w, premium)
  BY DEF ClientLogin
<1>. HIDE DEF p, w
<1>2. p = CleanupList(priorityWaitList) /\ w = CleanupList(waitList)
  BY DEF p, w
<1>. QED BY <1>1, <1>2, PrivilegedServes, DirectServes, FromListServes, EnlistServes

(* Every step keeps the invariant, and only a login lets somebody in. *)
LEMMA WaitNextServes ==
  ASSUME WaitListAssumption, WaitInv, WaitNext
  PROVE  WaitInv' /\ (admitted' \subseteq admitted \/ \E g \in Guids : LoginServes(g))
<1>1. ASSUME Tick PROVE WaitInv' /\ admitted' \subseteq admitted
  <2>1. /\ priorityWaitList' = Older(priorityWaitList) /\ waitList' = Older(waitList)
        /\ admitted' = admitted /\ answer' = answer
    BY <1>1 DEF Tick
  <2>2. priorityWaitList \in Seq(WaitEntries) /\ waitList \in Seq(WaitEntries)
        /\ \A g \in Guids : OneEntry(priorityWaitList, waitList, g)
    BY DEF WaitInv, WaitTypeOK
  <2>3. Thinned(priorityWaitList, priorityWaitList') /\ Thinned(waitList, waitList')
    BY <2>1, <2>2, OlderThins
  <2>4. \A g \in Guids : OneEntry(priorityWaitList', waitList', g)
    BY <2>2, <2>3, ThinnedKeepsOne
  <2>5. priorityWaitList' \in Seq(WaitEntries) /\ waitList' \in Seq(WaitEntries)
    BY <2>3 DEF Thinned
  <2>. QED BY <2>1, <2>4, <2>5 DEF WaitInv, WaitTypeOK, OneEntry, Once, Has
<1>2. ASSUME NEW g \in Guids, LeaveServer(g) PROVE WaitInv' /\ admitted' \subseteq admitted
  <2>1. /\ admitted' = admitted \ {g} /\ answer' = answer
        /\ priorityWaitList' = priorityWaitList /\ waitList' = waitList
    BY <1>2 DEF LeaveServer, waitLists
  <2>2. IsFiniteSet(admitted')
    BY <2>1, FS_Subset DEF WaitInv
  <2>. QED BY <2>1, <2>2 DEF WaitInv, WaitTypeOK, OneEntry, Once, Has
<1>3. ASSUME NEW g \in Guids, NEW premium \in BOOLEAN, ClientLogin(g, premium)
      PROVE  WaitInv' /\ LoginServes(g)
  BY <1>3, ClientLoginServes DEF LoginServes
<1>. QED BY <1>1, <1>2, <1>3 DEF WaitNext

LEMMA WaitStutters == ASSUME WaitInv, UNCHANGED waitVars PROVE WaitInv'
BY DEF waitVars, waitLists, WaitInv, WaitTypeOK, OneEntry, Once, Has

LEMMA WaitInitHolds == ASSUME WaitListAssumption, WaitInit PROVE WaitInv
<1>1. IsFiniteSet(admitted)
  BY FS_EmptySet DEF WaitInit
<1>. QED BY <1>1 DEF WaitInit, WaitInv, WaitTypeOK, WaitListAssumption, OneEntry, Once, Has

(* One entry for a player, counted. *)
LEMMA OneEntryIsOne ==
  ASSUME WaitInv PROVE WaitsOnce
<1>. SUFFICES ASSUME NEW g \in Guids
              PROVE  Cardinality({i \in DOMAIN priorityWaitList : priorityWaitList[i].guid = g})
                     + Cardinality({i \in DOMAIN waitList : waitList[i].guid = g}) <= 1
  BY DEF WaitsOnce
<1>. DEFINE A == {i \in DOMAIN priorityWaitList : priorityWaitList[i].guid = g}
            B == {i \in DOMAIN waitList : waitList[i].guid = g}
<1>1. OneEntry(priorityWaitList, waitList, g)
  BY DEF WaitInv
<1>2. /\ A = {} \/ \E i : A = {i}
      /\ B = {} \/ \E i : B = {i}
      /\ A = {} \/ B = {}
  BY <1>1 DEF OneEntry, Once, Has
<1>. HIDE DEF A, B
<1>3. Cardinality(A) \in {0, 1} /\ (A = {} => Cardinality(A) = 0)
  BY <1>2, FS_EmptySet, FS_Singleton
<1>4. Cardinality(B) \in {0, 1} /\ (B = {} => Cardinality(B) = 0)
  BY <1>2, FS_EmptySet, FS_Singleton
<1>5. Cardinality(A) + Cardinality(B) <= 1
  BY <1>2, <1>3, <1>4
<1>. QED BY <1>5 DEF A, B

LimitStep == MaxPlayers > 0 => \A g \in Guids : Ordinary(g) => Cardinality(admitted') <= MaxPlayers
PriorityStep ==
  MaxPlayers > 0 =>
    \A g \in Guids : Ordinary(g) /\ ~Has(priorityWaitList, g)
      => Cardinality(admitted') + Len(priorityWaitList') <= MaxPlayers

LEMMA StepIsFair ==
  ASSUME WaitListAssumption, WaitInv, WaitNext
  PROVE  LimitStep /\ PriorityStep
<1>1. \/ admitted' \subseteq admitted
      \/ \E g \in Guids : admitted' \subseteq admitted \cup {g} /\ Served(g)
  BY WaitNextServes DEF LoginServes
<1>2. MaxPlayers \in Nat
  BY DEF WaitListAssumption
<1>. QED BY <1>1, <1>2 DEF LimitStep, PriorityStep, Ordinary, Served

(* clientLogin() for any number of players and any maxPlayers: however     *)
(* clients retry, let their entries expire, and gain or lose their premium *)
(* time in between, no ordinary player gets in past maxPlayers or past     *)
(* those with priority, and nobody holds two places.                       *)
THEOREM AdmissionStaysFair == ASSUME WaitListAssumption PROVE WaitSpec => AdmissionIsFair
<1>1. WaitInit => WaitInv
  BY WaitInitHolds
<1>2. WaitInv /\ [WaitNext]_waitVars => WaitInv'
  BY WaitNextServes, WaitStutters
<1>3. WaitInv => WaitTypeOK /\ WaitsOnce
  BY OneEntryIsOne DEF WaitInv
<1>4. WaitInv /\ [WaitNext]_waitVars => [LimitStep]_waitVars /\ [PriorityStep]_waitVars
  BY StepIsFair
<1>5. AdmissionIsFair <=> [][LimitStep]_waitVars /\ [][PriorityStep]_waitVars /\ [](WaitTypeOK /\ WaitsOnce)
  BY DEF AdmissionIsFair, LimitIsKept, PriorityIsServed, LimitStep, PriorityStep
<1>. QED BY <1>1, <1>2, <1>3, <1>4, <1>5, PTL DEF WaitSpec

(***************************************************************************)
(* Chat: what the channels, their lists and the guilds point to.           *)
(***************************************************************************)

(* A map of the code: keys are among K, values in V. *)
IsMap(f, K, V) ==
  /\ f = [x \in DOMAIN f |-> f[x]] /\ DOMAIN f \subseteq K
  /\ \A x \in DOMAIN f : f[x] \in V

(* A map with an entry made or written, and with one erased. *)
Gains(g, f, K, V, k, v) ==
  /\ IsMap(g, K, V) /\ DOMAIN g = DOMAIN f \cup {k} /\ g[k] = v
  /\ \A x \in DOMAIN f : x # k => g[x] = f[x]
Loses(g, f, K, V, k) ==
  /\ IsMap(g, K, V) /\ DOMAIN g = DOMAIN f \ {k} /\ \A x \in DOMAIN g : g[x] = f[x]

(* An entry is made or written, one is written, one is erased. *)
LEMMA AddedDoes ==
  ASSUME NEW K, NEW V, NEW f, IsMap(f, K, V), NEW k \in K, NEW v \in V
  PROVE  Gains(Added(f, k, v), f, K, V, k, v)
  BY DEF IsMap, Added, Gains

LEMMA WrittenDoes ==
  ASSUME NEW K, NEW V, NEW f, IsMap(f, K, V), NEW k \in DOMAIN f, NEW v \in V
  PROVE  LET g == [f EXCEPT ![k] = v] IN
         /\ IsMap(g, K, V) /\ DOMAIN g = DOMAIN f /\ g[k] = v
         /\ \A x \in DOMAIN f : x # k => g[x] = f[x]
  BY DEF IsMap

LEMMA ErasedDoes ==
  ASSUME NEW K, NEW V, NEW f, IsMap(f, K, V), NEW k
  PROVE  Loses(Erased(f, k), f, K, V, k)
  BY DEF IsMap, Erased, Loses

Keys == ({"normal"} \X Normal) \cup ({"private"} \X PrivateIds)
          \cup ({"guild"} \X Guilds) \cup ({"party"} \X Companies)
Rooms == [owner : Speakers, invites : SUBSET Speakers]
Persons == [on : BOOLEAN, party : Companies \cup {None}, guild : Guilds \cup {None},
            buffer : 0 .. (MAX_MESSAGEBUFFER + 2), ticks : {0, 1000}, muted : Nat]

ChatTypes ==
  /\ IsMap(users, Keys, SUBSET Speakers)
  /\ IsMap(private, PrivateIds, Rooms)
  /\ who \in [Speakers -> Persons] /\ mutes \in [Speakers -> Nat \ {0}]
  /\ IsMap(guilds, Guilds, SUBSET Speakers)

(* The channels of the file are open always, a private one while it has an *)
(* entry.                                                                  *)
OpenAgree ==
  /\ \A n \in Normal : <<"normal", n>> \in DOMAIN users
  /\ \A id \in PrivateIds : <<"private", id>> \in DOMAIN users <=> id \in DOMAIN private

(* MuteOutlasts from one second to the next: a mute ends after the buffer  *)
(* has given way.                                                          *)
MuteWaits == MAX_MESSAGEBUFFER # 0 =>
  \A q \in Speakers \ CannotBeMuted :
    /\ who[q].buffer <= MAX_MESSAGEBUFFER + 1
    /\ who[q].buffer = MAX_MESSAGEBUFFER + 1 =>
         who[q].muted >= 1 /\ (who[q].ticks = 0 => who[q].muted >= 2)

(* Who is out of the game is in no guild.                                  *)
OfflineHasNone == \A q \in Speakers : ~Online(q) => who[q].guild = None


(* What removeUserFromAllChannels() and the channels need: the lists of    *)
(* users and of the invited.                                               *)
RoomsInv == OpenAgree /\ UsersAreOnline /\ PrivateIsPrivate

(* Where a channel was found it is open, and a private one has an entry.   *)
LEMMA FoundIsOpen ==
  ASSUME ChatAssumption, ChatTypes, OpenAgree, NEW q \in Speakers, NEW c \in Channels, NEW can
  PROVE  LET ch == GetChannel(q, c, can) IN
         ch # NoChannel => /\ ch \in DOMAIN users /\ ch \in Keys
                           /\ ch[1] = "private" => /\ c[1] = "private" /\ ch = <<"private", c[2]>>
                                                   /\ ch[2] \in DOMAIN private /\ IsInvited(q, ch[2])
<1>. SUFFICES ASSUME GetChannel(q, c, can) # NoChannel
              PROVE  LET ch == GetChannel(q, c, can) IN
                     /\ ch \in DOMAIN users /\ ch \in Keys
                     /\ ch[1] = "private" => /\ c[1] = "private" /\ ch = <<"private", c[2]>>
                                             /\ ch[2] \in DOMAIN private /\ IsInvited(q, ch[2])
  OBVIOUS
<1>1. DOMAIN users \subseteq Keys
  BY DEF ChatTypes, IsMap
<1>2. CASE c[1] = "guild"
  <2>1. GetChannel(q, c, can) = <<"guild", who[q].guild>> /\ <<"guild", who[q].guild>> \in DOMAIN users
    BY <1>2 DEF GetChannel, FindChannel
  <2>. QED BY <1>1, <2>1
<1>3. CASE c[1] = "party"
  <2>1. GetChannel(q, c, can) = <<"party", who[q].party>> /\ <<"party", who[q].party>> \in DOMAIN users
    BY <1>3 DEF GetChannel, FindChannel
  <2>. QED BY <1>1, <2>1
<1>4. CASE c[1] = "normal"
  <2>1. PICK n \in Normal : c = <<"normal", n>>
    BY <1>4 DEF Channels
  <2>2. GetChannel(q, c, can) = c
    BY <1>4 DEF GetChannel
  <2>. QED BY <1>1, <2>1, <2>2 DEF OpenAgree
<1>5. CASE c[1] = "private"
  <2>1. PICK id \in PrivateIds : c = <<"private", id>>
    BY <1>5 DEF Channels
  <2>2. GetChannel(q, c, can) = c /\ id \in DOMAIN private /\ IsInvited(q, id)
    BY <1>5, <2>1 DEF GetChannel
  <2>. QED BY <1>1, <2>1, <2>2 DEF OpenAgree
<1>. QED BY <1>2, <1>3, <1>4, <1>5 DEF Channels

(* What removeUserFromAllChannels() leaves. *)
LEMMA RemoveUserDoes ==
  ASSUME ChatAssumption, ChatTypes, RoomsInv, NEW q \in Speakers, RemoveUserFromAllChannels(q)
  PROVE  /\ IsMap(users', Keys, SUBSET Speakers) /\ IsMap(private', PrivateIds, Rooms)
         /\ OpenAgree'
         /\ \A ch \in DOMAIN users' : ch \in DOMAIN users /\ users'[ch] = users[ch] \ {q}
         /\ \A id \in DOMAIN private' :
              /\ id \in DOMAIN private /\ private'[id].owner = private[id].owner /\ private[id].owner # q
              /\ private'[id].invites = private[id].invites \ {q}
<1>. DEFINE P == {<<"private", id>> : id \in Owned(q)}
<1>1. /\ DOMAIN users' = DOMAIN users \ P
      /\ \A ch \in DOMAIN users' : ch \in DOMAIN users /\ users'[ch] = users[ch] \ {q}
  BY DEF RemoveUserFromAllChannels
<1>2. /\ DOMAIN private' = DOMAIN private \ Owned(q)
      /\ \A id \in DOMAIN private' : private'[id] = RemoveInvite(private[id], q)
  BY DEF RemoveUserFromAllChannels
<1>3. ASSUME NEW id \in DOMAIN private'
      PROVE  /\ id \in DOMAIN private /\ private'[id].owner = private[id].owner /\ private[id].owner # q
             /\ private'[id].invites = private[id].invites \ {q} /\ private'[id] \in Rooms
  <2>1. id \in DOMAIN private /\ id \notin Owned(q) /\ private'[id] = RemoveInvite(private[id], q)
    BY <1>2
  <2>2. private[id] \in Rooms
    BY <2>1 DEF ChatTypes, IsMap
  <2>. QED BY <2>1, <2>2 DEF RemoveInvite, Rooms, Owned
<1>4. IsMap(users', Keys, SUBSET Speakers)
  BY <1>1 DEF ChatTypes, IsMap, RemoveUserFromAllChannels
<1>5. IsMap(private', PrivateIds, Rooms)
  BY <1>2, <1>3 DEF ChatTypes, IsMap, RemoveUserFromAllChannels
<1>6. OpenAgree'
  <2>1. \A n \in Normal : <<"normal", n>> \in DOMAIN users'
    BY <1>1 DEF RoomsInv, OpenAgree
  <2>2. ASSUME NEW id \in PrivateIds
        PROVE  <<"private", id>> \in DOMAIN users' <=> id \in DOMAIN private'
    <3>1. <<"private", id>> \in P <=> id \in Owned(q)
      OBVIOUS
    <3>2. <<"private", id>> \in DOMAIN users <=> id \in DOMAIN private
      BY DEF RoomsInv, OpenAgree
    <3>. HIDE DEF P
    <3>. QED BY <1>1, <1>2, <3>1, <3>2
  <2>. QED BY <2>1, <2>2 DEF OpenAgree
<1>. QED BY <1>1, <1>3, <1>4, <1>5, <1>6

(* A player who is in no channel and on no list may go, or not.            *)
LEMMA RemoveUserKeeps ==
  ASSUME ChatAssumption, ChatTypes, RoomsInv, NEW q \in Speakers, RemoveUserFromAllChannels(q), Speechless,
         \A r \in Speakers \ {q} : who'[r].on = who[r].on
  PROVE  RoomsInv'
<1>1. /\ IsMap(users', Keys, SUBSET Speakers) /\ IsMap(private', PrivateIds, Rooms) /\ OpenAgree'
      /\ \A ch \in DOMAIN users' : ch \in DOMAIN users /\ users'[ch] = users[ch] \ {q}
      /\ \A id \in DOMAIN private' :
              /\ id \in DOMAIN private /\ private'[id].owner = private[id].owner /\ private[id].owner # q
              /\ private'[id].invites = private[id].invites \ {q}
  BY RemoveUserDoes
<1>2. UsersAreOnline'
  <2>1. ASSUME NEW ch \in DOMAIN users', NEW r \in users'[ch]
        PROVE  Online(r)'
    BY <1>1 DEF IsMap, RoomsInv, UsersAreOnline, Online
  <2>2. ASSUME NEW id \in DOMAIN private', NEW r \in private'[id].invites
        PROVE  Online(r)'
    BY <1>1 DEF IsMap, Rooms, RoomsInv, UsersAreOnline, Online
  <2>. QED BY <2>1, <2>2 DEF UsersAreOnline
<1>3. PrivateIsPrivate'
  <2>1. ASSUME NEW id \in DOMAIN private'
        PROVE  /\ private'[id].owner \in users'[<<"private", id>>]
               /\ users'[<<"private", id>>] \subseteq private'[id].invites \cup {private'[id].owner}
    <3>1. id \in PrivateIds /\ id \in DOMAIN private
      BY <1>1 DEF IsMap
    <3>2. <<"private", id>> \in DOMAIN users'
      BY <1>1, <3>1 DEF OpenAgree
    <3>3. users'[<<"private", id>>] = users[<<"private", id>>] \ {q}
      BY <1>1, <3>2
    <3>4. /\ private[id].owner \in users[<<"private", id>>]
          /\ users[<<"private", id>>] \subseteq private[id].invites \cup {private[id].owner}
      BY <3>1 DEF RoomsInv, PrivateIsPrivate
    <3>5. /\ private'[id].owner = private[id].owner /\ private[id].owner # q
          /\ private'[id].invites = private[id].invites \ {q}
      BY <1>1
    <3>. QED BY <3>3, <3>4, <3>5
  <2>2. \A id, jd \in DOMAIN private' : private'[id].owner = private'[jd].owner => id = jd
    BY <1>1 DEF RoomsInv, PrivateIsPrivate
  <2>3. heard'.channel[1] # "private"
    BY DEF Speechless, Silence, NoChannel
  <2>. QED BY <2>1, <2>2, <2>3 DEF PrivateIsPrivate
<1>. QED BY <1>1, <1>2, <1>3 DEF RoomsInv

(* What createChannel() leaves: perhaps one more channel, which is empty.  *)
Grown(vs, us, kind) ==
  /\ IsMap(vs, Keys, SUBSET Speakers) /\ DOMAIN us \subseteq DOMAIN vs
  /\ \A ch \in DOMAIN us : vs[ch] = us[ch]
  /\ \A ch \in DOMAIN vs : ch \notin DOMAIN us => ch[1] = kind /\ vs[ch] = {}

(* A channel is made for a guild or a party.                               *)
LEMMA CreatedDoes ==
  ASSUME ChatAssumption, NEW us, IsMap(us, Keys, SUBSET Speakers), NEW q,
         NEW kind, NEW key, key # None => <<kind, key>> \in Keys
  PROVE  Grown(Created(us, q, kind, key), us, kind)
<1>1. CASE key # None /\ <<kind, key>> \notin DOMAIN us
  <2>1. Created(us, q, kind, key) = Added(us, <<kind, key>>, {})
    BY <1>1 DEF Created
  <2>2. {} \in SUBSET Speakers
    OBVIOUS
  <2>3. LET vs == Added(us, <<kind, key>>, {}) IN
         /\ IsMap(vs, Keys, SUBSET Speakers) /\ DOMAIN vs = DOMAIN us \cup {<<kind, key>>} /\ vs[<<kind, key>>] = {}
         /\ \A x \in DOMAIN us : x # <<kind, key>> => vs[x] = us[x]
    BY <1>1, <2>2, AddedDoes DEF Gains
  <2>. QED BY <1>1, <2>1, <2>3 DEF Grown
<1>2. CASE ~(key # None /\ <<kind, key>> \notin DOMAIN us)
  BY <1>2 DEF Created, Grown
<1>. QED BY <1>1, <1>2

(* Requesting the list of channels makes those of the guild and the party. *)
LEMMA RequestKeeps ==
  ASSUME ChatAssumption, ChatTypes, RoomsInv, NEW q \in Speakers, PlayerRequestChannels(q)
  PROVE  IsMap(users', Keys, SUBSET Speakers) /\ RoomsInv'
<1>. DEFINE us == Created(users, q, "guild", who[q].guild)
            vs == Created(us, q, "party", who[q].party)
<1>1. users' = vs /\ private' = private /\ who' = who /\ heard' = Silence
  BY DEF PlayerRequestChannels, Speechless
<1>2. who[q].guild \in Guilds \cup {None} /\ who[q].party \in Companies \cup {None}
  BY DEF ChatTypes, Persons
<1>3. /\ who[q].guild # None => <<"guild", who[q].guild>> \in Keys
      /\ who[q].party # None => <<"party", who[q].party>> \in Keys
  BY <1>2 DEF Keys
<1>4. Grown(us, users, "guild")
  <2>1. IsMap(users, Keys, SUBSET Speakers)
    BY DEF ChatTypes
  <2>. QED BY <1>3, <2>1, CreatedDoes
<1>. HIDE DEF us
<1>5. Grown(vs, us, "party")
  <2>1. IsMap(us, Keys, SUBSET Speakers)
    BY <1>4 DEF Grown
  <2>. QED BY <1>3, <2>1, CreatedDoes
<1>. HIDE DEF vs
<1>6. /\ DOMAIN users \subseteq DOMAIN vs /\ \A ch \in DOMAIN users : vs[ch] = users[ch]
      /\ \A ch \in DOMAIN vs : ch \notin DOMAIN users => ch[1] # "private" /\ vs[ch] = {}
  <2>1. ASSUME NEW ch \in DOMAIN vs, ch \notin DOMAIN users
        PROVE  ch[1] # "private" /\ vs[ch] = {}
    <3>1. CASE ch \in DOMAIN us
      BY <2>1, <3>1, <1>4, <1>5 DEF Grown
    <3>2. CASE ch \notin DOMAIN us
      BY <2>1, <3>2, <1>5 DEF Grown
    <3>. QED BY <3>1, <3>2
  <2>. QED BY <2>1, <1>4, <1>5 DEF Grown
<1>7. OpenAgree'
  <2>1. ASSUME NEW id \in PrivateIds
        PROVE  <<"private", id>> \in DOMAIN vs <=> <<"private", id>> \in DOMAIN users
    BY <1>6
  <2>. QED BY <1>1, <1>6, <2>1 DEF RoomsInv, OpenAgree
<1>8. UsersAreOnline'
  BY <1>1, <1>6 DEF RoomsInv, UsersAreOnline, Online
<1>9. PrivateIsPrivate'
  <2>1. ASSUME NEW id \in DOMAIN private
        PROVE  vs[<<"private", id>>] = users[<<"private", id>>]
    <3>1. id \in PrivateIds
      BY DEF ChatTypes, IsMap
    <3>2. <<"private", id>> \in DOMAIN users
      BY <3>1 DEF RoomsInv, OpenAgree
    <3>. QED BY <1>6, <3>2
  <2>2. heard'.channel[1] # "private"
    BY <1>1 DEF Silence, NoChannel
  <2>. QED BY <1>1, <2>1, <2>2 DEF RoomsInv, PrivateIsPrivate
<1>. QED BY <1>1, <1>5, <1>7, <1>8, <1>9 DEF RoomsInv, Grown

(* A player who may enters a channel. *)
LEMMA OpenChannelKeeps ==
  ASSUME ChatAssumption, ChatTypes, RoomsInv, NEW q \in Speakers, NEW c \in Channels, NEW can, NEW may,
         PlayerOpenChannel(q, c, can, may)
  PROVE  IsMap(users', Keys, SUBSET Speakers) /\ RoomsInv'
<1>. DEFINE ch == GetChannel(q, c, can)
<1>1. /\ Online(q) /\ ch # NoChannel /\ users' = [users EXCEPT ![ch] = users[ch] \cup {q}]
      /\ private' = private /\ who' = who /\ heard' = Silence
  BY DEF PlayerOpenChannel, Speechless, AddUser
<1>2. /\ ch \in DOMAIN users /\ ch \in Keys
      /\ ch[1] = "private" => /\ ch = <<"private", c[2]>> /\ ch[2] \in DOMAIN private /\ IsInvited(q, ch[2])
  BY <1>1, FoundIsOpen DEF RoomsInv
<1>. HIDE DEF ch
<1>3. users[ch] \cup {q} \in SUBSET Speakers
  BY <1>2 DEF ChatTypes, IsMap
<1>4. /\ IsMap(users', Keys, SUBSET Speakers) /\ DOMAIN users' = DOMAIN users /\ users'[ch] = users[ch] \cup {q}
      /\ \A x \in DOMAIN users : x # ch => users'[x] = users[x]
  <2>1. IsMap(users, Keys, SUBSET Speakers)
    BY DEF ChatTypes
  <2>. QED BY <1>1, <1>2, <1>3, <2>1, WrittenDoes
<1>5. OpenAgree'
  BY <1>1, <1>4 DEF RoomsInv, OpenAgree
<1>6. UsersAreOnline'
  BY <1>1, <1>2, <1>4 DEF RoomsInv, UsersAreOnline, Online
<1>7. PrivateIsPrivate'
  <2>1. ASSUME NEW id \in DOMAIN private
        PROVE  /\ private[id].owner \in users'[<<"private", id>>]
               /\ users'[<<"private", id>>] \subseteq private[id].invites \cup {private[id].owner}
    <3>1. id \in PrivateIds
      BY DEF ChatTypes, IsMap
    <3>2. <<"private", id>> \in DOMAIN users
      BY <3>1 DEF RoomsInv, OpenAgree
    <3>3. /\ private[id].owner \in users[<<"private", id>>]
          /\ users[<<"private", id>>] \subseteq private[id].invites \cup {private[id].owner}
      BY DEF RoomsInv, PrivateIsPrivate
    <3>4. CASE ch = <<"private", id>>
      <4>1. q \in private[id].invites \cup {private[id].owner}
        BY <1>2, <3>4 DEF IsInvited
      <4>. QED BY <1>4, <3>3, <3>4, <4>1
    <3>5. CASE ch # <<"private", id>>
      BY <1>4, <3>2, <3>3, <3>5
    <3>. QED BY <3>4, <3>5
  <2>2. heard'.channel[1] # "private"
    BY <1>1 DEF Silence, NoChannel
  <2>. QED BY <1>1, <2>1, <2>2 DEF RoomsInv, PrivateIsPrivate
<1>. QED BY <1>4, <1>5, <1>6, <1>7 DEF RoomsInv

(* The two views of an entry of the private channels.                      *)
LEMMA RoomOfChannel ==
  ASSUME ChatTypes, RoomsInv, NEW id \in DOMAIN private
  PROVE  /\ id \in PrivateIds /\ <<"private", id>> \in DOMAIN users /\ private[id] \in Rooms
         /\ private[id].owner \in users[<<"private", id>>]
         /\ users[<<"private", id>>] \subseteq private[id].invites \cup {private[id].owner}
<1>1. id \in PrivateIds /\ private[id] \in Rooms
  BY DEF ChatTypes, IsMap
<1>2. <<"private", id>> \in DOMAIN users
  BY <1>1 DEF RoomsInv, OpenAgree
<1>. QED BY <1>1, <1>2 DEF RoomsInv, PrivateIsPrivate

(* A player leaves a channel, or the owner's private channel ends.         *)
LEMMA CloseChannelKeeps ==
  ASSUME ChatAssumption, ChatTypes, RoomsInv, NEW q \in Speakers, NEW c \in Channels, NEW can,
         PlayerCloseChannel(q, c, can)
  PROVE  IsMap(users', Keys, SUBSET Speakers) /\ IsMap(private', PrivateIds, Rooms) /\ RoomsInv'
<1>. DEFINE ch == GetChannel(q, c, can)
            deleted == ch[1] = "private" /\ private[ch[2]].owner = q
<1>1. /\ ch # NoChannel /\ q \in users[ch]
      /\ users' = IF deleted THEN Erased(users, ch) ELSE [users EXCEPT ![ch] = users[ch] \ {q}]
      /\ private' = IF deleted THEN Erased(private, ch[2]) ELSE private
      /\ who' = who /\ heard' = Silence
  BY DEF PlayerCloseChannel, Speechless, RemoveUser
<1>2. /\ ch \in DOMAIN users /\ ch \in Keys
      /\ ch[1] = "private" => ch = <<"private", ch[2]>> /\ ch[2] \in DOMAIN private
  BY <1>1, FoundIsOpen DEF RoomsInv
<1>. HIDE DEF ch
<1>3. IsMap(users, Keys, SUBSET Speakers) /\ IsMap(private, PrivateIds, Rooms)
  BY DEF ChatTypes
<1>4. heard'.channel[1] # "private"
  BY <1>1 DEF Silence, NoChannel
<1>5. CASE deleted
  <2>0. users' = Erased(users, ch) /\ private' = Erased(private, ch[2])
    BY <1>1, <1>5
  <2>1. /\ IsMap(users', Keys, SUBSET Speakers) /\ DOMAIN users' = DOMAIN users \ {ch}
        /\ \A x \in DOMAIN users' : users'[x] = users[x]
    <3>1. Loses(Erased(users, ch), users, Keys, SUBSET Speakers, ch)
      BY <1>3, ErasedDoes
    <3>. QED BY <2>0, <3>1 DEF Loses
  <2>2. /\ IsMap(private', PrivateIds, Rooms) /\ DOMAIN private' = DOMAIN private \ {ch[2]}
        /\ \A x \in DOMAIN private' : private'[x] = private[x]
    <3>1. Loses(Erased(private, ch[2]), private, PrivateIds, Rooms, ch[2])
      BY <1>3, ErasedDoes
    <3>. QED BY <2>0, <3>1 DEF Loses
  <2>3. ch = <<"private", ch[2]>>
    BY <1>2, <1>5
  <2>4. OpenAgree'
    <3>1. \A n \in Normal : <<"normal", n>> # ch
      BY <2>3
    <3>2. ASSUME NEW id \in PrivateIds
          PROVE  <<"private", id>> \in DOMAIN users' <=> id \in DOMAIN private'
      <4>1. <<"private", id>> = ch <=> id = ch[2]
        BY <2>3
      <4>. QED BY <2>1, <2>2, <4>1 DEF RoomsInv, OpenAgree
    <3>. QED BY <2>1, <3>1, <3>2 DEF RoomsInv, OpenAgree
  <2>5. UsersAreOnline'
    BY <1>1, <2>1, <2>2 DEF RoomsInv, UsersAreOnline, Online
  <2>6. PrivateIsPrivate'
    <3>1. ASSUME NEW id \in DOMAIN private'
          PROVE  users'[<<"private", id>>] = users[<<"private", id>>] /\ id \in DOMAIN private /\ private'[id] = private[id]
      <4>1. id \in DOMAIN private /\ id # ch[2] /\ private'[id] = private[id]
        BY <2>2
      <4>2. <<"private", id>> \in DOMAIN users /\ <<"private", id>> # ch
        BY <2>3, <4>1, RoomOfChannel
      <4>. QED BY <2>1, <4>1, <4>2
    <3>. QED BY <1>4, <3>1, ZenonT(60) DEF RoomsInv, PrivateIsPrivate
  <2>. QED BY <2>1, <2>2, <2>4, <2>5, <2>6 DEF RoomsInv
<1>6. CASE ~deleted
  <2>1. users[ch] \ {q} \in SUBSET Speakers
    BY <1>2, <1>3 DEF IsMap
  <2>2. /\ IsMap(users', Keys, SUBSET Speakers) /\ DOMAIN users' = DOMAIN users /\ users'[ch] = users[ch] \ {q}
        /\ \A x \in DOMAIN users : x # ch => users'[x] = users[x]
    BY <1>1, <1>2, <1>3, <1>6, <2>1, WrittenDoes
  <2>3. private' = private
    BY <1>1, <1>6
  <2>. HIDE DEF deleted
  <2>4. OpenAgree'
    BY <2>2, <2>3 DEF RoomsInv, OpenAgree
  <2>5. UsersAreOnline'
    BY <1>1, <1>2, <2>2, <2>3 DEF RoomsInv, UsersAreOnline, Online
  <2>6. PrivateIsPrivate'
    <3>1. ASSUME NEW id \in DOMAIN private
          PROVE  /\ private[id].owner \in users'[<<"private", id>>]
                 /\ users'[<<"private", id>>] \subseteq private[id].invites \cup {private[id].owner}
      <4>1. /\ <<"private", id>> \in DOMAIN users /\ private[id].owner \in users[<<"private", id>>]
            /\ users[<<"private", id>>] \subseteq private[id].invites \cup {private[id].owner}
        BY RoomOfChannel
      <4>2. CASE ch = <<"private", id>>
        <5>1. private[id].owner # q
          BY <1>6, <4>2 DEF deleted
        <5>. QED BY <2>2, <4>1, <4>2, <5>1
      <4>3. CASE ch # <<"private", id>>
        BY <2>2, <4>1, <4>3
      <4>. QED BY <4>2, <4>3
    <3>. QED BY <1>4, <2>3, <3>1 DEF RoomsInv, PrivateIsPrivate
  <2>. QED BY <1>3, <2>2, <2>3, <2>4, <2>5, <2>6 DEF RoomsInv
<1>. QED BY <1>5, <1>6

(* A premium player without a private channel makes one.                   *)
LEMMA CreatePrivateKeeps ==
  ASSUME ChatAssumption, ChatTypes, RoomsInv, NEW q \in Speakers, PlayerCreatePrivateChannel(q)
  PROVE  IsMap(users', Keys, SUBSET Speakers) /\ IsMap(private', PrivateIds, Rooms) /\ RoomsInv'
<1>1. /\ Online(q) /\ Owned(q) = {} /\ who' = who /\ heard' = Silence
  BY DEF PlayerCreatePrivateChannel, Speechless
<1>2. PICK id \in PrivateIds \ DOMAIN private :
        /\ private' = Added(private, id, [owner |-> q, invites |-> {}])
        /\ users' = Added(users, <<"private", id>>, {q})
  BY DEF PlayerCreatePrivateChannel
<1>3. IsMap(users, Keys, SUBSET Speakers) /\ IsMap(private, PrivateIds, Rooms)
  BY DEF ChatTypes
<1>. DEFINE ch == <<"private", id>>
            room == [owner |-> q, invites |-> {}]
<1>4. ch \in Keys /\ {q} \in SUBSET Speakers /\ room \in Rooms
  BY DEF Keys, Rooms
<1>5. /\ IsMap(users', Keys, SUBSET Speakers) /\ DOMAIN users' = DOMAIN users \cup {ch} /\ users'[ch] = {q}
      /\ \A x \in DOMAIN users : x # ch => users'[x] = users[x]
  BY <1>2, <1>3, <1>4, AddedDoes DEF Gains
<1>6. /\ IsMap(private', PrivateIds, Rooms) /\ DOMAIN private' = DOMAIN private \cup {id} /\ private'[id] = room
      /\ \A x \in DOMAIN private : x # id => private'[x] = private[x]
  <2>1. room \in Rooms /\ id \in PrivateIds /\ private' = Added(private, id, room)
    BY <1>2, <1>4
  <2>. HIDE DEF room
  <2>2. Gains(Added(private, id, room), private, PrivateIds, Rooms, id, room)
    BY <1>3, <2>1, AddedDoes
  <2>. QED BY <2>1, <2>2 DEF Gains
<1>7. OpenAgree'
  <2>1. ASSUME NEW jd \in PrivateIds
        PROVE  <<"private", jd>> = ch <=> jd = id
    OBVIOUS
  <2>. HIDE DEF ch
  <2>. QED BY <1>5, <1>6, <2>1 DEF RoomsInv, OpenAgree
<1>8. ch \notin DOMAIN users
  BY <1>2 DEF RoomsInv, OpenAgree
<1>9. UsersAreOnline'
  <2>. HIDE DEF ch
  <2>. QED BY <1>1, <1>5, <1>6, <1>8 DEF RoomsInv, UsersAreOnline, Online
<1>10. PrivateIsPrivate'
  <2>1. ASSUME NEW jd \in DOMAIN private'
        PROVE  /\ private'[jd].owner \in users'[<<"private", jd>>]
               /\ users'[<<"private", jd>>] \subseteq private'[jd].invites \cup {private'[jd].owner}
    <3>1. CASE jd = id
      BY <1>5, <1>6, <3>1
    <3>2. CASE jd # id
      <4>1. jd \in DOMAIN private /\ private'[jd] = private[jd]
        BY <1>6, <3>2
      <4>2. <<"private", jd>> \in DOMAIN users /\ <<"private", jd>> # ch
        BY <3>2, <4>1, RoomOfChannel
      <4>3. users'[<<"private", jd>>] = users[<<"private", jd>>]
        BY <1>5, <4>2
      <4>. QED BY <4>1, <4>3, RoomOfChannel
    <3>. QED BY <3>1, <3>2
  <2>2. \A jd \in DOMAIN private : private[jd].owner # q
    BY <1>1 DEF Owned
  <2>3. ASSUME NEW jd \in DOMAIN private', NEW kd \in DOMAIN private', private'[jd].owner = private'[kd].owner
        PROVE  jd = kd
    <3>1. private'[id].owner = q /\ \A x \in DOMAIN private : private'[x].owner = private[x].owner
      BY <1>2, <1>6
    <3>2. jd \in DOMAIN private \cup {id} /\ kd \in DOMAIN private \cup {id}
      BY <1>6
    <3>. QED BY <2>2, <2>3, <3>1, <3>2 DEF RoomsInv, PrivateIsPrivate
  <2>4. heard'.channel[1] # "private"
    BY <1>1 DEF Silence, NoChannel
  <2>. QED BY <2>1, <2>3, <2>4 DEF PrivateIsPrivate
<1>. QED BY <1>5, <1>6, <1>7, <1>9, <1>10 DEF RoomsInv

(* The owner invites a player who is in the game.                          *)
LEMMA ChannelInviteKeeps ==
  ASSUME ChatAssumption, ChatTypes, RoomsInv, NEW q \in Speakers, NEW r \in Speakers, PlayerChannelInvite(q, r)
  PROVE  IsMap(private', PrivateIds, Rooms) /\ RoomsInv'
<1>1. /\ Online(q) /\ Online(r) /\ who' = who /\ users' = users /\ heard' = Silence
  BY DEF PlayerChannelInvite, Speechless
<1>2. PICK id \in DOMAIN private : private' = [private EXCEPT ![id].invites = private[id].invites \cup {r}]
  BY DEF PlayerChannelInvite, Owned
<1>3. IsMap(private, PrivateIds, Rooms) /\ private[id] \in Rooms
  BY DEF ChatTypes, IsMap
<1>. DEFINE room == [private[id] EXCEPT !.invites = private[id].invites \cup {r}]
<1>4. room \in Rooms /\ room.owner = private[id].owner /\ room.invites = private[id].invites \cup {r}
  BY <1>3 DEF Rooms
<1>5. private' = [private EXCEPT ![id] = room]
  BY <1>2
<1>. HIDE DEF room
<1>6. /\ IsMap(private', PrivateIds, Rooms) /\ DOMAIN private' = DOMAIN private /\ private'[id] = room
      /\ \A x \in DOMAIN private : x # id => private'[x] = private[x]
  BY <1>3, <1>4, <1>5, WrittenDoes
<1>7. OpenAgree'
  BY <1>1, <1>6 DEF RoomsInv, OpenAgree
<1>8. \A x \in DOMAIN private : private'[x].owner = private[x].owner /\ private[x].invites \subseteq private'[x].invites
  BY <1>4, <1>6
<1>9. UsersAreOnline'
  BY <1>1, <1>4, <1>6 DEF RoomsInv, UsersAreOnline, Online
<1>10. PrivateIsPrivate'
  <2>1. heard'.channel[1] # "private"
    BY <1>1 DEF Silence, NoChannel
  <2>. QED BY <1>1, <1>6, <1>8, <2>1 DEF RoomsInv, PrivateIsPrivate
<1>. QED BY <1>6, <1>7, <1>9, <1>10 DEF RoomsInv

(* The owner excludes one whom he had invited.                             *)
LEMMA ChannelExcludeKeeps ==
  ASSUME ChatAssumption, ChatTypes, RoomsInv, NEW q \in Speakers, NEW r \in Speakers, PlayerChannelExclude(q, r)
  PROVE  IsMap(users', Keys, SUBSET Speakers) /\ IsMap(private', PrivateIds, Rooms) /\ RoomsInv'
<1>1. /\ q # r /\ who' = who /\ heard' = Silence
  BY DEF PlayerChannelExclude, Speechless
<1>2. PICK id \in Owned(q) : /\ private' = [private EXCEPT ![id].invites = private[id].invites \ {r}]
                             /\ users' = [users EXCEPT ![<<"private", id>>] = users[<<"private", id>>] \ {r}]
  BY DEF PlayerChannelExclude, RemoveUser
<1>. DEFINE ch == <<"private", id>>
            room == [private[id] EXCEPT !.invites = private[id].invites \ {r}]
<1>3. id \in DOMAIN private /\ private[id].owner = q
  BY DEF Owned
<1>4. /\ IsMap(users, Keys, SUBSET Speakers) /\ IsMap(private, PrivateIds, Rooms)
      /\ ch \in DOMAIN users /\ private[id] \in Rooms
  BY <1>3, RoomOfChannel DEF ChatTypes
<1>5. room \in Rooms /\ room.owner = q /\ room.invites = private[id].invites \ {r}
  BY <1>3, <1>4 DEF Rooms
<1>6. private' = [private EXCEPT ![id] = room]
  BY <1>2
<1>. HIDE DEF room
<1>7. /\ IsMap(private', PrivateIds, Rooms) /\ DOMAIN private' = DOMAIN private /\ private'[id] = room
      /\ \A x \in DOMAIN private : x # id => private'[x] = private[x]
  BY <1>3, <1>4, <1>5, <1>6, WrittenDoes
<1>8. users[ch] \ {r} \in SUBSET Speakers
  BY <1>4 DEF IsMap
<1>9. /\ IsMap(users', Keys, SUBSET Speakers) /\ DOMAIN users' = DOMAIN users /\ users'[ch] = users[ch] \ {r}
      /\ \A x \in DOMAIN users : x # ch => users'[x] = users[x]
  BY <1>2, <1>4, <1>8, WrittenDoes
<1>10. OpenAgree'
  BY <1>7, <1>9 DEF RoomsInv, OpenAgree
<1>11. UsersAreOnline'
  <2>1. ASSUME NEW x \in DOMAIN users', NEW s \in users'[x]
        PROVE  Online(s)'
    BY <1>1, <1>4, <1>9 DEF RoomsInv, UsersAreOnline, Online
  <2>2. ASSUME NEW x \in DOMAIN private', NEW s \in private'[x].invites
        PROVE  Online(s)'
    BY <1>1, <1>5, <1>7 DEF RoomsInv, UsersAreOnline, Online
  <2>. QED BY <2>1, <2>2 DEF UsersAreOnline
<1>12. PrivateIsPrivate'
  <2>1. ASSUME NEW jd \in DOMAIN private'
        PROVE  /\ private'[jd].owner \in users'[<<"private", jd>>]
               /\ users'[<<"private", jd>>] \subseteq private'[jd].invites \cup {private'[jd].owner}
    <3>1. CASE jd = id
      <4>1. q \in users[ch] /\ users[ch] \subseteq private[id].invites \cup {q}
        BY <1>3, RoomOfChannel
      <4>. QED BY <1>1, <1>5, <1>7, <1>9, <3>1, <4>1
    <3>2. CASE jd # id
      <4>1. jd \in DOMAIN private /\ private'[jd] = private[jd]
        BY <1>7, <3>2
      <4>2. <<"private", jd>> \in DOMAIN users /\ <<"private", jd>> # ch
        BY <3>2, <4>1, RoomOfChannel
      <4>3. users'[<<"private", jd>>] = users[<<"private", jd>>]
        BY <1>9, <4>2
      <4>. QED BY <4>1, <4>3, RoomOfChannel
    <3>. QED BY <3>1, <3>2
  <2>2. \A x \in DOMAIN private : private'[x].owner = private[x].owner
    BY <1>3, <1>5, <1>7
  <2>3. heard'.channel[1] # "private"
    BY <1>1 DEF Silence, NoChannel
  <2>. QED BY <1>7, <2>1, <2>2, <2>3 DEF RoomsInv, PrivateIsPrivate
<1>. QED BY <1>7, <1>9, <1>10, <1>11, <1>12 DEF RoomsInv

(* Chat::load() takes away users of the channels of the file only.         *)
LEMMA ReloadKeeps ==
  ASSUME ChatAssumption, ChatTypes, RoomsInv, NEW kept, Reload(kept)
  PROVE  IsMap(users', Keys, SUBSET Speakers) /\ RoomsInv'
<1>1. /\ users' = [ch \in DOMAIN users |-> IF ch[1] = "normal" THEN users[ch] \cap kept ELSE users[ch]]
      /\ private' = private /\ who' = who /\ heard' = Silence
  BY DEF Reload, Speechless
<1>2. DOMAIN users' = DOMAIN users /\ \A ch \in DOMAIN users : users'[ch] \subseteq users[ch]
  BY <1>1
<1>3. IsMap(users', Keys, SUBSET Speakers)
  <2>1. IsMap(users, Keys, SUBSET Speakers)
    BY DEF ChatTypes
  <2>. QED BY <1>1, <1>2, <2>1 DEF IsMap
<1>4. OpenAgree'
  BY <1>1, <1>2 DEF RoomsInv, OpenAgree
<1>5. UsersAreOnline'
  BY <1>1, <1>2 DEF RoomsInv, UsersAreOnline, Online
<1>6. PrivateIsPrivate'
  <2>1. ASSUME NEW id \in DOMAIN private
        PROVE  users'[<<"private", id>>] = users[<<"private", id>>]
    <3>1. <<"private", id>> \in DOMAIN users
      BY RoomOfChannel
    <3>. QED BY <1>1, <3>1
  <2>2. heard'.channel[1] # "private"
    BY <1>1 DEF Silence, NoChannel
  <2>. QED BY <1>1, <2>1, <2>2 DEF RoomsInv, PrivateIsPrivate
<1>. QED BY <1>3, <1>4, <1>5, <1>6 DEF RoomsInv

(* Where the channels stay as they are and nobody leaves the game.         *)
LEMMA RoomsStay ==
  ASSUME ChatTypes, RoomsInv, UNCHANGED <<users, private>>,
         heard'.channel[1] = "private" =>
           heard'.to \subseteq private[heard'.channel[2]].invites \cup {private[heard'.channel[2]].owner},
         \A q \in Speakers : who[q].on => who'[q].on
  PROVE  RoomsInv'
  BY DEF RoomsInv, OpenAgree, UsersAreOnline, PrivateIsPrivate, Online, ChatTypes, IsMap, Rooms

(* What is said in a private channel goes to those who are in it.          *)
LEMMA TalkStaysPrivate ==
  ASSUME ChatAssumption, ChatTypes, RoomsInv, NEW q \in Speakers, NEW c \in Channels, NEW can, NEW may,
         heard' = TalkToChannel(q, c, can, may)
  PROVE  heard'.channel[1] = "private" =>
           heard'.to \subseteq private[heard'.channel[2]].invites \cup {private[heard'.channel[2]].owner}
<1>. DEFINE ch == GetChannel(q, c, can)
<1>1. CASE heard' = Silence
  BY <1>1 DEF Silence, NoChannel
<1>2. CASE heard' # Silence
  <2>1. ch # NoChannel /\ heard' = [channel |-> ch, to |-> users[ch]]
    BY <1>2 DEF TalkToChannel, Talk
  <2>2. ch[1] = "private" => ch = <<"private", ch[2]>> /\ ch[2] \in DOMAIN private
    BY <2>1, FoundIsOpen DEF RoomsInv
  <2>. HIDE DEF ch
  <2>. QED BY <2>1, <2>2, RoomOfChannel
<1>. QED BY <1>1, <1>2

-----------------------------------------------------------------------------
(* What removeMember() leaves. *)
Parted(hs, gs, g, q) ==
  /\ IsMap(hs, Guilds, SUBSET Speakers)
  /\ DOMAIN hs = IF gs[g] = {q} THEN DOMAIN gs \ {g} ELSE DOMAIN gs
  /\ \A x \in DOMAIN hs : hs[x] = IF x = g THEN gs[g] \ {q} ELSE gs[x]

(* removeMember() of a player who is in the list.                          *)
LEMMA RemoveMemberDoes ==
  ASSUME NEW gs, IsMap(gs, Guilds, SUBSET Speakers), NEW g \in DOMAIN gs, NEW q \in Speakers
  PROVE  Parted(RemoveMember(gs, g, q), gs, g, q)
<1>1. gs[g] \ {q} \in SUBSET Speakers
  BY DEF IsMap
<1>2. CASE gs[g] = {q}
  <2>1. Loses(Erased(gs, g), gs, Guilds, SUBSET Speakers, g)
    BY ErasedDoes
  <2>2. RemoveMember(gs, g, q) = Erased(gs, g)
    BY <1>2 DEF RemoveMember
  <2>. QED BY <1>2, <2>1, <2>2 DEF Loses, Parted
<1>3. CASE gs[g] # {q}
  BY <1>1, <1>3 DEF RemoveMember, IsMap, Parted
<1>. QED BY <1>2, <1>3

(* A player leaves his guild, if he has one, for the guild g, if it is one: *)
(* setGuild(), and the end of a session, where g is None.                  *)
LEMMA MemberMoves ==
  ASSUME ChatAssumption, ChatTypes, GuildsAgree, OfflineHasNone, NEW q \in Speakers, Online(q),
         NEW g \in Guilds \cup {None}, g # None => g \in DOMAIN guilds /\ g # who[q].guild /\ who'[q].on,
         who'[q].guild = g,
         \A r \in Speakers : r # q => who'[r].on = who[r].on /\ who'[r].guild = who[r].guild,
         NEW joined, joined = IF g # None THEN [guilds EXCEPT ![g] = guilds[g] \cup {q}] ELSE guilds,
         guilds' = IF who[q].guild # None THEN RemoveMember(joined, who[q].guild, q) ELSE joined
  PROVE  IsMap(guilds', Guilds, SUBSET Speakers) /\ GuildsAgree'
<1>. DEFINE old == who[q].guild
<1>1. /\ IsMap(guilds, Guilds, SUBSET Speakers) /\ None \notin Guilds
      /\ \A h \in DOMAIN guilds : h \in Guilds
  BY DEF ChatTypes, IsMap, ChatAssumption
<1>2. /\ \A h \in DOMAIN guilds : guilds[h] # {} /\ guilds[h] = {r \in Speakers : who[r].on /\ who[r].guild = h}
      /\ \A r \in Speakers : who[r].guild # None => who[r].guild \in DOMAIN guilds /\ who[r].on
  BY DEF GuildsAgree, OfflineHasNone, Online
<1>3. who[q].on
  BY DEF Online
<1>4. /\ IsMap(joined, Guilds, SUBSET Speakers) /\ DOMAIN joined = DOMAIN guilds
      /\ \A h \in DOMAIN guilds : joined[h] = IF h = g THEN guilds[g] \cup {q} ELSE guilds[h]
  <2>1. CASE g = None
    BY <1>1, <2>1
  <2>2. CASE g # None
    BY <1>1, <2>2 DEF IsMap
  <2>. QED BY <2>1, <2>2
<1>5. CASE old = None
  <2>1. guilds' = joined
    BY <1>5
  <2>2. ASSUME NEW h \in DOMAIN guilds
        PROVE  joined[h] # {} /\ joined[h] = {r \in Speakers : who'[r].on /\ who'[r].guild = h}
    <3>1. CASE h = g
      BY <1>1, <1>2, <1>4, <1>5, <3>1
    <3>2. CASE h # g
      BY <1>1, <1>2, <1>4, <1>5, <3>2
    <3>. QED BY <3>1, <3>2
  <2>3. ASSUME NEW r \in Speakers, who'[r].guild # None
        PROVE  who'[r].guild \in DOMAIN guilds
    BY <1>2, <2>3
  <2>. QED BY <1>4, <2>1, <2>2, <2>3 DEF GuildsAgree, Online
<1>6. CASE old # None
  <2>1. old \in DOMAIN guilds /\ old # g /\ joined[old] = guilds[old] /\ q \in guilds[old]
    BY <1>2, <1>3, <1>4, <1>6
  <2>2. guilds' = RemoveMember(joined, old, q)
    BY <1>6
  <2>. HIDE DEF old
  <2>3. /\ IsMap(guilds', Guilds, SUBSET Speakers)
        /\ DOMAIN guilds' = IF guilds[old] = {q} THEN DOMAIN guilds \ {old} ELSE DOMAIN guilds
        /\ \A x \in DOMAIN guilds' : guilds'[x] = IF x = old THEN guilds[old] \ {q} ELSE joined[x]
    <3>1. Parted(RemoveMember(joined, old, q), joined, old, q)
      BY <1>4, <2>1, RemoveMemberDoes
    <3>. QED BY <1>4, <2>1, <2>2, <3>1, ZenonT(60) DEF Parted
  <2>4. ASSUME NEW h \in DOMAIN guilds'
        PROVE  guilds'[h] # {} /\ guilds'[h] = {r \in Speakers : who'[r].on /\ who'[r].guild = h}
    <3>1. h \in DOMAIN guilds /\ h # None
      BY <1>1, <2>3
    <3>2. CASE h = old
      <4>1. guilds[old] # {q} /\ guilds'[h] = guilds[old] \ {q}
        BY <2>3, <3>2
      <4>2. guilds[old] \ {q} # {}
        BY <2>1, <4>1
      <4>. QED BY <1>2, <2>1, <3>1, <3>2, <4>1, <4>2, ZenonT(60)
    <3>3. CASE h = g
      <4>1. guilds'[h] = guilds[g] \cup {q}
        BY <1>4, <2>1, <2>3, <3>1, <3>3
      <4>. QED BY <1>2, <3>1, <3>3, <4>1
    <3>4. CASE h # old /\ h # g
      <4>1. guilds'[h] = guilds[h]
        BY <1>4, <2>3, <3>1, <3>4
      <4>. QED BY <1>2, <3>1, <3>4, <4>1 DEF old
    <3>. QED BY <3>2, <3>3, <3>4
  <2>5. ASSUME NEW r \in Speakers, who'[r].guild # None
        PROVE  who'[r].guild \in DOMAIN guilds'
    <3>1. CASE r = q
      BY <2>1, <2>3, <2>5, <3>1
    <3>2. CASE r # q
      <4>1. who[r].guild \in DOMAIN guilds /\ who[r].on /\ who'[r].guild = who[r].guild
        BY <1>2, <2>5, <3>2
      <4>2. who[r].guild = old => guilds[old] # {q}
        BY <1>2, <3>2, <4>1
      <4>. QED BY <2>3, <4>1, <4>2
    <3>. QED BY <3>1, <3>2
  <2>. QED BY <2>3, <2>4, <2>5 DEF GuildsAgree, Online
<1>. QED BY <1>5, <1>6

(* A player who comes is a member of his guild, which is loaded for him if *)
(* he is the first.                                                        *)
LEMMA AppearKeepsGuilds ==
  ASSUME ChatAssumption, ChatTypes, GuildsAgree, OfflineHasNone, NEW q \in Speakers, EnterGame(q)
  PROVE  IsMap(guilds', Guilds, SUBSET Speakers) /\ GuildsAgree'
<1>. DEFINE g == Membership[q]
<1>1. /\ ~who[q].on /\ who' = [who EXCEPT ![q] = [who[q] EXCEPT !.on = TRUE, !.guild = g]]
      /\ guilds' = IF g = None THEN guilds
                   ELSE IF g \in DOMAIN guilds THEN [guilds EXCEPT ![g] = guilds[g] \cup {q}] ELSE Added(guilds, g, {q})
  BY DEF EnterGame, Online
<1>2. who \in [Speakers -> Persons] /\ IsMap(guilds, Guilds, SUBSET Speakers) /\ g \in Guilds \cup {None}
  BY DEF ChatTypes, ChatAssumption
<1>. HIDE DEF g
<1>3. /\ who'[q].on /\ who'[q].guild = g /\ \A r \in Speakers : r # q => who'[r] = who[r]
  <2>1. who[q] \in Persons
    BY <1>2
  <2>. QED BY <1>1, <1>2, <2>1 DEF Persons
<1>4. /\ None \notin Guilds /\ \A h \in DOMAIN guilds : h \in Guilds
      /\ \A h \in DOMAIN guilds : guilds[h] # {} /\ guilds[h] = {r \in Speakers : who[r].on /\ who[r].guild = h}
      /\ \A r \in Speakers : who[r].guild # None => who[r].guild \in DOMAIN guilds /\ who[r].on
  BY <1>2 DEF GuildsAgree, OfflineHasNone, Online, IsMap, ChatAssumption
<1>5. CASE g = None
  <2>1. guilds' = guilds
    BY <1>1, <1>5
  <2>2. \A h \in DOMAIN guilds : guilds[h] = {r \in Speakers : who'[r].on /\ who'[r].guild = h}
    BY <1>1, <1>3, <1>4, <1>5
  <2>3. \A r \in Speakers : who'[r].guild # None => who'[r].guild \in DOMAIN guilds
    BY <1>3, <1>4, <1>5
  <2>. QED BY <1>2, <1>4, <2>1, <2>2, <2>3 DEF GuildsAgree, Online
<1>6. CASE g # None /\ g \in DOMAIN guilds
  <2>1. /\ IsMap(guilds', Guilds, SUBSET Speakers) /\ DOMAIN guilds' = DOMAIN guilds
        /\ \A h \in DOMAIN guilds : guilds'[h] = IF h = g THEN guilds[g] \cup {q} ELSE guilds[h]
    BY <1>1, <1>2, <1>6 DEF IsMap
  <2>2. ASSUME NEW h \in DOMAIN guilds
        PROVE  guilds'[h] # {} /\ guilds'[h] = {r \in Speakers : who'[r].on /\ who'[r].guild = h}
    <3>1. CASE h = g
      BY <1>3, <1>4, <2>1, <3>1
    <3>2. CASE h # g
      <4>1. \A r \in Speakers : who'[r].on /\ who'[r].guild = h <=> who[r].on /\ who[r].guild = h
        BY <1>1, <1>3, <3>2
      <4>2. h \in DOMAIN guilds /\ guilds'[h] = guilds[h]
        BY <2>1, <3>2
      <4>. QED BY <1>4, <4>1, <4>2
    <3>. QED BY <3>1, <3>2
  <2>3. \A r \in Speakers : who'[r].guild # None => who'[r].guild \in DOMAIN guilds
    BY <1>3, <1>4, <1>6
  <2>. QED BY <2>1, <2>2, <2>3 DEF GuildsAgree, Online
<1>7. CASE g # None /\ g \notin DOMAIN guilds
  <2>1. guilds' = Added(guilds, g, {q}) /\ g \in Guilds /\ {q} \in SUBSET Speakers
    BY <1>1, <1>2, <1>7
  <2>2. Gains(Added(guilds, g, {q}), guilds, Guilds, SUBSET Speakers, g, {q})
    BY <1>2, <2>1, AddedDoes
  <2>3. /\ IsMap(guilds', Guilds, SUBSET Speakers) /\ DOMAIN guilds' = DOMAIN guilds \cup {g}
        /\ guilds'[g] = {q} /\ \A h \in DOMAIN guilds : guilds'[h] = guilds[h]
    BY <1>7, <2>1, <2>2 DEF Gains
  <2>4. ASSUME NEW h \in DOMAIN guilds'
        PROVE  guilds'[h] # {} /\ guilds'[h] = {r \in Speakers : who'[r].on /\ who'[r].guild = h}
    <3>1. CASE h = g
      <4>1. \A r \in Speakers : r # q => who'[r].guild # g
        BY <1>3, <1>4, <1>7
      <4>. QED BY <1>3, <2>3, <3>1, <4>1
    <3>2. CASE h # g
      <4>1. \A r \in Speakers : who'[r].on /\ who'[r].guild = h <=> who[r].on /\ who[r].guild = h
        BY <1>1, <1>3, <3>2
      <4>2. h \in DOMAIN guilds /\ guilds'[h] = guilds[h]
        BY <2>3, <3>2
      <4>. QED BY <1>4, <4>1, <4>2
    <3>. QED BY <3>1, <3>2
  <2>5. \A r \in Speakers : who'[r].guild # None => who'[r].guild \in DOMAIN guilds'
    BY <1>3, <1>4, <2>3
  <2>. QED BY <2>3, <2>4, <2>5 DEF GuildsAgree, Online
<1>. QED BY <1>5, <1>6, <1>7

-----------------------------------------------------------------------------
(* The inductive invariant of Chat. *)
ChatInv == ChatTypes /\ RoomsInv /\ GuildsAgree /\ OfflineHasNone /\ MuteWaits

(* A player with other counters, who is else the same. *)
Recount(p, t, b, m) == [p EXCEPT !.ticks = t, !.buffer = b, !.muted = m]
Recounted(d, p, t, b, m) ==
  /\ d \in Persons /\ d.ticks = t /\ d.buffer = b /\ d.muted = m
  /\ d.on = p.on /\ d.party = p.party /\ d.guild = p.guild

LEMMA RecountDoes ==
  ASSUME NEW p \in Persons, NEW t \in {0, 1000}, NEW b \in 0 .. (MAX_MESSAGEBUFFER + 2), NEW m \in Nat
  PROVE  Recounted(Recount(p, t, b, m), p, t, b, m)
<1>. DEFINE B == 0 .. (MAX_MESSAGEBUFFER + 2)
            T == {0, 1000}
            C == Companies \cup {None}
            G == Guilds \cup {None}
            P == [on : BOOLEAN, party : C, guild : G, buffer : B, ticks : T, muted : Nat]
            d == [p EXCEPT !.ticks = t, !.buffer = b, !.muted = m]
<1>1. b \in B /\ t \in T /\ p \in P /\ P = Persons
  BY DEF Persons
<1>. HIDE DEF B, T, C, G
<1>2. d \in P
  BY <1>1
<1>3. /\ d.ticks = t /\ d.buffer = b /\ d.muted = m /\ d.on = p.on /\ d.party = p.party /\ d.guild = p.guild
  BY <1>1
<1>. QED BY <1>1, <1>2, <1>3 DEF Recounted, Recount

(* A message counts unless the player is muted; one too many mutes him for *)
(* longer than the buffer needs.                                           *)
LEMMA SayStepKeeps ==
  ASSUME ChatAssumption, ChatInv, NEW q \in Speakers, NEW c \in Channels, NEW can, NEW may, PlayerSay(q, c, can, may)
  PROVE  ChatInv'
<1>1. /\ Online(q) /\ ~IsMuted(q) /\ RemoveMessageBuffer(q) /\ heard' = TalkToChannel(q, c, can, may)
      /\ UNCHANGED <<users, private, guilds>>
  BY DEF PlayerSay
<1>2. who \in [Speakers -> Persons] /\ mutes \in [Speakers -> Nat \ {0}] /\ who[q] \in Persons
  BY DEF ChatInv, ChatTypes
<1>. DEFINE b == IF Counts(q) THEN who[q].buffer + 1 ELSE who[q].buffer
            m == IF Overflows(q) THEN LongerMute(who[q].muted, MuteTime(mutes[q])) ELSE who[q].muted
            d == Recount(who[q], who[q].ticks, b, m)
<1>3. who' = [who EXCEPT ![q] = d] /\ mutes' = IF Overflows(q) THEN [mutes EXCEPT ![q] = mutes[q] + 1] ELSE mutes
  <2>1. /\ who' = [who EXCEPT ![q].buffer = b, ![q].muted = m]
        /\ mutes' = IF Overflows(q) THEN [mutes EXCEPT ![q] = mutes[q] + 1] ELSE mutes
    BY <1>1 DEF RemoveMessageBuffer
  <2>. HIDE DEF b, m
  <2>2. who[q] = [who[q] EXCEPT !.ticks = who[q].ticks]
    BY <1>2 DEF Persons
  <2>3. who' = [who EXCEPT ![q] = [who[q] EXCEPT !.buffer = b, !.muted = m]]
    BY <2>1
  <2>4. [who[q] EXCEPT !.buffer = b, !.muted = m] = d
    <3>. DEFINE r == who[q]
    <3>1. PICK o, pa, g, bu, ti, mu :
            r = [on |-> o, party |-> pa, guild |-> g, buffer |-> bu, ticks |-> ti, muted |-> mu]
      BY <1>2 DEF Persons
    <3>. HIDE DEF r
    <3>2. r.ticks = ti
      BY <3>1
    <3>. DEFINE x == [r EXCEPT !.buffer = b, !.muted = m]
                y == [r EXCEPT !.ticks = ti, !.buffer = b, !.muted = m]
                z == [on |-> o, party |-> pa, guild |-> g, buffer |-> b, ticks |-> ti, muted |-> m]
    <3>3. x = z
      <4>1. x = [r EXCEPT !.buffer = b, !.muted = m]
        OBVIOUS
      <4>. HIDE DEF x
      <4>. QED BY <3>1, <4>1
    <3>4. y = z
      <4>1. y = [r EXCEPT !.ticks = ti, !.buffer = b, !.muted = m]
        OBVIOUS
      <4>. HIDE DEF y
      <4>. QED BY <3>1, <4>1
    <3>. QED BY <3>2, <3>3, <3>4 DEF r, Recount
  <2>. QED BY <2>1, <2>3, <2>4
<1>4. /\ who[q].buffer \in 0 .. (MAX_MESSAGEBUFFER + 2) /\ who[q].muted \in Nat /\ mutes[q] \in Nat /\ mutes[q] >= 1
      /\ MAX_MESSAGEBUFFER \in Nat /\ MuteUnit \in Nat /\ MuteUnit >= 2
  BY <1>2 DEF Persons, ChatAssumption
<1>5. MuteTime(mutes[q]) \in Nat /\ MuteTime(mutes[q]) >= 2
  <2>1. ASSUME NEW u \in Nat, NEW n \in Nat, u >= 2, n >= 1
        PROVE  u * n * n \in Nat /\ u * n * n >= 2
    <3>1. u * n \in Nat /\ u * n >= 2
      BY <2>1
    <3>2. ASSUME NEW k \in Nat, k >= 2
          PROVE  k * n \in Nat /\ k * n >= 2
      BY <2>1, <3>2
    <3>. QED BY <3>1, <3>2
  <2>. QED BY <1>4, <2>1 DEF MuteTime
<1>7. b \in 0 .. (MAX_MESSAGEBUFFER + 2) /\ m \in Nat
  BY <1>4, <1>5 DEF Counts, LongerMute
<1>6. /\ b = IF Counts(q) THEN who[q].buffer + 1 ELSE who[q].buffer
      /\ m = IF Overflows(q) THEN LongerMute(who[q].muted, MuteTime(mutes[q])) ELSE who[q].muted
  OBVIOUS
<1>. HIDE DEF b, m
<1>8. /\ d \in Persons /\ d.buffer = b /\ d.muted = m
      /\ d.on = who[q].on /\ d.party = who[q].party /\ d.guild = who[q].guild /\ d.ticks = who[q].ticks
  <2>1. who[q].ticks \in {0, 1000}
    BY <1>2 DEF Persons
  <2>2. Recounted(d, who[q], who[q].ticks, b, m)
    BY <1>2, <1>7, <2>1, RecountDoes
  <2>. HIDE DEF d
  <2>. QED BY <2>2 DEF Recounted
<1>. HIDE DEF d
<1>9. who' \in [Speakers -> Persons] /\ who'[q] = d /\ \A r \in Speakers : r # q => who'[r] = who[r]
  BY <1>2, <1>3, <1>8
<1>10. mutes' \in [Speakers -> Nat \ {0}]
  BY <1>2, <1>3, <1>4
<1>11. ChatTypes'
  BY <1>1, <1>9, <1>10 DEF ChatInv, ChatTypes
<1>12. \A r \in Speakers : who'[r].on = who[r].on /\ who'[r].guild = who[r].guild
  BY <1>8, <1>9
<1>13. RoomsInv'
  <2>1. heard'.channel[1] = "private" =>
           heard'.to \subseteq private[heard'.channel[2]].invites \cup {private[heard'.channel[2]].owner}
    BY <1>1, TalkStaysPrivate DEF ChatInv
  <2>. QED BY <1>1, <1>12, <2>1, RoomsStay DEF ChatInv, ChatTypes
<1>14. GuildsAgree' /\ OfflineHasNone'
  BY <1>1, <1>12 DEF ChatInv, GuildsAgree, OfflineHasNone, Online
<1>15. MuteWaits'
  <2>1. SUFFICES ASSUME MAX_MESSAGEBUFFER # 0, NEW r \in Speakers \ CannotBeMuted
                 PROVE  /\ who'[r].buffer <= MAX_MESSAGEBUFFER + 1
                        /\ who'[r].buffer = MAX_MESSAGEBUFFER + 1 =>
                             who'[r].muted >= 1 /\ (who'[r].ticks = 0 => who'[r].muted >= 2)
    BY DEF MuteWaits
  <2>2. CASE r # q
    BY <1>9, <2>1, <2>2 DEF ChatInv, MuteWaits
  <2>3. CASE r = q
    <3>1. who[q].muted = 0
      BY <1>1, <1>4, <2>3 DEF IsMuted
    <3>2. who[q].buffer <= MAX_MESSAGEBUFFER
      BY <1>4, <2>1, <2>3, <3>1 DEF ChatInv, MuteWaits
    <3>3. Counts(q) /\ (Overflows(q) <=> who[q].buffer = MAX_MESSAGEBUFFER)
      BY <1>4, <2>1, <2>3, <3>2 DEF Counts, Overflows
    <3>4. d.buffer = who[q].buffer + 1 /\ (who[q].buffer = MAX_MESSAGEBUFFER => d.muted >= 2)
      BY <1>4, <1>5, <1>6, <1>8, <3>1, <3>3 DEF LongerMute
    <3>. QED BY <1>4, <1>7, <1>8, <1>9, <2>3, <3>2, <3>4
  <2>. QED BY <2>2, <2>3
<1>. QED BY <1>11, <1>13, <1>14, <1>15 DEF ChatInv

(* A second of a player's: the mute runs, and every other time the buffer  *)
(* gives way.                                                              *)
LEMMA ThinkStepKeeps ==
  ASSUME ChatAssumption, ChatInv, NEW q \in Speakers, Think(q)
  PROVE  ChatInv'
<1>. DEFINE due == who[q].ticks + 1000 >= 1500
            t == IF due THEN 0 ELSE who[q].ticks + 1000
            b == IF due /\ AddMessageBuffer(q) THEN who[q].buffer - 1 ELSE who[q].buffer
            m == IF who[q].muted > 0 THEN who[q].muted - 1 ELSE 0
            d == Recount(who[q], t, b, m)
<1>1. who' = [who EXCEPT ![q] = d] /\ heard' = Silence /\ UNCHANGED <<users, private, mutes, guilds>>
  <2>1. who' = [who EXCEPT ![q].ticks = t, ![q].buffer = b, ![q].muted = m]
    BY DEF Think
  <2>. HIDE DEF t, b, m
  <2>2. who' = [who EXCEPT ![q] = d]
    BY <2>1 DEF Recount
  <2>. QED BY <2>2 DEF Think, Speechless
<1>2. who \in [Speakers -> Persons] /\ who[q] \in Persons
  BY DEF ChatInv, ChatTypes
<1>3. /\ who[q].buffer \in 0 .. (MAX_MESSAGEBUFFER + 2) /\ who[q].muted \in Nat
      /\ MAX_MESSAGEBUFFER \in Nat /\ who[q].ticks \in {0, 1000}
      /\ who[q].on \in BOOLEAN /\ who[q].party \in Companies \cup {None} /\ who[q].guild \in Guilds \cup {None}
  BY <1>2 DEF Persons, ChatAssumption
<1>4. t = (IF who[q].ticks = 0 THEN 1000 ELSE 0) /\ b \in 0 .. (MAX_MESSAGEBUFFER + 2) /\ m \in Nat
  BY <1>3 DEF AddMessageBuffer
<1>5. /\ b = IF who[q].ticks = 1000 /\ AddMessageBuffer(q) THEN who[q].buffer - 1 ELSE who[q].buffer
      /\ m = IF who[q].muted > 0 THEN who[q].muted - 1 ELSE 0
  BY <1>3
<1>. HIDE DEF t, b, m
<1>6. /\ d \in Persons /\ d.ticks = t /\ d.buffer = b /\ d.muted = m
      /\ d.on = who[q].on /\ d.party = who[q].party /\ d.guild = who[q].guild
  <2>1. t \in {0, 1000}
    BY <1>4
  <2>2. Recounted(d, who[q], t, b, m)
    BY <1>2, <1>4, <2>1, RecountDoes
  <2>. HIDE DEF d
  <2>. QED BY <2>2 DEF Recounted
<1>. HIDE DEF d
<1>7. who' \in [Speakers -> Persons] /\ who'[q] = d /\ \A r \in Speakers : r # q => who'[r] = who[r]
  BY <1>1, <1>2, <1>6
<1>8. ChatTypes'
  BY <1>1, <1>7 DEF ChatInv, ChatTypes
<1>9. \A r \in Speakers : who'[r].on = who[r].on /\ who'[r].guild = who[r].guild
  BY <1>6, <1>7
<1>10. RoomsInv'
  BY <1>1, <1>9, RoomsStay DEF ChatInv, ChatTypes, Silence, NoChannel
<1>11. GuildsAgree' /\ OfflineHasNone'
  BY <1>1, <1>9 DEF ChatInv, GuildsAgree, OfflineHasNone, Online
<1>12. MuteWaits'
  <2>1. SUFFICES ASSUME MAX_MESSAGEBUFFER # 0, NEW r \in Speakers \ CannotBeMuted
                 PROVE  /\ who'[r].buffer <= MAX_MESSAGEBUFFER + 1
                        /\ who'[r].buffer = MAX_MESSAGEBUFFER + 1 =>
                             who'[r].muted >= 1 /\ (who'[r].ticks = 0 => who'[r].muted >= 2)
    BY DEF MuteWaits
  <2>2. CASE r # q
    BY <1>7, <2>1, <2>2 DEF ChatInv, MuteWaits
  <2>3. CASE r = q
    <3>1. /\ who[q].buffer <= MAX_MESSAGEBUFFER + 1
          /\ who[q].buffer = MAX_MESSAGEBUFFER + 1 => who[q].muted >= 1 /\ (who[q].ticks = 0 => who[q].muted >= 2)
      BY <2>1, <2>3 DEF ChatInv, MuteWaits
    <3>2. CASE who[q].ticks = 0
      BY <1>3, <1>4, <1>5, <1>6, <1>7, <2>3, <3>1, <3>2
    <3>3. CASE who[q].ticks = 1000
      <4>1. who[q].buffer > 0 => AddMessageBuffer(q)
        BY <2>1, <2>3 DEF AddMessageBuffer
      <4>2. d.buffer <= MAX_MESSAGEBUFFER
        BY <1>3, <1>5, <1>6, <3>1, <3>3, <4>1
      <4>. QED BY <1>3, <1>4, <1>6, <1>7, <2>3, <4>2
    <3>. QED BY <1>3, <3>2, <3>3
  <2>. QED BY <2>2, <2>3
<1>. QED BY <1>8, <1>10, <1>11, <1>12 DEF ChatInv

(* What happens in the channels only. *)
LEMMA OnlyRooms ==
  ASSUME ChatInv, UNCHANGED <<who, mutes, guilds>>,
         IsMap(users', Keys, SUBSET Speakers), IsMap(private', PrivateIds, Rooms), RoomsInv'
  PROVE  ChatInv'
  BY DEF ChatInv, ChatTypes, GuildsAgree, OfflineHasNone, MuteWaits, Online

(* What becomes of one player only, with the same mute or with an empty    *)
(* buffer.                                                                 *)
LEMMA OnePlayer ==
  ASSUME ChatAssumption, ChatInv, NEW q \in Speakers, NEW d \in Persons, who' = [who EXCEPT ![q] = d], mutes' = mutes,
         \/ d.buffer = who[q].buffer /\ d.ticks = who[q].ticks /\ d.muted = who[q].muted
         \/ d.buffer = 0,
         d.on \/ d.guild = None
  PROVE  /\ who' \in [Speakers -> Persons] /\ mutes' \in [Speakers -> Nat \ {0}] /\ OfflineHasNone' /\ MuteWaits'
         /\ who'[q] = d /\ \A r \in Speakers : r # q => who'[r] = who[r]
<1>1. who \in [Speakers -> Persons] /\ mutes \in [Speakers -> Nat \ {0}]
  BY DEF ChatInv, ChatTypes
<1>2. who' \in [Speakers -> Persons] /\ who'[q] = d /\ \A r \in Speakers : r # q => who'[r] = who[r]
  BY <1>1
<1>3. OfflineHasNone'
  BY <1>2 DEF ChatInv, OfflineHasNone, Online
<1>4. MuteWaits'
  <2>1. SUFFICES ASSUME MAX_MESSAGEBUFFER # 0, NEW r \in Speakers \ CannotBeMuted
                 PROVE  /\ who'[r].buffer <= MAX_MESSAGEBUFFER + 1
                        /\ who'[r].buffer = MAX_MESSAGEBUFFER + 1 =>
                             who'[r].muted >= 1 /\ (who'[r].ticks = 0 => who'[r].muted >= 2)
    BY DEF MuteWaits
  <2>2. /\ who[r].buffer <= MAX_MESSAGEBUFFER + 1
        /\ who[r].buffer = MAX_MESSAGEBUFFER + 1 =>
              who[r].muted >= 1 /\ (who[r].ticks = 0 => who[r].muted >= 2)
    BY <2>1 DEF ChatInv, MuteWaits
  <2>3. MAX_MESSAGEBUFFER \in Nat
    BY DEF ChatAssumption
  <2>. QED BY <1>2, <2>2, <2>3
<1>. QED BY <1>1, <1>2, <1>3, <1>4

(* A script gives the player a guild, another, or none.                    *)
LEMMA SetGuildKeeps ==
  ASSUME ChatAssumption, Ranked = Guilds, ChatInv, NEW q \in Speakers, NEW g \in Guilds \cup {None}, SetGuild(q, g)
  PROVE  ChatInv'
<1>1. None \notin Guilds /\ who \in [Speakers -> Persons] /\ who[q] \in Persons
  BY DEF ChatAssumption, ChatInv, ChatTypes
<1>. DEFINE old == who[q].guild
            joined == IF g # None THEN [guilds EXCEPT ![g] = guilds[g] \cup {q}] ELSE guilds
            d == [who[q] EXCEPT !.guild = g]
<1>2. /\ Online(q) /\ g # old /\ (g # None => g \in DOMAIN guilds)
      /\ who' = [who EXCEPT ![q] = d]
      /\ guilds' = IF old # None THEN RemoveMember(joined, old, q) ELSE joined
      /\ heard' = Silence /\ users' = users /\ private' = private /\ mutes' = mutes
  <2>1. (g # None /\ g \in Ranked) <=> g # None
    BY <1>1
  <2>2. /\ Online(q) /\ g # old /\ (g # None => g \in DOMAIN guilds)
        /\ who' = [who EXCEPT ![q].guild = IF g # None THEN g ELSE None]
        /\ guilds' = IF old # None /\ (g = None \/ g # None) THEN RemoveMember(joined, old, q) ELSE joined
        /\ heard' = Silence /\ users' = users /\ private' = private /\ mutes' = mutes
    BY <2>1 DEF SetGuild, Speechless
  <2>3. (IF g # None THEN g ELSE None) = g
    OBVIOUS
  <2>. QED BY <2>2, <2>3
<1>3. /\ d \in Persons /\ d.guild = g /\ d.on = who[q].on
      /\ d.buffer = who[q].buffer /\ d.ticks = who[q].ticks /\ d.muted = who[q].muted
  BY <1>1 DEF Persons
<1>4. d.on
  BY <1>2, <1>3 DEF Online
<1>. HIDE DEF d, joined
<1>5. /\ who' \in [Speakers -> Persons] /\ mutes' \in [Speakers -> Nat \ {0}] /\ OfflineHasNone' /\ MuteWaits'
      /\ who'[q] = d /\ \A r \in Speakers : r # q => who'[r] = who[r]
  BY <1>2, <1>3, <1>4, OnePlayer
<1>6. IsMap(guilds', Guilds, SUBSET Speakers) /\ GuildsAgree'
  <2>1. joined = IF g # None THEN [guilds EXCEPT ![g] = guilds[g] \cup {q}] ELSE guilds
    BY DEF joined
  <2>2. /\ g # None => g \in DOMAIN guilds /\ g # who[q].guild /\ who'[q].on
        /\ who'[q].guild = g /\ \A r \in Speakers : r # q => who'[r].on = who[r].on /\ who'[r].guild = who[r].guild
    BY <1>2, <1>3, <1>4, <1>5
  <2>3. ChatTypes /\ GuildsAgree /\ OfflineHasNone /\ Online(q)
    BY <1>2 DEF ChatInv
  <2>4. guilds' = IF who[q].guild # None THEN RemoveMember(joined, who[q].guild, q) ELSE joined
    BY <1>2
  <2>. QED BY <2>1, <2>2, <2>3, <2>4, MemberMoves
<1>7. RoomsInv'
  BY <1>2, <1>4, <1>5, RoomsStay DEF ChatInv, Silence, NoChannel
<1>. QED BY <1>2, <1>5, <1>6, <1>7 DEF ChatInv, ChatTypes

(* A party is joined or left.                                              *)
LEMMA CompanyKeeps ==
  ASSUME ChatAssumption, ChatInv, NEW q \in Speakers, NEW a \in Companies \cup {None}, Online(q),
         who' = [who EXCEPT ![q].party = a], Speechless, UNCHANGED <<users, private, mutes, guilds>>
  PROVE  ChatInv'
<1>1. who \in [Speakers -> Persons] /\ who[q] \in Persons
  BY DEF ChatInv, ChatTypes
<1>. DEFINE d == [who[q] EXCEPT !.party = a]
<1>2. who' = [who EXCEPT ![q] = d]
  OBVIOUS
<1>3. /\ d \in Persons /\ d.guild = who[q].guild /\ d.on = who[q].on
      /\ d.buffer = who[q].buffer /\ d.ticks = who[q].ticks /\ d.muted = who[q].muted
  BY <1>1 DEF Persons
<1>4. d.on
  BY <1>3 DEF Online
<1>. HIDE DEF d
<1>5. /\ who' \in [Speakers -> Persons] /\ mutes' \in [Speakers -> Nat \ {0}] /\ OfflineHasNone' /\ MuteWaits'
      /\ who'[q] = d /\ \A r \in Speakers : r # q => who'[r] = who[r]
  BY <1>2, <1>3, <1>4, OnePlayer
<1>6. \A r \in Speakers : who'[r].on = who[r].on /\ who'[r].guild = who[r].guild
  BY <1>3, <1>5
<1>7. GuildsAgree'
  BY <1>6 DEF ChatInv, GuildsAgree, Online
<1>8. RoomsInv'
  BY <1>6, RoomsStay DEF ChatInv, Speechless, Silence, NoChannel
<1>. QED BY <1>5, <1>7, <1>8 DEF ChatInv, ChatTypes

(* A player comes into the game.                                           *)
LEMMA AppearKeeps ==
  ASSUME ChatAssumption, ChatInv, NEW q \in Speakers, EnterGame(q)
  PROVE  ChatInv'
<1>1. who \in [Speakers -> Persons] /\ who[q] \in Persons /\ Membership[q] \in Guilds \cup {None}
  BY DEF ChatInv, ChatTypes, ChatAssumption
<1>. DEFINE g == Membership[q]
            d == [who[q] EXCEPT !.on = TRUE, !.guild = g]
<1>2. who' = [who EXCEPT ![q] = d] /\ heard' = Silence /\ UNCHANGED <<users, private, mutes>>
  BY DEF EnterGame, Speechless
<1>3. /\ d \in Persons /\ d.on = TRUE
      /\ d.buffer = who[q].buffer /\ d.ticks = who[q].ticks /\ d.muted = who[q].muted
  <2>1. who[q] \in Persons /\ g \in Guilds \cup {None}
    BY <1>1
  <2>. HIDE DEF g
  <2>2. ASSUME NEW p \in Persons, NEW b \in BOOLEAN, NEW h \in Guilds \cup {None}
        PROVE  LET e == [p EXCEPT !.on = b, !.guild = h] IN
               e \in Persons /\ e.on = b /\ e.buffer = p.buffer /\ e.ticks = p.ticks /\ e.muted = p.muted
    <3>. DEFINE B == 0 .. (MAX_MESSAGEBUFFER + 2)
                T == {0, 1000}
                C == Companies \cup {None}
                G == Guilds \cup {None}
                P == [on : BOOLEAN, party : C, guild : G, buffer : B, ticks : T, muted : Nat]
    <3>1. h \in G /\ p \in P /\ P = Persons
      BY DEF Persons
    <3>. HIDE DEF B, T, C, G
    <3>2. [p EXCEPT !.on = b, !.guild = h] \in P
      BY <3>1
    <3>. QED BY <3>1, <3>2
  <2>. QED BY <2>1, <2>2
<1>. HIDE DEF d
<1>4. /\ who' \in [Speakers -> Persons] /\ mutes' \in [Speakers -> Nat \ {0}] /\ OfflineHasNone' /\ MuteWaits'
      /\ who'[q] = d /\ \A r \in Speakers : r # q => who'[r] = who[r]
  BY <1>2, <1>3, OnePlayer
<1>5. IsMap(guilds', Guilds, SUBSET Speakers) /\ GuildsAgree'
  BY AppearKeepsGuilds DEF ChatInv
<1>6. RoomsInv'
  BY <1>2, <1>3, <1>4, RoomsStay DEF ChatInv, Silence, NoChannel
<1>. QED BY <1>2, <1>4, <1>5, <1>6 DEF ChatInv, ChatTypes

(* A player leaves the game: channels, lists of the invited and the guild  *)
(* forget him.                                                             *)
LEMMA DisappearKeeps ==
  ASSUME ChatAssumption, ChatInv, NEW q \in Speakers, LeaveGame(q)
  PROVE  ChatInv'
<1>1. who \in [Speakers -> Persons] /\ who[q] \in Persons
  BY DEF ChatInv, ChatTypes
<1>. DEFINE d == [Offline EXCEPT !.muted = who[q].muted]
<1>2. /\ Online(q) /\ RemoveUserFromAllChannels(q) /\ Speechless /\ mutes' = mutes
      /\ guilds' = IF who[q].guild # None THEN RemoveMember(guilds, who[q].guild, q) ELSE guilds
      /\ who' = [who EXCEPT ![q] = d]
  BY DEF LeaveGame
<1>3. d \in Persons /\ d.on = FALSE /\ d.guild = None /\ d.buffer = 0
  <2>1. who[q].muted \in Nat /\ 0 \in 0 .. (MAX_MESSAGEBUFFER + 2)
    BY <1>1 DEF Persons, ChatAssumption
  <2>. QED BY <2>1 DEF Persons, Offline
<1>. HIDE DEF d
<1>4. /\ who' \in [Speakers -> Persons] /\ mutes' \in [Speakers -> Nat \ {0}] /\ OfflineHasNone' /\ MuteWaits'
      /\ who'[q] = d /\ \A r \in Speakers : r # q => who'[r] = who[r]
  BY <1>2, <1>3, OnePlayer
<1>5. IsMap(guilds', Guilds, SUBSET Speakers) /\ GuildsAgree'
  <2>1. /\ who'[q].guild = None
        /\ \A r \in Speakers : r # q => who'[r].on = who[r].on /\ who'[r].guild = who[r].guild
    BY <1>3, <1>4
  <2>2. PICK none \in Guilds \cup {None} : none = None
    OBVIOUS
  <2>3. guilds = IF none # None THEN [guilds EXCEPT ![none] = guilds[none] \cup {q}] ELSE guilds
    BY <2>2
  <2>. QED BY <1>2, <2>1, <2>2, <2>3, MemberMoves DEF ChatInv
<1>6. RoomsInv' /\ IsMap(users', Keys, SUBSET Speakers) /\ IsMap(private', PrivateIds, Rooms)
  <2>1. \A r \in Speakers \ {q} : who'[r].on = who[r].on
    BY <1>4
  <2>2. RoomsInv'
    BY <1>2, <2>1, RemoveUserKeeps DEF ChatInv
  <2>. QED BY <1>2, <2>2, RemoveUserDoes DEF ChatInv
<1>. QED BY <1>2, <1>4, <1>5, <1>6 DEF ChatInv, ChatTypes

(* Every step keeps the invariant.                                         *)
LEMMA ChatStep ==
  ASSUME ChatAssumption, Ranked = Guilds, ChatInv, [ChatNext]_chatVars
  PROVE  ChatInv'
<1>1. CASE UNCHANGED chatVars
  BY <1>1 DEF chatVars, ChatInv, ChatTypes, RoomsInv, OpenAgree, UsersAreOnline, PrivateIsPrivate,
              GuildsAgree, OfflineHasNone, MuteWaits, Online
<1>2. ASSUME NEW q \in Speakers, PlayerRequestChannels(q)
      PROVE  ChatInv'
  <2>1. UNCHANGED <<private, who, mutes, guilds>> /\ IsMap(private, PrivateIds, Rooms)
    BY <1>2 DEF PlayerRequestChannels, ChatInv, ChatTypes
  <2>. QED BY <1>2, <2>1, RequestKeeps, OnlyRooms DEF ChatInv
<1>3. ASSUME NEW q \in Speakers, PlayerCreatePrivateChannel(q)
      PROVE  ChatInv'
  BY <1>3, CreatePrivateKeeps, OnlyRooms DEF ChatInv, PlayerCreatePrivateChannel
<1>4. ASSUME NEW q \in Speakers, NEW c \in Channels, NEW can, NEW may, PlayerOpenChannel(q, c, can, may)
      PROVE  ChatInv'
  <2>1. UNCHANGED <<private, who, mutes, guilds>> /\ IsMap(private, PrivateIds, Rooms)
    BY <1>4 DEF PlayerOpenChannel, ChatInv, ChatTypes
  <2>. QED BY <1>4, <2>1, OpenChannelKeeps, OnlyRooms DEF ChatInv
<1>5. ASSUME NEW q \in Speakers, NEW c \in Channels, NEW can, PlayerCloseChannel(q, c, can)
      PROVE  ChatInv'
  <2>1. UNCHANGED <<who, mutes, guilds>>
    BY <1>5 DEF PlayerCloseChannel
  <2>. QED BY <1>5, <2>1, CloseChannelKeeps, OnlyRooms DEF ChatInv
<1>6. ASSUME NEW q \in Speakers, NEW r \in Speakers, PlayerChannelInvite(q, r)
      PROVE  ChatInv'
  <2>1. UNCHANGED <<users, who, mutes, guilds>> /\ IsMap(users, Keys, SUBSET Speakers)
    BY <1>6 DEF PlayerChannelInvite, ChatInv, ChatTypes
  <2>. QED BY <1>6, <2>1, ChannelInviteKeeps, OnlyRooms DEF ChatInv
<1>7. ASSUME NEW q \in Speakers, NEW r \in Speakers, PlayerChannelExclude(q, r)
      PROVE  ChatInv'
  <2>1. UNCHANGED <<who, mutes, guilds>>
    BY <1>7 DEF PlayerChannelExclude
  <2>. QED BY <1>7, <2>1, ChannelExcludeKeeps, OnlyRooms DEF ChatInv
<1>8. ASSUME NEW q \in Speakers, NEW a \in Companies, JoinCompany(q, a)
      PROVE  ChatInv'
  BY <1>8, CompanyKeeps DEF JoinCompany
<1>9. ASSUME NEW q \in Speakers, LeaveCompany(q)
      PROVE  ChatInv'
  BY <1>9, CompanyKeeps DEF LeaveCompany
<1>10. ASSUME NEW q \in Speakers, Reconnect(q)
       PROVE  ChatInv'
  <2>1. RemoveUserFromAllChannels(q) /\ Speechless /\ UNCHANGED <<who, mutes, guilds>>
    BY <1>10 DEF Reconnect
  <2>2. RoomsInv'
    BY <2>1, RemoveUserKeeps DEF ChatInv
  <2>. QED BY <2>1, <2>2, RemoveUserDoes, OnlyRooms DEF ChatInv
<1>11. ASSUME NEW kept, Reload(kept)
       PROVE  ChatInv'
  <2>1. UNCHANGED <<private, who, mutes, guilds>> /\ IsMap(private, PrivateIds, Rooms)
    BY <1>11 DEF Reload, ChatInv, ChatTypes
  <2>. QED BY <1>11, <2>1, ReloadKeeps, OnlyRooms DEF ChatInv
<1>. QED BY <1>1, <1>2, <1>3, <1>4, <1>5, <1>6, <1>7, <1>8, <1>9, <1>10, <1>11,
            SayStepKeeps, ThinkStepKeeps, SetGuildKeeps, AppearKeeps, DisappearKeeps DEF ChatNext

(* The server starts with the channels of the file, empty, and nobody on.  *)
LEMMA ChatStart == ChatAssumption /\ ChatInit => ChatInv
<1>. SUFFICES ASSUME ChatAssumption, ChatInit PROVE ChatInv
  OBVIOUS
<1>1. Offline \in Persons /\ Offline.on = FALSE /\ Offline.guild = None /\ Offline.buffer = 0
  <2>1. 0 \in 0 .. (MAX_MESSAGEBUFFER + 2)
    BY DEF ChatAssumption
  <2>. QED BY <2>1 DEF Persons, Offline
<1>2. who = [q \in Speakers |-> Offline] /\ mutes = [q \in Speakers |-> 1]
  BY DEF ChatInit
<1>3. /\ DOMAIN users = {<<"normal", n>> : n \in Normal} /\ \A ch \in DOMAIN users : users[ch] = {}
      /\ DOMAIN private = {} /\ DOMAIN guilds = {} /\ heard = Silence
  BY DEF ChatInit
<1>4. IsMap(users, Keys, SUBSET Speakers) /\ IsMap(private, PrivateIds, Rooms) /\ IsMap(guilds, Guilds, SUBSET Speakers)
  BY <1>3 DEF IsMap, Keys, ChatInit
<1>5. ChatTypes
  BY <1>1, <1>2, <1>4 DEF ChatTypes
<1>6. OpenAgree
  BY <1>3 DEF OpenAgree
<1>7. UsersAreOnline /\ PrivateIsPrivate
  BY <1>3 DEF UsersAreOnline, PrivateIsPrivate, Silence, NoChannel
<1>8. GuildsAgree /\ OfflineHasNone
  BY <1>1, <1>2, <1>3 DEF GuildsAgree, OfflineHasNone, Online
<1>9. MuteWaits
  BY <1>1, <1>2 DEF MuteWaits, ChatAssumption
<1>. QED BY <1>5, <1>6, <1>7, <1>8, <1>9 DEF ChatInv, RoomsInv

(* The invariant says what the run checks.                                 *)
LEMMA ChatInvAgrees == ChatAssumption /\ ChatInv => ChatAgrees
<1>. SUFFICES ASSUME ChatAssumption, ChatInv PROVE ChatAgrees
  OBVIOUS
<1>1. ChatTypeOK
  BY DEF ChatInv, ChatTypes, ChatTypeOK, IsMap, Persons
<1>2. MuteOutlasts
  <2>1. SUFFICES ASSUME MAX_MESSAGEBUFFER # 0, NEW q \in Speakers \ CannotBeMuted, who[q].buffer > MAX_MESSAGEBUFFER
                 PROVE  who[q].muted > 0
    BY DEF MuteOutlasts
  <2>2. who[q].buffer \in 0 .. (MAX_MESSAGEBUFFER + 2) /\ who[q].muted \in Nat /\ MAX_MESSAGEBUFFER \in Nat
    BY DEF ChatInv, ChatTypes, Persons, ChatAssumption
  <2>3. /\ who[q].buffer <= MAX_MESSAGEBUFFER + 1
        /\ who[q].buffer = MAX_MESSAGEBUFFER + 1 => who[q].muted >= 1
    BY <2>1 DEF ChatInv, MuteWaits
  <2>. QED BY <2>1, <2>2, <2>3
<1>. QED BY <1>1, <1>2 DEF ChatInv, RoomsInv, ChatAgrees

(* Channels, lists of the invited and guilds point to players in the game  *)
(* only; a private channel is its owner's and heard by those invited; a    *)
(* mute outlasts the excess it answers: for any players, channels, guilds  *)
(* with a rank for their members, and verdicts of scripts.                 *)
THEOREM ChatStaysPrivate ==
  ASSUME ChatAssumption, Ranked = Guilds
  PROVE  ChatSpec => []ChatAgrees
<1>1. ChatInit => ChatInv
  BY ChatStart
<1>2. ChatInv /\ [ChatNext]_chatVars => ChatInv'
  BY ChatStep
<1>3. ChatInv => ChatAgrees
  BY ChatInvAgrees
<1>. QED BY <1>1, <1>2, <1>3, PTL DEF ChatSpec

-----------------------------------------------------------------------------
(* Spells.                                                                 *)

(* The largest of some bounded numbers is one of them. *)
LEMMA LargestIsOne ==
  ASSUME NEW S, S \subseteq Int, S # {}, NEW N \in Int, \A x \in S : x <= N
  PROVE  /\ Max(S) \in S
         /\ \A x \in S : x <= Max(S)
<1>. DEFINE T == {N - x : x \in S}
            R == OpToRel(<, Nat)
<1>1. IsWellFoundedOn(R, Nat)
  BY NatLessThanWellFounded
<1>2. \A x, y \in Nat : <<x, y>> \in R <=> x < y
  BY DEF OpToRel
<1>3. T \subseteq Nat /\ T # {}
  <2>1. \A x \in S : N - x \in Nat
    OBVIOUS
  <2>2. PICK x \in S : TRUE
    OBVIOUS
  <2>3. N - x \in T
    OBVIOUS
  <2>. QED BY <2>1, <2>3
<1>. HIDE DEF R
<1>4. PICK n \in T : \A k \in T : ~(<<k, n>> \in R)
  BY <1>1, <1>3, WFMin
<1>5. PICK m \in S : n = N - m
  BY <1>4
<1>6. ASSUME NEW x \in S PROVE x <= m
  <2>1. N - x \in T /\ N - x \in Nat /\ n \in Nat
    BY <1>3, <1>4
  <2>2. ~(N - x < n)
    BY <1>2, <1>4, <2>1
  <2>. QED BY <1>5, <2>1, <2>2
<1>7. \E x \in S : \A y \in S : x >= y
  BY <1>6
<1>. QED BY <1>7 DEF Max

(* The registry as it is filled: spells of the data, one for each key. *)
Unique(r) == r \subseteq Offered /\ \A s, t \in r : s # t => ~SameKey(s, t)

(* Emplacing a spell keeps the first of its words or its rune. *)
LEMMA EmplaceUnique ==
  ASSUME NEW r, Unique(r), NEW s \in Offered
  PROVE  Unique(Emplace(r, s))
<1>1. \A t \in r : SameKey(t, s) <=> SameKey(s, t)
  BY DEF SameKey
<1>. QED BY <1>1 DEF Unique, Emplace

(* A node of spells.xml or a script adds its spell or none. *)
LEMMA RegisterUnique ==
  ASSUME SpellsAssumption, NEW lua \in BOOLEAN, NEW r, Unique(r),
         NEW n \in 1 .. Len(IF lua THEN Scripts ELSE XmlSpells)
  PROVE  Unique(RegisterFrom(lua, r, n))
<1>1. CASE lua
  <2>1. Made(Scripts[n]) \in Offered
    BY <1>1 DEF Offered, SpellsAssumption
  <2>. QED BY <1>1, <2>1, EmplaceUnique DEF RegisterFrom, RegisterLua
<1>2. CASE ~lua
  <2>1. ConfigureSpell(XmlSpells[n]) \in Offered
    BY <1>2 DEF Offered, SpellsAssumption
  <2>. QED BY <1>2, <2>1, EmplaceUnique DEF RegisterFrom, RegisterXml
<1>. QED BY <1>1, <1>2

(* The registry after each of the first N spells. *)
IsLoading(after, lua, r, N) ==
  after = [n \in 0 .. N |-> IF n = 0 THEN r ELSE RegisterFrom(lua, after[n - 1], n)]

(* There is such a sequence of registries. *)
LEMMA LoadingExists ==
  ASSUME NEW lua, NEW r, NEW k \in Nat
  PROVE  \E c : IsLoading(c, lua, r, k)
<1>. DEFINE G == {n \in Nat : \E c : IsLoading(c, lua, r, n)}
            Then(h, x) == RegisterFrom(lua, h, x)
<1>1. 0 \in G
  <2>1. IsLoading([x \in 0 .. 0 |-> r], lua, r, 0)
    BY DEF IsLoading
  <2>. QED BY <2>1
<1>2. ASSUME NEW n \in Nat, n \in G
      PROVE  n + 1 \in G
  <2>1. PICK c : IsLoading(c, lua, r, n)
    BY <1>2
  <2>. DEFINE last == Then(c[n], n + 1)
              longer == [x \in 0 .. n + 1 |-> IF x <= n THEN c[x] ELSE last]
  <2>2. (\A x \in 0 .. n : longer[x] = c[x]) /\ longer[n + 1] = last
    OBVIOUS
  <2>3. \A x \in 0 .. n + 1 : longer[x] = IF x = 0 THEN r ELSE Then(longer[x - 1], x)
    <3>1. c = [x \in 0 .. n |-> IF x = 0 THEN r ELSE Then(c[x - 1], x)]
      BY <2>1 DEF IsLoading
    <3>. HIDE DEF longer, Then
    <3>2. ASSUME NEW x \in 0 .. n + 1, x <= n
          PROVE longer[x] = IF x = 0 THEN r ELSE Then(longer[x - 1], x)
      <4>1. x \in 0 .. n /\ (x # 0 => x - 1 \in 0 .. n)
        BY <3>2
      <4>2. c[x] = IF x = 0 THEN r ELSE Then(c[x - 1], x)
        BY <4>1, <3>1
      <4>. QED BY <4>1, <4>2, <2>2
    <3>3. longer[n] = c[n] /\ (n + 1) - 1 = n /\ n + 1 # 0
      BY <2>2
    <3>4. \A x \in 0 .. n + 1 : x <= n \/ x = n + 1
      OBVIOUS
    <3>. QED BY <3>2, <3>3, <3>4, <2>2
  <2>4. longer = [x \in 0 .. n + 1 |-> longer[x]]
    OBVIOUS
  <2>5. IsLoading(longer, lua, r, n + 1)
    <3>. HIDE DEF longer
    <3>. QED BY <2>3, <2>4 DEF IsLoading
  <2>. QED BY <2>5
<1>3. G = Nat
  <2>. HIDE DEF G
  <2>1. G \subseteq Nat
    BY DEF G
  <2>. QED BY <1>1, <1>2, <2>1, SetInduction
<1>. QED BY <1>3

(* Loading from one of the sources, however many spells it has. *)
LEMMA LoadUnique ==
  ASSUME SpellsAssumption, NEW lua \in BOOLEAN, NEW r, Unique(r)
  PROVE  Unique(LoadFrom(lua, r))
<1>. DEFINE N == Len(IF lua THEN Scripts ELSE XmlSpells)
            c == CHOOSE f : f = [n \in 0 .. N |-> IF n = 0 THEN r ELSE RegisterFrom(lua, f[n - 1], n)]
            G == {n \in Nat : n <= N => Unique(c[n])}
<1>1. N \in Nat
  BY DEF SpellsAssumption
<1>2. LoadFrom(lua, r) = c[N]
  BY DEF LoadFrom
<1>7. \A h : \A n \in 1 .. N : Unique(h) => Unique(RegisterFrom(lua, h, n))
  BY RegisterUnique
<1>. HIDE DEF N
<1>3. IsLoading(c, lua, r, N)
  <2>1. \E f : IsLoading(f, lua, r, N)
    BY <1>1, LoadingExists
  <2>. QED BY <2>1 DEF IsLoading
<1>. HIDE DEF c
<1>4. \A n \in 0 .. N : c[n] = IF n = 0 THEN r ELSE RegisterFrom(lua, c[n - 1], n)
  BY <1>3 DEF IsLoading
<1>5. 0 \in G
  BY <1>1, <1>4
<1>6. ASSUME NEW n \in Nat, n \in G PROVE n + 1 \in G
  <2>. SUFFICES ASSUME n + 1 <= N PROVE Unique(c[n + 1])
    OBVIOUS
  <2>1. n \in 0 .. N /\ n + 1 \in 0 .. N /\ n + 1 \in 1 .. N /\ (n + 1) - 1 = n /\ n + 1 # 0
    BY <1>1
  <2>2. Unique(c[n])
    BY <1>6, <2>1
  <2>3. c[n + 1] = RegisterFrom(lua, c[n], n + 1)
    BY <1>4, <2>1
  <2>. QED BY <1>7, <2>1, <2>2, <2>3
<1>8. G = Nat
  <2>. HIDE DEF G
  <2>1. G \subseteq Nat
    BY DEF G
  <2>. QED BY <1>5, <1>6, <2>1, SetInduction
<1>. QED BY <1>1, <1>2, <1>8

(* Times that cooldowns have left, the charges of a rune, and casters. *)
Ends == [CooldownKeys -> -1 .. MaxCooldown]
Names == {s.name : s \in Offered}
Charged(r) == r \in [left : Nat, used : Nat, taken : Nat] /\ r.left + r.used + r.taken = Charges
Casters == [mode : Modes, mana : 0 .. MaxMana, soul : 0 .. MaxSoul, learned : SUBSET Names, calm : BOOLEAN]

(* What is owed is covered by the conditions of who is held by them. *)
Covered(o, c, mode) == mode = "normal" => \A k \in CooldownKeys : o[k] <= c[k]

SpellInv == /\ Unique(reg) /\ caster \in Casters /\ Charged(runes)
            /\ cool \in Ends /\ owed \in Ends
            /\ Covered(owed, cool, caster.mode) /\ ~hasty

(* A condition that is added keeps the later end. *)
LEMMA AddRaises ==
  ASSUME SpellsAssumption, NEW c \in Ends, NEW k \in CooldownKeys, NEW n \in 0 .. MaxCooldown
  PROVE  /\ AddCooldown(c, k, n) \in Ends
         /\ \A j \in CooldownKeys : c[j] <= AddCooldown(c, k, n)[j]
         /\ n > 0 => n <= AddCooldown(c, k, n)[k]
BY DEF AddCooldown, Ends, SpellsAssumption

(* The three keys of a spell. *)
LEMMA SpellData ==
  ASSUME SpellsAssumption, NEW s \in Offered
  PROVE  /\ <<"spell", s.id>> \in CooldownKeys /\ <<"group", s.group>> \in CooldownKeys
         /\ <<"group", s.group2>> \in CooldownKeys
         /\ s.cooldown \in 0 .. MaxCooldown /\ s.groupCooldown \in 0 .. MaxCooldown
         /\ s.secondaryCooldown \in 0 .. MaxCooldown
         /\ s.mana \in Nat /\ s.manaPercent \in Nat /\ s.soul \in Nat
         /\ s.words \in Seq(STRING)
BY DEF SpellsAssumption, CooldownKeys

(* applyCooldownConditions() holds the spell and both of its groups, and   *)
(* shortens nothing.                                                       *)
LEMMA ApplyRaises ==
  ASSUME SpellsAssumption, NEW c \in Ends, NEW s \in Offered
  PROVE  LET h == ApplyCooldownConditions(c, s)
         IN  /\ h \in Ends /\ \A k \in CooldownKeys : c[k] <= h[k]
             /\ s.cooldown > 0 => s.cooldown <= h[<<"spell", s.id>>]
             /\ s.groupCooldown > 0 => s.groupCooldown <= h[<<"group", s.group>>]
             /\ s.secondaryCooldown > 0 => s.secondaryCooldown <= h[<<"group", s.group2>>]
<1>. DEFINE k1 == <<"spell", s.id>>
            k2 == <<"group", s.group>>
            k3 == <<"group", s.group2>>
            c1 == AddCooldown(c, k1, s.cooldown)
            c2 == AddCooldown(c1, k2, s.groupCooldown)
            c3 == AddCooldown(c2, k3, s.secondaryCooldown)
<1>1. /\ k1 \in CooldownKeys /\ k2 \in CooldownKeys /\ k3 \in CooldownKeys
      /\ s.cooldown \in 0 .. MaxCooldown /\ s.groupCooldown \in 0 .. MaxCooldown
      /\ s.secondaryCooldown \in 0 .. MaxCooldown
  BY SpellData
<1>2. ApplyCooldownConditions(c, s) = c3
  BY DEF ApplyCooldownConditions
<1>. HIDE DEF k1, k2, k3
<1>3. c1 \in Ends /\ (\A j \in CooldownKeys : c[j] <= c1[j]) /\ (s.cooldown > 0 => s.cooldown <= c1[k1])
  BY <1>1, AddRaises
<1>. HIDE DEF c1
<1>4. c2 \in Ends /\ (\A j \in CooldownKeys : c1[j] <= c2[j]) /\ (s.groupCooldown > 0 => s.groupCooldown <= c2[k2])
  BY <1>1, <1>3, AddRaises
<1>. HIDE DEF c2
<1>5. c3 \in Ends /\ (\A j \in CooldownKeys : c2[j] <= c3[j]) /\ (s.secondaryCooldown > 0 => s.secondaryCooldown <= c3[k3])
  BY <1>1, <1>4, AddRaises
<1>. HIDE DEF c3
<1>6. \A x \in Ends : \A j \in CooldownKeys : x[j] \in Int
  BY DEF Ends, SpellsAssumption
<1>7. \A j \in CooldownKeys : c[j] <= c3[j] /\ c1[j] <= c3[j]
  BY <1>3, <1>4, <1>5, <1>6
<1>8. (s.cooldown > 0 => s.cooldown <= c3[k1]) /\ (s.groupCooldown > 0 => s.groupCooldown <= c3[k2])
  BY <1>1, <1>3, <1>4, <1>5, <1>6, <1>7, SMTT(30) DEF SpellsAssumption
<1>. QED BY <1>2, <1>5, <1>7, <1>8 DEF k1, k2, k3

(* What a player may count on is among what the conditions say. *)
LEMMA PromiseKept ==
  ASSUME SpellsAssumption, NEW o \in Ends, NEW s \in Offered
  PROVE  /\ Promise(o, s) \in Ends
         /\ \A c \in Ends : (\A k \in CooldownKeys : o[k] <= c[k]) =>
              \A k \in CooldownKeys : Promise(o, s)[k] <= ApplyCooldownConditions(c, s)[k]
<1>. DEFINE S(k) == {o[k]} \cup (IF k = <<"spell", s.id>> /\ s.cooldown > 0 THEN {s.cooldown} ELSE {})
                           \cup (IF k = <<"group", s.group>> /\ s.groupCooldown > 0 THEN {s.groupCooldown} ELSE {})
                           \cup (IF k = <<"group", s.group2>> /\ s.secondaryCooldown > 0 THEN {s.secondaryCooldown} ELSE {})
<1>1. /\ s.cooldown \in 0 .. MaxCooldown /\ s.groupCooldown \in 0 .. MaxCooldown
      /\ s.secondaryCooldown \in 0 .. MaxCooldown /\ MaxCooldown \in Nat
  BY SpellData DEF SpellsAssumption
<1>2. Promise(o, s) = [k \in CooldownKeys |-> Max(S(k))]
  BY DEF Promise
<1>3. \A k \in CooldownKeys : S(k) \subseteq -1 .. MaxCooldown /\ S(k) # {}
  BY <1>1 DEF Ends
<1>4. \A k \in CooldownKeys : Max(S(k)) \in S(k)
  <2>. HIDE DEF S
  <2>1. ASSUME NEW k \in CooldownKeys PROVE Max(S(k)) \in S(k)
    <3>1. S(k) \subseteq Int /\ S(k) # {} /\ \A x \in S(k) : x <= MaxCooldown
      BY <1>1, <1>3, <2>1
    <3>. QED BY <1>1, <3>1, LargestIsOne
  <2>. QED BY <2>1
<1>5. Promise(o, s) \in Ends
  <2>1. \A k \in CooldownKeys : Max(S(k)) \in -1 .. MaxCooldown
    BY <1>3, <1>4
  <2>. HIDE DEF S
  <2>. QED BY <1>2, <2>1 DEF Ends
<1>6. ASSUME NEW c \in Ends, \A k \in CooldownKeys : o[k] <= c[k], NEW k \in CooldownKeys
      PROVE  Promise(o, s)[k] <= ApplyCooldownConditions(c, s)[k]
  <2>. DEFINE h == ApplyCooldownConditions(c, s)
  <2>1. /\ h \in Ends /\ \A j \in CooldownKeys : c[j] <= h[j]
        /\ s.cooldown > 0 => s.cooldown <= h[<<"spell", s.id>>]
        /\ s.groupCooldown > 0 => s.groupCooldown <= h[<<"group", s.group>>]
        /\ s.secondaryCooldown > 0 => s.secondaryCooldown <= h[<<"group", s.group2>>]
    BY <1>6, ApplyRaises
  <2>. HIDE DEF h
  <2>2. o[k] \in Int /\ c[k] \in Int /\ h[k] \in Int
    BY <1>1, <1>6, <2>1 DEF Ends
  <2>3. \A x \in S(k) : x <= h[k]
    BY <1>6, <2>1, <2>2
  <2>4. Promise(o, s)[k] \in S(k)
    BY <1>2, <1>4, <1>6
  <2>. QED BY <2>3, <2>4 DEF h
<1>. QED BY <1>5, <1>6

(* Two spells whose words begin what is said, both the longest, have the   *)
(* same words; a spell's own words find it and no other (getInstantSpell). *)
LEMMA WordsFind ==
  ASSUME SpellsAssumption, Unique(reg)
  PROVE  WordsFindTheirSpell
<1>1. \A s \in reg : s.words \in Seq(STRING)
  BY SpellData DEF Unique
<1>2. ASSUME NEW u \in Seq(STRING), NEW s \in GetInstantSpell(u), NEW t \in GetInstantSpell(u)
      PROVE  s = t
  <2>1. /\ s \in reg /\ t \in reg /\ s.kind = "instant" /\ t.kind = "instant"
        /\ IsPrefixOf(s.words, u) /\ IsPrefixOf(t.words, u)
        /\ Len(t.words) <= Len(s.words) /\ Len(s.words) <= Len(t.words)
    BY <1>2 DEF GetInstantSpell
  <2>2. Len(s.words) = Len(t.words)
    BY <1>1, <2>1
  <2>3. s.words = t.words
    BY <2>1, <2>2 DEF IsPrefixOf
  <2>. QED BY <2>1, <2>3 DEF Unique, SameKey
<1>3. ASSUME NEW s \in reg, s.kind = "instant"
      PROVE  s \in GetInstantSpell(s.words)
  <2>1. Len(s.words) \in Nat /\ SubSeq(s.words, 1, Len(s.words)) = s.words
    BY <1>1
  <2>2. IsPrefixOf(s.words, s.words)
    BY <2>1 DEF IsPrefixOf
  <2>3. \A t \in reg : IsPrefixOf(t.words, s.words) => Len(t.words) <= Len(s.words)
    BY DEF IsPrefixOf
  <2>. QED BY <1>3, <2>2, <2>3 DEF GetInstantSpell
<1>4. ASSUME NEW s \in reg, s.kind = "instant"
      PROVE  GetInstantSpell(s.words) = {s}
  BY <1>1, <1>2, <1>3, <1>4
<1>5. ASSUME NEW u \in Utterances
      PROVE  Cardinality(GetInstantSpell(u)) <= 1
  <2>1. u \in Seq(STRING)
    BY DEF SpellsAssumption
  <2>. DEFINE F == GetInstantSpell(u)
  <2>2. \A s, t \in F : s = t
    BY <1>2, <2>1
  <2>. HIDE DEF F
  <2>3. CASE F = {}
    BY <2>3, FS_EmptySet DEF F
  <2>4. CASE F # {}
    <3>1. PICK s : F = {s}
      BY <2>2, <2>4
    <3>2. Cardinality(F) = 1
      BY <3>1, FS_Singleton
    <3>. QED BY <3>2 DEF F
  <2>. QED BY <2>3, <2>4
<1>. QED BY <1>4, <1>5 DEF WordsFindTheirSpell, Unique

(* What a spell costs is a number. *)
LEMMA CostsAreHard ==
  ASSUME SpellsAssumption, NEW s \in Offered
  PROVE  ManaCost(s) \in Nat
<1>1. s.mana \in Nat /\ s.manaPercent \in Nat /\ MaxMana \in Nat
  BY SpellData DEF SpellsAssumption
<1>2. MaxMana * s.manaPercent \in Nat
  BY <1>1
<1>3. \A x \in Nat : x \div 100 \in Nat
  OBVIOUS
<1>. QED BY <1>1, <1>2, <1>3 DEF ManaCost

(* What is taken away stops at the bound. *)
LEMMA NotBelowZero ==
  ASSUME NEW x \in Int
  PROVE  /\ Max({0, x}) \in {0, x} /\ Max({0, x}) >= 0 /\ Max({0, x}) >= x
         /\ Max({-1, x}) \in {-1, x} /\ Max({-1, x}) >= -1 /\ Max({-1, x}) >= x
<1>1. \A y \in {0, -1} : {y, x} \subseteq Int /\ {y, x} # {} /\ \A z \in {y, x} : z <= (IF x > 0 THEN x ELSE 0)
  OBVIOUS
<1>2. (IF x > 0 THEN x ELSE 0) \in Int
  OBVIOUS
<1>3. \A y \in {0, -1} : Max({y, x}) \in {y, x} /\ \A z \in {y, x} : z <= Max({y, x})
  BY <1>1, <1>2, LargestIsOne
<1>. QED BY <1>3

(* postCastSpell() and a script that drains mana take what there is. *)
LEMMA CasterPays ==
  ASSUME SpellsAssumption, NEW q \in Casters, NEW s \in Offered, NEW drained \in 0 .. 1
  PROVE  /\ PostCastSpell(q, s, drained) \in Casters /\ PostCastSpell(q, s, drained).mode = q.mode
         /\ [q EXCEPT !.mana = Max({0, @ - drained})] \in Casters
         /\ [q EXCEPT !.mana = Max({0, @ - drained})].mode = q.mode
<1>. DEFINE a == Max({0, q.mana - drained})
            b == Max({0, a - ManaCost(s)})
            d == Max({0, q.soul - s.soul})
<1>0. /\ q.mana \in 0 .. MaxMana /\ q.soul \in 0 .. MaxSoul /\ MaxMana \in Nat /\ MaxSoul \in Nat
      /\ ManaCost(s) \in Nat /\ s.soul \in Nat
  BY CostsAreHard, SpellData DEF Casters, SpellsAssumption
<1>1. a \in 0 .. MaxMana
  <2>. DEFINE x == q.mana - drained
  <2>0. x \in Int /\ x <= MaxMana
    BY <1>0
  <2>1. a = Max({0, x})
    OBVIOUS
  <2>. HIDE DEF x, a
  <2>2. a \in {0, x} /\ a >= 0
    BY <2>0, <2>1, NotBelowZero
  <2>. QED BY <1>0, <2>0, <2>2
<1>2. b \in 0 .. MaxMana
  <2>. DEFINE x == a - ManaCost(s)
  <2>0. x \in Int /\ x <= MaxMana
    <3>. HIDE DEF a
    <3>. QED BY <1>0, <1>1
  <2>1. b = Max({0, x})
    OBVIOUS
  <2>. HIDE DEF x, b
  <2>2. b \in {0, x} /\ b >= 0
    BY <2>0, <2>1, NotBelowZero
  <2>. QED BY <1>0, <2>0, <2>2
<1>3. d \in 0 .. MaxSoul
  <2>. DEFINE x == q.soul - s.soul
  <2>0. x \in Int /\ x <= MaxSoul
    BY <1>0
  <2>1. d = Max({0, x})
    OBVIOUS
  <2>. HIDE DEF x, d
  <2>2. d \in {0, x} /\ d >= 0
    BY <2>0, <2>1, NotBelowZero
  <2>. QED BY <1>0, <2>0, <2>2
<1>4. PostCastSpell(q, s, drained) = [q EXCEPT !.mana = b, !.soul = d]
  BY DEF PostCastSpell
<1>5. [q EXCEPT !.mana = Max({0, @ - drained})] = [q EXCEPT !.mana = a]
  OBVIOUS
<1>. HIDE DEF a, b, d
<1>6. [q EXCEPT !.mana = b, !.soul = d] \in Casters /\ [q EXCEPT !.mana = b, !.soul = d].mode = q.mode
  BY <1>2, <1>3 DEF Casters
<1>7. \A x \in 0 .. MaxMana : [q EXCEPT !.mana = x] \in Casters /\ [q EXCEPT !.mana = x].mode = q.mode
  BY DEF Casters
<1>8. PostCastSpell(q, s, drained) \in Casters /\ PostCastSpell(q, s, drained).mode = q.mode
  BY <1>4, <1>6
<1>9. [q EXCEPT !.mana = a] \in Casters /\ [q EXCEPT !.mana = a].mode = q.mode
  BY <1>1, <1>7
<1>. QED BY <1>5, <1>8, <1>9

(* A cast: the caster has paid, and what is promised is covered by the     *)
(* conditions that were added.                                             *)
LEMMA CastKeeps ==
  ASSUME SpellsAssumption, SpellInv, NEW s \in reg, NEW drained \in 0 .. 1,
         PlayerSpellCheck(s), Cast(s, drained)
  PROVE  /\ caster' \in Casters /\ cool' \in Ends /\ owed' \in Ends
         /\ Covered(owed', cool', caster'.mode) /\ ~hasty'
<1>0. s \in Offered /\ caster \in Casters /\ cool \in Ends /\ owed \in Ends /\ ~hasty
  BY DEF SpellInv, Unique
<1>1. caster' \in Casters /\ caster'.mode = caster.mode
  BY <1>0, CasterPays DEF Cast
<1>2. cool' \in Ends
  BY <1>0, ApplyRaises DEF Cast
<1>3. owed' \in Ends
  BY <1>0, PromiseKept DEF Cast
<1>4. Covered(owed', cool', caster'.mode)
  <2>. SUFFICES ASSUME caster.mode = "normal"
                PROVE  \A k \in CooldownKeys : owed'[k] <= cool'[k]
    BY <1>1 DEF Covered
  <2>1. \A k \in CooldownKeys : owed[k] <= cool[k]
    BY DEF SpellInv, Covered
  <2>2. cool' = ApplyCooldownConditions(cool, s) /\ owed' = Promise(owed, s)
    BY DEF Cast
  <2>. QED BY <1>0, <2>1, <2>2, PromiseKept
<1>5. ~hasty'
  <2>. SUFFICES ASSUME caster.mode = "normal" PROVE ~Early(s)
    BY <1>0 DEF Cast
  <2>1. ~Exhausted(s)
    BY DEF PlayerSpellCheck
  <2>2. \A k \in CooldownKeys : owed[k] <= cool[k] /\ owed[k] \in Int /\ cool[k] \in Int
    BY <1>0 DEF SpellInv, Covered, Ends, SpellsAssumption
  <2>3. <<"spell", s.id>> \in CooldownKeys /\ <<"group", s.group>> \in CooldownKeys /\ <<"group", s.group2>> \in CooldownKeys
    BY <1>0, SpellData
  <2>. QED BY <2>1, <2>2, <2>3 DEF Early, Exhausted, HasCondition
<1>. QED BY <1>1, <1>2, <1>3, <1>4, <1>5

(* A cast that ends before postCastSpell() promises nothing; if its aim    *)
(* was refused, it cools the caster down all the same.                     *)
LEMMA FailKeeps ==
  ASSUME SpellsAssumption, SpellInv, NEW s \in reg, NEW drained \in 0 .. 1, NEW aim, Fails(s, drained, aim)
  PROVE  /\ caster' \in Casters /\ cool' \in Ends /\ owed' \in Ends
         /\ Covered(owed', cool', caster'.mode) /\ ~hasty'
<1>0. s \in Offered /\ caster \in Casters /\ cool \in Ends /\ owed \in Ends /\ ~hasty
  BY DEF SpellInv, Unique
<1>1. caster' \in Casters /\ caster'.mode = caster.mode
  <2>1. CASE aim = "cast"
    BY <1>0, <2>1, CasterPays DEF Fails
  <2>2. CASE aim # "cast"
    <3>1. caster' = [caster EXCEPT !.mana = caster.mana]
      BY <2>2 DEF Fails
    <3>. QED BY <1>0, <3>1 DEF Casters
  <2>. QED BY <2>1, <2>2
<1>2. cool' \in Ends /\ \A k \in CooldownKeys : cool[k] <= cool'[k]
  <2>1. CASE aim = "cooled"
    BY <1>0, <2>1, ApplyRaises DEF Fails
  <2>2. CASE aim # "cooled"
    BY <1>0, <2>2 DEF Fails, Ends, SpellsAssumption
  <2>. QED BY <2>1, <2>2
<1>3. owed' = owed /\ hasty' = hasty
  BY DEF Fails
<1>4. \A x \in Ends : \A j \in CooldownKeys : x[j] \in Int
  BY DEF Ends, SpellsAssumption
<1>. QED BY <1>0, <1>1, <1>2, <1>3, <1>4 DEF SpellInv, Covered

(* A charge that is used or taken is not lost. *)
LEMMA ChargesKept ==
  ASSUME Charged(runes), NEW s
  PROVE  Charged(Taken) /\ Charged(Consumed(s))
<1>0. PICK l \in Nat, u \in Nat, t \in Nat : runes = [left |-> l, used |-> u, taken |-> t] /\ l + u + t = Charges
  <2>1. runes \in [left : Nat, used : Nat, taken : Nat] /\ runes.left + runes.used + runes.taken = Charges
    BY DEF Charged
  <2>2. runes = [left |-> runes.left, used |-> runes.used, taken |-> runes.taken]
    BY <2>1
  <2>3. runes.left \in Nat /\ runes.used \in Nat /\ runes.taken \in Nat
    BY <2>1
  <2>. QED BY <2>1, <2>2, <2>3
<1>1. Charged(Taken)
  <2>. DEFINE n == runes.taken + runes.left
  <2>1. runes \in [left : Nat, used : Nat, taken : Nat] /\ n \in Nat
    BY <1>0
  <2>2. Taken = [runes EXCEPT !.left = 0, !.taken = n]
    BY DEF Taken
  <2>3. 0 + u + n = Charges /\ runes.used = u
    BY <1>0
  <2>. HIDE DEF n
  <2>4. /\ Taken \in [left : Nat, used : Nat, taken : Nat]
        /\ Taken.left = 0 /\ Taken.used = runes.used /\ Taken.taken = n
    BY <2>1, <2>2
  <2>. QED BY <2>3, <2>4 DEF Charged
<1>2. Charged(Consumed(s))
  <2>1. CASE s.charges > 0 /\ runes.left > 0
    <3>1. Consumed(s) = [left |-> l - 1, used |-> u + 1, taken |-> t]
      BY <1>0, <2>1 DEF Consumed
    <3>2. (l - 1) + (u + 1) + t = Charges /\ l - 1 \in Nat /\ u + 1 \in Nat
      BY <1>0, <2>1
    <3>. QED BY <3>1, <3>2 DEF Charged
  <2>2. CASE ~(s.charges > 0 /\ runes.left > 0)
    BY <2>2 DEF Consumed
  <2>. QED BY <2>1, <2>2
<1>. QED BY <1>1, <1>2

(* After the start-up, with the spells of both sources. *)
LEMMA SpellsStart ==
  ASSUME SpellsAssumption, SpellInit
  PROVE  SpellInv
<1>1. Unique({})
  BY DEF Unique
<1>2. Unique(reg)
  BY <1>1, LoadUnique DEF SpellInit, Started
<1>3. caster \in Casters
  <2>1. PICK m \in Modes : caster = [mode |-> m, mana |-> MaxMana, soul |-> MaxSoul, learned |-> {}, calm |-> FALSE]
    BY DEF SpellInit
  <2>2. MaxMana \in 0 .. MaxMana /\ MaxSoul \in 0 .. MaxSoul
    BY DEF SpellsAssumption
  <2>. QED BY <2>1, <2>2 DEF Casters
<1>4. Charged(runes)
  BY DEF SpellInit, Charged, SpellsAssumption
<1>5. cool \in Ends /\ owed \in Ends /\ Covered(owed, cool, caster.mode) /\ ~hasty
  BY DEF SpellInit, Ends, Covered, SpellsAssumption
<1>. QED BY <1>2, <1>3, <1>4, <1>5 DEF SpellInv

(* Every step of the spells: casts, runes, time, learning and reloads of   *)
(* each source.                                                            *)
LEMMA SpellsKeep ==
  ASSUME SpellsAssumption, SpellInv, [SpellNext]_spellVars
  PROVE  SpellInv'
<1>0. Unique(reg) /\ caster \in Casters /\ Charged(runes) /\ cool \in Ends /\ owed \in Ends /\ ~hasty
  BY DEF SpellInv
<1>. DEFINE Kept == /\ caster' \in Casters /\ cool' \in Ends /\ owed' \in Ends
                    /\ Covered(owed', cool', caster'.mode) /\ ~hasty'
<1>1. CASE SaySpell
  <2>1. PICK u \in Utterances : \E s \in GetInstantSpell(u) : \E aim \in {Aim(s, e) : e \in Surroundings} :
               /\ OneWord(u, s) /\ PlayerSpellCheck(s)
               /\ \E drained \in 0 .. 1 : \/ aim = "cast" /\ Cast(s, drained)
                                         \/ Fails(s, drained, aim)
               /\ UNCHANGED <<reg, runes, spellReloads>>
    BY <1>1 DEF SaySpell
  <2>2. PICK s \in GetInstantSpell(u) : \E aim : \E drained \in 0 .. 1 :
               /\ PlayerSpellCheck(s)
               /\ Cast(s, drained) \/ Fails(s, drained, aim)
               /\ UNCHANGED <<reg, runes, spellReloads>>
    BY <2>1
  <2>3. s \in reg
    BY DEF GetInstantSpell
  <2>4. Kept
    BY <2>2, <2>3, CastKeeps, FailKeeps
  <2>. QED BY <1>0, <2>2, <2>4 DEF SpellInv
<1>2. CASE UseRune
  <2>1. PICK s \in GetRuneSpell(1) : \E a \in {AimRune(s, e) : e \in Surroundings} :
          LET aim == IF s.scripted \/ a = "cooled" THEN a ELSE "refused"
          IN  /\ runes.left > 0 /\ PlayerSpellCheck(s)
              /\ \E drained \in 0 .. 1 :
                    \/ aim = "cast" /\ Cast(s, drained) /\ runes' \in {Taken, Consumed(s)}
                    \/ Fails(s, drained, aim) /\ runes' \in {runes} \cup (IF aim = "cast" THEN {Taken} ELSE {})
              /\ UNCHANGED <<reg, spellReloads>>
    BY <1>2 DEF UseRune
  <2>2. /\ PlayerSpellCheck(s) /\ UNCHANGED <<reg, spellReloads>>
        /\ \E aim : \E drained \in 0 .. 1 : Cast(s, drained) \/ Fails(s, drained, aim)
        /\ runes' \in {runes, Taken, Consumed(s)}
    BY <2>1
  <2>3. s \in reg
    BY DEF GetRuneSpell
  <2>4. Kept
    BY <2>2, <2>3, CastKeeps, FailKeeps
  <2>5. Charged(runes')
    BY <1>0, <2>2, ChargesKept
  <2>. QED BY <1>0, <2>2, <2>4, <2>5 DEF SpellInv
<1>3. CASE CooldownsRun
  <2>. DEFINE less(y) == Max({-1, y - 1})
  <2>1. ASSUME NEW y \in -1 .. MaxCooldown
        PROVE  less(y) \in -1 .. MaxCooldown /\ less(y) = IF y >= 0 THEN y - 1 ELSE -1
    <3>. DEFINE x == y - 1
    <3>0. x \in Int /\ x <= MaxCooldown /\ MaxCooldown \in Nat
      BY <2>1 DEF SpellsAssumption
    <3>1. less(y) = Max({-1, x})
      OBVIOUS
    <3>. HIDE DEF x, less
    <3>2. less(y) \in {-1, x} /\ less(y) >= -1 /\ less(y) >= x
      BY <3>0, <3>1, NotBelowZero
    <3>. QED BY <3>0, <3>2, <2>1 DEF x
  <2>2. /\ cool' = [k \in CooldownKeys |-> less(cool[k])]
        /\ owed' = [k \in CooldownKeys |-> less(owed[k])]
        /\ UNCHANGED <<reg, caster, runes, spellReloads, hasty>>
    BY <1>3 DEF CooldownsRun
  <2>. HIDE DEF less
  <2>3. \A k \in CooldownKeys : cool[k] \in -1 .. MaxCooldown /\ owed[k] \in -1 .. MaxCooldown
    BY <1>0 DEF Ends
  <2>4. cool' \in Ends /\ owed' \in Ends
    BY <2>1, <2>2, <2>3 DEF Ends
  <2>5. Covered(owed', cool', caster.mode)
    <3>1. ASSUME caster.mode = "normal", NEW k \in CooldownKeys PROVE owed'[k] <= cool'[k]
      <4>1. owed[k] <= cool[k]
        BY <3>1 DEF SpellInv, Covered
      <4>2. owed'[k] = less(owed[k]) /\ cool'[k] = less(cool[k])
        BY <2>2
      <4>3. less(owed[k]) = IF owed[k] >= 0 THEN owed[k] - 1 ELSE -1
        BY <2>1, <2>3, <3>1
      <4>4. less(cool[k]) = IF cool[k] >= 0 THEN cool[k] - 1 ELSE -1
        BY <2>1, <2>3, <3>1
      <4>5. owed[k] \in Int /\ cool[k] \in Int
        BY <2>3, <3>1 DEF SpellsAssumption
      <4>. QED BY <4>1, <4>2, <4>3, <4>4, <4>5
    <3>. QED BY <3>1 DEF Covered
  <2>. QED BY <1>0, <2>2, <2>4, <2>5 DEF SpellInv
<1>4. CASE Recover
  <2>1. caster' = [caster EXCEPT !.mana = MaxMana, !.soul = MaxSoul] /\ UNCHANGED <<reg, cool, runes, owed, hasty>>
    BY <1>4 DEF Recover
  <2>2. caster' \in Casters /\ caster'.mode = caster.mode
    <3>1. MaxMana \in 0 .. MaxMana /\ MaxSoul \in 0 .. MaxSoul
      BY DEF SpellsAssumption
    <3>. QED BY <1>0, <2>1, <3>1 DEF Casters
  <2>. QED BY <1>0, <2>1, <2>2 DEF SpellInv
<1>5. CASE ChangeMood
  <2>1. caster' = [caster EXCEPT !.calm = ~caster.calm] /\ UNCHANGED <<reg, cool, runes, owed, hasty>>
    BY <1>5 DEF ChangeMood
  <2>2. caster' \in Casters /\ caster'.mode = caster.mode
    BY <1>0, <2>1 DEF Casters
  <2>. QED BY <1>0, <2>1, <2>2 DEF SpellInv
<1>6. CASE Learn
  <2>1. PICK names \in SUBSET Names : caster' = [caster EXCEPT !.learned = names] /\ UNCHANGED <<reg, cool, runes, owed, hasty>>
    <3>1. PICK s \in reg : /\ caster' = [caster EXCEPT !.learned = (caster.learned \ {s.name}) \cup ({s.name} \ caster.learned)]
                           /\ UNCHANGED <<reg, cool, runes, owed, hasty>>
      BY <1>6 DEF Learn
    <3>2. s.name \in Names /\ caster.learned \in SUBSET Names
      BY <1>0 DEF Unique, Names, Casters
    <3>. QED BY <3>1, <3>2
  <2>2. caster' \in Casters /\ caster'.mode = caster.mode
    BY <1>0, <2>1 DEF Casters
  <2>. QED BY <1>0, <2>1, <2>2 DEF SpellInv
<1>7. ASSUME NEW lua \in BOOLEAN, ReloadFrom(lua) PROVE SpellInv'
  <2>1. Unique({s \in reg : s.lua # lua})
    BY <1>0 DEF Unique
  <2>2. Unique(reg') /\ UNCHANGED <<caster, cool, runes, owed, hasty>>
    BY <1>7, <2>1, LoadUnique DEF ReloadFrom
  <2>. QED BY <1>0, <2>2 DEF SpellInv
<1>8. CASE UNCHANGED spellVars
  BY <1>8 DEF spellVars, SpellInv
<1>. QED BY <1>1, <1>2, <1>3, <1>4, <1>5, <1>6, <1>7, <1>8 DEF SpellNext, ReloadXml, ReloadScripts

(* For any spells, scripts, groups and words: between two casts of a spell *)
(* or of a group lies the cooldown of the first, whatever failed casts and *)
(* reloads come between; words and runes name one spell each; a player is  *)
(* listed the spells he may cast; and no charge of a rune is lost          *)
(* (spells.cpp).                                                           *)
THEOREM CastsStayFair ==
  ASSUME SpellsAssumption
  PROVE  SpellSpec => []SpellsAgree
<1>1. SpellInit => SpellInv
  BY SpellsStart
<1>2. SpellInv /\ [SpellNext]_spellVars => SpellInv'
  BY SpellsKeep
<1>3. SpellInv => SpellsAgree
  <2>. SUFFICES ASSUME SpellInv PROVE SpellsAgree
    OBVIOUS
  <2>1. SpellTypeOK
    BY DEF SpellInv, SpellTypeOK, Casters, Ends
  <2>2. ChargesAddUp /\ CooldownsHold
    BY DEF SpellInv, ChargesAddUp, CooldownsHold, Charged
  <2>3. WordsFindTheirSpell
    BY WordsFind DEF SpellInv
  <2>4. ListedAreKnown
    BY DEF ListedAreKnown, CanCast, Knows
  <2>. QED BY <2>1, <2>2, <2>3, <2>4 DEF SpellsAgree
<1>. QED BY <1>1, <1>2, <1>3, PTL DEF SpellSpec
=============================================================================
