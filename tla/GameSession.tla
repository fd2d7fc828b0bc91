---------------------------- MODULE GameSession ----------------------------
(***************************************************************************)
(* Who plays a character: ProtocolGame::login, connect, spectate, logout   *)
(* and release of src/src/protocolgame.cpp, ProtocolSpectator (the client  *)
(* member of a Player: its owner and the spectators of its cast), and the  *)
(* ways in which src/src/player.cpp and game.cpp remove a player.  Several *)
(* clients, each a ProtocolGame with its Connection, want one character.   *)
(* A character that logs in again is a new Player object, a new "life".    *)
(* Network thread and timers only add tasks; the dispatcher runs them in   *)
(* order (module Dispatcher).                                              *)
(***************************************************************************)
EXTENDS Naturals, Sequences, SequencesExt

CONSTANTS Clients, NoClient,
          MaxLives     \* bound: Player objects made

GameSessionAssumption == /\ IsFiniteSet(Clients) /\ NoClient \notin Clients
                         /\ MaxLives \in Nat

Lives == 1..MaxLives   \* 0 is nullptr

VARIABLES
  conn,         \* Connection: "none", "open", "closed" (its release() is a task, or was)
  object,       \* does the Connection object exist? it may outlive close()
  tasks,        \* taskList of the dispatcher
  timers,       \* clients with a connect() event at the scheduler
  target,       \* the player id in that event
  player,       \* ProtocolGame::player
  spectator,    \* ProtocolGame::isSpectator
  accepts,      \* ProtocolGame::acceptPackets
  released,     \* has release() run?
  made,         \* number of Player objects made
  inGame,       \* the Player that getPlayerByName() finds
  owner,        \* ProtocolSpectator::owner
  spectators,   \* ProtocolSpectator::spectators
  broadcast,    \* ProtocolSpectator::broadcast
  isConnecting  \* Player::isConnecting

clientVars == <<player, spectator, accepts, released>>
playerVars == <<made, inGame, owner, spectators, broadcast, isConnecting>>
sessionVars == <<conn, object, tasks, timers, target, clientVars, playerVars>>

SessionInit ==
  /\ conn = [c \in Clients |-> "none"]
  /\ object = [c \in Clients |-> TRUE]
  /\ tasks = <<>> /\ timers = {} /\ target = [c \in Clients |-> 0]
  /\ player = [c \in Clients |-> 0]
  /\ spectator = [c \in Clients |-> FALSE]
  /\ accepts = [c \in Clients |-> FALSE]
  /\ released = [c \in Clients |-> FALSE]
  /\ made = 0 /\ inGame = 0
  /\ owner = [n \in Lives |-> NoClient]
  /\ spectators = [n \in Lives |-> {}]
  /\ broadcast = [n \in Lives |-> FALSE]
  /\ isConnecting = [n \in Lives |-> FALSE]

-----------------------------------------------------------------------------
(* Connection::close() of the clients of a set, in any order: each that is *)
(* open gives its release() to the dispatcher.                             *)
Open(set) == {c \in set : conn[c] = "open"}
Disconnect(set, queue) ==
  /\ conn' = [c \in Clients |-> IF c \in Open(set) THEN "closed" ELSE conn[c]]
  /\ \E order \in SetToSeqs({<<"release", c>> : c \in Open(set)}) : tasks' = queue \o order

(* The network thread: the first packet, a packet, the end. *)
FirstMessage(c, task) ==
  /\ conn[c] = "none"
  /\ conn' = [conn EXCEPT ![c] = "open"]
  /\ tasks' = Append(tasks, <<task, c>>)
  /\ UNCHANGED <<object, timers, target, clientVars, playerVars>>

(* parsePacket(): a dead player can only log out. *)
Packet(c, task) ==
  /\ conn[c] = "open" /\ accepts[c] /\ player[c] # 0 /\ ~spectator[c]
  /\ task # "logout" => player[c] = inGame
  /\ <<task, c>> \notin ToSet(tasks)      \* bound
  /\ tasks' = Append(tasks, <<task, c>>)
  /\ UNCHANGED <<conn, object, timers, target, clientVars, playerVars>>

PeerCloses(c) ==
  /\ conn[c] = "open"
  /\ Disconnect({c}, tasks)
  /\ UNCHANGED <<object, timers, target, clientVars, playerVars>>

(* The last handler of the connection is done: connection.expired(). *)
ObjectGoes(c) ==
  /\ conn[c] = "closed" /\ object[c]
  /\ object' = [object EXCEPT ![c] = FALSE]
  /\ UNCHANGED <<conn, tasks, timers, target, clientVars, playerVars>>

(* The scheduler gives a connect() to the dispatcher. *)
TimerFires(c) ==
  /\ c \in timers
  /\ timers' = timers \ {c}
  /\ tasks' = Append(tasks, <<"connect", c>>)
  /\ UNCHANGED <<conn, object, target, clientVars, playerVars>>

-----------------------------------------------------------------------------
(* ProtocolGame::connect(), when the rest of the tasks is `queue'.         *)

IgnoreOwner(n) == FALSE                   \* fault: an owned player is taken over
HasOwner(n) == owner[n] # NoClient
ConnectRefused(n) == n # inGame \/ HasOwner(n)

ConnectionExpired(c) == ~object[c]

Connect(c, n, queue) ==
  IF ConnectRefused(n)
  THEN Disconnect({c}, queue) /\ UNCHANGED <<clientVars, playerVars>>
  ELSE /\ IF ConnectionExpired(c) THEN UNCHANGED <<clientVars, playerVars>>
          ELSE /\ player' = [player EXCEPT ![c] = n]
               /\ accepts' = [accepts EXCEPT ![c] = TRUE]
               /\ isConnecting' = [isConnecting EXCEPT ![n] = FALSE]
               /\ owner' = [owner EXCEPT ![n] = c]
               /\ UNCHANGED <<spectator, released, made, inGame, spectators, broadcast>>
       /\ conn' = conn /\ tasks' = queue

(* login() when the character is not in the game: a new Player, which is   *)
(* placed in the game, or the client is disconnected with a reason (ban,   *)
(* waiting list, game state, broken character, ...).                       *)
LoginNew(c) ==
  IF made = MaxLives                      \* bound
  THEN /\ Disconnect({c}, Tail(tasks))
       /\ UNCHANGED <<object, timers, target, clientVars, playerVars>>
  ELSE
  /\ made' = made + 1
  /\ player' = [player EXCEPT ![c] = made + 1]
  /\ owner' = [owner EXCEPT ![made + 1] = c]
  /\ \/ /\ inGame' = made + 1
        /\ accepts' = [accepts EXCEPT ![c] = TRUE]
        /\ conn' = conn /\ tasks' = Tail(tasks)
     \/ /\ Disconnect({c}, Tail(tasks))
        /\ UNCHANGED <<inGame, accepts>>
  /\ UNCHANGED <<spectator, released, spectators, broadcast, isConnecting, object, timers, target>>

(* login() when it is: the other client is disconnected and this one tries *)
(* a second later, or takes over at once a player that nobody controls.    *)
NotScheduled(c) == timers                 \* fault: the second try is forgotten
Scheduled(c) == timers \cup {c}

LoginAgain(c) ==
  /\ IF HasOwner(inGame)
     THEN /\ Disconnect({owner[inGame]} \cup spectators[inGame], Tail(tasks))
          /\ isConnecting' = [isConnecting EXCEPT ![inGame] = TRUE]
          /\ timers' = Scheduled(c)
          /\ target' = [target EXCEPT ![c] = inGame]
          /\ UNCHANGED <<clientVars, made, inGame, owner, spectators, broadcast>>
     ELSE Connect(c, inGame, Tail(tasks)) /\ UNCHANGED <<timers, target>>
  /\ UNCHANGED object

(* spectate() *)
CastRefused == inGame = 0 \/ ~broadcast[inGame]

Spectate(c) ==
  /\ IF ConnectionExpired(c)
     THEN /\ conn' = conn /\ tasks' = Tail(tasks)
          /\ UNCHANGED <<clientVars, playerVars>>
     ELSE IF CastRefused
     THEN Disconnect({c}, Tail(tasks)) /\ UNCHANGED <<clientVars, playerVars>>
     ELSE /\ player' = [player EXCEPT ![c] = inGame]
          /\ spectator' = [spectator EXCEPT ![c] = TRUE]
          /\ accepts' = [accepts EXCEPT ![c] = TRUE]
          /\ spectators' = [spectators EXCEPT ![inGame] = @ \cup {c}]
          /\ conn' = conn /\ tasks' = Tail(tasks)
          /\ UNCHANGED <<released, made, inGame, owner, broadcast, isConnecting>>
  /\ UNCHANGED <<object, timers, target>>

-----------------------------------------------------------------------------
(* ProtocolSpectator::clear(): spectators are disconnected and forgotten,  *)
(* the cast ends.                                                          *)
CastEnded(n) == [broadcast EXCEPT ![n] = FALSE]

(* The client's own pointer and its place in client->spectators. *)
IsOwner(c, n) == owner[n] = c

Nobody == NoClient

StopsWatching(c, n) == [spectators EXCEPT ![n] = @ \ {c}]

(* release() *)
GivesUp(c, n) ==
  /\ owner' = [owner EXCEPT ![n] = Nobody]
  /\ spectators' = [spectators EXCEPT ![n] = {}]
  /\ broadcast' = CastEnded(n)
  /\ Disconnect(spectators[n], Tail(tasks))

Release(c) ==
  LET n == player[c]
      nobodys == n = 0 \/ (~spectator[c] /\ ~IsOwner(c, n))
  IN  /\ player' = [player EXCEPT ![c] = 0]
      /\ released' = [released EXCEPT ![c] = TRUE]
      /\ IF nobodys THEN UNCHANGED <<owner, spectators, broadcast>> /\ conn' = conn /\ tasks' = Tail(tasks)
         ELSE IF spectator[c]
         THEN /\ spectators' = StopsWatching(c, n)
              /\ UNCHANGED <<owner, broadcast>> /\ conn' = conn /\ tasks' = Tail(tasks)
         ELSE GivesUp(c, n)
      /\ UNCHANGED <<object, timers, target, spectator, accepts, made, inGame, isConnecting>>

(* logout() of a player and removeCreature(); `closing' is its client *)
RemovePlayer(n, closing, queue) ==
  /\ Disconnect(closing \cup spectators[n], queue)
  /\ spectators' = [spectators EXCEPT ![n] = {}]
  /\ broadcast' = CastEnded(n)
  /\ inGame' = IF inGame = n THEN 0 ELSE inGame
  /\ UNCHANGED <<object, timers, target, clientVars, made, owner, isConnecting>>

Logout(c) ==
  \/ /\ player[c] # 0
     /\ RemovePlayer(player[c], {c}, Tail(tasks))
  \/ /\ player[c] \in {0, inGame}          \* no player, in a fight, or the script says no
     /\ tasks' = Tail(tasks)
     /\ UNCHANGED <<conn, object, timers, target, clientVars, playerVars>>

(* setBroadcast(), asked for by the player: the task looks it up by its id *)
SetBroadcast(c) ==
  /\ IF player[c] = 0 \/ player[c] # inGame
     THEN UNCHANGED <<conn, broadcast, spectators>> /\ tasks' = Tail(tasks)
     ELSE IF broadcast[inGame]
     THEN /\ Disconnect(spectators[inGame], Tail(tasks))
          /\ spectators' = [spectators EXCEPT ![inGame] = {}]
          /\ broadcast' = CastEnded(inGame)
     ELSE /\ broadcast' = [broadcast EXCEPT ![inGame] = TRUE]
          /\ UNCHANGED <<conn, spectators>> /\ tasks' = Tail(tasks)
  /\ UNCHANGED <<object, timers, target, clientVars, made, inGame, owner, isConnecting>>

RunTask ==
  /\ tasks # <<>>
  /\ LET c == Head(tasks)[2]
     IN  \/ Head(tasks)[1] = "login" /\ inGame = 0 /\ LoginNew(c)
         \/ Head(tasks)[1] = "login" /\ inGame # 0 /\ LoginAgain(c)
         \/ Head(tasks)[1] = "spectate" /\ Spectate(c)
         \/ /\ Head(tasks)[1] = "connect" /\ Connect(c, target[c], Tail(tasks))
            /\ UNCHANGED <<object, timers, target>>
         \/ Head(tasks)[1] = "release" /\ Release(c)
         \/ Head(tasks)[1] = "logout" /\ Logout(c)
         \/ Head(tasks)[1] = "cast" /\ SetBroadcast(c)

-----------------------------------------------------------------------------
(* The dispatcher's own tasks.                                             *)

(* sendPing(), called by onThink(): the client has not answered for a      *)
(* while.  Not while somebody is connecting.                               *)
Silent(n) == IF owner[n] = NoClient THEN TRUE ELSE conn[owner[n]] # "open"
NoPong ==
  /\ inGame # 0 /\ Silent(inGame) /\ ~isConnecting[inGame]
  /\ RemovePlayer(inGame, {owner[inGame]} \ {NoClient}, tasks)

(* Player::kickPlayer() *)
KickPlayer ==
  /\ inGame # 0
  /\ RemovePlayer(inGame, {owner[inGame]} \ {NoClient}, tasks)

(* The player dies: it is removed, its client stays connected. *)
Death ==
  /\ inGame # 0
  /\ inGame' = 0
  /\ UNCHANGED <<conn, object, tasks, timers, target, clientVars, made, owner, spectators,
                 broadcast, isConnecting>>

SessionNext ==
  \/ RunTask \/ NoPong \/ KickPlayer \/ Death
  \/ \E c \in Clients : \/ FirstMessage(c, "login") \/ FirstMessage(c, "spectate")
                        \/ Packet(c, "logout") \/ Packet(c, "cast")
                        \/ PeerCloses(c) \/ ObjectGoes(c) \/ TimerFires(c)

SessionSpec == SessionInit /\ [][SessionNext]_sessionVars

(* The dispatcher and the scheduler go on; a player is looked at every     *)
(* second.  Nothing is assumed of the clients and of their connections.    *)
SessionFairSpec ==
  /\ SessionSpec
  /\ WF_sessionVars(RunTask) /\ WF_sessionVars(NoPong)
  /\ \A c \in Clients : WF_sessionVars(TimerFires(c))

-----------------------------------------------------------------------------
(* Type invariant: every variable keeps the type it has in the code. *)
SessionTypeOK ==
  /\ conn \in [Clients -> {"none", "open", "closed"}]
  /\ object \in [Clients -> BOOLEAN]
  /\ tasks \in Seq({"login", "spectate", "connect", "release", "logout", "cast"} \X Clients)
  /\ timers \subseteq Clients
  /\ target \in [Clients -> 0..MaxLives]
  /\ player \in [Clients -> 0..MaxLives]
  /\ spectator \in [Clients -> BOOLEAN] /\ accepts \in [Clients -> BOOLEAN]
  /\ released \in [Clients -> BOOLEAN]
  /\ made \in 0..MaxLives /\ inGame \in 0..made
  /\ owner \in [Lives -> Clients \cup {NoClient}]
  /\ spectators \in [Lives -> SUBSET Clients]
  /\ broadcast \in [Lives -> BOOLEAN] /\ isConnecting \in [Lives -> BOOLEAN]

(* The owner of a player is a client that has that player and does not     *)
(* only watch; two clients never control a player at the same time: when   *)
(* one takes over, the connection of the other has been closed.            *)
OneClientControls ==
  /\ \A n \in Lives : owner[n] # NoClient => player[owner[n]] = n /\ ~spectator[owner[n]]
  /\ \A c, d \in Clients :
       c # d /\ player[c] # 0 /\ player[c] = player[d] /\ ~spectator[c] /\ ~spectator[d]
         => conn[c] # "open" \/ conn[d] # "open"

(* A spectator is in the set of the player it watches and in no other as   *)
(* long as its connection is open, and what is in the set is not a pointer *)
(* to a protocol that was released.                                        *)
SpectatorsAgree ==
  \A c \in Clients :
    /\ \A n \in Lives : c \in spectators[n] => spectator[c] /\ player[c] = n /\ ~released[c]
    /\ spectator[c] /\ conn[c] = "open" => c \in spectators[player[c]]

(* addSpectator() dereferences owner: a player that broadcasts has one.    *)
BroadcasterHasOwner == \A n \in Lives : broadcast[n] => owner[n] # NoClient

(* The copies of who plays and who watches: ProtocolGame::player and       *)
(* isSpectator of each client, the owner, the spectators and the broadcast *)
(* flag of each player say the same after every order of logins, casts,    *)
(* deaths, kicks and lost connections.                                     *)
SessionAgrees == SessionTypeOK /\ OneClientControls /\ SpectatorsAgree /\ BroadcasterHasOwner

(* Who logs in is answered: the client gets in or is disconnected, whether *)
(* the character was played by another or not.                             *)
LoginIsAnswered ==
  \A c \in Clients : conn[c] = "open" ~> accepts[c] \/ conn[c] = "closed"

(* "ProtocolGame::release() has been called at this point and the          *)
(* Connection object no longer exists, so we return to prevent leakage of  *)
(* the Player": a protocol that has been released holds no player.         *)
ReleasedHoldsNoPlayer == \A c \in Clients : released[c] => player[c] = 0

(* noPongKickTime="40" (data/XML/vocations.xml): a player that nobody      *)
(* controls leaves the game after a while, unless somebody takes over.     *)
LostPlayerLeaves ==
  \A n \in Lives : inGame = n /\ owner[n] = NoClient ~> inGame # n \/ owner[n] # NoClient
=============================================================================
