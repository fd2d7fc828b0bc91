----------------------------- MODULE MCRuntime -----------------------------
(***************************************************************************)
(* The threads of the server and what must happen at last, for TLC: the    *)
(* dispatcher, which this module extends, the scheduler, the database      *)
(* thread and a connection, and small instances of GameSession, Decay,     *)
(* Creatures, Spawn and Walk for their liveness.  One run explores them    *)
(* side by side: `part' is the one that moves.  The fairness of each part  *)
(* is that of its module, with the part named in the action.               *)
(***************************************************************************)
EXTENDS Dispatcher, TLC

CONSTANTS io, scheduler,   \* threads that call the dispatcher
          t1, t2,          \* ordinary tasks
          game, main,      \* the tasks that shutdown() makes
          e1, e2, e3, e4, e5, e6,   \* events of the scheduler
          q1, q2,          \* queries
          c1, c2,          \* clients
          i1,              \* an item that decays
          p1, m1,          \* a player and a monster
          None

MCCallers == {io, scheduler}
MCTasks == {t1, t2, game, main}
MCExpiring == {t2}

VARIABLES part,
          schedulerState, lastEventId, eventId, added, ready, eventIdTimerMap, running, adding,
          handed, deleted, leaked, returned, fired, aborted, stopAsked,        \* Scheduler
          dbThread, dbTasks, dbPc, call, hold, queried, dbClosed,
          dbAccepted, dbExecuted, called, flushFrom,                           \* DatabaseTasks
          phase, socketOpen, closed, managed, protocol, receivedFirst, messageQueue,
          readOp, readStatus, writeStatus, readArmed, writeArmed, timeouts, peerGone,
          packets, dispatched, sent, written, cut,                             \* Connection
          conn, object, tasks, delayed, target, player, spectator, accepts, released,
          made, inGame, owner, spectators, broadcast, isConnecting,            \* GameSession
          items, lastBucket, due, age, scripted,                               \* Decay
          creatures, loop,                                                     \* Creatures
          spawned, dueBlocks, checkEvent, effects, hunting,                    \* Spawn
          walker, armed, queue, commands                                       \* Walk

schedulerVars == <<schedulerState, lastEventId, eventId, added, ready, eventIdTimerMap, running,
                   adding, handed, deleted, leaked, returned, fired, aborted, stopAsked>>
databaseVars == <<dbThread, dbTasks, dbPc, call, hold, queried, dbClosed,
                  dbAccepted, dbExecuted, called, flushFrom>>
connectionVars == <<phase, socketOpen, closed, managed, protocol, receivedFirst, messageQueue,
                    readOp, readStatus, writeStatus, readArmed, writeArmed, timeouts, peerGone,
                    packets, dispatched, sent, written, cut>>
sessionVars == <<conn, object, tasks, delayed, target, player, spectator, accepts, released,
                 made, inGame, owner, spectators, broadcast, isConnecting>>
decayVars == <<items, lastBucket, due, age, scripted>>
creatureVars == <<creatures, loop>>
spawnVars == <<spawned, dueBlocks, checkEvent, effects, hunting>>
walkVars == <<walker, armed, queue, commands>>

threadVars == <<vars, schedulerVars, databaseVars, connectionVars>>
gameVars == <<sessionVars, decayVars, creatureVars, spawnVars, walkVars>>
allVars == <<part, threadVars, gameVars>>

DecayTimes == "corpse" :> 8 @@ "bones" :> 4 @@ "worn" :> 8 @@ "ring" :> 0

(* As many ids as events: the counter wraps to 0 but no two events share   *)
(* an id.                                                                  *)
Timers == INSTANCE Scheduler WITH Tasks <- {e1, e2},
            Callers <- {Self, io}, DispatcherThread <- Self, NoTask <- None, IdSpace <- 2
Queries == INSTANCE DatabaseTasks WITH threadState <- dbThread, tasks <- dbTasks, pc <- dbPc,
             dispatcherClosed <- dbClosed, accepted <- dbAccepted, executed <- dbExecuted,
             Queries <- {q1, q2}, WithCallback <- {q1},
             Dispatcher <- Self, Main <- main, DbThread <- io, NoQuery <- None
Peer == INSTANCE Connection WITH queue <- messageQueue, MaxPackets <- 1, MaxMessages <- 1
Session == INSTANCE GameSession WITH timers <- delayed, Clients <- {c1, c2}, NoClient <- None, MaxLives <- 2
Decaying == INSTANCE Decay WITH game <- items, Things <- {i1}, ItemIds <- DOMAIN DecayTimes, NoType <- None,
              DecayTime <- DecayTimes,
              DecayTo <- [t \in DOMAIN DecayTimes |-> IF t = "corpse" THEN "bones" ELSE None],
              StopTime <- [t \in DOMAIN DecayTimes |-> t = "ring"],
              EquipTo <- {<<"ring", "worn">>, <<"worn", "ring">>}, Buckets <- 4, Durations <- {6}
Wild == INSTANCE Creatures WITH game <- creatures, Players <- {p1}, Monsters <- {m1}, NoCreature <- None,
          Places <- {1, 2}, Lists <- 2, Summoners <- {}
Spawning == INSTANCE Spawn WITH due <- dueBlocks, NBlocks <- 3, MaxStrays <- 0, StartupFails <- FALSE
Walking == INSTANCE Walk WITH player <- walker, Tasks <- {t1}, NoTask <- None,
             Ids <- {e1, e2, e3, e4, e5, e6}, NoId <- None, MaxSteps <- 2, MaxCommands <- 3

ASSUME /\ Timers!SchedulerAssumption /\ Queries!DatabaseAssumption /\ Peer!ConnectionAssumption
       /\ Session!GameSessionAssumption /\ Decaying!DecayAssumption /\ Wild!CreaturesAssumption
       /\ Spawning!SpawnAssumption /\ Walking!WalkAssumption

SuiteInit ==
  /\ part \in {"dispatcher", "scheduler", "database", "connection",
               "session", "decay", "creatures", "spawn", "walk"}
  /\ Init /\ Timers!SchedulerInit /\ Queries!Init /\ Peer!ConnectionInit
  /\ Session!SessionInit /\ Decaying!DecayInit /\ Wild!Init /\ Spawning!SpawnInit /\ Walking!WalkInit

SuiteNext ==
  \/ /\ UNCHANGED <<part, gameVars>>
     /\ \/ part = "dispatcher" /\ Next /\ UNCHANGED <<schedulerVars, databaseVars, connectionVars>>
        \/ part = "scheduler" /\ Timers!SchedulerNext /\ UNCHANGED <<vars, databaseVars, connectionVars>>
        \/ part = "database" /\ Queries!Next /\ UNCHANGED <<vars, schedulerVars, connectionVars>>
        \/ part = "connection" /\ Peer!ConnectionNext /\ UNCHANGED <<vars, schedulerVars, databaseVars>>
  \/ /\ UNCHANGED <<part, threadVars>>
     /\ \/ part = "session" /\ Session!SessionNext /\ UNCHANGED <<decayVars, creatureVars, spawnVars, walkVars>>
        \/ part = "decay" /\ Decaying!DecayNext /\ UNCHANGED <<sessionVars, creatureVars, spawnVars, walkVars>>
        \/ part = "creatures" /\ Wild!Next /\ UNCHANGED <<sessionVars, decayVars, spawnVars, walkVars>>
        \/ part = "spawn" /\ Spawning!SpawnNext /\ UNCHANGED <<sessionVars, decayVars, creatureVars, walkVars>>
        \/ part = "walk" /\ Walking!WalkNext /\ UNCHANGED <<sessionVars, decayVars, creatureVars, spawnVars>>

DispatcherFairness ==
  /\ WF_vars(part = "dispatcher" /\ threadMain)
  /\ \A c \in Threads : WF_vars(part = "dispatcher" /\ NotifyOne(c))
SchedulerFairness ==
  /\ WF_schedulerVars(part = "scheduler" /\ (\/ Timers!RunInsert \/ Timers!RunCancel
                                                  \/ Timers!RunDone \/ Timers!RunShutdown))
  /\ \A id \in 0 .. 1 : WF_schedulerVars(part = "scheduler" /\ Timers!Expire(id))
DatabaseFairness ==
  /\ WF_databaseVars(part = "database" /\ Queries!threadMain)
  /\ \A c \in {Self, main} : WF_databaseVars(part = "database" /\ Queries!caller(c))
ConnectionFairness ==
  /\ WF_connectionVars(part = "connection" /\ Peer!OnAccept)
  /\ WF_connectionVars(part = "connection" /\ Peer!ParseHeader)
  /\ WF_connectionVars(part = "connection" /\ Peer!ParsePacket)
  /\ WF_connectionVars(part = "connection" /\ Peer!OnWriteOperation)
  /\ WF_connectionVars(part = "connection" /\ Peer!HandleTimeout)
  /\ WF_connectionVars(part = "connection" /\ Peer!Destroy)
  /\ WF_connectionVars(part = "connection" /\ Peer!TimerExpires)
SessionFairness ==
  /\ WF_sessionVars(part = "session" /\ Session!RunTask)
  /\ WF_sessionVars(part = "session" /\ Session!NoPong)
  /\ \A c \in {c1, c2} : WF_sessionVars(part = "session" /\ Session!TimerFires(c))
DecayFairness == WF_decayVars(part = "decay" /\ Decaying!CheckDecay)
CreatureFairness ==
  /\ []<>(part # "creatures") \/ []<><<Wild!CheckStep>>_creatureVars
  /\ \A c \in {p1, m1} : \/ []<>(part # "creatures" \/ loop.on \/ c \notin creatures.deaths)
                         \/ []<><<Wild!DeathStep(c)>>_creatureVars
SpawnFairness ==
  /\ WF_spawnVars(part = "spawn" /\ Spawning!CheckSpawn)
  /\ WF_spawnVars(part = "spawn" /\ Spawning!HuntersLeave)
  /\ \A k \in 1..3 : /\ WF_spawnVars(part = "spawn" /\ Spawning!TimePasses(k))
                     /\ WF_spawnVars(part = "spawn" /\ (Spawning!SpawnMonster(k) \/ Spawning!SpawnFails(k)))
                     /\ SF_spawnVars(part = "spawn" /\ Spawning!SpawnMonster(k))
WalkFairness ==
  /\ \A id \in {e1, e2, e3, e4, e5, e6} :
       WF_walkVars(part = "walk" /\ \E e \in armed : e.id = id /\ Walking!Fire(e))
  /\ WF_walkVars(part = "walk" /\ \E o \in Walking!Outcomes : Walking!Dispatch(o))
  /\ WF_walkVars(part = "walk" /\ Walking!Tick)

SuiteSpec ==
  /\ SuiteInit /\ [][SuiteNext]_allVars
  /\ DispatcherFairness /\ SchedulerFairness /\ DatabaseFairness /\ ConnectionFairness
  /\ SessionFairness /\ DecayFairness /\ CreatureFairness /\ SpawnFairness /\ WalkFairness
-----------------------------------------------------------------------------
(* Timers that nobody stops fire and shutdown() ends their thread; every   *)
(* query that addTask() took is run; a peer that falls silent is           *)
(* disconnected by handleTimeout().                                        *)
RequestsAreServed == /\ Timers!TimersRun
                     /\ Queries!AcceptedQueriesRun
                     /\ Peer!SilentPeerIsClosed

(* Who sends a login or spectate request gets into the game or is          *)
(* disconnected, whether the character was played by another or not.       *)
LoginIsAnswered == Session!LoginIsAnswered

(* checkCreatures() gives every creature that is awake its turn, and one   *)
(* that removeCreature() took out of the game is deleted at last, if it    *)
(* had no summons; when the hunters are gone, checkSpawn() fills every     *)
(* block again before it stops itself; checkDecay() turns everything that  *)
(* can decay into something else, or removes it; the steps of a walk are   *)
(* taken or given up by onWalk(), and an action that waits for a walk is   *)
(* run or dropped, unless the walk is refused or stopped by a teleport or  *)
(* by the loss of speed.                                                   *)
GameGoesOn == /\ Decaying!DecaysAtLast
              /\ Wild!AwakeGetsTurn /\ Wild!RemovedIsDeleted
              /\ part = "spawn" => Spawning!Refills
              /\ Walking!WalkEnds /\ Walking!TaskIsSettled
=============================================================================
