------------------------------- MODULE Spawn -------------------------------
(***************************************************************************)
(* One spawn of monsters: class Spawn of src/src/spawn.cpp.  Each block of *)
(* the spawn is to have one living monster.  A scheduler event looks after *)
(* the empty blocks, one block at a time; the monster appears some seconds *)
(* later, after the teleport effects.  The event is scheduled again as     *)
(* long as monsters are missing, and anew when a monster is removed        *)
(* (Monster::onRemoveCreature of src/src/monster.cpp).                     *)
(*                                                                         *)
(* Time: a block is due when its interval has passed since its last spawn. *)
(* The effects take 4.2 s, the event comes every 10 s at the earliest      *)
(* (MINSPAWN_INTERVAL), so that no effect lasts from one event to another. *)
(***************************************************************************)
EXTENDS Integers, FiniteSetsExt

CONSTANTS NBlocks,        \* spawnMap.size()
          MaxStrays,      \* bound: monsters that left the zone of the spawn
          StartupFails    \* may spawnMonster() fail at startup?

Blocks == 1..NBlocks
BlockIds == 0..NBlocks         \* keys of spawnedMap: 0 for monsters that strayed
Kinds == {"home", "away", "dead"}

SpawnAssumption ==
  /\ NBlocks \in Nat \ {0}
  /\ MaxStrays \in Nat
  /\ StartupFails \in BOOLEAN

VARIABLES
  spawned,      \* spawnedMap: how many monsters of each kind under each key
  due,          \* blocks with OTSYS_TIME() >= lastSpawn + interval
  checkEvent,   \* checkSpawnEvent # 0
  effects,      \* blocks with a pending scheduleSpawn() task
  hunting       \* do players still kill monsters here?

spawnVars == <<spawned, due, checkEvent, effects, hunting>>

Nothing == [k \in Kinds |-> 0]
Living(sp, i) == sp[i].home + sp[i].away
Size(sp) == MapThenSumSet(LAMBDA i : Living(sp, i) + sp[i].dead, BlockIds)
HasKey(sp, i) == sp[i] # Nothing

(* Spawn::startup(): no event is scheduled. *)
SpawnInit ==
  /\ \E failed \in SUBSET Blocks :
       /\ failed = {} \/ StartupFails
       /\ spawned = [i \in BlockIds |-> IF i \in Blocks \ failed THEN [Nothing EXCEPT !.home = 1] ELSE Nothing]
  /\ due = {} /\ effects = {}
  /\ checkEvent = FALSE
  /\ hunting = TRUE

-----------------------------------------------------------------------------
(* cleanup(): removed monsters are dropped, strays get the key 0. *)
Cleanup(sp) ==
  LET strays == MapThenSumSet(LAMBDA b : sp[b].away, Blocks)
  IN  [i \in BlockIds |-> IF i = 0 THEN [Nothing EXCEPT !.away = sp[0].away + strays]
                     ELSE [Nothing EXCEPT !.home = sp[i].home]]

(* The blocks without monster whose time has come. *)
Eligible(sp) == {b \in due : ~HasKey(sp, b)}

(* The event is scheduled again while monsters are missing. *)
MonstersMissing(sp) == Size(sp) < NBlocks

(* checkSpawn(): at most one block each time *)
CheckSpawn ==
  /\ checkEvent /\ effects = {}
  /\ LET sp == Cleanup(spawned)
     IN  /\ spawned' = sp
         /\ effects' = IF Eligible(sp) = {} THEN {} ELSE {Min(Eligible(sp))}
         /\ checkEvent' = MonstersMissing(sp)
  /\ UNCHANGED <<due, hunting>>

(* The last scheduleSpawn(): spawnMonster(), which fails when players are  *)
(* near, when a script says no or when there is no room.                   *)
SpawnMonster(b) ==
  /\ b \in effects
  /\ effects' = effects \ {b}
  /\ spawned' = [spawned EXCEPT ![b].home = @ + 1]
  /\ due' = due \ {b}
  /\ UNCHANGED <<checkEvent, hunting>>

SpawnFails(b) ==
  /\ b \in effects
  /\ effects' = effects \ {b}
  /\ UNCHANGED <<spawned, due, checkEvent, hunting>>

TimePasses(b) ==
  /\ b \notin due
  /\ due' = due \cup {b}
  /\ UNCHANGED <<spawned, checkEvent, effects, hunting>>

-----------------------------------------------------------------------------
(* Monsters walk out of the zone of the spawn, and back. *)
Stray(b) ==
  /\ spawned[b].home > 0
  /\ MapThenSumSet(LAMBDA i : spawned[i].away, BlockIds) < MaxStrays
  /\ spawned' = [spawned EXCEPT ![b].home = @ - 1, ![b].away = @ + 1]
  /\ UNCHANGED <<due, checkEvent, effects, hunting>>

Return(b) ==
  /\ spawned[b].away > 0
  /\ spawned' = [spawned EXCEPT ![b].home = @ + 1, ![b].away = @ - 1]
  /\ UNCHANGED <<due, checkEvent, effects, hunting>>

(* startSpawnCheck() *)
CheckStarted == TRUE

(* A monster is killed: it stays in spawnedMap until the next cleanup(). *)
Kill(i, k) ==
  /\ hunting /\ k # "dead" /\ spawned[i][k] > 0
  /\ spawned' = [spawned EXCEPT ![i][k] = @ - 1, ![i].dead = @ + 1]
  /\ checkEvent' = CheckStarted
  /\ UNCHANGED <<due, effects, hunting>>

HuntersLeave ==
  /\ hunting
  /\ hunting' = FALSE
  /\ UNCHANGED <<spawned, due, checkEvent, effects>>

SpawnNext ==
  \/ CheckSpawn \/ HuntersLeave
  \/ \E b \in Blocks : \/ SpawnMonster(b) \/ SpawnFails(b) \/ TimePasses(b)
                       \/ Stray(b) \/ Return(b)
  \/ \E i \in BlockIds, k \in Kinds : Kill(i, k)

SpawnSpec == SpawnInit /\ [][SpawnNext]_spawnVars

(* The dispatcher and the scheduler run what is due, time passes, the      *)
(* hunters leave at some time, and a block that is tried again and again   *)
(* is not blocked for ever.                                                *)
FairSpec ==
  /\ SpawnSpec /\ WF_spawnVars(CheckSpawn) /\ WF_spawnVars(HuntersLeave)
  /\ \A b \in Blocks : /\ WF_spawnVars(TimePasses(b))
                       /\ WF_spawnVars(SpawnMonster(b) \/ SpawnFails(b))
                       /\ SF_spawnVars(SpawnMonster(b))

-----------------------------------------------------------------------------
(* Type invariant: every variable keeps the type it has in the code. *)
SpawnTypeOK ==
  /\ spawned \in [BlockIds -> [Kinds -> Nat]]
  /\ due \subseteq Blocks /\ effects \subseteq Blocks
  /\ checkEvent \in BOOLEAN /\ hunting \in BOOLEAN

(* A block never has two living monsters, although scheduleSpawn() does    *)
(* not look at spawnedMap again when the effects are over.                 *)
OnePerBlock == \A b \in Blocks : Living(spawned, b) <= 1

(* A removed monster that spawnedMap still holds a reference to will be    *)
(* let go: the event that cleans up is pending.                            *)
DeadAreSwept == (\E i \in BlockIds : spawned[i].dead > 0) => checkEvent

(* When the hunters are gone, every block has its monster again, however   *)
(* many were killed and in which order, although checkSpawn() serves one   *)
(* block at a time and stops when the spawn is complete.                   *)
Refills == <>[](\A b \in Blocks : Living(spawned, b) = 1)
=============================================================================
