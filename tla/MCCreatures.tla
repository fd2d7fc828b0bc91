---------------------------- MODULE MCCreatures ----------------------------
(***************************************************************************)
(* The creatures of the world and how they move and decide, for TLC:       *)
(* Creatures (once without summons, in two places, once with summons of a  *)
(* player and of a monster), Spawn, Walk, PathFinding, MonsterMoves,       *)
(* MonsterMind, WalkCache and Conditions (once with everything a condition *)
(* may be, once with several that change the speed).  They have no state   *)
(* in common here, so that one run explores them side by side: `part' is   *)
(* the one that moves.  The module extends Walk, WalkCache and MonsterMind,*)
(* about which there are theorems, and instantiates the others.            *)
(***************************************************************************)
EXTENDS Walk, WalkCache, MonsterMind, TLC

CONSTANTS p1, m1, m2,    \* a player and two monsters
          t1, t2,        \* actions that need a walk first, targets of a monster
          None

VARIABLES part,
          game, loop,
          spawned, due, checkEvent, effects, hunting,
          tiles, from, to, fpp, nodes, closedNodes, found, bestMatch, result, dirList,
          walls, me, target, sight, fleeing, listWalkDir, things, weak, killed, how,
          creature, online, scheduled, stored

creatureVars == <<game, loop>>
spawnVars == <<spawned, due, checkEvent, effects, hunting>>
pathVars == <<tiles, from, to, fpp, nodes, closedNodes, found, bestMatch, result, dirList>>
moveVars == <<walls, me, target, sight, fleeing, listWalkDir, things, weak, killed, how>>
conditionVars == <<creature, online, scheduled, stored>>
vars == <<part, creatureVars, spawnVars, walkVars, pathVars, moveVars, mindVars, cacheVars, conditionVars>>

Wild == INSTANCE Creatures WITH Players <- {p1}, Monsters <- {m1}, NoCreature <- None,
          Places <- {1, 2}, Lists <- 2, Summoners <- {}
Masters == INSTANCE Creatures WITH Players <- {p1}, Monsters <- {m1, m2}, NoCreature <- None,
             Places <- {1}, Lists <- 1, Summoners <- {p1, m1}
Spawning == INSTANCE Spawn WITH NBlocks <- 4, MaxStrays <- 3, StartupFails <- TRUE

(* What players, monsters and scripts ask of a search. *)
Asked == INSTANCE PathFinding WITH Width <- 3, Height <- 3, Kinds <- {}, MaxOdd <- 0, Starts <- {}, Targets <- {},
           Params <- {}, MAX_NODES <- 8, MaxClosed <- 7
Searches == {Asked!FollowParams(TRUE), Asked!MonsterParams("hunts", 2, TRUE),
             Asked!MonsterParams("follows its master", 1, TRUE), Asked!MonsterParams("flees", 1, TRUE),
             Asked!ScriptParams(0, 1, TRUE, FALSE, 0)}

(* Searches from a corner of nine tiles, with at most two obstacles. *)
Searching == INSTANCE PathFinding WITH Width <- 3, Height <- 3, Kinds <- {"wall", "creature"}, MaxOdd <- 2,
               Starts <- {<<1, 1>>}, Targets <- Asked!Positions, Params <- Searches,
               MAX_NODES <- 8, MaxClosed <- 7

(* An archer that keeps its distance, and one that pushes what is in its way. *)
Keeping == INSTANCE MonsterMoves WITH Width <- 4, Height <- 2, MaxWalls <- 1, targetDistance <- 3,
             AttackRange <- 1, CanPushItems <- FALSE, CanPushCreatures <- FALSE,
             MaxThings <- 0, MaxWeak <- 0, Nowhere <- None
Pushing == INSTANCE MonsterMoves WITH Width <- 3, Height <- 2, MaxWalls <- 1, targetDistance <- 2,
             AttackRange <- 1, CanPushItems <- TRUE, CanPushCreatures <- TRUE,
             MaxThings <- 1, MaxWeak <- 1, Nowhere <- None

(* The spells and summons of the monster of MonsterMind. *)
AttackSpeeds == <<3, 5>>
DefenseSpeeds == <<3>>
Helpers == <<[speed |-> 3, max |-> 1]>>

(* The steps of the monster of WalkCache, which this module extends: every *)
(* one but the diagonal ones to the south, after which the cache is wrong  *)
(* (MCWalkCache has them).                                                 *)
OtherSteps == AllSteps \ {<<-1, 1>>, <<1, 1>>}

Offer(type, ticks, value, rounds) == [type |-> type, id |-> 0, ticks |-> ticks, value |-> value, rounds |-> rounds]
Afflicted == INSTANCE Conditions WITH
  Offers <- {Offer("haste", 2, 3, 0), Offer("paralyze", 1, -2, 0), Offer("attributes", 1, 1, 0),
             Offer("invisible", 1, 0, 0), Offer("drunk", 1, 1, 0),
             Offer("fire", 2, 1, 2), Offer("infight", 1, 0, 0), Offer("outfit", 1, 2, 0),
             Offer("light", 1, 2, 0), Offer("regeneration", 1, 1, 0)},
  Gear <- [ring |-> [speed |-> 1, skill |-> 1, invisible |-> TRUE, suppress |-> {}],
           amulet |-> [speed |-> 0, skill |-> 1, invisible |-> FALSE, suppress |-> {"fire"}]],
  NoGear <- "none", Interval <- 1, MaxHealth <- 1, MaxConditions <- 2, MaxScheduled <- 1
Hasted == INSTANCE Conditions WITH
  Offers <- {Offer("haste", 2, 3, 0), Offer("haste", 1, 2, 0), Offer("paralyze", 1, -2, 0)},
  Gear <- [ring |-> [speed |-> 1, skill |-> 1, invisible |-> FALSE, suppress |-> {}]],
  NoGear <- "none", Interval <- 1, MaxHealth <- 1, MaxConditions <- 3, MaxScheduled <- 2

ASSUME /\ Wild!CreaturesAssumption /\ Masters!CreaturesAssumption
       /\ Spawning!SpawnAssumption /\ WalkAssumption /\ IdsSuffice /\ Searching!PathAssumption
       /\ Keeping!MovesAssumption /\ Pushing!MovesAssumption /\ MindAssumption
       /\ WalkCacheAssumption
       /\ Afflicted!ConditionsAssumption /\ Hasted!ConditionsAssumption

(* The parts that are not explored have no state. *)
NoCreatureVars == game = None /\ loop = None
NoSpawnVars == /\ spawned = None /\ due = None /\ checkEvent = None /\ effects = None
               /\ hunting = None
NoPathVars == /\ tiles = None /\ from = None /\ to = None /\ fpp = None /\ nodes = None
              /\ closedNodes = None /\ found = None /\ bestMatch = None /\ result = None
              /\ dirList = None
NoMoveVars == /\ walls = None /\ me = None /\ target = None /\ sight = None /\ fleeing = None
              /\ listWalkDir = None /\ things = None /\ weak = None /\ killed = None
              /\ how = None
NoConditionVars == creature = None /\ online = None /\ scheduled = None /\ stored = None

Init ==
  /\ part \in {"wild", "masters", "spawn", "walk", "path", "keeping", "pushing",
                 "mind", "cache", "afflicted", "hasted"}
  /\ CASE part = "wild" -> Wild!Init
       [] part = "masters" -> Masters!Init
       [] OTHER -> NoCreatureVars
  /\ IF part = "spawn" THEN Spawning!SpawnInit ELSE NoSpawnVars
  /\ IF part = "path" THEN Searching!Init ELSE NoPathVars
  /\ CASE part = "keeping" -> Keeping!Init
       [] part = "pushing" -> Pushing!Init
       [] OTHER -> NoMoveVars
  /\ MindInit
  /\ WalkInit
  /\ CacheInit /\ (part # "cache" => world.me = <<1, 1, 1>>)
  /\ CASE part = "afflicted" -> Afflicted!Init
       [] part = "hasted" -> Hasted!Init
       [] OTHER -> NoConditionVars

Next ==
  \/ /\ part = "wild" /\ Wild!Next
     /\ UNCHANGED <<part, spawnVars, walkVars, pathVars, moveVars, mindVars,
                    cacheVars, conditionVars>>
  \/ /\ part = "masters" /\ Masters!Next
     /\ UNCHANGED <<part, spawnVars, walkVars, pathVars, moveVars, mindVars,
                    cacheVars, conditionVars>>
  \/ /\ part = "spawn" /\ Spawning!SpawnNext
     /\ UNCHANGED <<part, creatureVars, walkVars, pathVars, moveVars, mindVars,
                    cacheVars, conditionVars>>
  \/ /\ part = "walk" /\ WalkNext
     /\ UNCHANGED <<part, creatureVars, spawnVars, pathVars, moveVars, mindVars,
                    cacheVars, conditionVars>>
  \/ /\ part = "path" /\ Searching!Next
     /\ UNCHANGED <<part, creatureVars, spawnVars, walkVars, moveVars, mindVars,
                    cacheVars, conditionVars>>
  \/ /\ part = "keeping" /\ Keeping!Next
     /\ UNCHANGED <<part, creatureVars, spawnVars, walkVars, pathVars, mindVars,
                    cacheVars, conditionVars>>
  \/ /\ part = "pushing" /\ Pushing!Next
     /\ UNCHANGED <<part, creatureVars, spawnVars, walkVars, pathVars, mindVars,
                    cacheVars, conditionVars>>
  \/ /\ part = "mind" /\ MindNext
     /\ UNCHANGED <<part, creatureVars, spawnVars, walkVars, pathVars, moveVars,
                    cacheVars, conditionVars>>
  \/ /\ part = "cache" /\ CacheNext
     /\ UNCHANGED <<part, creatureVars, spawnVars, walkVars, pathVars, moveVars,
                    mindVars, conditionVars>>
  \/ /\ part = "afflicted" /\ Afflicted!Next
     /\ UNCHANGED <<part, creatureVars, spawnVars, walkVars, pathVars, moveVars, mindVars,
                    cacheVars>>
  \/ /\ part = "hasted" /\ Hasted!Next
     /\ UNCHANGED <<part, creatureVars, spawnVars, walkVars, pathVars, moveVars, mindVars,
                    cacheVars>>

Spec == Init /\ [][Next]_vars
-----------------------------------------------------------------------------
(* What Game, masters and monsters know of the creatures, whichever dies   *)
(* or is removed first, also while the loop of checkCreatures() runs.  The *)
(* reference counter is the number of holders; a creature is in one check  *)
(* list once or in none, and in one exactly if it is awake in the game;    *)
(* master and summons, which no counter protects, point at each other; and *)
(* the targets of a monster are in the game and in sight.  A block of a    *)
(* spawn never has two living monsters, although scheduleSpawn() does not  *)
(* look at spawnedMap again after the effects; and a removed monster that  *)
(* spawnedMap still refers to will be let go: the checkSpawn() that cleans *)
(* up is pending.                                                          *)
CreaturesAgree ==
  /\ part = "wild" => /\ Wild!TypeOK /\ Wild!RefsAgree /\ Wild!ListedOnce
                      /\ Wild!AwakeThinks /\ Wild!MastersAgree /\ Wild!TargetsAreHere
  /\ part = "masters" => /\ Masters!TypeOK /\ Masters!RefsAgree /\ Masters!ListedOnce
                         /\ Masters!AwakeThinks /\ Masters!MastersAgree
  /\ part = "spawn" => Spawning!SpawnTypeOK /\ Spawning!OnePerBlock /\ Spawning!DeadAreSwept

(* A path that getPathMatching() returns leads over free tiles to a place  *)
(* that the search asked for, and when it returns none, or one that ends   *)
(* short, the nodes it could hold did not reach a better one.              *)
PathsAgree == part = "path" => Searching!PathsAgree

(* A monster that keeps its distance or flees is never sent nearer to its  *)
(* target while getDistanceStep() has another step for it; a dance step    *)
(* goes round the target and not out of reach; pushItems() and             *)
(* pushCreatures() destroy and crush nothing that has room beside its tile.*)
MovesAgree == [][/\ part = "keeping" => Keeping!MovesAgree
                 /\ part = "pushing" => Pushing!MovesAgree]_vars

(* WalkAgrees, CacheAgrees and MindAgrees are those of the modules.        *)

(* Conditions come, run out, are replaced, suppressed, saved and restored, *)
(* some from equipment and some by the dispatcher later: speed, skills and *)
(* looks are those that the conditions and the equipment in force give,    *)
(* no two share a key, and a protection zone lock lasts no longer than the *)
(* fight.                                                                  *)
ConditionsAgree == /\ part = "afflicted" => Afflicted!ConditionsAgree
                   /\ part = "hasted" => Hasted!ConditionsAgree
=============================================================================
