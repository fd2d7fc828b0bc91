----------------------------- MODULE MCServer -----------------------------
(***************************************************************************)
(* What keeps the server running and its data right, for TLC:              *)
(* DatabaseTasks, Connection and Scheduler in larger instances than        *)
(* MCRuntime has, Persistence, the lives of what scripts hold              *)
(* (ScriptEngine), and the NPCs, whose shops hold references into the      *)
(* script engine (Npcs), which this module extends; the registries that    *)
(* scripts and files fill and reloads replace (Registries, ItemTypes,      *)
(* MonsterTypes); and what is written to the database and read from it     *)
(* again (Serialization).  They have no state in common here, so that one  *)
(* run explores them side by side: `part' is the one that moves.           *)
(***************************************************************************)
EXTENDS DatabaseTasks, Connection, Scheduler, Persistence, ScriptEngine, Npcs, Integers, TLC

CONSTANTS e1, e2, e3,          \* events of the scheduler
          q1, q2, q3,          \* queries
          dispatcher, io, main, db,   \* threads
          i1, i2, i3, c1,      \* items and a creature that scripts hold
          p1,                  \* a player with creature events
          b1, b2, n1, n2,      \* two buyers and two NPCs
          None

VARIABLES part,
          up, scripts, loaded, tables, creatures, counts, now, early,
          pack, itemPack, vec, lookups, itemsUp, itemReloads, handles,
          files, reg, monstersUp, monsterReloads, edits, read, missed,
          boxes, rows, kept, today, tile, blob, left, map, fresh

registryVars == <<up, scripts, loaded, tables, creatures, counts, now, early>>
itemTypeVars == <<pack, itemPack, vec, lookups, itemsUp, itemReloads, handles>>
monsterTypeVars == <<files, reg, monstersUp, monsterReloads, edits, read, missed>>
blobVars == <<boxes, rows, kept, today, tile, blob, left, map, fresh>>
suiteVars == <<part, schedulerVars, vars, connectionVars, registryVars, itemTypeVars,
               monsterTypeVars, scriptVars, persistenceVars, blobVars, npcVars>>

(* Three versions of data/scripts, edited between two reloads. *)
Definition(kind, tag, calls) == [kind |-> kind, tag |-> tag, calls |-> calls]
Call(method, arg) == [call |-> method, arg |-> arg, num |-> 0]
Timed(method, num) == [call |-> method, arg |-> "none", num |-> num]
Callback == Call("callback", "none")
Death == Definition("creature", "death", <<Call("type", "death"), Callback>>)
Kill  == Definition("creature", "kill", <<Call("type", "death"), Callback>>)
Version1 ==
  << Definition("action", "a1", <<Call("key", "i1"), Callback>>),
     Definition("action", "a2", <<Call("key", "i1"), Call("key", "i2"), Callback>>), Death, Kill,
     Definition("global", "g1", <<Timed("interval", 20), Callback>>),
     Definition("move", "m1", <<Call("type", "equip"), Call("slot", "ring"), Call("key", "i1")>>),
     Definition("weapon", "w1", <<Call("key", "i1"), Callback>>) >>
Version2 ==
  << Definition("action", "a2", <<Call("key", "i1"), Callback>>),
     Definition("talk", "t1", <<Call("key", "x"), Call("key", "y"), Callback>>),
     Definition("move", "m2", <<Call("type", "equip"), Call("key", "i1")>>),
     Definition("move", "m3", <<Call("type", "stepin"), Call("key", "i1"), Call("key", "i2"), Callback>>),
     Definition("move", "m4", <<Call("type", "equip"), Call("key", "i1"), Callback>>), Death, Kill,
     Definition("weapon", "w2", <<Call("key", "i2")>>),
     Definition("weapon", "w3", <<Call("key", "i2"), Callback>>) >>
Version3 ==
  << Definition("spell", "s1", <<Call("key", "x"), Callback>>),
     Definition("spell", "s2", <<Call("key", "x"), Callback>>), Definition("spell", "s3", <<Call("key", "y")>>),
     Definition("global", "g2", <<Timed("time", 2), Callback>>),
     Definition("global", "g3", <<Timed("time", 0), Callback>>),
     Definition("global", "g1", <<Timed("interval", 10), Callback>>),
     Definition("global", "g4", <<Call("type", "startup"), Callback>>),
     Definition("global", "g5", <<Callback>>), Death, Kill >>
Scripts == INSTANCE Registries WITH disk <- scripts, runs <- counts, Versions <- {Version1, Version2, Version3},
             DefaultWeapons <- {"i1"}, Players <- {p1}, Milli <- 10, Day <- 3, Start <- 3,
             MaxTime <- 5, MaxChains <- 1

(* Packs of items.otb and items.xml, one of them cut off, one not well     *)
(* formed, one with more types, one with a group that is not known.        *)
Attr(key, at, v) == [key |-> key, at |-> at, v |-> v, sub |-> <<>>]
Binary(id, clientId, group, flags) == [id |-> id, clientId |-> clientId, group |-> group, flags |-> flags]
Node(from, to, name, attributes) == [from |-> from, to |-> to, name |-> name, attributes |-> attributes]
Otb == <<Binary(2, 11, "none", {"stackable"}), Binary(3, 12, "none", {}), Binary(4, 13, "none", {}),
         Binary(5, 14, "container", {}), Binary(6, 12, "none", {"read"})>>
Xml1 ==
  <<Node(2, 2, "coin", <<Attr("worth", "", 1), Attr("plain", "attack", 2)>>),
    Node(3, 3, "bed", <<Attr("type", "bed", 1), Attr("male", "", 4), Attr("female", "", 5)>>),
    Node(4, 5, "bed", <<Attr("type", "bed", 1)>>),
    Node(1, 1, "water", <<Attr("suppress", "drunk", 1), Attr("skill", "attack", 1)>>),
    Node(6, 9, "ring", <<Attr("slot", "ring", 1), Attr("absorb", "all", 2), Attr("absorb", "elements", 1),
                         Attr("boost", "fire", 1), Attr("named", "attack", 0), Attr("regeneration", "attack", 3),
                         Attr("writeable", "", 1), Attr("worth", "", 1)>>)>>
Xml2 ==
  <<Node(6, 6, "bed", <<Attr("female", "", 4), Attr("flag", "read", 0),
                        [Attr("bounded", "attack", 1) EXCEPT !.sub = <<2, 4>>], Attr("worth", "", 1)>>),
    Node(2, 2, "coin", <<Attr("worth", "", 1), Attr("fluidcontainer", "", 1), Attr("slot", "right-hand", 1)>>),
    Node(3, 3, "bed", <<Attr("male", "", 4), Attr("element", "fire", 3), Attr("reflectPercent", "magic", 1),
                        Attr("reflectChance", "ice", 2), Attr("lasting", "attack", 4), Attr("named", "attack", 1),
                        Attr("transformto", "", 5)>>),
    Node(3, 3, "twice", <<>>),
    Node(5, 5, "fire", <<[Attr("field", "fire", 0) EXCEPT !.sub =
                            <<[k |-> "start", v |-> 3], [k |-> "ticks", v |-> 1], [k |-> "damage", v |-> 9],
                              [k |-> "count", v |-> 0], [k |-> "initdamage", v |-> 2], [k |-> "damage", v |-> 1]>>]>>)>>
Pack(otb, length, xml, wellFormed) == [otb |-> otb, cut |-> length, xml |-> xml, wellFormed |-> wellFormed]
ItemPacks == {Pack(Otb, 5, Xml1, TRUE), Pack(Otb, 5, Xml2, TRUE), Pack(Otb, 4, Xml1, TRUE), Pack(Otb, 5, Xml1, FALSE),
              Pack(Append(Otb, Binary(7, 15, "none", {})), 6, Xml2, TRUE),
              Pack(Append(Otb, Binary(8, 16, "odd", {})), 6, Xml1, TRUE)}
Catalogue == INSTANCE ItemTypes WITH loaded <- itemPack, index <- lookups, up <- itemsUp, reloads <- itemReloads,
               Packs <- ItemPacks, FirstId <- 2, Plain <- {"attack", "element"}, Damages <- {"fire", "ice", "holy"},
               Elements <- {"fire", "ice"}, Magics <- {"fire", "ice", "holy"}, XmlWield <- {2}, LuaWield <- {3},
               MaxReloads <- 2, MaxHandles <- 1

(* A monster file that cannot be read, one that has a script, one that has *)
(* none.                                                                   *)
Cast(spell, speed) == [spell |-> spell, speed |-> speed]
MonsterFiles ==
  {[ok |-> FALSE, script |-> FALSE, attacks |-> <<>>, summons |-> 0],
   [ok |-> TRUE, script |-> TRUE, attacks |-> <<Cast("x", 2), Cast("nothing", 2)>>, summons |-> 1],
   [ok |-> TRUE, script |-> FALSE, attacks |-> <<Cast("l", 2), Cast("scripted", 0)>>, summons |-> 0]}
Bestiary == INSTANCE MonsterTypes WITH disk <- files, up <- monstersUp, reloads <- monsterReloads,
              XmlTypes <- {"rat"}, ScriptTypes <- {"imp"}, FolderTypes <- {"orc"}, XmlSpells <- {"x"},
              LuaSpells <- {"l"}, Contents <- MonsterFiles,
              LuaContent <- [attacks |-> <<Cast("x", 0), Cast("l", 2)>>, summons |-> 1],
              SpellsFirst <- TRUE, FORCE_MONSTERTYPE_LOAD <- TRUE, MaxReloads <- 2, MaxEdits <- 1, MaxSets <- 1

(* Scripts with items only, and with a creature, timers, query results and *)
(* an item that does not decay.                                            *)
ScriptBounds == /\ part = "held" => ids = 0 /\ lastResultId = 0 /\ ~Holds(c1)
                /\ part = "delayed" => obj[i1].at = "none" /\ obj[i3].at = "none"

\* two of the tables of a player
SavedTables == <<"spells", "items">>

(* The types of what a player has in slots, depots and chests, and of what *)
(* lies on a tile of a house.                                              *)
TypeOf(kind, moveable, writes, charges, duration, unworn) ==
  [kind |-> kind, moveable |-> moveable, force |-> FALSE, writes |-> writes, charges |-> charges,
   duration |-> duration, unworn |-> unworn]
Kinds == [coin |-> TypeOf("stack", TRUE, FALSE, 0, 0, "coin"), ring |-> TypeOf("plain", TRUE, FALSE, 0, 3, "ring"),
          wornring |-> TypeOf("plain", TRUE, FALSE, 0, 3, "ring"), wand |-> TypeOf("charged", TRUE, TRUE, 2, 0, "wand"),
          bag |-> TypeOf("container", TRUE, FALSE, 0, 0, "bag"),
          bookcase |-> TypeOf("container", FALSE, FALSE, 0, 0, "bookcase"),
          open |-> TypeOf("door", FALSE, FALSE, 0, 0, "open"), closed |-> TypeOf("door", FALSE, FALSE, 0, 0, "closed"),
          bed |-> TypeOf("bed", FALSE, FALSE, 0, 0, "bed"), board |-> TypeOf("plain", FALSE, TRUE, 0, 0, "board"),
          reward |-> TypeOf("reward", TRUE, FALSE, 0, 0, "reward")]
Item(id) == [id |-> id, count |-> 1, charges |-> 0, action |-> 0, text |-> 0, duration |-> 0, decaying |-> 0,
             window |-> 0, autoopen |-> 0, sleeper |-> 0, kids |-> <<>>]
WornRing == [Item("wornring") EXCEPT !.duration = 2, !.decaying = 2]
Written == [Item("wand") EXCEPT !.charges = 1, !.text = 2, !.action = 1]
OpenBag == [Item("bag") EXCEPT !.window = 2]
Coins == [Item("coin") EXCEPT !.count = 3]
Board == [Item("board") EXCEPT !.text = 1]
Door == [Item("closed") EXCEPT !.action = 2]
NoBoxes == [slots |-> {}, depot |-> {}, inbox |-> {}, stash |-> {}, rewards |-> {}]
Owned == INSTANCE Serialization WITH Types <- Kinds, Stock <- {WornRing, Written, OpenBag, Item("reward")},
           Maps <- {<<>>}, Tops <- [NoBoxes EXCEPT !.slots = {1, 2}, !.depot = {5}, !.stash = {0}, !.rewards = {1}],
           FirstId <- 10, MaxItems <- 3, MaxOnTile <- 0, RewardDays <- 0, MaxDate <- 1
Furnished == INSTANCE Serialization WITH Types <- Kinds, Stock <- {Coins, OpenBag},
               Maps <- {<<Board, Door, Item("bookcase")>>, <<Item("bookcase"), Item("bed")>>}, Tops <- NoBoxes,
               FirstId <- 10, MaxItems <- 0, MaxOnTile <- 4, RewardDays <- 0, MaxDate <- 1

(* An NPC that never walks, and one that does. *)
Homes == n1 :> 1 @@ n2 :> 2
Radii == n1 :> 0 @@ n2 :> 1

ASSUME /\ SchedulerAssumption /\ IdsSuffice /\ DatabaseAssumption /\ ConnectionAssumption
       /\ Scripts!RegistriesAssumption /\ Catalogue!ItemTypesAssumption /\ Bestiary!MonsterTypesAssumption
       /\ ScriptAssumption /\ ScriptsAreShallow /\ PersistenceAssumption
       /\ Owned!SerializationAssumption /\ Furnished!SerializationAssumption /\ NpcsAssumption

(* The parts that are not explored have no state; those of the modules     *)
(* that are extended stay as they begin.                                   *)
NoRegistryVars == /\ up = None /\ scripts = None /\ loaded = None /\ tables = None
                  /\ creatures = None /\ counts = None /\ now = None /\ early = None
NoItemTypeVars == /\ pack = None /\ itemPack = None /\ vec = None /\ lookups = None
                  /\ itemsUp = None /\ itemReloads = None /\ handles = None
NoMonsterTypeVars == /\ files = None /\ reg = None /\ monstersUp = None /\ monsterReloads = None
                     /\ edits = None /\ read = None /\ missed = None
NoBlobVars == /\ boxes = None /\ rows = None /\ kept = None /\ today = None /\ tile = None
              /\ blob = None /\ left = None /\ map = None /\ fresh = None

SuiteInit ==
  /\ part \in {"timers", "queries", "connection", "scripts", "catalogue", "bestiary",
                 "held", "delayed", "saving", "owned", "furnished", "npcs"}
  /\ Init /\ ConnectionInit /\ SchedulerInit /\ PersistenceInit /\ ScriptInit /\ NpcInit
  /\ IF part = "scripts" THEN Scripts!Init ELSE NoRegistryVars
  /\ IF part = "catalogue" THEN Catalogue!Init ELSE NoItemTypeVars
  /\ IF part = "bestiary" THEN Bestiary!Init ELSE NoMonsterTypeVars
  /\ CASE part = "owned" -> Owned!Init
       [] part = "furnished" -> Furnished!Init
       [] OTHER -> NoBlobVars

SuiteNext ==
  \/ /\ part = "timers" /\ SchedulerNext
     /\ UNCHANGED <<part, vars, connectionVars, registryVars, itemTypeVars,
                    monsterTypeVars, scriptVars, persistenceVars, blobVars, npcVars>>
  \/ /\ part = "queries" /\ Next
     /\ UNCHANGED <<part, schedulerVars, connectionVars, registryVars, itemTypeVars,
                    monsterTypeVars, scriptVars, persistenceVars, blobVars, npcVars>>
  \/ /\ part = "connection" /\ ConnectionNext
     /\ UNCHANGED <<part, schedulerVars, vars, registryVars, itemTypeVars,
                    monsterTypeVars, scriptVars, persistenceVars, blobVars, npcVars>>
  \/ /\ part = "scripts" /\ Scripts!Next
     /\ UNCHANGED <<part, schedulerVars, vars, connectionVars, itemTypeVars,
                    monsterTypeVars, scriptVars, persistenceVars, blobVars, npcVars>>
  \/ /\ part = "catalogue" /\ Catalogue!Next
     /\ UNCHANGED <<part, schedulerVars, vars, connectionVars, registryVars,
                    monsterTypeVars, scriptVars, persistenceVars, blobVars, npcVars>>
  \/ /\ part = "bestiary" /\ Bestiary!Next
     /\ UNCHANGED <<part, schedulerVars, vars, connectionVars, registryVars,
                    itemTypeVars, scriptVars, persistenceVars, blobVars, npcVars>>
  \/ /\ part \in {"held", "delayed"} /\ UNCHANGED part /\ ScriptNext /\ ScriptBounds'
     /\ UNCHANGED <<schedulerVars, vars, connectionVars, registryVars,
                    itemTypeVars, monsterTypeVars, persistenceVars, blobVars, npcVars>>
  \/ /\ part = "saving" /\ PersistenceNext
     /\ UNCHANGED <<part, schedulerVars, vars, connectionVars, registryVars,
                    itemTypeVars, monsterTypeVars, scriptVars, blobVars, npcVars>>
  \/ /\ part = "owned" /\ Owned!Next
     /\ UNCHANGED <<part, schedulerVars, vars, connectionVars, registryVars,
                    itemTypeVars, monsterTypeVars, scriptVars, persistenceVars, npcVars>>
  \/ /\ part = "furnished" /\ Furnished!Next
     /\ UNCHANGED <<part, schedulerVars, vars, connectionVars, registryVars,
                    itemTypeVars, monsterTypeVars, scriptVars, persistenceVars, npcVars>>
  \/ /\ part = "npcs" /\ NpcNext
     /\ UNCHANGED <<part, schedulerVars, vars, connectionVars, registryVars,
                    itemTypeVars, monsterTypeVars, scriptVars, persistenceVars, blobVars>>

SuiteSpec == SuiteInit /\ [][SuiteNext]_suiteVars

Symmetry == Permutations({b1, b2})
-----------------------------------------------------------------------------
(* QueriesAreSound, ConnectionIsSound, TimersAreSound, PersistenceAgrees,  *)
(* ScriptsAgree and NpcsAgree are those of the modules.                    *)

(* However often scripts and files are edited and reloaded, in whatever    *)
(* order: every key of the event tables is bound to what the loaded files  *)
(* say, once; the events a creature points to are loaded and its bit field *)
(* names their types; the clocks of global events go on; the item types    *)
(* and their lookups are those of a fresh start; a monster type has what   *)
(* its file says and nothing of an earlier reading, and casts no spell and *)
(* calls no interface that a reload has deleted.                           *)
ReloadsAgree == /\ part = "scripts" => Scripts!RegistriesAgree
                /\ part = "catalogue" => Catalogue!ItemTypesAgree
                /\ part = "bestiary" => Bestiary!MonsterTypesAgree

(* A global event registered with time("h:m:s") does not run earlier in    *)
(* the day than the time it names.                                         *)
OnTimeAtItsTime == part = "scripts" => Scripts!OnTimeAtItsTime

(* What is written and read again is what was there, up to what the format *)
(* leaves out: a player's items at their places and depths, through pids   *)
(* and rows; the items of a house tile over those of the map.              *)
SerializationRoundTrips == /\ part = "owned" => Owned!SerializationRoundTrips
                           /\ part = "furnished" => Furnished!SerializationRoundTrips
=============================================================================
