---------------------------- MODULE MonsterTypes ----------------------------
(***************************************************************************)
(* The table of monster types: Monsters::monsters, filled from files when  *)
(* a type is first asked for, from Lua scripts at the start, and again by  *)
(* the reloads of Game::reload.  A type holds raw pointers: to registered  *)
(* spells (g_spells owns them) and to the script interface of the monster  *)
(* files, both of which a reload deletes and makes anew.                   *)
(*                                                                         *)
(* Every deleted thing is known by the number of the reload that made it.  *)
(* A spell block is a name and a speed; ranges, chances and values are     *)
(* normalised alike on both paths and are left out, as is the combat of a  *)
(* spell that the block owns.  A script's change of one of the plain       *)
(* fields of a type is the name of that group of fields.                   *)
(***************************************************************************)
EXTENDS Integers, FiniteSets, Sequences, SequencesExt, FiniteSetsExt

CONSTANTS XmlTypes,      \* names listed in monsters.xml
          ScriptTypes,   \* types made by data/scripts, which /reload scripts runs again
          FolderTypes,   \* types made by data/monster/*.lua, which only the start runs
          XmlSpells, LuaSpells,   \* spells of spells.xml and of data/scripts
          Contents,      \* what a type's file may hold: [ok, script, attacks, summons]
          LuaContent,    \* what a Lua type is given: [attacks, summons]
          SpellsFirst,   \* whether data/scripts registers its spells before its types
          FORCE_MONSTERTYPE_LOAD,
          MaxReloads, MaxEdits, MaxSets

VARIABLES disk,     \* [index: monsters.xml is well formed, file: by name]
          reg,      \* the tables, see Blank
          up, reloads, edits,
          read,     \* what each type was last read from
          missed    \* types that the last reload could not read

vars == <<disk, reg, up, reloads, edits, read, missed>>

LuaTypes == ScriptTypes \union FolderTypes
Names == XmlTypes \union LuaTypes
Fields == {"flags", "abilities", "numbers", "immunities", "lists", "look", "behaviour"}

MonsterTypesAssumption ==
    /\ XmlTypes \intersect LuaTypes = {} /\ ScriptTypes \intersect FolderTypes = {}
    /\ \A c \in Contents : {c.ok, c.script} \subseteq BOOLEAN /\ c.summons \in Nat
    /\ {SpellsFirst, FORCE_MONSTERTYPE_LOAD} \subseteq BOOLEAN

\* MonsterType::MonsterInfo as it is constructed.
NoInfo == [loaded |-> FALSE, iface |-> 0, attacks |-> <<>>, summons |-> 0, set |-> {}]

\* types; the names still to be loaded; the numbers of the spells of spells.xml
\* and of the scripts, and of the script interface (0: none).
Blank == [types |-> [n \in Names |-> NoInfo], unloaded |-> {}, xml |-> 1, lua |-> 0, iface |-> 0, next |-> 1]

(***************************************************************************)
(* deserializeSpell.                                                       *)
(***************************************************************************)
Registered(s) == XmlSpells \union IF s.lua > 0 THEN LuaSpells ELSE {}

\* g_spells->getSpellByName, or a spell of the block's own; a scripted one has
\* its function in the script interface of g_spells.
SpellOf(s, name) ==
    CASE name \in Registered(s) \intersect LuaSpells -> [spell |-> name, made |-> s.lua]
      [] name \in XmlSpells \union {"scripted"} -> [spell |-> name, made |-> s.xml]
      [] name = "melee" -> [spell |-> name, made |-> 0]
      [] OTHER -> [spell |-> "own", made |-> 0]

\* From a file: an unknown name is refused, and the speed is at least 1.
Unknown(s, d) == d.spell \notin Registered(s) \union {"scripted", "melee", "own"}
XmlBlocks(s, ds) ==
    LET known == SelectSeq(ds, LAMBDA d : ~Unknown(s, d))
    IN  [i \in DOMAIN known |-> [what |-> SpellOf(s, known[i].spell), speed |-> Max({1, known[i].speed})]]

\* From a script: an unknown name makes a spell without effect, and the
\* interval is taken as it is.
LuaBlocks(s, ds) == [i \in DOMAIN ds |-> [what |-> SpellOf(s, ds[i].spell), speed |-> ds[i].speed]]

(***************************************************************************)
(* loadMonster, loadFromXml and reload.                                    *)
(***************************************************************************)

\* "mType->info = {}"
Cleared(info, reloading) == IF reloading THEN NoInfo ELSE info

\* The script interface is made by the first type that has a script.
WithInterface(s, f) ==
    IF f.script /\ s.iface = 0 THEN [s EXCEPT !.iface = s.next, !.next = @ + 1] ELSE s

\* Flags, health, look, resistances, voices and loot, which are not told apart.
PlainFields(info) == [info EXCEPT !.loaded = TRUE]
ReadScript(info, g, f) == [info EXCEPT !.iface = IF f.script THEN g.iface ELSE @]
ReadAttacks(info, g, f) == [info EXCEPT !.attacks = @ \o XmlBlocks(g, f.attacks)]
ReadSummons(info, f) == [info EXCEPT !.summons = @ + f.summons]

LoadMonster(s, n, reloading) ==
    LET f == disk.file[n]
        g == WithInterface(s, f)
        info == PlainFields(Cleared(s.types[n], reloading))
    IN  IF ~f.ok THEN s
        ELSE [g EXCEPT !.types[n] = ReadSummons(ReadAttacks(ReadScript(info, g, f), g, f), f)]

Loaded(s) == {n \in Names : s.types[n].loaded}

\* The types that are in the table are read (again); the others when asked for.
LoadFromXml(s, reloading) ==
    LET again == IF reloading \/ FORCE_MONSTERTYPE_LOAD THEN XmlTypes \intersect Loaded(s) ELSE {}
        listed == [s EXCEPT !.unloaded = IF disk.index THEN XmlTypes ELSE {}]
    IN  IF ~disk.index THEN listed
        ELSE FoldSet(LAMBDA n, r : LoadMonster(r, n, reloading), listed, again)

MonstersReload(s) == LoadFromXml([s EXCEPT !.iface = 0], TRUE)
SpellsReload(s) == [s EXCEPT !.xml = @ + 1]

\* fault: the types are read before the spells they name are made anew
TypesFirst(s) == SpellsReload(MonstersReload(s))
\* RELOAD_TYPE_SPELLS
ReloadBoth(s) == MonstersReload(SpellsReload(s))

(***************************************************************************)
(* The Lua side.                                                           *)
(***************************************************************************)

\* Game.createMonsterType: a type that exists loses its attacks and events, but
\* not its summons and plain fields.
CreateMonsterType(s, n) ==
    [s EXCEPT !.types[n].loaded = TRUE, !.types[n].attacks = <<>>, !.types[n].iface = 0]

AddAttack(s, n, ds) == [s EXCEPT !.types[n].attacks = @ \o LuaBlocks(s, ds)]
AddSummon(s, n, k) == [s EXCEPT !.types[n].summons = @ + k]

MakeTypes(s, names) ==
    FoldSet(LAMBDA n, r : AddSummon(AddAttack(CreateMonsterType(r, n), n, LuaContent.attacks), n, LuaContent.summons),
            s, names)

\* g_scripts->loadScripts("scripts"): spells and types, in the order of the
\* files; the spells that were there before are gone by then.
RunScripts(s, k) ==
    IF SpellsFirst THEN MakeTypes([s EXCEPT !.lua = k], ScriptTypes)
    ELSE [MakeTypes([s EXCEPT !.lua = 0], ScriptTypes) EXCEPT !.lua = k]

(***************************************************************************)
(* The steps.                                                              *)
(***************************************************************************)
Seen(names, ok) == [n \in Names |-> IF n \in names /\ ok THEN [file |-> disk.file[n], since |-> {}, times |-> read[n].times + 1]
                                    ELSE read[n]]
LuaSeen(names, r) == [n \in Names |-> IF n \in names THEN [r[n] EXCEPT !.times = @ + 1] ELSE r[n]]

AnyContent == CHOOSE c \in Contents : TRUE

Init ==
    /\ \E f \in [XmlTypes -> Contents] : disk = [index |-> TRUE, file |-> [n \in Names |-> IF n \in XmlTypes THEN f[n] ELSE AnyContent]]
    /\ reg = Blank /\ up = FALSE /\ reloads = 0 /\ edits = 0
    /\ read = [n \in Names |-> [file |-> AnyContent, since |-> {}, times |-> 0]]
    /\ missed = {}

\* mainLoader: data/scripts, monsters.xml, data/monster.
Start ==
    /\ ~up /\ up' = TRUE
    /\ reg' = MakeTypes(LoadFromXml(RunScripts(reg, 1), FALSE), FolderTypes)
    /\ read' = LuaSeen(LuaTypes, read)
    /\ UNCHANGED <<disk, reloads, edits, missed>>

\* getMonsterType for a type that nobody asked for before.
GetMonsterType ==
    /\ up
    /\ \E n \in reg.unloaded \ Loaded(reg) :
         /\ reg' = LoadMonster(reg, n, FALSE)
         /\ read' = Seen({n}, disk.file[n].ok)
    /\ UNCHANGED <<disk, up, reloads, edits, missed>>

\* What a reload could read, and what it had to leave.
Readable == {n \in XmlTypes \intersect Loaded(reg) : disk.index /\ disk.file[n].ok}
Reloaded ==
    /\ read' = Seen(Readable, TRUE)
    /\ missed' = (XmlTypes \intersect Loaded(reg)) \ Readable
    /\ reloads < MaxReloads /\ reloads' = reloads + 1

ReloadMonsters ==
    /\ up /\ Reloaded
    /\ reg' = MonstersReload(reg)
    /\ UNCHANGED <<disk, up, edits>>

\* With a broken monsters.xml this ends the server (std::terminate).
ReloadSpells ==
    /\ up /\ disk.index /\ Reloaded
    /\ reg' = ReloadBoth(reg)
    /\ UNCHANGED <<disk, up, edits>>

ReloadScripts ==
    /\ up
    /\ reloads < MaxReloads /\ reloads' = reloads + 1
    /\ reg' = RunScripts(reg, reloads + 2)
    /\ read' = LuaSeen(ScriptTypes, read)
    /\ UNCHANGED <<disk, up, edits, missed>>

\* Somebody edits a file, or breaks monsters.xml.
Edit ==
    /\ edits < MaxEdits /\ edits' = edits + 1
    /\ \/ \E n \in XmlTypes, c \in Contents : disk' = [disk EXCEPT !.file[n] = c]
       \/ disk' = [disk EXCEPT !.index = ~@]
    /\ UNCHANGED <<reg, up, reloads, read, missed>>

\* The setters of MonsterType, which a script may call on any type.
Set(field) ==
    /\ \E n \in Loaded(reg) :
          /\ MapThenSumSet(LAMBDA m : Cardinality(reg.types[m].set), Names) < MaxSets
          /\ reg' = [reg EXCEPT !.types[n].set = @ \union {field}]
          /\ read' = [read EXCEPT ![n].since = @ \union {field}]
    /\ UNCHANGED <<disk, up, reloads, edits, missed>>
SetFlags == Set("flags")
SetAbilities == Set("abilities")
SetNumbers == Set("numbers")
SetImmunities == Set("immunities")
SetLists == Set("lists")
SetLook == Set("look")
SetBehaviour == Set("behaviour")

Next ==
    \/ Start \/ GetMonsterType \/ ReloadMonsters \/ ReloadSpells \/ ReloadScripts \/ Edit
    \/ SetFlags \/ SetAbilities \/ SetNumbers \/ SetImmunities \/ SetLists \/ SetLook \/ SetBehaviour

Spec == Init /\ [][Next]_vars
-----------------------------------------------------------------------------
TypeOK ==
    /\ \A n \in Names : reg.types[n].set \subseteq Fields /\ reg.types[n].summons \in Nat
    /\ \A n \in XmlTypes : \A i \in DOMAIN reg.types[n].attacks : reg.types[n].attacks[i].speed >= 1
    /\ reg.unloaded \subseteq XmlTypes

\* However often and in whatever order types are read, a type of a file is what
\* that file says and nothing of an earlier reading, apart from what scripts
\* set since.  A Lua type has its attacks once, although the script that makes
\* it runs again; its summons, which createMonsterType does not clear, are
\* there once for every run.
NoResidue ==
    \A n \in Loaded(reg) :
        LET info == reg.types[n]
            f == read[n].file
        IN  IF n \in LuaTypes
            THEN Len(info.attacks) = Len(LuaContent.attacks) /\ info.summons = read[n].times * LuaContent.summons
            ELSE /\ Len(info.attacks) = Cardinality({i \in DOMAIN f.attacks : ~Unknown([reg EXCEPT !.lua = 1], f.attacks[i])})
                 /\ info.summons = f.summons /\ info.set = read[n].since

\* No type of a file casts a spell of spells.xml that a reload has deleted, and
\* none calls an interface that a reload has deleted, unless its own file or
\* monsters.xml could not be read then: whatever is reloaded in which order,
\* and whether types were loaded before or after.
PointersAreLive ==
    \A n \in (XmlTypes \intersect Loaded(reg)) \ missed :
        /\ reg.types[n].iface \in {0, reg.iface}
        /\ \A i \in DOMAIN reg.types[n].attacks :
              LET w == reg.types[n].attacks[i].what
              IN  w.spell \in XmlSpells \union {"scripted"} => w.made = reg.xml

MonsterTypesAgree == TypeOK /\ NoResidue /\ PointersAreLive

\* config.lua: forceMonsterTypesOnLoad "loads all monster types on startup to
\* validate them".  loadFromXml only loads those that are in the table already.
ForcedAreLoaded ==
    (up /\ FORCE_MONSTERTYPE_LOAD) => \A n \in XmlTypes : disk.file[n].ok => n \in Loaded(reg)
=============================================================================
