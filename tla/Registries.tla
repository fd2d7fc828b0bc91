----------------------------- MODULE Registries -----------------------------
(***************************************************************************)
(* The tables that bind script events to the game, and their reloading.    *)
(*                                                                         *)
(* A script file builds event objects (Action(), TalkAction(), MoveEvent() *)
(* Spell(), CreatureEvent(), GlobalEvent(), Weapon()) with a sequence of   *)
(* builder calls and register()s them.  "/reload scripts" clears what came *)
(* from scripts, restores the default weapons and runs every file again,   *)
(* while creatures keep pointers to creature events and the scheduler may  *)
(* already have handed think() or timer() of the old tables to the         *)
(* dispatcher.                                                             *)
(*                                                                         *)
(* A script is a sequence of definitions [kind, tag, calls]; a call is     *)
(* [call, arg, num].  Time is in seconds; OTSYS_TIME() is Milli * now.     *)
(***************************************************************************)
EXTENDS Integers, Sequences, SequencesExt, FiniteSets, TLC

CONSTANTS
    Versions,       \* what data/scripts may hold: sequences of definitions
    DefaultWeapons, \* item ids that items.xml makes weapons
    Players,        \* creatures that register creature events
    Milli, Day,     \* milliseconds of a second, seconds of a day
    Start,          \* the wall clock when the server starts
    MaxTime,        \* bound: the clock stops there
    MaxChains       \* bound: pending runs of one timer

VARIABLES
    up,         \* the process is running
    disk,       \* the scripts in data/scripts
    loaded,     \* the scripts the last load ran
    tables,     \* every registry, see NoTables
    creatures,  \* [Players -> [events, bits]]: eventsList, scriptEventsBitField
    runs,       \* [Clocks -> [id, own, stray, queued]]: whether the member holds
                \* an event id, when that event is due (0: not scheduled any more),
                \* the due times of events it no longer knows, runs in the dispatcher
    now,        \* time(nullptr)
    early       \* (observer) timer events that ran before their time

vars == <<up, disk, loaded, tables, creatures, runs, now, early>>

Clocks == {"think", "timer"}

\* Scripts keep the names and the types of the creature events they define:
\* removeInvalidEvents() is not meant to pull an event from under a creature.
CreatureDefs(v) == {<<d.tag, d.calls>> : d \in {e \in Range(v) : e.kind = "creature"}}

RegistriesAssumption ==
    /\ Versions # {} /\ \A v \in Versions : v \in Seq(Range(v))
    /\ \A v, w \in Versions : CreatureDefs(v) = CreatureDefs(w)
    /\ Milli \in Nat \ {0, 1} /\ Day \in Nat \ {0}
    /\ Start \in Nat /\ Milli * Start > Start + Day
    /\ MaxTime \in Nat /\ MaxChains \in Nat \ {0}

OTSYS_TIME == Milli * now

-----------------------------------------------------------------------------
(* Building an event object.                                               *)

\* A fresh object: no callback, no key, no type.
Created(d) == [kind |-> d.kind, tag |-> d.tag, scripted |-> FALSE, keys |-> <<>>,
               type |-> "none", slot |-> "any", interval |-> 0, next |-> 0, at |-> 0]

\* onUse(), onSay(), onCastSpell(), onUseWeapon(), onLogin()...: loadCallback().
OnCallback(o) == [o EXCEPT !.scripted = TRUE]

\* id(), aid(), uid(), position(), words: an action, a move event and a
\* talk action collect keys, a spell and a weapon have one.
AddKey(o, key) ==
    [o EXCEPT !.keys = IF o.kind \in {"action", "talk", "move"} THEN Append(@, key) ELSE <<key>>]

\* moveevent:slot() counts only once the type is equip or de-equip.
SetSlot(o, slot) ==
    IF o.type \in {"equip", "deequip"} THEN [o EXCEPT !.slot = slot] ELSE o

\* type("..."): a name the class does not know changes nothing.
CreatureTypes == {"login", "logout", "think", "preparedeath", "death", "kill", "advance",
                  "textedit", "modalwindow", "healthchange", "manachange", "extendedopcode"}
MoveTypes == {"stepin", "stepout", "equip", "deequip", "additem", "removeitem"}
GlobalTypes == {"startup", "shutdown", "record", "timer"}
SetType(o, type) ==
    IF type \in CASE o.kind = "creature" -> CreatureTypes
                  [] o.kind = "move"     -> MoveTypes
                  [] o.kind = "global"   -> GlobalTypes
    THEN [o EXCEPT !.type = type] ELSE o

\* globalevent:interval(ms)
SetInterval(o, ms) == [o EXCEPT !.interval = ms, !.next = OTSYS_TIME + ms]

\* globalevent:time("h:m:s"): the next such time of day, IN SECONDS.
NextTimeOfDay(second) ==
    LET today == (now \div Day) * Day + second
    IN  IF today < now THEN today + Day ELSE today
SetTime(o, second) ==
    [o EXCEPT !.type = "timer", !.interval = second, !.next = NextTimeOfDay(second),
              !.at = NextTimeOfDay(second)]

Call(o, c) ==
    CASE c.call = "callback" -> OnCallback(o)
      [] c.call = "key"      -> AddKey(o, c.arg)
      [] c.call = "slot"     -> SetSlot(o, c.arg)
      [] c.call = "type"     -> SetType(o, c.arg)
      [] c.call = "interval" -> SetInterval(o, c.num)
      [] c.call = "time"     -> SetTime(o, c.num)

Built(d) == FoldLeft(Call, Created(d), d.calls)

-----------------------------------------------------------------------------
(* register().                                                             *)

NoTables == [actions |-> <<>>, talkActions |-> <<>>, spells |-> <<>>,
             moves |-> <<>>, weapons |-> <<>>, creatureEvents |-> <<>>,
             think |-> <<>>, timer |-> <<>>, server |-> <<>>]

\* map.emplace(): the first registration of a key stays.
Emplace(map, key, o) == map @@ (key :> o)

FirstWins(map, o) == FoldLeft(LAMBDA m, k : Emplace(m, k, o), map, o.keys)

RegisterAction(t, o) ==
    IF o.scripted THEN [t EXCEPT !.actions = FirstWins(@, o)] ELSE t

RegisterTalkAction(t, o) ==
    IF o.scripted THEN [t EXCEPT !.talkActions = FirstWins(@, o)] ELSE t

RegisterSpell(t, o) ==
    IF o.scripted THEN [t EXCEPT !.spells = FirstWins(@, o)] ELSE t

\* addEvent(): the list of a key and a type grows.
AddEvent(map, key, o) ==
    LET at == <<key, o.type>>
    IN  (at :> Append(IF at \in DOMAIN map THEN map[at] ELSE <<>>, o)) @@ map

\* registerLuaFunction() skips the first of several ids; registerLuaEvent()
\* takes them all.
MoveKeys(o) == IF o.scripted \/ Len(o.keys) < 2 THEN o.keys ELSE Tail(o.keys)
RegisterMove(t, o) ==
    [t EXCEPT !.moves = FoldLeft(LAMBDA m, k : AddEvent(m, k, o), @, MoveKeys(o))]

\* Weapons are overwritten: the last registration of an id stays.
RegisterWeapon(t, o) == [t EXCEPT !.weapons = (Head(o.keys) :> o) @@ @]

\* A cleared event of the same name and type is filled again in place.
Reused(old, o) == ~old.loaded /\ old.type = o.type
RegisterCreatureEvent(t, o) ==
    IF ~o.scripted \/ o.type = "none" THEN t
    ELSE LET fresh == [type |-> o.type, loaded |-> TRUE]
         IN  [t EXCEPT !.creatureEvents =
                  IF o.tag \notin DOMAIN @ THEN (o.tag :> fresh) @@ @
                  ELSE IF Reused(@[o.tag], o) THEN [@ EXCEPT ![o.tag] = fresh]
                  ELSE @]

GlobalMap(o) == CASE o.type = "timer" -> "timer"
                  [] o.type = "none"  -> "think"
                  [] OTHER            -> "server"
RegisterGlobalEvent(t, o) ==
    IF ~o.scripted \/ (o.type = "none" /\ o.interval = 0) THEN t
    ELSE [t EXCEPT ![GlobalMap(o)] = Emplace(@, o.tag, o)]

Register(t, o) ==
    CASE o.kind = "action"   -> RegisterAction(t, o)
      [] o.kind = "talk"     -> RegisterTalkAction(t, o)
      [] o.kind = "spell"    -> RegisterSpell(t, o)
      [] o.kind = "move"     -> RegisterMove(t, o)
      [] o.kind = "weapon"   -> RegisterWeapon(t, o)
      [] o.kind = "creature" -> RegisterCreatureEvent(t, o)
      [] o.kind = "global"   -> RegisterGlobalEvent(t, o)

\* Scripts::loadScripts(): the files in their order.
LoadScripts(t, v) == FoldLeft(LAMBDA s, d : Register(s, Built(d)), t, v)

-----------------------------------------------------------------------------
(* Clearing and loading.                                                   *)

\* Actions::clear(true), TalkActions::clear(true), Spells::clear(true)
ClearNamed(t) == [t EXCEPT !.actions = <<>>, !.talkActions = <<>>, !.spells = <<>>]

\* MoveEvents::clear(true)
ClearMoves(t) == [t EXCEPT !.moves = <<>>]

\* Weapons::clear(true) drops what scripts made; loadDefaults() fills the gaps.
Default(id) == [kind |-> "weapon", tag |-> "default", scripted |-> FALSE, keys |-> <<id>>,
                type |-> "none", slot |-> "any", interval |-> 0, next |-> 0, at |-> 0]
ClearWeapons(t) ==
    [t EXCEPT !.weapons = [id \in {i \in DOMAIN @ : @[i].tag = "default"} |-> @[id]]]
\* The item types scripted weapons wrote their weapon type to.
ItemTypesOf(t) == DefaultWeapons \cup DOMAIN t.weapons
LoadDefaults(t, ids) ==
    [t EXCEPT !.weapons = @ @@ [id \in ids |-> Default(id)]]

\* CreatureEvents::clear(true): cleared in place, the pointers stay valid.
ClearCreatureEvents(t) ==
    [t EXCEPT !.creatureEvents = [n \in DOMAIN @ |-> [@[n] EXCEPT !.loaded = FALSE]]]
RemoveInvalidEvents(t) ==
    [t EXCEPT !.creatureEvents =
        [n \in {m \in DOMAIN @ : @[m].loaded} |-> @[n]]]

\* GlobalEvents::clear(true): both scheduler events are stopped.
ClearGlobalEvents(t) == [t EXCEPT !.think = <<>>, !.timer = <<>>, !.server = <<>>]
StopEvent(r) == [r EXCEPT !.own = 0, !.id = FALSE]

\* g_scheduler.addEvent(): its id replaces the one the member held.
AddSchedulerEvent(r, delay) ==
    [r EXCEPT !.id = TRUE, !.own = OTSYS_TIME + delay,
              !.stray = @ \cup ({r.own} \ {0})]

\* Registering the first event of a map starts its clock when it stands still.
StartClock(r, map) == IF map # <<>> /\ ~r.id THEN AddSchedulerEvent(r, 1) ELSE r

NoRuns == [id |-> FALSE, own |-> 0, stray |-> {}, queued |-> 0]

\* otserv.cpp: default weapons, then the scripts.
Startup ==
    /\ ~up
    /\ LET t == LoadScripts(LoadDefaults(NoTables, DefaultWeapons), disk)
       IN  /\ tables' = t
           /\ runs' = [c \in Clocks |-> StartClock(NoRuns, t[c])]
    /\ up' = TRUE /\ loaded' = disk
    /\ creatures' = [p \in Players |-> [events |-> {}, bits |-> {}]]
    /\ UNCHANGED <<disk, now, early>>

\* Game::reload(RELOAD_TYPE_SCRIPTS)
ReloadScripts ==
    /\ up
    /\ LET cleared == ClearGlobalEvents(ClearMoves(ClearCreatureEvents(ClearNamed(tables))))
           armed   == LoadDefaults(ClearWeapons(cleared), ItemTypesOf(tables))
           t       == LoadScripts(armed, disk)
       IN  /\ tables' = RemoveInvalidEvents(t)
           /\ runs' = [c \in Clocks |-> StartClock(StopEvent(runs[c]), t[c])]
    /\ loaded' = disk
    /\ \A c \in Clocks : Cardinality(runs'[c].stray) + runs'[c].queued <= MaxChains
    /\ UNCHANGED <<up, disk, creatures, now, early>>

\* Game::reload(RELOAD_TYPE_ALL): Spells::reload() finds no spells.xml in data/
\* and std::terminate() ends the process.
ReloadAll ==
    /\ up
    /\ up' = FALSE
    /\ tables' = NoTables
    /\ runs' = [c \in Clocks |-> NoRuns]
    /\ creatures' = [p \in Players |-> [events |-> {}, bits |-> {}]]
    /\ UNCHANGED <<disk, loaded, now, early>>

\* An administrator changes the files.
Edit == \E v \in Versions : /\ v # disk
                            /\ disk' = v
                            /\ UNCHANGED <<up, loaded, tables, creatures, runs, now, early>>

-----------------------------------------------------------------------------
(* Creature events of a creature.                                          *)

GetEventByName(name) ==
    name \in DOMAIN tables.creatureEvents /\ tables.creatureEvents[name].loaded
TypeOf(name) == tables.creatureEvents[name].type

RegisterCreatureEventOf(p) == \E name \in DOMAIN tables.creatureEvents :
    /\ up /\ GetEventByName(name)
    /\ name \notin creatures[p].events
    /\ creatures' = [creatures EXCEPT ![p] =
           [events |-> @.events \cup {name}, bits |-> @.bits \cup {TypeOf(name)}]]
    /\ UNCHANGED <<up, disk, loaded, tables, runs, now, early>>

\* The bit goes with the last event of its type.
ResetTypeBit(events, name) == \A n \in events \ {name} : TypeOf(n) # TypeOf(name)
UnregisterCreatureEventOf(p) == \E name \in creatures[p].events :
    /\ up /\ GetEventByName(name)
    /\ creatures' = [creatures EXCEPT ![p] =
           [events |-> @.events \ {name},
            bits   |-> IF ResetTypeBit(@.events, name) THEN @.bits \ {TypeOf(name)} ELSE @.bits]]
    /\ UNCHANGED <<up, disk, loaded, tables, runs, now, early>>

-----------------------------------------------------------------------------
(* Global events.                                                          *)

\* The scheduler hands a due event to the dispatcher.
Fire(c) == \E due \in runs[c].stray \cup ({runs[c].own} \ {0}) :
    /\ up /\ due <= OTSYS_TIME
    /\ \/ /\ due = runs[c].own
          /\ runs' = [runs EXCEPT ![c].own = 0, ![c].queued = @ + 1]
       \/ /\ due \in runs[c].stray
          /\ runs' = [runs EXCEPT ![c].stray = @ \ {due}, ![c].queued = @ + 1]
    /\ UNCHANGED <<up, disk, loaded, tables, creatures, now, early>>

Due(map) == {n \in DOMAIN map : map[n].next <= OTSYS_TIME}
\* How long until the map has to be looked at again.
NextScheduledTime(map, period) ==
    LET waits == {IF n \in Due(map) THEN period[n] ELSE map[n].next - OTSYS_TIME : n \in DOMAIN map}
    IN  CHOOSE w \in waits : \A v \in waits : w <= v
Later(map, period) ==
    [n \in DOMAIN map |-> IF n \in Due(map) THEN [map[n] EXCEPT !.next = @ + period[n]] ELSE map[n]]

\* GlobalEvents::think()
Think ==
    /\ up /\ runs["think"].queued > 0
    /\ LET map    == tables.think
           period == [n \in DOMAIN map |-> map[n].interval]
           ran    == [runs["think"] EXCEPT !.queued = @ - 1]
       IN  /\ tables' = [tables EXCEPT !.think = Later(map, period)]
           /\ runs' = [runs EXCEPT !["think"] =
                 IF map = <<>> THEN ran ELSE AddSchedulerEvent(ran, NextScheduledTime(map, period))]
    /\ UNCHANGED <<up, disk, loaded, creatures, now, early>>

\* GlobalEvents::timer(): an event whose script fails or returns false is dropped.
Timer == \E dropped \in SUBSET Due(tables.timer) :
    /\ up /\ runs["timer"].queued > 0
    /\ LET all    == tables.timer
           map    == [n \in DOMAIN all \ dropped |-> all[n]]
           period == [n \in DOMAIN map |-> Milli * Day]
           ran    == [runs["timer"] EXCEPT !.queued = @ - 1]
           wait   == NextScheduledTime(map, period)
       IN  /\ tables' = [tables EXCEPT !.timer = Later(map, period)]
           /\ runs' = [runs EXCEPT !["timer"] =
                 IF map = <<>> THEN ran
                 ELSE AddSchedulerEvent(ran, IF wait < Milli THEN Milli ELSE wait)]
           /\ early' = early \cup {n \in Due(all) : now < all[n].at}
    /\ UNCHANGED <<up, disk, loaded, creatures, now>>

Tick == /\ now < MaxTime
        /\ now' = now + 1
        /\ UNCHANGED <<up, disk, loaded, tables, creatures, runs, early>>

-----------------------------------------------------------------------------

Init == /\ up = FALSE /\ now = Start /\ early = {}
        /\ disk \in Versions /\ loaded = disk
        /\ tables = NoTables
        /\ creatures = [p \in Players |-> [events |-> {}, bits |-> {}]]
        /\ runs = [c \in Clocks |-> NoRuns]

Next == \/ Startup \/ ReloadScripts \/ ReloadAll \/ Edit
        \/ \E p \in Players : RegisterCreatureEventOf(p) \/ UnregisterCreatureEventOf(p)
        \/ \E c \in Clocks : Fire(c)
        \/ Think \/ Timer \/ Tick

Spec == Init /\ [][Next]_vars

-----------------------------------------------------------------------------
(* Properties.                                                             *)

TypeOK ==
    /\ up \in BOOLEAN /\ disk \in Versions /\ loaded \in Versions
    /\ now \in Start .. MaxTime
    /\ \A c \in Clocks : /\ runs[c].queued \in Nat /\ runs[c].id \in BOOLEAN
                         /\ runs[c].own \in Nat /\ runs[c].stray \subseteq Nat \ {0}

\* What a load of version v makes of an empty server: the reference.
DefsOf(v, kind) == SelectSeq(v, LAMBDA d : d.kind = kind)
Tags(s) == [i \in DOMAIN s |-> s[i].tag]
KeysOf(d) == Built(d).keys

\* However often scripts were edited and reloaded, every key is bound to what
\* the loaded files say: the first definition of an action, talk action or
\* spell, each move event once and in file order, the last weapon.
TablesAreOfLoadedScripts == up =>
    /\ \A m \in {<<"action", tables.actions>>, <<"talk", tables.talkActions>>, <<"spell", tables.spells>>} :
         \A k \in DOMAIN m[2] :
            LET ds == SelectSeq(DefsOf(loaded, m[1]), LAMBDA d : k \in Range(KeysOf(d)))
            IN  ds # <<>> /\ m[2][k].tag = Head(ds).tag
    /\ \A at \in DOMAIN tables.moves :
         Tags(tables.moves[at]) =
            Tags(SelectSeq(DefsOf(loaded, "move"),
                           LAMBDA d : at[1] \in Range(KeysOf(d)) /\ Built(d).type = at[2]))
    /\ \A id \in DefaultWeapons : id \in DOMAIN tables.weapons
    /\ \A id \in DOMAIN tables.weapons :
         LET ds == SelectSeq(DefsOf(loaded, "weapon"), LAMBDA d : id \in Range(KeysOf(d)))
         IN  tables.weapons[id].tag = IF ds = <<>> THEN "default" ELSE Last(ds).tag

\* The pointers in a creature's eventsList point to registered, loaded events,
\* and its bit field says exactly which types are among them, across reloads.
CreatureEventsAreLive == \A p \in Players :
    /\ \A n \in creatures[p].events : GetEventByName(n)
    /\ creatures[p].bits = {TypeOf(n) : n \in creatures[p].events}

\* As long as a map holds events, a run of its clock is scheduled or queued: a
\* reload that races with a queued think() or timer() never stops the clock.
ClocksGoOn == up => \A c \in Clocks :
    tables[c] # <<>> => runs[c].own # 0 \/ runs[c].stray # {} \/ runs[c].queued > 0

RegistriesAgree == TypeOK /\ TablesAreOfLoadedScripts /\ CreatureEventsAreLive /\ ClocksGoOn

\* A global event registered with time("h:m:s") does not run earlier in the
\* day than the time it names.
OnTimeAtItsTime == early = {}

=============================================================================
