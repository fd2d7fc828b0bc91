---------------------------- MODULE ScriptEngine ----------------------------
(***************************************************************************)
(* Script environments and what scripts hold of the game: the stack of     *)
(* ScriptEnvironments, temporary items, uids, query results, timer events  *)
(* (addEvent, stopEvent) and the userdata that point to items and          *)
(* creatures whose memory is freed by Game::cleanup().                     *)
(*                                                                         *)
(* Objects are never used twice, so that a pointer to a freed one shows.   *)
(* A script runs to its end within one task of the dispatcher and may be   *)
(* interrupted only by scripts it causes itself.                           *)
(***************************************************************************)
EXTENDS Integers, Sequences, SequencesExt, FiniteSets

CONSTANTS
    Items, Creatures,   \* the objects there may be
    Lasting,            \* items with a duration: a clone of one decays
    Envs,               \* script environments (16)
    MaxDepth,           \* bound: nested script calls tried
    MaxTimers,          \* bound: timer events
    MaxResults          \* bound: query results

VARIABLES
    obj,        \* [Objs -> [at, refs]]
    index,      \* scriptEnvIndex
    frames,     \* Seq([env, vars]): the scripts that run, the last on top
    temp,       \* tempItems: pairs <<env, item>>
    local,      \* [env -> SUBSET Items]: localMap
    release,    \* [Objs -> Nat]: ToReleaseItems, ToReleaseCreatures
    decay,      \* toDecayItems, decayItems
    luaTimers,  \* timerEvents: [id -> argument]
    due,        \* ids the scheduler has handed to the dispatcher
    ids,        \* lastEventTimerId
    ran, off,   \* (observers) ids that ran, in order, and ids that were stopped
    results, lastResultId

scriptVars == <<obj, index, frames, temp, local, release, decay, luaTimers, due, ids, ran, off, results, lastResultId>>

Objs == Items \cup Creatures

ScriptAssumption ==
    /\ IsFiniteSet(Items) /\ IsFiniteSet(Creatures) /\ Items \cap Creatures = {} /\ Lasting \subseteq Items
    /\ Envs \in Nat \ {0} /\ MaxDepth \in Nat /\ MaxTimers \in Nat /\ MaxResults \in Nat

\* Scripts do not cause scripts more deeply than there are environments.
ScriptsAreShallow == MaxDepth <= Envs

\* parent: the virtual cylinder, a cylinder of the world, none, the virtual
\* cylinder of a script that has ended; "freed": the destructor ran.
Ats == {"none", "virtual", "world", "removed", "dropped", "freed"}

Unmade(o) == o \in Items /\ obj[o].at = "none"
Top == frames[Len(frames)]
Running == frames # <<>> /\ index < Envs
InScript(u) == Running /\ u \in Top.vars

\* Every method tests its userdata for null and nothing else before it reads.
ItemReadable(o) == obj[o].at # "freed"
CreatureReadable(c) == obj[c].at # "freed"

Push(o) == [frames EXCEPT ![Len(frames)].vars = @ \cup {o}]
SwapUserdata(o, new) == [frames EXCEPT ![Len(frames)].vars = (@ \ {o}) \cup new]

\* CreateItem() leaves one reference.
CreateAt(o, at) == [obj EXCEPT ![o] = [at |-> at, refs |-> 1]]
ReleaseThing(rel, o) == [rel EXCEPT ![o] = @ + 1]

\* Item::onRemoved(): not a temporary item of any environment any more.
RemoveTempItem(o) == {t \in temp : t[2] # o}
AddTempItem(o) == temp \cup {<<Top.env, o>>}

-----------------------------------------------------------------------------
(* Items in scripts.                                                       *)

\* getItem(), getSlotItem(), getTopCreature()...: a thing of the world.
PushUserdata == \E o \in Objs :
    /\ Running /\ obj[o].at = "world"
    /\ frames' = Push(o)
    /\ UNCHANGED <<obj, index, temp, local, release, decay, luaTimers, due, ids, ran, off, results, lastResultId>>

\* Game.createItem(id, count) and createContainer() without a position.
GameCreateItem == \E o \in Items :
    /\ Running /\ Unmade(o)
    /\ obj' = CreateAt(o, "virtual") /\ temp' = AddTempItem(o) /\ frames' = Push(o)
    /\ UNCHANGED <<index, local, release, decay, luaTimers, due, ids, ran, off, results, lastResultId>>

\* addItem() of a tile, a container or a player: the item is added, or it
\* disappears in a stack that was there and is still given to the script, or
\* there is no room and it is deleted at once.
AddItem == \E o \in Items :
    /\ Running /\ Unmade(o)
    /\ \/ obj' = CreateAt(o, "world") /\ frames' = Push(o) /\ UNCHANGED release
       \/ obj' = CreateAt(o, "removed") /\ frames' = Push(o) /\ release' = ReleaseThing(release, o)
       \/ obj' = [CreateAt(o, "freed") EXCEPT ![o].refs = 0] /\ UNCHANGED <<frames, release>>
    /\ UNCHANGED <<index, temp, local, decay, luaTimers, due, ids, ran, off, results, lastResultId>>

\* A temporary item goes to the world, disappears in a stack or has no room.
\* addItemEx() takes it off the temporary items, moveTo() does not.
AddVirtual(u, kept) ==
    \/ obj' = [obj EXCEPT ![u].at = "world"] /\ temp' = kept /\ UNCHANGED <<release, frames>>
    \/ obj' = [obj EXCEPT ![u].at = "removed"] /\ temp' = RemoveTempItem(u)
       /\ release' = ReleaseThing(release, u) /\ UNCHANGED frames
    \/ UNCHANGED <<obj, temp, release, frames>>

AddItemEx == \E u \in Items :
    /\ InScript(u) /\ obj[u].at = "virtual"
    /\ AddVirtual(u, RemoveTempItem(u))
    /\ UNCHANGED <<index, local, decay, luaTimers, due, ids, ran, off, results, lastResultId>>

\* A stack that moves onto another one is replaced by it in the script.
MoveTo == \E u \in Items :
    /\ InScript(u)
    /\ \/ obj[u].at = "virtual" /\ AddVirtual(u, temp)
       \/ /\ obj[u].at = "world"
          /\ \E new \in {o \in Items \ {u} : obj[o].at = "world"} : frames' = SwapUserdata(u, {new})
          /\ obj' = [obj EXCEPT ![u].at = "removed"] /\ temp' = RemoveTempItem(u)
          /\ release' = ReleaseThing(release, u)
    /\ UNCHANGED <<index, local, decay, luaTimers, due, ids, ran, off, results, lastResultId>>

\* clone(): the copy is a temporary item; with a duration it starts to decay.
CloneOf(u, o) ==
    /\ obj' = [CreateAt(o, "virtual") EXCEPT ![o].refs = IF u \in Lasting THEN 2 ELSE 1]
    /\ decay' = IF u \in Lasting THEN decay \cup {o} ELSE decay
    /\ temp' = AddTempItem(o)

Clone == \E u, o \in Items :
    /\ InScript(u) /\ Unmade(o) /\ (o \in Lasting <=> u \in Lasting)
    /\ CloneOf(u, o) /\ frames' = Push(o)
    /\ UNCHANGED <<index, local, release, luaTimers, due, ids, ran, off, results, lastResultId>>

\* split(): a clone with some of the units; the rest stays, or all were taken
\* and the item is removed and its userdata set to null.
Split == \E u, o \in Items :
    /\ InScript(u) /\ Unmade(o) /\ (o \in Lasting <=> u \in Lasting)
    /\ \/ CloneOf(u, o) /\ frames' = Push(o) /\ local' = [local EXCEPT ![Top.env] = @ \cup {u}]
          /\ UNCHANGED release
       \/ /\ obj[u].at = "world"
          /\ decay' = IF u \in Lasting THEN decay \cup {o} ELSE decay
          /\ obj' = [obj EXCEPT ![u].at = "removed",
                                ![o] = [at |-> "virtual", refs |-> IF u \in Lasting THEN 2 ELSE 1]]
          /\ temp' = RemoveTempItem(u) \cup {<<Top.env, o>>}
          /\ local' = [local EXCEPT ![Top.env] = @ \ {u}]
          /\ frames' = SwapUserdata(u, {o}) /\ release' = ReleaseThing(release, u)
    /\ UNCHANGED <<index, luaTimers, due, ids, ran, off, results, lastResultId>>

\* transform() of an item of the world: in place, or another object takes its
\* place, in the environment's uids too.  (A temporary item stays as it is.)
Transform == \E u \in Items :
    /\ InScript(u) /\ obj[u].at \in {"virtual", "world"}
    /\ \/ local' = [local EXCEPT ![Top.env] = @ \cup {u}] /\ UNCHANGED <<obj, frames, temp, release>>
       \/ \E o \in Items :
            /\ obj[u].at = "world" /\ Unmade(o)
            /\ obj' = [CreateAt(o, "world") EXCEPT ![u].at = "removed"]
            /\ local' = [local EXCEPT ![Top.env] = (@ \ {u}) \cup {o}]
            /\ temp' = RemoveTempItem(u)
            /\ frames' = SwapUserdata(u, {o}) /\ release' = ReleaseThing(release, u)
    /\ UNCHANGED <<index, decay, luaTimers, due, ids, ran, off, results, lastResultId>>

\* item:remove(), creature:remove().  The item's userdata still points to it,
\* and so may other userdata of the creature.
RemoveThing == \E u \in Objs :
    /\ InScript(u) /\ obj[u].at = "world"
    /\ obj' = [obj EXCEPT ![u].at = "removed"]
    /\ release' = ReleaseThing(release, u) /\ temp' = RemoveTempItem(u)
    /\ frames' \in {frames} \cup {SwapUserdata(c, {}) : c \in {u} \cap Creatures}
    /\ UNCHANGED <<index, local, decay, luaTimers, due, ids, ran, off, results, lastResultId>>

\* getUniqueId(): the item gets a uid of the environment, unless it is removed.
GetUniqueId == \E u \in Items :
    /\ InScript(u) /\ obj[u].at \notin {"removed"}
    /\ local' = [local EXCEPT ![Top.env] = @ \cup {u}]
    /\ UNCHANGED <<obj, index, frames, temp, release, decay, luaTimers, due, ids, ran, off, results, lastResultId>>

\* Item(uid), Container(uid): an item of the map that is not removed.
ItemByUID == \E o \in Items :
    /\ Running /\ o \in local[Top.env] /\ obj[o].at # "removed"
    /\ frames' = Push(o)
    /\ UNCHANGED <<obj, index, temp, local, release, decay, luaTimers, due, ids, ran, off, results, lastResultId>>

-----------------------------------------------------------------------------
(* Results and timer events.                                               *)

StoreQuery ==
    /\ Running /\ lastResultId < MaxResults
    /\ lastResultId' = lastResultId + 1 /\ results' = results \cup {lastResultId'}
    /\ UNCHANGED <<obj, index, frames, temp, local, release, decay, luaTimers, due, ids, ran, off>>

ResultFree == \E id \in results :
    /\ Running /\ results' = results \ {id}
    /\ UNCHANGED <<obj, index, frames, temp, local, release, decay, luaTimers, due, ids, ran, off, lastResultId>>

\* An argument of addEvent(): items become uids of this environment, which the
\* event cannot look up again, creatures become ids; no pointer is kept.
ConvertUnsafe(u) == {u} \cap {c \in Creatures : obj[c].at = "world"}

LuaAddEvent == \E u \in Objs :
    /\ InScript(u) /\ ids < MaxTimers
    /\ luaTimers' = [id \in DOMAIN luaTimers \cup {ids} |-> IF id = ids THEN u ELSE luaTimers[id]] /\ ids' = ids + 1
    /\ local' = IF u \in Items /\ obj[u].at # "removed" THEN [local EXCEPT ![Top.env] = @ \cup {u}] ELSE local
    /\ UNCHANGED <<obj, index, frames, temp, release, decay, due, ran, off, results, lastResultId>>

Without(f, id) == [i \in DOMAIN f \ {id} |-> f[i]]

\* stopEvent(): the entry is erased, whether or not its task is on its way.
LuaStopEvent == \E id \in DOMAIN luaTimers :
    /\ Running
    /\ luaTimers' = Without(luaTimers, id) /\ off' = off \cup {id}
    /\ UNCHANGED <<obj, index, frames, temp, local, release, decay, due, ids, ran, results, lastResultId>>

\* The scheduler's timer: the task is queued once; a stopped one may be too.
EventIsDue == \E id \in 0 .. ids - 1 :
    /\ id \notin due /\ ~\E i \in DOMAIN ran : ran[i] = id
    /\ id \in DOMAIN luaTimers \cup off
    /\ due' = due \cup {id}
    /\ UNCHANGED <<obj, index, frames, temp, local, release, decay, luaTimers, ids, ran, off, results, lastResultId>>

-----------------------------------------------------------------------------
(* Running scripts.                                                        *)

\* reserveScriptEnv(): the index is counted up even when there is no room.
ReserveScriptEnv(held) ==
    /\ index' = index + 1
    /\ frames' = IF index' < Envs THEN Append(frames, [env |-> index', vars |-> held]) ELSE frames

\* An event of the game calls a script, or what a script does causes one.
CallScript ==
    /\ index + 1 < MaxDepth
    /\ ReserveScriptEnv({})
    /\ UNCHANGED <<obj, temp, local, release, decay, luaTimers, due, ids, ran, off, results, lastResultId>>

\* executeTimerEvent(), a task of the dispatcher.
ExecuteTimerEvent == \E id \in due :
    /\ frames = <<>> /\ due' = due \ {id}
    /\ IF id \in DOMAIN luaTimers
       THEN /\ luaTimers' = Without(luaTimers, id) /\ ran' = Append(ran, id)
            /\ ReserveScriptEnv(ConvertUnsafe(luaTimers[id]))
       ELSE UNCHANGED <<luaTimers, ran, index, frames>>
    /\ UNCHANGED <<obj, temp, local, release, decay, ids, off, results, lastResultId>>

\* resetEnv() of an environment: what is still temporary is released unless it
\* has found a place in the world, all results are dropped.
\* fault: whatever was temporary is released
ReleaseAll(o) == TRUE
StillVirtual(o) == obj[o].at = "virtual"

ResetEnv(env) ==
    LET gone == {o \in Items : <<env, o>> \in temp /\ StillVirtual(o)}
    IN  /\ obj' = [o \in Objs |-> [obj[o] EXCEPT !.at = IF o \in gone /\ @ = "virtual" THEN "dropped" ELSE @]]
        /\ release' = [o \in Objs |-> IF o \in gone THEN release[o] + 1 ELSE release[o]]
        /\ temp' = {t \in temp : t[1] # env}
        /\ local' = [local EXCEPT ![env] = {}]
        /\ results' = {}

\* callFunction(): the script is over, by its end or by an error.  After an
\* overflow the index names another environment than the one that ends.
EndScript ==
    /\ frames # <<>>
    /\ IF index < Envs THEN ResetEnv(index) ELSE UNCHANGED <<obj, release, temp, local, results>>
    /\ index' = index - 1 /\ frames' = Front(frames)
    /\ UNCHANGED <<decay, luaTimers, due, ids, ran, off, lastResultId>>

-----------------------------------------------------------------------------
(* Memory.                                                                 *)

\* cleanup(): every release drops a reference, the last one frees.
Cleanup ==
    /\ obj' = [o \in Objs |->
                LET left == obj[o].refs - release[o]
                IN  IF release[o] = 0 THEN obj[o]
                    ELSE [at |-> IF left <= 0 THEN "freed" ELSE obj[o].at, refs |-> left]]
    /\ release' = [o \in Objs |-> 0]

\* checkCreatures(), checkDecay(): at the end of a task.
CleanupTask ==
    /\ frames = <<>> /\ \E o \in Objs : release[o] > 0
    /\ Cleanup
    /\ UNCHANGED <<index, frames, temp, local, decay, luaTimers, due, ids, ran, off, results, lastResultId>>

\* A script makes a creature walk (setFollowCreature()): with the first step
\* due at once, addEventWalk() calls checkCreatureWalk(), which cleans up in
\* the middle of the script.  Scripts do so only while they and the scripts
\* they interrupt hold nothing that is removed.
Holds(o) ==
    \/ \E i \in DOMAIN frames : o \in frames[i].vars \cup local[frames[i].env]
    \/ \E t \in temp : t[2] = o
HoldsNothingRemoved == \A o \in Objs : Holds(o) => obj[o].at \in {"virtual", "world"}
StartWalk ==
    /\ Running /\ HoldsNothingRemoved /\ \E o \in Objs : release[o] > 0
    /\ Cleanup
    /\ UNCHANGED <<index, frames, temp, local, decay, luaTimers, due, ids, ran, off, results, lastResultId>>

\* checkDecay(): the item's time is over; in the world it is removed with it.
CheckDecay == \E o \in decay :
    /\ frames = <<>> /\ decay' = decay \ {o}
    /\ IF obj[o].at = "world"
       THEN /\ obj' = [obj EXCEPT ![o].at = "removed"]
            /\ release' = [release EXCEPT ![o] = @ + 2]
       ELSE release' = ReleaseThing(release, o) /\ UNCHANGED obj
    /\ UNCHANGED <<index, frames, temp, local, luaTimers, due, ids, ran, off, results, lastResultId>>

ScriptInit ==
    /\ obj = [o \in Objs |-> IF o \in Creatures THEN [at |-> "world", refs |-> 1] ELSE [at |-> "none", refs |-> 0]]
    /\ index = -1 /\ frames = <<>> /\ temp = {} /\ local = [e \in 0 .. Envs - 1 |-> {}]
    /\ release = [o \in Objs |-> 0] /\ decay = {}
    /\ luaTimers = <<>> /\ due = {} /\ ids = 0 /\ ran = <<>> /\ off = {}
    /\ results = {} /\ lastResultId = 0

ScriptNext ==
    \/ PushUserdata \/ GameCreateItem \/ AddItem \/ AddItemEx \/ MoveTo \/ Clone \/ Split
    \/ Transform \/ RemoveThing \/ GetUniqueId \/ ItemByUID \/ StoreQuery \/ ResultFree
    \/ LuaAddEvent \/ LuaStopEvent \/ EventIsDue \/ CallScript \/ ExecuteTimerEvent \/ EndScript
    \/ CleanupTask \/ StartWalk \/ CheckDecay

ScriptSpec == ScriptInit /\ [][ScriptNext]_scriptVars

-----------------------------------------------------------------------------
(* Properties.                                                             *)

ScriptTypeOK ==
    /\ \A o \in Objs : obj[o].at \in Ats /\ obj[o].refs \in Int /\ release[o] \in Nat
    /\ index \in -1 .. MaxDepth /\ \A i \in DOMAIN frames : frames[i].vars \subseteq Objs
    /\ temp \subseteq (0 .. Envs - 1) \X Items /\ decay \subseteq Items
    /\ due \subseteq 0 .. ids /\ results \subseteq 1 .. lastResultId

\* Nothing a running script holds (userdata, uids, temporary items) and nothing
\* in a decay bucket has been freed: addEvent()'s conversions, resetEnv() and
\* the delayed ReleaseItem() together keep every pointer valid.
PointersAreAlive ==
    /\ \A o \in Items : Holds(o) \/ o \in decay => ItemReadable(o)
    /\ \A c \in Creatures : Holds(c) => CreatureReadable(c)

\* The reference counter of every object is the number of its owners: the
\* world or an environment, the decay buckets and the releases on their way.
\* So nothing is freed twice and nothing is lost.
ReferencesAreCounted == \A o \in Objs :
    LET delayed == release[o] + (IF o \in decay THEN 1 ELSE 0)
    IN  /\ obj[o].at \in {"virtual", "world"} => obj[o].refs = 1 + delayed
        /\ obj[o].at \in {"removed", "dropped"} => obj[o].refs = delayed /\ delayed > 0
        /\ obj[o].at \in {"none", "freed"} => obj[o].refs = 0 /\ delayed = 0

\* Between tasks no item is temporary any more, and no uid, result or
\* environment is left over.
ScriptsLeaveNothing ==
    frames = <<>> =>
        /\ temp = {} /\ results = {} /\ index = -1 /\ \A e \in DOMAIN local : local[e] = {}
        /\ \A o \in Items : obj[o].at # "virtual"

\* A timer event runs at most once, and never once it was stopped, even when
\* the scheduler had already handed it to the dispatcher.
TimersRunOnce ==
    /\ \A i, j \in DOMAIN ran : ran[i] = ran[j] => i = j
    /\ off \cap ({ran[i] : i \in DOMAIN ran} \cup DOMAIN luaTimers) = {}

\* Nothing a running script holds has been freed, every reference is counted,
\* nothing temporary outlives the outermost script, and a timer event runs once
\* at most and never after stopEvent(), through nested calls, addEvent(),
\* resetEnv() and the delayed ReleaseItem().
ScriptsAgree == ScriptTypeOK /\ PointersAreAlive /\ ReferencesAreCounted /\ ScriptsLeaveNothing /\ TimersRunOnce

\* While a script runs, the index names one of the environments:
\* "assert(scriptEnvIndex >= 0 && scriptEnvIndex < 16)" (luascript.h).
IndexInRange == frames # <<>> => index \in 0 .. Envs - 1
=============================================================================
