------------------------------- MODULE Decay -------------------------------
(***************************************************************************)
(* ItemStates that decay: Game::startDecay, internalDecayItem, checkDecay and   *)
(* cleanup of src/src/game.cpp, the places that put an item into           *)
(* toDecayItems, Item::setID and the reference counters of items.  All of  *)
(* it runs on the dispatcher.  Time is counted in EVENT_DECAYINTERVALs: a  *)
(* checkDecay() is the passing of one.                                     *)
(***************************************************************************)
EXTENDS Integers

CONSTANTS Things,      \* Item objects
          ItemIds,     \* item ids
          DecayTime,   \* ItemType::decayTime in intervals, 0 for none: then decayTo is -1
          DecayTo,     \* ItemType::decayTo, NoType for 0, which is removal
          StopTime,    \* ItemType::stopTime
          EquipTo,     \* pairs of a type and its transformEquipTo or transformDeEquipTo
          NoType,
          Buckets,     \* EVENT_DECAY_BUCKETS
          Durations    \* durations that scripts set

Plain(t) == DecayTime[t] = 0 /\ ~StopTime[t]

(* What data/items/items.xml says of its types, but for 10315, a claw that *)
(* others become which keep no time.                                       *)
DecayAssumption ==
  /\ NoType \notin ItemIds /\ Buckets \in Nat \ {0} /\ Durations \subseteq Nat
  /\ DecayTime \in [ItemIds -> Nat] /\ DecayTo \in [ItemIds -> ItemIds \cup {NoType}]
  /\ StopTime \in [ItemIds -> BOOLEAN] /\ EquipTo \in SUBSET (ItemIds \X ItemIds)
  /\ \A t \in ItemIds : DecayTime[t] > 0 =>
       ~StopTime[t] /\ DecayTo[t] # t /\ (DecayTo[t] \in ItemIds => ~StopTime[DecayTo[t]])
  /\ \A s, t \in ItemIds : <<s, t>> \in EquipTo =>
       (DecayTime[t] > 0 => StopTime[s]) /\ (Plain(s) => Plain(t))

Cycle == Buckets       \* EVENT_DECAYINTERVAL * EVENT_DECAY_BUCKETS
BucketIds == 0..(Buckets - 1)

VARIABLES
  game,        \* the items, each with the entries that the lists have for it
  lastBucket,
  due,         \* duration of an item when it began to decay
  age,         \* time since then
  scripted     \* items whose time or type a script has changed

decayVars == <<game, lastBucket, due, age, scripted>>

(* What one item does is no matter to another, and nothing depends on the  *)
(* order in a list: so a list is the number of its entries for each item.  *)
Gone == [id |-> NoType, inWorld |-> FALSE, duration |-> 0, decaying |-> FALSE, ref |-> 0,
           toDecay |-> 0, toRelease |-> 0, bucket |-> [b \in BucketIds |-> 0]]

DecayInit == /\ game = [i \in Things |-> Gone] /\ lastBucket = 0
             /\ due = [i \in Things |-> 0] /\ age = [i \in Things |-> 0] /\ scripted = {}

CanDecay(o) == o.inWorld /\ DecayTime[o.id] > 0

ReleaseItem(o) == [o EXCEPT !.toRelease = @ + 1]

(* incrementReferenceCounter(), setDecaying(), toDecayItems.push_front() *)
Enlist(o) == [o EXCEPT !.ref = @ + 1, !.decaying = TRUE, !.toDecay = @ + 1]

(* internalRemoveItem(): canDecay() is false for an item that is removed,  *)
(* so that it stays in its bucket.                                         *)
InternalRemoveItem(o) == ReleaseItem([o EXCEPT !.inWorld = FALSE])

(* Item::setID() of transformItem() *)
Renews(o, t) == DecayTime[t] > 0 /\ (~StopTime[o.id] \/ o.duration = 0)
SetID(o, t) == [o EXCEPT !.id = t,
                         !.decaying = @ /\ ~Renews(o, t) /\ ~Plain(t),
                         !.duration = IF Renews(o, t) THEN DecayTime[t] ELSE IF Plain(t) THEN 0 ELSE @]

(* internalDecayItem(), but for the startDecay() of what it becomes *)
Become(o) == IF DecayTo[o.id] = NoType THEN InternalRemoveItem(o) ELSE SetID(o, DecayTo[o.id])

(* startDecay() *)
MayStart(o) == CanDecay(o) /\ ~o.decaying
StartDecay(o) == IF ~MayStart(o) THEN o
                 ELSE IF o.duration > 0 THEN Enlist(o)
                 ELSE IF MayStart(Become(o)) THEN Enlist(Become(o)) ELSE Become(o)

(* internalDecayItem() *)
InternalDecayItem(o) == StartDecay(Become(o))

-----------------------------------------------------------------------------
(* cleanup(): releases first, then the new items go to their buckets.      *)
BucketFor(o, last) == IF o.duration >= Cycle THEN last
                      ELSE (last + 1 + o.duration \div Cycle) % Buckets

Cleanup(o, last) ==
  [o EXCEPT !.ref = @ - o.toRelease,
            !.id = IF o.ref = o.toRelease THEN NoType ELSE @,
            !.toRelease = 0,
            !.bucket[BucketFor(o, last)] = @ + o.toDecay,
            !.toDecay = 0]

(* One item of the bucket in checkDecay(). *)
Keeps(duration) == duration >= Cycle
NewBucket(b, duration) == (b + ((2 * duration + 1) \div (2 * Cycle))) % Buckets

TakesOneInterval(o) == [o EXCEPT !.duration = @ - 1]    \* fault: one interval per cycle
Decreased(o) == [o EXCEPT !.duration = IF @ < Cycle THEN 0 ELSE @ - Cycle]

Dropped(o) == ReleaseItem([o EXCEPT !.decaying = FALSE])

Later(o, b) ==
  IF Keeps(o.duration) THEN [o EXCEPT !.bucket[b] = @ + 1]
  ELSE IF o.duration = 0 \/ NewBucket(b, o.duration) = b THEN ReleaseItem(InternalDecayItem(o))
  ELSE [o EXCEPT !.bucket[NewBucket(b, o.duration)] = @ + 1]

CheckItem(o, b) == IF CanDecay(o) THEN Later(Decreased(o), b) ELSE Dropped(o)

(* checkDecay(): the entries of the next bucket, one after the other.      *)
CheckBucket(o, b) ==
  LET Checked[n \in 0..o.bucket[b]] == IF n = 0 THEN [o EXCEPT !.bucket[b] = 0] ELSE CheckItem(Checked[n - 1], b)
  IN  Checked[o.bucket[b]]

(* Book-keeping of the properties: an item that begins to decay, with its  *)
(* first or another duration, or again.  The age is not counted beyond the *)
(* point where the item is too old.                                        *)
Begins(i) == /\ CanDecay(game'[i])
             /\ ~CanDecay(game[i]) \/ game[i].id # game'[i].id \/ game'[i].duration > game[i].duration
Watch(passed) ==
  /\ due' = [i \in Things |-> IF ~CanDecay(game'[i]) THEN 0
                              ELSE IF Begins(i) THEN game'[i].duration ELSE due[i]]
  /\ age' = [i \in Things |-> IF ~CanDecay(game'[i]) \/ Begins(i) THEN 0
                              ELSE IF age[i] > due[i] + Cycle THEN age[i] ELSE age[i] + passed]

Becomes(i, o) == game' = [game EXCEPT ![i] = o] /\ Watch(0) /\ UNCHANGED lastBucket

CheckDecay ==
  /\ lastBucket' = (lastBucket + 1) % Buckets
  /\ game' = [i \in Things |-> Cleanup(CheckBucket(game[i], lastBucket'), lastBucket')]
  /\ Watch(1) /\ UNCHANGED scripted

(* checkCreatures() cleans up, too. *)
CheckCreatures ==
  /\ \E i \in Things : game[i].toDecay > 0 \/ game[i].toRelease > 0
  /\ game' = [i \in Things |-> Cleanup(game[i], lastBucket)]
  /\ Watch(0) /\ UNCHANGED <<lastBucket, scripted>>

-----------------------------------------------------------------------------
(* CreateItem() and internalAddItem(): the item has its default duration.  *)
Fresh(t) == [Gone EXCEPT !.id = t, !.inWorld = TRUE, !.ref = 1, !.duration = DecayTime[t]]
Create(i, t) ==
  /\ game[i].ref = 0
  /\ Becomes(i, IF DecayTime[t] > 0 THEN Enlist(Fresh(t)) ELSE Fresh(t))
  /\ scripted' = scripted \ {i}

(* internalMoveItem() *)
Move(i) ==
  /\ game[i].inWorld /\ game[i].duration > 0 /\ ~game[i].decaying
  /\ Becomes(i, Enlist(game[i])) /\ UNCHANGED scripted

TakeAway(i) ==
  /\ game[i].inWorld
  /\ Becomes(i, InternalRemoveItem(game[i])) /\ UNCHANGED scripted

(* EquipItem(), DeEquipItem(): transformItem() and startDecay() between a  *)
(* type that decays and one that keeps its time.                           *)
Transform(i, t) ==
  /\ game[i].inWorld /\ <<game[i].id, t>> \in EquipTo
  /\ Becomes(i, StartDecay(SetID(game[i], t))) /\ UNCHANGED scripted

(* A script that does the next step of the decay itself, as                *)
(* data/scripts/actions/tools/skinning.lua does to a corpse; some scripts  *)
(* call item:decay() after it.                                             *)
ScriptTransform(i, decay) ==
  /\ CanDecay(game[i]) /\ DecayTo[game[i].id] # NoType
  /\ LET o == SetID(game[i], DecayTo[game[i].id]) IN Becomes(i, IF decay THEN StartDecay(o) ELSE o)
  /\ scripted' = scripted \cup {i}

(* item:setAttribute(ITEM_ATTRIBUTE_DURATION, d) *)
ScriptDuration(i, d) ==
  /\ game[i].inWorld
  /\ Becomes(i, [game[i] EXCEPT !.duration = d])
  /\ scripted' = scripted \cup {i}

DecayNext == \/ CheckDecay \/ CheckCreatures
             \/ \E i \in Things : \/ Move(i) \/ TakeAway(i)
                                  \/ \E t \in ItemIds : Create(i, t) \/ Transform(i, t)
                                  \/ \E decay \in BOOLEAN : ScriptTransform(i, decay)
                                  \/ \E d \in Durations : ScriptDuration(i, d)
DecaySpec == DecayInit /\ [][DecayNext]_decayVars

(* checkDecay() re-schedules itself. *)
FairSpec == DecaySpec /\ WF_decayVars(CheckDecay)

-----------------------------------------------------------------------------
InBuckets(entries) ==
  LET Upto[n \in 0..Buckets] == IF n = 0 THEN 0 ELSE Upto[n - 1] + entries[n - 1] IN Upto[Buckets]
Listed(o) == o.toDecay + InBuckets(o.bucket)

(* Type invariant. *)
ItemStates == [id : ItemIds \cup {NoType}, inWorld : BOOLEAN, duration : Nat, decaying : BOOLEAN, ref : Nat,
          toDecay : Nat, toRelease : Nat, bucket : [BucketIds -> Nat]]
DecayTypeOK == /\ game \in [Things -> ItemStates] /\ lastBucket \in BucketIds
               /\ due \in [Things -> Nat] /\ age \in [Things -> Nat] /\ scripted \subseteq Things

(* The counter of an item is one for its place in the world and one for    *)
(* every entry in a list; so nothing that a list points to was deleted,    *)
(* and what nothing points to is.                                          *)
RefsAgree ==
  \A i \in Things : /\ game[i].ref = (IF game[i].inWorld THEN 1 ELSE 0) + Listed(game[i]) + game[i].toRelease
                    /\ game[i].id = NoType <=> game[i].ref = 0

(* An item that can decay has exactly one entry, and one that cannot never *)
(* more than one.                                                          *)
ListedOnce == \A i \in Things \ scripted : /\ Listed(game[i]) <= 1
                                           /\ CanDecay(game[i]) => Listed(game[i]) = 1

(* `duration' tells the time that is left, up to a cycle of the buckets:   *)
(* an item lasts as long as its type says (key "duration" of               *)
(* data/items/items.xml).                                                  *)
DurationIsTimeLeft ==
  \A i \in Things \ scripted : CanDecay(game[i]) =>
    /\ game[i].duration + age[i] <= due[i] + Cycle
    /\ game[i].duration + age[i] >= due[i] - Cycle

(* The reference counter of an item is one for its place in the world and  *)
(* one for every entry in toDecayItems, the buckets and ToReleaseItems,    *)
(* also when scripts take a step of the decay themselves.  An item that    *)
(* they leave alone has exactly one entry when it can decay, at most one   *)
(* when it cannot, and its duration attribute is the time that is left, up *)
(* to a cycle of the buckets, through moves between lists, types and       *)
(* buckets.                                                                *)
DecayAgrees == DecayTypeOK /\ RefsAgree /\ ListedOnce /\ DurationIsTimeLeft

(* An item never decays earlier than its type says (key "duration" of      *)
(* data/items/items.xml), whatever scripts transform it into on its way.   *)
NeverTooEarly ==
  \A i \in Things : CanDecay(game[i]) => game[i].duration + age[i] >= due[i] - Cycle

(* What can decay is eventually something else or gone. *)
DecaysAtLast ==
  \A i \in Things, t \in ItemIds :
    CanDecay(game[i]) /\ game[i].id = t ~> ~(CanDecay(game[i]) /\ game[i].id = t) \/ age[i] = 0
=============================================================================
