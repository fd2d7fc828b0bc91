----------------------------- MODULE Conditions -----------------------------
(***************************************************************************)
(* The conditions of a player: src/src/condition.cpp, the list in          *)
(* src/src/creature.cpp, the hooks of src/src/player.cpp, what equipment   *)
(* adds to them (src/src/movement.cpp), their saving and loading, and the  *)
(* scheduled tasks by which haste and paralysis wait for the end of a      *)
(* step.  A condition changes its creature when it starts, changes it back *)
(* when it ends, and is replaced in place by another one of its key; what  *)
(* the creature shows is never computed again from the list.               *)
(*                                                                         *)
(* The clock runs in think intervals.  `left' is endTime - now, -1 once it *)
(* is over.  Mounts, percentages, colours, icons and texts are left out.   *)
(***************************************************************************)
EXTENDS Integers, Sequences, SequencesExt

CONSTANTS Offers,         \* the conditions that spells, fields and scripts create
          Gear,           \* item types for one slot: [speed, skill, invisible, suppress]
          NoGear,
          Interval,       \* tickInterval of a damage condition, in think intervals
          MaxHealth,
          MaxConditions, MaxScheduled   \* bounds on the two lists

ConditionsAssumption ==
  /\ Interval \in Nat \ {0} /\ MaxHealth \in Nat \ {0}
  /\ NoGear \notin DOMAIN Gear

VARIABLES
  creature,     \* the Player object: conditions and what they have made of it
  online,
  scheduled,    \* forceAddCondition and forceRemoveCondition events of g_scheduler
  stored        \* storedConditionList, as the players table gives it back

vars == <<creature, online, scheduled, stored>>

Speed == {"haste", "paralyze"}
Damage == {"fire"}
SlotId == 1     \* ConditionId_t of a condition that comes from the slot
Bare == [list |-> <<>>, varSpeed |-> 0, varSkill |-> 0, drunk |-> 0, visible |-> TRUE,
         outfit |-> 0, defaultOutfit |-> 0, light |-> 0, health |-> MaxHealth, pzLocked |-> FALSE, walking |-> FALSE,
         worn |-> NoGear, ability |-> FALSE, suppress |-> {}]

Init == /\ creature = Bare /\ online = TRUE /\ scheduled = <<>> /\ stored = <<>>

(* What setParam(), addDamage() and init() make of a new condition: `n'    *)
(* rounds of damage, the first of them due in `t'.                         *)
Template(type, id, ticks, value, rounds) ==
  [type |-> type, id |-> id, ticks |-> ticks, left |-> 0, value |-> value,
   n |-> rounds, t |-> IF rounds > 0 THEN Interval ELSE 0]
CreateCondition(o) == Template(o.type, o.id, o.ticks, o.value, o.rounds)

Key(k) == <<k.type, k.id>>
Remaining(k) == IF k.ticks = -1 THEN 0 ELSE k.left
SetTicks(k, ticks) == [k EXCEPT !.ticks = ticks, !.left = IF ticks = -1 THEN 0 ELSE ticks]
IsPersistent(k) == k.ticks # -1 /\ k.id # SlotId

HasCondition(c, type) ==
  /\ type \notin c.suppress
  /\ \E j \in DOMAIN c.list : c.list[j].type = type /\ (c.list[j].ticks = -1 \/ c.list[j].left >= 0)
IsInvisible(list) == \E j \in DOMAIN list : list[j].type = "invisible"
-----------------------------------------------------------------------------
(* Starting and ending, per class of condition; an ending one is not in    *)
(* the list any more.                                                      *)

(* doDamage(): suppressed, or refused by canDoCombat() and its like. *)
DoDamage(c, k, refused) ==
  IF refused \/ k.type \in c.suppress THEN c
  ELSE [c EXCEPT !.health = IF @ > k.value THEN @ - k.value ELSE 0]

(* startCondition() of a damage condition fails when its initial damage is *)
(* refused or no round of damage comes of it.                              *)
Starts(c, k, refused) ==
  k.type \in Damage => ~refused /\ k.type \notin c.suppress /\ k.n > 0

SpeedStart(c, k) == [c EXCEPT !.varSpeed = @ + k.value]
SpeedEnd(c, k) == [c EXCEPT !.varSpeed = @ - k.value]
AttributesStart(c, k) == [c EXCEPT !.varSkill = @ + k.value]
AttributesEnd(c, k) == [c EXCEPT !.varSkill = @ - k.value]
InvisibleStart(c) == [c EXCEPT !.visible = FALSE]
InvisibleEnd(c) == [c EXCEPT !.visible = ~ IsInvisible(c.list)]
OutfitStart(c, k) == [c EXCEPT !.outfit = k.value]
OutfitEnd(c) == [c EXCEPT !.outfit = c.defaultOutfit]
LightStart(c, k) == [c EXCEPT !.light = k.value]
LightEnd(c) == [c EXCEPT !.light = 0]
DrunkStart(c, k) == [c EXCEPT !.drunk = k.value]
DrunkEnd(c) == [c EXCEPT !.drunk = 0]

StartCondition(c, k) ==
  CASE k.type \in Speed -> SpeedStart(c, k)
    [] k.type = "attributes" -> AttributesStart(c, k)
    [] k.type = "invisible" -> InvisibleStart(c)
    [] k.type = "outfit" -> OutfitStart(c, k)
    [] k.type = "light" -> LightStart(c, k)
    [] k.type = "drunk" -> DrunkStart(c, k)
    [] OTHER -> c
EndCondition(c, k) ==
  CASE k.type \in Speed -> SpeedEnd(c, k)
    [] k.type = "attributes" -> AttributesEnd(c, k)
    [] k.type = "invisible" -> InvisibleEnd(c)
    [] k.type = "outfit" -> OutfitEnd(c)
    [] k.type = "light" -> LightEnd(c)
    [] k.type = "drunk" -> DrunkEnd(c)
    [] OTHER -> c
OnEndCondition(c, k) == IF k.type = "infight" THEN [c EXCEPT !.pzLocked = FALSE] ELSE c
Ended(c, k) == OnEndCondition(EndCondition(c, k), k)
-----------------------------------------------------------------------------
(* prevCond->addCondition(creature, condition), for the j-th of the list.  *)

TimedUpdate(old, new) == /\ old.ticks = -1 => new.ticks <= 0
                         /\ new.ticks >= 0 => Remaining(old) <= new.ticks
Total(k) == k.n * k.value
DamageUpdate(old, new) == (old.ticks = -1 => new.ticks <= 0) /\ Total(new) > Total(old)
Placed(c, j, new) == [c EXCEPT !.list[j] = SetTicks([@ EXCEPT !.value = new.value], new.ticks)]

GenericAdd(c, j, new) ==
  IF TimedUpdate(c.list[j], new) THEN Placed(c, j, new) ELSE c
\* fault: the speed that the old condition had given stays
SpeedStays(old, new) == new.value
SpeedChange(old, new) == new.value - old.value
SpeedAdd(c, j, new) ==
  IF c.list[j].ticks = -1 /\ new.ticks > 0 THEN c
  ELSE [Placed(c, j, new) EXCEPT !.varSpeed = @ + SpeedChange(c.list[j], new)]
AttributesAdd(c, j, new) ==
  IF TimedUpdate(c.list[j], new)
  THEN AttributesStart(AttributesEnd(Placed(c, j, new), c.list[j]), new) ELSE c
OutfitAdd(c, j, new) ==
  IF TimedUpdate(c.list[j], new) THEN OutfitStart(Placed(c, j, new), new) ELSE c
LightAdd(c, j, new) ==
  IF TimedUpdate(c.list[j], new) THEN LightStart(Placed(c, j, new), new) ELSE c
(* ConditionDrunk tells the creature and keeps its own number. *)
DrunkAdd(c, j, new) ==
  IF new.value > c.list[j].value
  THEN DrunkStart([c EXCEPT !.list[j] = SetTicks(@, new.ticks)], new) ELSE c
(* The new list of damage starts with the time that was left, and its      *)
(* first round strikes at once.                                            *)
DamageAdd(c, j, new, refused) ==
  LET old == c.list[j]
      spent == new.ticks # -1
  IN IF ~ DamageUpdate(old, new) THEN c
     ELSE DoDamage([Placed(c, j, new) EXCEPT
                      !.list[j].n = IF spent THEN new.n - 1 ELSE new.n,
                      !.list[j].t = CASE spent /\ new.n > 1 -> Interval
                                      [] spent /\ new.n = 1 -> 0
                                      [] old.n > 0 -> old.t
                                      [] OTHER -> Interval],
                   new, refused)
Replace(c, j, new, refused) ==
  CASE new.type \in Speed -> SpeedAdd(c, j, new)
    [] new.type = "attributes" -> AttributesAdd(c, j, new)
    [] new.type = "outfit" -> OutfitAdd(c, j, new)
    [] new.type = "light" -> LightAdd(c, j, new)
    [] new.type = "drunk" -> DrunkAdd(c, j, new)
    [] new.type \in Damage -> DamageAdd(c, j, new, refused)
    [] OTHER -> GenericAdd(c, j, new)
-----------------------------------------------------------------------------
(* The list.  st is a creature and the events its calls schedule.          *)

Event(what, arg) == [what |-> what, arg |-> arg, gone |-> FALSE]
Waits(st, type) == type = "paralyze" /\ st.c.walking

(* removeCondition(): `gone' are erased one after the other, unless        *)
(* paralysis has to wait for the end of the step.                          *)
Erased(st, gone) ==
  LET drop(c, k) == Ended([c EXCEPT !.list = Remove(@, k)], k)
  IN [st EXCEPT !.c = FoldLeft(drop, st.c, gone)]
RemoveCondition(st, type, force) ==
  LET mine(k) == k.type = type IN
  IF \A j \in DOMAIN st.c.list : ~ mine(st.c.list[j]) THEN st
  ELSE IF ~ force /\ Waits(st, type)
       THEN [st EXCEPT !.events = Append(@, Event("remove", type))]
       ELSE Erased(st, SelectSeq(st.c.list, mine))

OnAddCondition(st, type) ==
  CASE type = "paralyze" /\ HasCondition(st.c, "haste") -> RemoveCondition(st, "haste", FALSE)
    [] type = "haste" /\ HasCondition(st.c, "paralyze") -> RemoveCondition(st, "paralyze", FALSE)
    [] OTHER -> st

AddCondition(st, k, force, refused) ==
  LET same == {j \in DOMAIN st.c.list : Key(st.c.list[j]) = Key(k)} IN
  CASE ~ force /\ k.type = "haste" /\ HasCondition(st.c, "paralyze") /\ st.c.walking ->
         [st EXCEPT !.events = Append(@, Event("add", k))]
    [] same # {} -> [st EXCEPT !.c = Replace(@, CHOOSE j \in same : TRUE, k, refused)]
    [] ~ Starts(st.c, k, refused) -> st
    [] OTHER -> OnAddCondition([st EXCEPT !.c = StartCondition([@ EXCEPT !.list = Append(@, SetTicks(k, k.ticks))], k)],
                               k.type)

Becomes(st) == creature' = st.c /\ scheduled' = st.events
Now == [c |-> creature, events |-> scheduled]
Room == Len(creature.list) < MaxConditions /\ Len(scheduled) < MaxScheduled
-----------------------------------------------------------------------------
(* A spell, a field or a script; addInFightTicks() also locks.             *)
Add(o, refused) ==
  /\ online /\ creature.health > 0 /\ Room
  /\ LET st == AddCondition(Now, CreateCondition(o), FALSE, refused)
     IN Becomes([st EXCEPT !.c.pzLocked = @ \/ o.type = "infight"])
  /\ UNCHANGED <<online, stored>>

(* luaCreatureRemoveCondition: by type; a cure goes through                *)
(* onCombatRemoveCondition(), which lets an exhausted player wait.         *)
Cure(type) ==
  /\ online /\ Len(scheduled) < MaxScheduled
  /\ Becomes(RemoveCondition(Now, type, FALSE))
  /\ UNCHANGED <<online, stored>>
RemoveCombatCondition(type, canDoAction) ==
  /\ online /\ Len(scheduled) < MaxScheduled
  /\ LET mine(k) == k.type = type /\ k.id # SlotId
         postponed == [j \in DOMAIN creature.list |->
                         IF mine(creature.list[j]) THEN SetTicks(creature.list[j], 1) ELSE creature.list[j]]
     IN IF ~ canDoAction THEN Becomes([Now EXCEPT !.c.list = postponed])
        ELSE IF Waits(Now, type) /\ (\E j \in DOMAIN creature.list : mine(creature.list[j]))
             THEN Becomes([Now EXCEPT !.events = Append(@, Event("remove", type))])
             ELSE Becomes(Erased(Now, SelectSeq(creature.list, mine)))
  /\ UNCHANGED <<online, stored>>

(* Game::forceAddCondition and forceRemoveCondition, for a creature that   *)
(* may be gone.                                                            *)
Forced(j, refused) ==
  LET e == scheduled[j]
      st == [Now EXCEPT !.events = RemoveAt(@, j)]
  IN /\ Becomes(IF e.gone THEN st
                ELSE IF e.what = "add" THEN AddCondition(st, e.arg, TRUE, refused)
                ELSE RemoveCondition(st, e.arg, TRUE))
     /\ UNCHANGED <<online, stored>>

(* executeCondition(): FALSE in `alive' when it is over.  A field of the   *)
(* same element under the creature keeps a damage condition as it is.      *)
Counted(k) == [k EXCEPT !.ticks = IF @ <= 0 THEN @ ELSE @ - 1]
Alive(k) == k.ticks = -1 \/ k.left >= 0
DamageExecuted(k, onField) ==
  LET kept == onField \/ k.ticks = -1
      due == k.t <= 1
      struck == [k EXCEPT !.n = IF due /\ ~kept THEN @ - 1 ELSE @,
                          !.t = CASE due /\ ~kept /\ k.n = 1 -> 0
                                  [] due -> Interval
                                  [] OTHER -> @ - 1]
  IN CASE k.n = 0 -> Counted(k)
       [] kept -> [struck EXCEPT !.left = IF k.ticks > 0 THEN @ + 1 ELSE @]
       [] OTHER -> Counted(struck)
LightExecuted(c) == [c EXCEPT !.light = IF @ > 0 THEN @ - 1 ELSE 0]
RegenerationExecuted(c, k, pz) ==
  IF pz THEN c ELSE [c EXCEPT !.health = IF @ + k.value > MaxHealth THEN MaxHealth ELSE @ + k.value]
ExecuteCondition(c, k, onField, refused) ==
  CASE k.type \in Damage /\ k.n > 0 /\ k.t <= 1 -> DoDamage(c, k, refused)
    [] k.type = "light" -> LightExecuted(c)
    [] k.type = "regeneration" -> RegenerationExecuted(c, k, refused)
    [] OTHER -> c
(* executeConditions(): over a copy of the list, each one found again.  It *)
(* comes with the think event, an interval after the last one; Late adds   *)
(* an interval in which the creature does not think.                       *)
Elapsed(list) == [j \in DOMAIN list |-> IF list[j].ticks # -1 /\ list[j].left >= 0
                                        THEN [list[j] EXCEPT !.left = @ - 1] ELSE list[j]]
ExecuteConditions(onField, refused) ==
  LET step(c, k) ==
        LET now == IF k.type \in Damage THEN DamageExecuted(k, onField) ELSE Counted(k)
            does == ExecuteCondition(c, k, onField, refused)
        IN IF Alive(now) THEN [does EXCEPT !.list = ReplaceAll(@, k, now)]
           ELSE Ended([does EXCEPT !.list = Remove(@, k)], k)
      later == [creature EXCEPT !.list = Elapsed(@)]
  IN /\ online /\ creature.health > 0
     /\ creature' = FoldLeft(step, later, later.list)
     /\ UNCHANGED <<online, scheduled, stored>>
Late == /\ online
        /\ creature' = [creature EXCEPT !.list = Elapsed(@)]
        /\ UNCHANGED <<online, scheduled, stored>>
Step == /\ online /\ creature' = [creature EXCEPT !.walking = ~ @]
        /\ UNCHANGED <<online, scheduled, stored>>
(* Game::playerChangeOutfit *)
ChangeOutfit(o) ==
  /\ online /\ creature.defaultOutfit # o
  /\ creature' = [creature EXCEPT !.defaultOutfit = o,
                                 !.outfit = IF HasCondition(creature, "outfit") THEN @ ELSE o]
  /\ UNCHANGED <<online, scheduled, stored>>
-----------------------------------------------------------------------------
(* MoveEvent::EquipItem and DeEquipItem, once per enabled ability.         *)
ItemCondition == [type |-> "invisible", id |-> SlotId, ticks |-> -1, value |-> 0, rounds |-> 0]
Equipped(st, g) ==
  LET c == [st.c EXCEPT !.worn = g, !.ability = TRUE, !.suppress = Gear[g].suppress,
                        !.varSpeed = @ + Gear[g].speed, !.varSkill = @ + Gear[g].skill]
  IN IF Gear[g].invisible
     THEN AddCondition([st EXCEPT !.c = c], CreateCondition(ItemCondition), FALSE, FALSE)
     ELSE [st EXCEPT !.c = c]
Equip(g) ==
  /\ online /\ creature.worn = NoGear /\ Room
  /\ Becomes(Equipped(Now, g))
  /\ UNCHANGED <<online, stored>>
DeEquip ==
  LET g == creature.worn
      st == IF Gear[g].invisible
            THEN Erased(Now, SelectSeq(creature.list, LAMBDA k : k.type = "invisible" /\ k.id = SlotId)) ELSE Now
  IN /\ online /\ creature.worn # NoGear
     /\ Becomes([st EXCEPT !.c.worn = NoGear, !.c.ability = FALSE, !.c.suppress = {},
                           !.c.varSpeed = @ - Gear[g].speed, !.c.varSkill = @ - Gear[g].skill])
     /\ UNCHANGED <<online, stored>>
-----------------------------------------------------------------------------
(* Logging out saves what is persistent; the scheduled events keep the id  *)
(* of a creature that does not exist any more.                             *)
Orphans == [j \in DOMAIN scheduled |-> [scheduled[j] EXCEPT !.gone = TRUE]]
Serialize(list) == SelectSeq(list, IsPersistent)
Logout ==
  /\ online /\ creature.health > 0 /\ ~ creature.pzLocked
  /\ stored' = Serialize(creature.list)
  /\ creature' = [Bare EXCEPT !.worn = creature.worn, !.health = creature.health,
                           !.outfit = creature.defaultOutfit, !.defaultOutfit = creature.defaultOutfit]
  /\ online' = FALSE /\ scheduled' = Orphans

(* unserialize(): ConditionDamage counts its ticks from its rounds again.  *)
Unserialize(k) ==
  [k EXCEPT !.left = 0, !.ticks = IF k.type \in Damage THEN k.n * Interval ELSE @]
(* Player::onCreatureAppear at login: the equipment first, then the        *)
(* stored conditions, one after the other.                                 *)
Login(refused) ==
  LET dressed == IF creature.worn = NoGear THEN Now ELSE Equipped(Now, creature.worn)
      add(st, k) == AddCondition(st, Unserialize(k), FALSE, refused)
  IN /\ ~ online /\ online' = TRUE
     /\ Becomes(FoldLeft(add, dressed, stored)) /\ stored' = <<>>

(* Game::executeDeath, a task of its own: persistent conditions end; in a  *)
(* PVP zone the player goes on, elsewhere he has to log in again.          *)
Die(pvpZone) ==
  LET st == Erased(Now, SelectSeq(creature.list, IsPersistent)) IN
  /\ online /\ creature.health = 0
  /\ IF pvpZone
     THEN Becomes([st EXCEPT !.c.health = MaxHealth]) /\ UNCHANGED <<online, stored>>
     ELSE /\ creature' = [Bare EXCEPT !.worn = creature.worn, !.outfit = creature.defaultOutfit,
                                   !.defaultOutfit = creature.defaultOutfit]
          /\ stored' = <<>> /\ online' = FALSE /\ scheduled' = Orphans

Next == \/ \E o \in Offers, r \in BOOLEAN : Add(o, r)
        \/ \E type \in {o.type : o \in Offers} :
             Cure(type) \/ (\E b \in BOOLEAN : RemoveCombatCondition(type, b))
        \/ \E j \in DOMAIN scheduled, r \in BOOLEAN : Forced(j, r)
        \/ \E f, r \in BOOLEAN : ExecuteConditions(f, r)
        \/ Late \/ Step
        \/ \E o \in 0..1 : ChangeOutfit(o)
        \/ \E g \in DOMAIN Gear : Equip(g)
        \/ DeEquip \/ Logout
        \/ \E r \in BOOLEAN : Login(r)
        \/ \E z \in BOOLEAN : Die(z)

Spec == Init /\ [][Next]_vars
-----------------------------------------------------------------------------
SumOf(list, Test(_)) ==
  FoldLeft(LAMBDA sum, k : IF Test(k) THEN sum + k.value ELSE sum, 0, list)
Worn == IF creature.worn = NoGear \/ ~ creature.ability THEN [speed |-> 0, skill |-> 0]
        ELSE Gear[creature.worn]

TypeOK ==
  /\ online \in BOOLEAN /\ creature.health \in 0..MaxHealth
  /\ \A j \in DOMAIN creature.list : LET k == creature.list[j] IN
       k.ticks >= -1 /\ k.left >= -1 /\ k.n >= 0 /\ k.t \in 0..Interval

(* The speed of a creature differs from its base speed by what its speed   *)
(* conditions and its equipment say, however haste, paralysis, their       *)
(* delayed tasks, replacement and relogin follow on each other.            *)
SpeedAgrees == creature.varSpeed = SumOf(creature.list, LAMBDA k : k.type \in Speed) + Worn.speed
SkillAgrees == creature.varSkill = SumOf(creature.list, LAMBDA k : k.type = "attributes") + Worn.skill

(* addCondition() replaces a condition of the same type and id. *)
KeysAreUnique == \A i, j \in DOMAIN creature.list :
                   Key(creature.list[i]) = Key(creature.list[j]) => i = j
(* What others see ends with the last condition that causes it. *)
Has(type) == \E j \in DOMAIN creature.list : creature.list[j].type = type
AppearanceAgrees == /\ creature.visible = ~ Has("invisible")
                    /\ (creature.drunk # 0) = Has("drunk")
                    /\ creature.light # 0 => Has("light")
                    /\ ~ Has("outfit") => creature.outfit = creature.defaultOutfit
(* Nobody stays locked out of protection zones after his fight. *)
LockNeedsFight == creature.pzLocked => Has("infight")

ConditionsAgree == TypeOK /\ SpeedAgrees /\ SkillAgrees /\ KeysAreUnique /\ AppearanceAgrees /\ LockNeedsFight
=============================================================================
