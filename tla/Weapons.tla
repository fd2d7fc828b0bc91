------------------------------- MODULE Weapons -------------------------------
(***************************************************************************)
(* Weapons of players (weapons.cpp) and the armour they wear: the registry *)
(* filled from weapons.xml, from the item types and by scripts, the item a *)
(* player attacks with, the chance to hit, what a blow costs and what      *)
(* becomes of the missile, the timer of the next blow, and the hits the    *)
(* player takes himself.                                                   *)
(*                                                                         *)
(* level stands for the level and magic level a weapon asks for, an item   *)
(* has one number n: its count, or its charges.  Times are kept as what is *)
(* left of them, since is OTSYS_TIME() - lastAttack.  A weapon's script    *)
(* is taken to leave the weapon itself alone.                              *)
(***************************************************************************)
EXTENDS Integers, Sequences, FiniteSets, SequencesExt, FiniteSetsExt

CONSTANTS Types,          \* item id -> item type as items.xml has it; 0 is no item
          XmlWeapons,     \* the nodes of weapons.xml: [kind, calls]
          Scripts,        \* scripts that make a weapon: [kind, calls]
          Equipments,     \* what a player starts with: [left, right, ammo, ring, quiver]
          Level, Vocation, Skills, Distances, MaxPoints, BloodHits, Hits,
          VocationSpeed,  \* attack speed of the vocation
          ActionDelay, ClassicSpeeds, REMOVE_WEAPON_AMMO, REMOVE_WEAPON_CHARGES,
          MaxTasks, MaxReloads

VARIABLES types, weapons,
          inv,            \* slots left, right, ammo and ring, and what is in the quiver
          floor, spent,   \* units on the ground and units used up, by item id
          p,              \* mana, health, soul, and the counters of training
          since, nextAction, tasks, classic, reloads,
          had,            \* what the player started with
          odd             \* what no blow may do: "hasty", "sure", "dry", "unfit"

vars == <<types, weapons, inv, floor, spent, p, since, nextAction, tasks, classic, reloads, had, odd>>

Least(a, b) == IF a < b THEN a ELSE b

Most(a, b) == IF a > b THEN a ELSE b

(***************************************************************************)
(* Making a weapon                                                         *)
(***************************************************************************)
Blank(kind, lua) ==
    [kind |-> kind, lua |-> lua, scripted |-> FALSE, id |-> 0, type |-> "none", level |-> 0, mana |-> 0, manaPercent |-> 0,
     health |-> 0, healthPercent |-> 0, soul |-> 0, brk |-> 0, action |-> "none", vocations |-> {},
     flags |-> {"enabled"}, min |-> 0, max |-> 0, element |-> "none"]

CreateWeapon(type) == [Blank(CASE type \in {"sword", "axe", "club"} -> "melee"
                               [] type \in {"distance", "ammo"} -> "distance"
                               [] OTHER -> "wand", TRUE) EXCEPT !.type = type]

\* Setters of the weapon itself: level, mana, health, soul and their like.
SetNumber(s, c) == [s EXCEPT !.w[c.field] = c.v]

SetFlag(s, c) == [s EXCEPT !.w.flags = IF c.v = 1 THEN @ \cup {c.field} ELSE @ \ {c.field}]

\* An unknown action is reported and leaves the weapon as it is.
SetAction(s, c) == [s EXCEPT !.w.action = IF c.v \in {"removecount", "removecharge", "move"} THEN c.v ELSE @]

SetWand(s, c) == [s EXCEPT !.w.min = c.v[1], !.w.max = IF Len(c.v) > 1 THEN c.v[2] ELSE c.v[1]]

AddVocation(s, c) == [s EXCEPT !.w.vocations = @ \cup {c.v}]

\* Setters that write to the item type of the weapon's id, which is 0 until id() was called.
SetType(s, c) == [s EXCEPT !.types[s.w.id][c.field] = c.v]

SetTransform(s, c) == [s EXCEPT !.types[s.w.id].becomes = c.v]

SetAmmoType(s, c) == IF c.v \in {"arrow", "bolt"} THEN [s EXCEPT !.types[s.w.id].ammo = c.v] ELSE s

SetElement(s, c) == [s EXCEPT !.types[s.w.id].element = c.v]

\* From now on a script strikes, not the combat of the weapon.
OnUseWeapon(s) == [s EXCEPT !.w.scripted = TRUE]

Call(s, c) == CASE c.call = "number" -> SetNumber(s, c)       [] c.call = "flag" -> SetFlag(s, c)
                [] c.call = "action" -> SetAction(s, c)       [] c.call = "damage" -> SetWand(s, c)
                [] c.call = "vocation" -> AddVocation(s, c)   [] c.call = "type" -> SetType(s, c)
                [] c.call = "transform" -> SetTransform(s, c) [] c.call = "ammoType" -> SetAmmoType(s, c)
                [] c.call = "extraElement" -> SetElement(s, c)
                [] c.call = "onUseWeapon" -> OnUseWeapon(s)

\* Melee and distance weapons take the element of the item type over.
ConfigureWeapon(w, t) == IF w.kind = "wand" THEN w ELSE [w EXCEPT !.element = t.element]

ConfigureEvent(node, t) ==
    LET w == FoldLeft(Call, [w |-> Blank(node.kind, FALSE), types |-> t], node.calls).w
    IN  ConfigureWeapon([w EXCEPT !.brk = Least(100, @)], t[w.id])

RegisterEvent(reg, w) == IF w.id \in DOMAIN reg THEN reg ELSE [i \in DOMAIN reg \cup {w.id} |-> IF i = w.id THEN w ELSE reg[i]]

LoadXml(reg, t) == FoldLeft(LAMBDA r, node : RegisterEvent(r, ConfigureEvent(node, t)), reg, XmlWeapons)

\* Blades, missiles and thrown weapons that nobody registered; a bow is no weapon of its own.
DefaultFor(t) == IF t.weapon \in {"sword", "axe", "club"} THEN "melee"
                 ELSE IF t.weapon = "ammo" \/ (t.weapon = "distance" /\ t.ammo = "none") THEN "distance" ELSE "none"

LoadDefaults(reg, t) ==
    LET new == {i \in DOMAIN t \ {0} : i \notin DOMAIN reg /\ DefaultFor(t[i]) # "none"}
    IN  [i \in DOMAIN reg \cup new |->
            IF i \in new THEN ConfigureWeapon([Blank(DefaultFor(t[i]), FALSE) EXCEPT !.id = i], t[i]) ELSE reg[i]]

\* weapon:register() gives the item type the weapon's type, replaces what was registered
\* for the item, and takes the weapon away from the script.
RegisterLua(s, script) ==
    LET made == FoldLeft(Call, [w |-> CreateWeapon(script.kind), types |-> s.types], script.calls)
        t == [made.types EXCEPT ![made.w.id].weapon = made.w.type]
        w == ConfigureWeapon(made.w, t[made.w.id])
    IN  [types |-> t, reg |-> [i \in DOMAIN s.reg \cup {w.id} |-> IF i = w.id THEN w ELSE s.reg[i]]]

LoadScripts(reg, t) == FoldLeft(RegisterLua, [types |-> t, reg |-> reg], Scripts)

Clear(reg, fromLua) == [i \in {j \in DOMAIN reg : reg[j].lua # fromLua} |-> reg[i]]

Started == LoadScripts(LoadDefaults(LoadXml(<<>>, Types), Types), Types)

(***************************************************************************)
(* What the player attacks with                                            *)
(***************************************************************************)
NoItem == [id |-> 0, n |-> 0]

Nothing == <<"none", 0>>

At(i, place) == IF place[1] = "quiver" THEN i.quiver[place[2]]
                ELSE IF place = Nothing THEN NoItem ELSE i[place[1]]

TypeAt(i, place) == types[At(i, place).id]

ManaCost(w) == IF w.mana # 0 THEN w.mana ELSE (MaxPoints * w.manaPercent) \div 100

HealthCost(w) == IF w.health # 0 THEN w.health ELSE (MaxPoints * w.healthPercent) \div 100

Affords(w) == /\ "enabled" \in w.flags /\ p.mana >= ManaCost(w) /\ p.health >= HealthCost(w) /\ p.soul >= w.soul
              /\ "premium" \notin w.flags /\ (w.vocations = {} \/ Vocation \in w.vocations)

AmmoCheck(w) == Affords(w) /\ Level >= w.level

\* The ammunition in its slot is taken as it is, that of a quiver must suit the player.
AmmoFor(i, kind) ==
    LET fits(k) == types[i.quiver[k].id].ammo = kind /\ i.quiver[k].id \in DOMAIN weapons /\ AmmoCheck(weapons[i.quiver[k].id])
        ks == {k \in DOMAIN i.quiver : fits(k)}
    IN  IF i.ammo # NoItem /\ types[i.ammo.id].ammo = kind THEN <<"ammo", 0>>
        ELSE IF types[i.right.id].weapon = "quiver" /\ ks # {} THEN <<"quiver", Min(ks)>> ELSE Nothing

GetWeaponIn(i, slot, ignoreAmmo) ==
    LET t == types[i[slot].id]
    IN  IF t.weapon \in {"none", "shield", "ammo", "quiver"} THEN Nothing
        ELSE IF ~ignoreAmmo /\ t.weapon = "distance" /\ t.ammo # "none" THEN AmmoFor(i, t.ammo) ELSE <<slot, 0>>

GetWeapon(i, ignoreAmmo) == LET left == GetWeaponIn(i, "left", ignoreAmmo)
                            IN  IF left # Nothing THEN left ELSE GetWeaponIn(i, "right", ignoreAmmo)

GetAttackSpeed(i) == LET t == TypeAt(i, GetWeapon(i, TRUE))
                     IN  IF t.weapon = "none" \/ t.speed = 0 THEN VocationSpeed ELSE t.speed

\* 100, 50 or 0 per cent of the damage.
PlayerWeaponCheck(w, range, d) ==
    IF d > range \/ ~Affords(w) THEN 0
    ELSE IF Level >= w.level THEN 100 ELSE IF "unproperly" \in w.flags THEN 50 ELSE 0

(***************************************************************************)
(* Chance to hit and damage                                                *)
(***************************************************************************)
\* cap of the skill, hundredths per point and addend, by distance 1 to 7
OneHanded == <<<<74, 100, 1>>, <<28, 240, 8>>, <<45, 155, 6>>, <<58, 125, 3>>, <<74, 100, 1>>, <<90, 80, 3>>, <<104, 70, 2>>>>

TwoHanded == <<<<74, 120, 1>>, <<28, 320, 0>>, <<45, 200, 0>>, <<58, 155, 0>>, <<74, 120, 1>>, <<90, 100, 0>>, <<90, 100, 0>>>>

Accurate == <<<<73, 135, 1>>, <<30, 320, 4>>, <<48, 205, 2>>, <<65, 150, 2>>, <<73, 135, 1>>, <<87, 120, -4>>, <<90, 110, 1>>>>

MaxHitChance(t) == IF t.maxHit # -1 THEN t.maxHit ELSE IF t.ammo # "none" THEN 90 ELSE 75

FromTable(table, skill, d) ==
    IF d \notin 1 .. 7 THEN 0 ELSE (Least(skill, table[d][1]) * table[d][2]) \div 100 + table[d][3]

HitChance(t, skill, d) == IF t.hit # 0 THEN t.hit
                          ELSE CASE MaxHitChance(t) = 75 -> FromTable(OneHanded, skill, d)
                                 [] MaxHitChance(t) = 90 -> FromTable(TwoHanded, skill, d)
                                 [] MaxHitChance(t) = 100 -> FromTable(Accurate, skill, d)
                                 [] OTHER -> MaxHitChance(t)

\* round(level / 5 + (skill / 4 + 1) * (attack / 3) * 1.03 / factor), factor in tenths
MaxWeaponDamage(skill, attack, factor) ==
    LET num == (skill + 4) * attack * 1030
        den == 1200 * factor
    IN  Level \div 5 + (2 * num + den) \div (2 * den)

\* The least and the most a blow does; normal_random swaps bounds that are the wrong way round.
MeleeDamage(t, skill) == {0, MaxWeaponDamage(skill, Most(0, t.attack), 10)}

DistanceDamage(t, bow, skill, hitsPlayer) ==
    {(Level * (IF hitsPlayer THEN 1 ELSE 2) + 9) \div 10,
     MaxWeaponDamage(skill, t.attack + (IF t.weapon = "ammo" THEN bow.attack ELSE 0), 10)}

WandDamage(w) == {w.min, w.max}

Damage(w, i, place, skill, hitsPlayer) ==
    LET t == TypeAt(i, place)
    IN  CASE w.kind = "melee" -> MeleeDamage(t, skill)
          [] w.kind = "distance" -> DistanceDamage(t, TypeAt(i, GetWeapon(i, TRUE)), skill, hitsPlayer)
          [] w.kind = "wand" -> WandDamage(w)

(***************************************************************************)
(* A blow                                                                  *)
(***************************************************************************)
\* Places are emptied when their last unit goes; a quiver closes the gap.
Put(i, place, item) == IF place[1] # "quiver" THEN [i EXCEPT ![place[1]] = item]
                       ELSE IF item = NoItem THEN [i EXCEPT !.quiver = RemoveAt(@, place[2])]
                       ELSE [i EXCEPT !.quiver[place[2]] = item]

\* fault: a stack goes as a whole
NoneLeft(item) == NoItem

OneLess(item) == IF item.n > 1 THEN [item EXCEPT !.n = @ - 1] ELSE NoItem

\* The last charge: the item becomes what it decays to, or goes.
ChargeLess(item) == IF item.n > 1 THEN [item EXCEPT !.n = @ - 1]
                    ELSE IF types[item.id].becomes > 0 THEN [id |-> types[item.id].becomes, n |-> 1] ELSE NoItem

DecrementItemCount(s, place) ==
    LET item == At(s.inv, place)
    IN  [s EXCEPT !.inv = Put(@, place, OneLess(item)), !.spent[item.id] = @ + 1]

\* What becomes of the missile, the spear or the charge.
Consume(s, w, place, breaks) ==
    LET item == At(s.inv, place)
    IN  CASE breaks -> DecrementItemCount(s, place)
          [] ~breaks /\ w.action = "removecount" -> IF REMOVE_WEAPON_AMMO THEN DecrementItemCount(s, place) ELSE s
          [] ~breaks /\ w.action = "removecharge" ->
                IF REMOVE_WEAPON_CHARGES /\ item.n # 0 /\ ~types[item.id].stackable
                THEN [s EXCEPT !.inv = Put(@, place, ChargeLess(item))] ELSE s
          [] ~breaks /\ w.action = "move" ->
                [s EXCEPT !.inv = Put(@, place, OneLess(item)), !.floor[item.id] = @ + 1]
          [] OTHER -> s

\* Skill points of a blow, from how the last hit was blocked.
MeleePoints(q) == IF q.addAttackSkill THEN 1 ELSE 0

DistancePoints(q) == IF ~q.addAttackSkill THEN 0 ELSE IF q.lastBlock = "none" THEN 2 ELSE 1

SkillPoints(w, q) == CASE w.kind = "melee" -> MeleePoints(q) [] w.kind = "distance" -> DistancePoints(q) [] OTHER -> 0

\* onAttackedCreatureBlockHit: training needs blood every so many hits.
AttackedBlockHit(q, block) ==
    IF block = "none" THEN [q EXCEPT !.lastBlock = block, !.addAttackSkill = TRUE, !.blood = BloodHits, !.shield = BloodHits, !.dry = 0]
    ELSE [q EXCEPT !.lastBlock = block, !.addAttackSkill = q.blood > 0, !.blood = Most(0, @ - 1), !.dry = Least(BloodHits + 1, @ + 1)]

Pay(q, w) == [q EXCEPT !.mana = Most(0, @ - ManaCost(w)), !.health = Most(0, @ - HealthCost(w)), !.soul = Most(0, @ - w.soul)]

OnUsedWeapon(s, w, place, breaks) ==
    LET points == SkillPoints(w, s.p)
        paid == [s EXCEPT !.p = Pay(@, w), !.odd = IF points > 0 /\ s.p.dry > BloodHits THEN @ \cup {"dry"} ELSE @]
    IN  Consume(paid, w, place, breaks)

\* Damage stopped by defence, armour or immunity reaches the attacker as a block by armour.
Blocked(damage, stopped) == IF damage > 0 /\ ~stopped THEN "none" ELSE "armor"

\* The weapon whose requirements count: for ammunition that of the bow, if it has one.
Tested(w, i, place) ==
    LET bow == At(i, GetWeapon(i, TRUE))
    IN  IF w.kind = "distance" /\ TypeAt(i, place).weapon = "ammo"
        THEN [w |-> IF bow.id \in DOMAIN weapons THEN weapons[bow.id] ELSE w, range |-> types[bow.id].range]
        ELSE [w |-> w, range |-> TypeAt(i, place).range]

Chance(i, place, skill, d) ==
    LET t == TypeAt(i, place)
        bow == TypeAt(i, GetWeapon(i, TRUE))
    IN  HitChance(t, skill, d) + (IF t.weapon = "ammo" THEN bow.hit ELSE 0)

\* The results of useWeapon: the states after it, together with whether it struck.
UseWeapon(s, w, place, d, skill) ==
    LET test == Tested(w, s.inv, place)
        mod == PlayerWeaponCheck(test.w, test.range, d)
        chance == Chance(s.inv, place, skill, d)
        limit == MaxHitChance(TypeAt(s.inv, place)) + TypeAt(s.inv, GetWeapon(s.inv, TRUE)).hit
        hits == IF w.kind # "distance" THEN {TRUE} ELSE (IF chance >= 1 THEN {TRUE} ELSE {}) \cup (IF chance < 100 THEN {FALSE} ELSE {})
        breaks == (IF w.brk > 0 THEN {TRUE} ELSE {}) \cup (IF w.brk < 100 THEN {FALSE} ELSE {})
        sure == w.kind = "distance" /\ TypeAt(s.inv, place).hit = 0 /\ chance > limit
        unfit == mod = 100 /\ Level < test.w.level
        after(hit, damage, stopped) ==
            LET struck == IF hit /\ ~w.scripted THEN [s EXCEPT !.p = AttackedBlockHit(@, Blocked((damage * mod) \div 100, stopped))] ELSE s
            IN  [struck EXCEPT !.odd = @ \cup (IF sure THEN {"sure"} ELSE {}) \cup (IF unfit THEN {"unfit"} ELSE {})]
    IN  IF mod = 0 THEN {[s |-> s, result |-> FALSE]}
        ELSE {[s |-> OnUsedWeapon(after(h, dmg, st), w, place, b), result |-> TRUE] :
                 h \in hits, dmg \in UNION {Damage(w, s.inv, place, skill, v) : v \in BOOLEAN}, st \in BOOLEAN, b \in breaks}

UseFist(s, d, skill) ==
    IF d > 1 THEN {[s |-> s, result |-> FALSE]}
    ELSE {[s |-> [s EXCEPT !.p = AttackedBlockHit(@, Blocked(dmg, st))], result |-> TRUE] :
             dmg \in {0, MaxWeaponDamage(skill, 7, 10)}, st \in BOOLEAN}

(***************************************************************************)
(* The timer                                                               *)
(***************************************************************************)
State == [inv |-> inv, floor |-> floor, spent |-> spent, p |-> p, odd |-> odd]

Become(s) == inv' = s.inv /\ floor' = s.floor /\ spent' = s.spent /\ p' = s.p /\ odd' = s.odd

\* lastAttack is set by a blow that was struck.
LastAttack(result) == IF result THEN 0 ELSE since

\* doAttacking: a missile waits for the player's action delay, unless attacks are classic;
\* the task of the next blow replaces the pending action, unless attacks are classic.
DoAttacking(rest) ==
    LET place == GetWeapon(inv, FALSE)
        id == At(inv, place).id
        speed == GetAttackSpeed(inv)
        armed == place # Nothing /\ id \in DOMAIN weapons
        waits == armed /\ weapons[id].kind = "distance" /\ ~classic /\ nextAction > 0
        next(delay) == IF classic THEN Append(rest, Most(1, delay)) ELSE <<Most(1, delay)>>
    IN  IF since < speed \/ p.health = 0
        THEN tasks' = rest /\ UNCHANGED <<inv, floor, spent, p, odd, since>>
        ELSE /\ classic => Len(rest) < MaxTasks
             /\ tasks' = next(IF waits THEN nextAction ELSE speed)
             /\ \E d \in Distances, skill \in Skills :
                   \E r \in IF waits THEN {[s |-> State, result |-> FALSE]}
                            ELSE IF armed THEN UseWeapon(State, weapons[id], place, d, skill) ELSE UseFist(State, d, skill) :
                      /\ Become(IF ~r.result THEN r.s
                                ELSE [r.s EXCEPT !.p.gap = 0, !.odd = IF p.gap < speed THEN @ \cup {"hasty"} ELSE @])
                      /\ since' = LastAttack(r.result)

Slowest == Max({VocationSpeed} \cup {types[i].speed : i \in DOMAIN types})

Due(k) == tasks[k] = 0

\* The task of the next blow.
CheckCreatureAttack == \E k \in DOMAIN tasks : /\ Due(k) /\ DoAttacking(RemoveAt(tasks, k))
                                               /\ UNCHANGED <<types, weapons, nextAction, classic, reloads, had>>

\* Creature::onThink attacks once a second too.
OnThink == DoAttacking(tasks) /\ UNCHANGED <<types, weapons, nextAction, classic, reloads, had>>

\* A player uses an item; when he has to wait, the use takes the place of the pending blow.
UseItem == /\ IF nextAction = 0 THEN nextAction' = ActionDelay /\ UNCHANGED tasks
              ELSE /\ ~classic /\ tasks' = <<>> /\ UNCHANGED nextAction
           /\ UNCHANGED <<types, weapons, inv, floor, spent, p, since, classic, reloads, had, odd>>

Tick == /\ \A k \in DOMAIN tasks : ~Due(k)
        /\ since' = Least(since + 1, Slowest)
        /\ p' = [p EXCEPT !.gap = Least(@ + 1, Slowest)]
        /\ nextAction' = Most(0, nextAction - 1)
        /\ tasks' = [k \in DOMAIN tasks |-> tasks[k] - 1]
        /\ UNCHANGED <<types, weapons, inv, floor, spent, classic, reloads, had, odd>>

(***************************************************************************)
(* Being hit                                                               *)
(***************************************************************************)
\* The shield with the better defence, and the last weapon, of the right hand and then the left.
Shield(i) == LET r == types[i.right.id]
                 l == types[i.left.id]
                 is(t) == t.weapon \in {"shield", "quiver"}
             IN  IF is(l) /\ (~is(r) \/ l.defense > r.defense) THEN l ELSE IF is(r) THEN r ELSE types[0]

Blade(i) == LET is(t) == t.weapon \notin {"none", "shield", "quiver"}
            IN  IF is(types[i.left.id]) THEN types[i.left.id]
                ELSE IF is(types[i.right.id]) THEN types[i.right.id] ELSE types[0]

Defense(i, skill) ==
    LET value == IF Shield(i) # types[0] THEN Shield(i).defense ELSE IF Blade(i) # types[0] THEN Blade(i).defense ELSE 7
    IN  IF skill = 0 THEN 1 ELSE ((skill * 100 + 892) * value * 15) \div 40000

Armor(i) == types[i.ring.id].armor

ArmorTaken(a) == IF a > 3 THEN {a \div 2, a - ((a % 2) + 1)} ELSE IF a > 0 THEN {1} ELSE {0}

\* An item that absorbs loses a charge, and goes or changes with the last one.
Absorb(i, damage) ==
    LET t == types[i.ring.id]
        taken == (2 * damage * t.absorb + 100) \div 200
    IN  IF t.absorb = 0 THEN [inv |-> i, damage |-> damage]
        ELSE [inv |-> IF i.ring.n = 0 THEN i ELSE [i EXCEPT !.ring = ChargeLess(@)], damage |-> damage - taken]

BlockHit ==
    \E hit \in Hits, skill \in Skills, defended \in BOOLEAN :
    \E x \in {Defense(inv, skill) \div 2, Defense(inv, skill)}, y \in ArmorTaken(Armor(inv)) :
        LET first == IF defended THEN Most(0, hit - x) ELSE hit
            left == Most(0, first - y)
            r == IF left = 0 THEN [inv |-> inv, damage |-> 0] ELSE Absorb(inv, left)
        IN  /\ p.health > 0
            /\ inv' = r.inv
            /\ p' = [p EXCEPT !.health = Most(0, @ - Most(0, r.damage)),
                              !.shield = IF defended /\ left = 0 THEN Most(0, @ - 1) ELSE @]
            /\ UNCHANGED <<types, weapons, floor, spent, since, nextAction, tasks, classic, reloads, had, odd>>

(***************************************************************************)
(* The rest of the player's life, and reloads                              *)
(***************************************************************************)
\* Items change hands: the two hands swap, or a unit is picked up again.
Swap == /\ types[inv.left.id].weapon # "quiver" /\ types[inv.right.id].weapon # "quiver"
        /\ inv' = [inv EXCEPT !.left = inv.right, !.right = inv.left]
        /\ UNCHANGED <<types, weapons, floor, spent, p, since, nextAction, tasks, classic, reloads, had, odd>>

PickUp == \E id \in {i \in DOMAIN floor : floor[i] > 0}, slot \in {"left", "ammo"} :
              /\ inv[slot].id = id \/ inv[slot] = NoItem
              /\ floor' = [floor EXCEPT ![id] = @ - 1]
              /\ inv' = [inv EXCEPT ![slot] = [id |-> id, n |-> @.n + 1]]
              /\ UNCHANGED <<types, weapons, spent, p, since, nextAction, tasks, classic, reloads, had, odd>>

Rest == /\ p.health > 0
        /\ p' = [p EXCEPT !.mana = MaxPoints, !.health = MaxPoints, !.soul = MaxPoints]
        /\ UNCHANGED <<types, weapons, inv, floor, spent, since, nextAction, tasks, classic, reloads, had, odd>>

\* /reload weapons
ReloadWeapons == /\ reloads < MaxReloads
                 /\ reloads' = reloads + 1
                 /\ weapons' = LoadDefaults(LoadXml(Clear(weapons, FALSE), types), types)
                 /\ UNCHANGED <<types, inv, floor, spent, p, since, nextAction, tasks, classic, had, odd>>

\* /reload scripts
ReloadScripts == /\ reloads < MaxReloads
                 /\ reloads' = reloads + 1
                 /\ LET r == LoadScripts(LoadDefaults(Clear(weapons, TRUE), types), types)
                    IN  weapons' = r.reg /\ types' = r.types
                 /\ UNCHANGED <<inv, floor, spent, p, since, nextAction, tasks, classic, had, odd>>

Init == /\ types = Started.types
        /\ weapons = Started.reg
        /\ inv \in Equipments
        /\ had = inv
        /\ floor = [i \in DOMAIN Types |-> 0]
        /\ spent = [i \in DOMAIN Types |-> 0]
        /\ since = Slowest
        /\ p = [mana |-> MaxPoints, health |-> MaxPoints, soul |-> MaxPoints, addAttackSkill |-> FALSE,
                lastBlock |-> "none", blood |-> 0, shield |-> 0, dry |-> BloodHits + 1,
                gap |-> since]
        /\ nextAction = 0
        /\ tasks = <<>>
        /\ classic \in ClassicSpeeds
        /\ reloads = 0
        /\ odd = {}

Next == CheckCreatureAttack \/ OnThink \/ UseItem \/ Tick \/ BlockHit \/ Swap \/ PickUp \/ Rest \/ ReloadWeapons \/ ReloadScripts

Spec == Init /\ [][Next]_vars

(***************************************************************************)
(* Properties                                                              *)
(***************************************************************************)
Held(i, id) == LET n(item) == IF item.id = id THEN item.n ELSE 0
               IN  n(i.left) + n(i.right) + n(i.ammo) + n(i.ring) + FoldLeft(LAMBDA a, item : a + n(item), 0, i.quiver)

TypeOK == /\ \A k \in DOMAIN tasks : tasks[k] \in 0 .. Most(ActionDelay, Slowest)
          /\ p.mana \in 0 .. MaxPoints /\ p.health \in 0 .. MaxPoints /\ p.soul \in 0 .. MaxPoints
          /\ nextAction \in 0 .. ActionDelay

\* Every missile is in a hand, in a slot, in the quiver, on the ground or used up, whatever
\* blows, breakage, throws and pick-ups came before (weapons.cpp, onUsedWeapon).
MissilesConserved == \A id \in DOMAIN types : types[id].stackable => Held(inv, id) + floor[id] + spent[id] = Held(had, id)

\* A blow never comes before its time, hits no surer than its weapon and its bow allow, trains
\* nobody who drew no blood for so many hits ("need to draw blood every 30 hits",
\* player.cpp), and is at full strength only for who may wield the weapon.
BlowsAreFair == odd = {}

\* Without classic attack speed one task at most waits to strike (setNextActionTask).
OneTask == classic \/ Len(tasks) <= 1

\* Reloads of weapons and of scripts, in any order, leave the registry as it was at the start.
RegistryRestored == weapons = Started.reg /\ types = Started.types

WeaponsAgree == TypeOK /\ MissilesConserved /\ BlowsAreFair /\ OneTask /\ RegistryRestored

WeaponsAssumption == /\ 0 \in DOMAIN Types /\ Types[0].weapon = "none"
                     /\ Distances \subseteq Nat /\ Skills \subseteq Nat /\ Hits \subseteq Nat \ {0}
                     /\ ClassicSpeeds \subseteq BOOLEAN /\ Level \in Nat /\ MaxPoints \in Nat \ {0}
                     /\ VocationSpeed \in Nat \ {0} /\ BloodHits \in Nat /\ MaxTasks \in Nat \ {0}
==============================================================================
