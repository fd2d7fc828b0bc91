------------------------------ MODULE MCFight ------------------------------
(***************************************************************************)
(* How creatures fight, for TLC: Combat, which this module extends (two    *)
(* players in three kinds of zones and in an arena, a player and a         *)
(* monster), Spells and Weapons.  They have no state in common here, so    *)
(* that one run explores them side by side: `part' is the one that moves.  *)
(***************************************************************************)
EXTENDS Combat, Spells, TLC

CONSTANTS p1, p2,   \* players that fight each other
          p3, m1,   \* a player that hunts, and a monster
          None

VARIABLES part,
          types, weapons, inv, floor, spent, p, since, nextAction, tasks, classic, reloads,
          had, odd

weaponVars == <<types, weapons, inv, floor, spent, p, since, nextAction, tasks, classic,
                reloads, had, odd>>
fightVars == <<part, combatVars, spellVars, weaponVars>>

(* Who takes part in a fight, and in which zones. *)
Bout == [duel |-> {p1, p2}, arena |-> {p1, p2}, hunt |-> {p3, m1}]
Ground == [duel |-> {"normal", "protection", "nopvp"}, arena |-> {"pvp", "protection"}, hunt |-> Zones]
Longest == [duel |-> 1, arena |-> 1, hunt |-> 2]
Fights == DOMAIN Bout

Takes(c) == who[c].inGame <=> c \in Bout[part]
FightBounds == /\ \A c \in Creatures \ Bout[part] : ~who'[c].inGame
               /\ \A c \in Bout[part] : who'[c].zone \in Ground[part]
               /\ Len(deaths') <= Longest[part]

MCMaxHealth == [c \in Creatures |-> IF c \in Bout.hunt THEN 2 ELSE 1]

(* Spells of spells.xml, one of them reserved and one empty, and those of  *)
(* scripts: with a parameter, self-targeted, a rune, and one that is not   *)
(* complete.                                                               *)
Call(method, field, v) == [call |-> method, field |-> field, v |-> v]
OnCast == Call("onCastSpell", "", 0)
LuaSpells == <<
  [kind |-> "instant", calls |->
     <<Call("number", "name", "light"), Call("instant", "words", <<"a">>), Call("instant", "params", 1),
       Call("flag", "direction", 1), Call("number", "id", 1), Call("group", "name", <<"attack", "focus">>),
       Call("number", "cooldown", 1), Call("groupCooldown", "", <<2, 1>>), Call("number", "mana", 1), OnCast>>],
  [kind |-> "instant", calls |->
     <<Call("number", "name", "heal"), Call("instant", "words", <<"a", " ", "b">>), Call("flag", "learnable", 1),
       Call("flag", "selftarget", 1), Call("number", "id", 2), Call("group", "name", <<"focus">>),
       Call("number", "soul", 1), Call("number", "manaPercent", 50), Call("rune", "runeId", 3), OnCast>>],
  [kind |-> "rune", calls |->
     <<Call("number", "name", "bolt"), Call("rune", "runeId", 1), Call("rune", "charges", 1),
       Call("flag", "aggressive", 1), Call("flag", "needtarget", 1), Call("vocation", "", "mage"),
       Call("group", "number", <<"attack">>), Call("groupCooldown", "", <<1>>), Call("instant", "words", <<"z">>), OnCast>>],
  [kind |-> "instant", calls |-> <<Call("number", "name", "mute"), Call("instant", "words", <<"c">>)>>]>>
FileSpells == <<
  [kind |-> "instant", calls |-> <<Call("number", "name", "fire"), Call("instant", "words", <<"d">>)>>],
  [kind |-> "instant", calls |-> <<Call("number", "name", "old"), Call("instant", "words", <<"b">>),
                                   Call("number", "cooldown", 1), Call("flag", "aggressive", 1)>>],
  [kind |-> "rune", calls |-> <<Call("number", "name", "first"), Call("rune", "runeId", 2)>>]>>
Said == {<<"a">>, <<"a", " ", "x">>, <<"a", "b">>, <<"a", " ", "b">>, <<"b">>, <<"a", " ", "x", " ", "y">>}

(* A bow with arrows in the slot or in a quiver, stars that are thrown, a  *)
(* sword, a wand, a shield and a ring that absorbs.                        *)
Arm(weapon, ammo, range, attack, stackable) ==
  [weapon |-> weapon, ammo |-> ammo, range |-> range, hit |-> 0, maxHit |-> -1, defense |-> 1, attack |-> attack,
   armor |-> 0, absorb |-> 0, becomes |-> 0, speed |-> 0, stackable |-> stackable, element |-> "none"]
Arms == [i \in 0 .. 8 |->
  CASE i = 0 -> Arm("none", "none", 1, 0, FALSE)
    [] i = 1 -> [Arm("distance", "arrow", 6, 1, FALSE) EXCEPT !.hit = 5, !.speed = 2]
    [] i = 2 -> [Arm("ammo", "arrow", 1, 2, TRUE) EXCEPT !.element = "fire"]
    [] i = 3 -> [Arm("none", "none", 7, 3, TRUE) EXCEPT !.maxHit = 100]
    [] i = 4 -> Arm("sword", "none", 1, 3, FALSE)
    [] i = 5 -> [Arm("none", "none", 1, 0, FALSE) EXCEPT !.absorb = 50, !.armor = 5, !.becomes = 4]
    [] i = 6 -> [Arm("quiver", "none", 1, 0, FALSE) EXCEPT !.defense = 2]
    [] i = 8 -> [Arm("shield", "none", 1, 0, FALSE) EXCEPT !.defense = 12]
    [] OTHER -> Arm("wand", "none", 3, 0, FALSE)]
FileWeapons == <<
  [kind |-> "melee", calls |-> <<Call("number", "id", 4), Call("number", "level", 2), Call("flag", "unproperly", 1),
                                 Call("action", "", "removecharge"), Call("number", "health", 1)>>],
  [kind |-> "wand", calls |-> <<Call("number", "id", 7), Call("number", "mana", 1), Call("damage", "", <<0, 2>>)>>],
  [kind |-> "melee", calls |-> <<Call("number", "id", 7)>>]>>
LuaWeapons == <<
  [kind |-> "distance", calls |-> <<Call("number", "id", 3), Call("type", "attack", 4), Call("number", "brk", 50),
                                    Call("action", "", "move"), Call("number", "soul", 1)>>],
  [kind |-> "ammo", calls |-> <<Call("number", "id", 2), Call("ammoType", "", "arrow"), Call("action", "", "removecount"),
                                Call("action", "", "explode"), Call("vocation", "", "mage"),
                                Call("number", "manaPercent", 100)>>]>>
Thing(id, n) == [id |-> id, n |-> n]
Fencing == INSTANCE Weapons WITH Types <- Arms, XmlWeapons <- FileWeapons, Scripts <- LuaWeapons,
  Equipments <- {[left |-> Thing(1, 1), right |-> Thing(6, 1), ammo |-> Thing(3, 1), ring |-> Thing(5, 2),
                  quiver |-> <<Thing(2, 2)>>],
                 [left |-> Thing(3, 2), right |-> Thing(8, 1), ammo |-> Thing(0, 0), ring |-> Thing(0, 0), quiver |-> <<>>],
                 [left |-> Thing(4, 2), right |-> Thing(7, 1), ammo |-> Thing(2, 1), ring |-> Thing(0, 0), quiver |-> <<>>]},
  Level <- 1, Vocation <- "mage", Skills <- {0, 100}, Distances <- {1, 8}, MaxPoints <- 1, BloodHits <- 1,
  Hits <- {4}, VocationSpeed <- 1, ActionDelay <- 2, ClassicSpeeds <- BOOLEAN, REMOVE_WEAPON_AMMO <- TRUE,
  REMOVE_WEAPON_CHARGES <- TRUE, MaxTasks <- 2, MaxReloads <- 1

ASSUME /\ CombatAssumption
       /\ SpellsAssumption /\ Fencing!WeaponsAssumption

(* The parts that are not explored have no state, or one in which nothing is. *)
NoSpells == /\ reg = {} /\ runes = [left |-> Charges, used |-> 0, taken |-> 0]
            /\ caster = [mode |-> "cannot", mana |-> 0, soul |-> 0, learned |-> {}, calm |-> FALSE]
            /\ cool = [k \in CooldownKeys |-> -1] /\ owed = cool /\ spellReloads = 0 /\ hasty = FALSE
NoWeaponVars == /\ types = None /\ weapons = None /\ inv = None /\ floor = None /\ spent = None
                /\ p = None /\ since = None /\ nextAction = None /\ tasks = None
                /\ classic = None /\ reloads = None /\ had = None /\ odd = None

NoFight == who = [c \in Creatures |-> Unhurt(c)] /\ deaths = <<>>

FightInit ==
  /\ part \in Fights \cup {"spells", "weapons"}
  /\ IF part \in Fights
     THEN CombatInit /\ \A c \in Creatures : Takes(c) /\ who[c].zone \in Ground[part]
     ELSE NoFight
  /\ IF part = "spells" THEN SpellInit ELSE NoSpells
  /\ IF part = "weapons" THEN Fencing!Init ELSE NoWeaponVars

FightNext ==
  \/ /\ part \in Fights /\ CombatNext /\ FightBounds
     /\ UNCHANGED <<part, spellVars, weaponVars>>
  \/ /\ part = "spells" /\ SpellNext
     /\ UNCHANGED <<part, combatVars, weaponVars>>
  \/ /\ part = "weapons" /\ Fencing!Next
     /\ UNCHANGED <<part, combatVars, spellVars>>

FightSpec == FightInit /\ [][FightNext]_fightVars

Symmetry == Permutations({p1, p2})
-----------------------------------------------------------------------------
(* CombatAgrees and SpellsAgree are those of the modules. *)

(* Every missile is in a hand, in a slot, in the quiver, on the ground or  *)
(* used up; no blow comes before its time, or surer or stronger than its   *)
(* weapon allows, whichever task was to make it; one task at most waits to *)
(* strike; reloads of weapons and scripts, in any order, bring back the    *)
(* registry of the start.                                                  *)
WeaponsAgree == part = "weapons" => Fencing!WeaponsAgree
=============================================================================
