------------------------------- MODULE Combat -------------------------------
(***************************************************************************)
(* Fights: src/src/combat.cpp, Game::combatBlockHit(), combatChangeHealth()*)
(* and combatChangeMana(), the attacking and dying of src/src/creature.cpp *)
(* and src/src/player.cpp, and the weapons of src/src/weapons.cpp.         *)
(*                                                                         *)
(* A creature whose health reaches zero is not dead yet: changeHealth()    *)
(* queues Game::executeDeath() for the dispatcher, and every other task of *)
(* the queue runs before it.  Attacks on players leave marks (pzLocked,    *)
(* skulls, attackedSet) that live as long as the in-fight condition.       *)
(*                                                                         *)
(* Amounts are abstracted to how much health is left, and who did the most *)
(* damage to any of those who did damage.  Parties, guilds, wars, summons  *)
(* and gamemasters' flags are left out; what a script may refuse (the      *)
(* events onTargetCombat, onHealthChange, onPrepareDeath) is `refused'.    *)
(***************************************************************************)
EXTENDS Integers, SequencesExt

CONSTANTS Players, Monsters,
          Zones,                \* zones of the map
          NoOne,                \* nullptr, and the id of a creature that is gone
          WorldType,            \* Game::worldType
          PzLockSkullAttacker,  \* the configuration's pzLockSkullAttacker
          MaxHealth,            \* healthMax of each creature
          MaxDeaths             \* bound on the executeDeath tasks in the queue

Creatures == Players \cup Monsters

CombatAssumption == /\ Players \cap Monsters = {} /\ NoOne \notin Creatures /\ IsFiniteSet(Creatures)
                    /\ {"protection"} \subseteq Zones /\ Zones \subseteq {"normal", "protection", "nopvp", "pvp"}
                    /\ WorldType \in {"pvp", "no-pvp", "pvp-enforced"}
                    /\ PzLockSkullAttacker \in BOOLEAN /\ MaxHealth \in [Creatures -> Nat \ {0}]
                    /\ MaxDeaths \in Nat

VARIABLES who,      \* the creatures
          deaths    \* the executeDeath tasks of g_dispatcher, by creature id

combatVars == <<who, deaths>>

Unhurt(c) == [inGame |-> FALSE, health |-> MaxHealth[c], zone |-> "protection", target |-> NoOne,
              damage |-> {}, lastHit |-> NoOne, inFight |-> FALSE, pzLocked |-> FALSE,
              skull |-> "none", attacked |-> {}, skillLoss |-> TRUE]

PlacedIn(c, zone) == [c EXCEPT !.inGame = TRUE, !.zone = zone]

CombatInit ==
  /\ \E zone \in Zones \ {"protection"}, present \in SUBSET Creatures :
       who = [c \in Creatures |-> IF c \in present THEN PlacedIn(Unhurt(c), zone) ELSE Unhurt(c)]
  /\ deaths = <<>>

(* The operators below take and return the pair of both variables.         *)
game == [who |-> who, deaths |-> deaths]
Follows(g) == /\ Len(g.deaths) <= MaxDeaths
              /\ who' = g.who /\ deaths' = g.deaths
-----------------------------------------------------------------------------
(* Who may fight whom.                                                     *)

IsInPvpZone(g, a, t) == g.who[a].zone = "pvp" /\ g.who[t].zone = "pvp"
GetSkullClient(g, p, t) ==
  CASE WorldType # "pvp" -> "none"
    [] g.who[t].skull # "none" -> g.who[t].skull
    [] p \in g.who[t].attacked -> "yellow"
    [] OTHER -> "none"
IsProtected(g, p, t) == g.who[p].skull = "black" /\ GetSkullClient(g, p, t) = "none"
BothPlayers(a, t) == a \in Players /\ t \in Players

(* Combat::canDoCombat(attacker, target): it does not look for protection  *)
(* zones.                                                                  *)
CanDoCombat(g, a, t) ==
  a # NoOne =>
    /\ BothPlayers(a, t) =>
         /\ ~ IsProtected(g, a, t)
         /\ g.who[t].zone # "nopvp"
         /\ g.who[a].zone = "nopvp" => g.who[t].zone = "protection"
         /\ WorldType = "no-pvp" => IsInPvpZone(g, a, t)
    /\ ~ (a \in Monsters /\ t \in Monsters)

\* fault: the zone of the target is not looked at
OwnZoneOnly(g, p, t) ==
  /\ g.who[p].zone # "protection"
  /\ t \in Players => g.who[p].zone # "nopvp"
ZonesAllow(g, p, t) ==
  /\ g.who[p].zone # "protection" /\ g.who[t].zone # "protection"
  /\ t \in Players => g.who[p].zone # "nopvp" /\ g.who[t].zone # "nopvp"
TileAllowsCombat(zone) == zone # "protection"
CanTargetCreature(g, p, t, secureMode) ==
  /\ p # t
  /\ ZonesAllow(g, p, t)
  /\ t \in Players =>
       /\ ~ IsProtected(g, p, t)
       /\ secureMode => IsInPvpZone(g, p, t) \/ GetSkullClient(g, p, t) # "none"
  /\ CanDoCombat(g, p, t)
-----------------------------------------------------------------------------
(* The in-fight condition and the marks of an attack on a player.          *)

AddInFightTicks(g, p) == [g EXCEPT !.who[p].inFight = TRUE]
AddAttacked(g, p, t) == [g EXCEPT !.who[p].attacked = @ \cup {t}]
PzLock(g, p) == [g EXCEPT !.who[p].pzLocked = TRUE]

MarkAttack(g, p, t) ==
  LET enforced == IF WorldType = "pvp-enforced" THEN PzLock(g, p) ELSE g
      white == [AddAttacked(PzLock(enforced, p), p, t) EXCEPT !.who[p].skull =
                  IF g.who[t].skull = "none" /\ @ = "none" THEN "white" ELSE @]
  IN CASE g.who[p].skull = "none" /\ GetSkullClient(g, p, t) = "yellow" -> AddAttacked(enforced, p, t)
       [] PzLockSkullAttacker /\ p \in g.who[t].attacked -> enforced
       [] OTHER -> white
OnAttackedCreature(g, a, t) ==
  IF a \notin Players \/ g.who[t].zone = "pvp" THEN g
  ELSE AddInFightTicks(IF t \in Players /\ a # t THEN MarkAttack(g, a, t) ELSE g, a)

OnIdleStatus(c) == IF c.health > 0 THEN [c EXCEPT !.damage = {}, !.lastHit = NoOne] ELSE c
EndFight(c) ==
  IF ~ c.inFight THEN c
  ELSE [OnIdleStatus(c) EXCEPT !.inFight = FALSE, !.pzLocked = FALSE, !.attacked = {},
          !.skull = IF @ \in {"red", "black"} THEN @ ELSE "none"]
-----------------------------------------------------------------------------
(* Losing and gaining health.                                              *)

QueuesDeath(old, new) == new = 0
ChangeHealth(g, c, health) ==
  [g EXCEPT !.who[c].health = health,
            !.deaths = IF QueuesDeath(g.who[c].health, health) THEN Append(@, c) ELSE @]
AddDamagePoints(g, a, t) == [g EXCEPT !.who[t].damage = @ \cup {a}, !.who[t].lastHit = a]

DrainHealth(g, a, t, damage) ==
  LET hurt == ChangeHealth(g, t, g.who[t].health - damage)
      noted == IF a = NoOne THEN [hurt EXCEPT !.who[t].lastHit = NoOne] ELSE AddDamagePoints(hurt, a, t)
  IN IF t \in Players THEN AddInFightTicks(noted, t) ELSE noted
DrainMana(g, a, t) == IF a = NoOne THEN g ELSE AddInFightTicks(AddDamagePoints(g, a, t), t)

(* combatBlockHit() tells the attacker of the attack even when all of it   *)
(* is blocked (or a script has it refused); the rest takes the mana of a   *)
(* mana shield or of a drain, or at most the health that there is.         *)
BlackSkullRefuses(g, a, t) == BothPlayers(a, t) /\ IsProtected(g, a, t)
Blows(t) == [takes : {"health"}, damage : 0..MaxHealth[t]] \cup [takes : {"mana"}, damage : {1}]
CombatChangeMana(g, a, t) == IF t \in Players THEN DrainMana(g, a, t) ELSE g
CombatChangeHealth(g, a, t, damage) ==
  IF g.who[t].health = 0 THEN g
  ELSE DrainHealth(g, a, t, IF damage > g.who[t].health THEN g.who[t].health ELSE damage)
Suffer(g, a, t, blow) ==
  CASE blow.damage = 0 \/ BlackSkullRefuses(g, a, t) -> g
    [] blow.damage > 0 /\ ~BlackSkullRefuses(g, a, t) /\ blow.takes = "mana" -> CombatChangeMana(g, a, t)
    [] OTHER -> CombatChangeHealth(g, a, t, blow.damage)
DoTargetCombat(g, a, t, blow) == Suffer(OnAttackedCreature(g, a, t), a, t, blow)
(* The targets in the area are chosen before any of them is hit.           *)
DoAreaCombat(g, a, targets, blow) ==
  LET order == SetToSeq(targets)
      after[n \in 0..Len(order)] == IF n = 0 THEN g ELSE DoTargetCombat(after[n - 1], a, order[n], blow)
  IN  after[Len(order)]

GainHealth(g, a, t) ==
  IF g.who[t].health = 0 \/ BlackSkullRefuses(g, a, t) \/ g.who[t].health = MaxHealth[t] THEN g
  ELSE ChangeHealth(g, t, g.who[t].health + 1)
-----------------------------------------------------------------------------
(* Targets.                                                                *)

SetAttackedCreature(g, c, t) ==
  IF t = NoOne THEN [g EXCEPT !.who[c].target = NoOne]
  ELSE OnAttackedCreature([g EXCEPT !.who[c].target = t], c, t)

(* Who lets go of its target when `c' comes into a zone: Creature's and    *)
(* Player's onChangeZone() and onAttackedCreatureChangeZone().             *)
LosesTarget(g, d, c, zone) ==
  \/ d = c /\ zone = "protection"
  \/ /\ g.who[d].target = c
     /\ \/ zone = "protection"
        \/ /\ BothPlayers(d, c)
           /\ zone = "nopvp" \/ (zone = "normal" /\ WorldType = "no-pvp")
EnterZone(g, c, zone) ==
  [g EXCEPT !.who = [d \in Creatures |->
     [g.who[d] EXCEPT !.zone = IF d = c THEN zone ELSE @,
                      !.target = IF zone # g.who[c].zone /\ LosesTarget(g, d, c, zone) THEN NoOne ELSE @]]]
(* Tile::queryAdd() for a player who is pz-locked.                         *)
PzLockAllows(c, zone) ==
  c.pzLocked => /\ (c.zone = "pvp") = (zone = "pvp")
                /\ zone \in {"nopvp", "protection"} => zone = c.zone

(* A creature leaves the game: those who see it drop it as their target,   *)
(* its id finds nothing any more, and what savePlayer() keeps of a player  *)
(* is health, red and black skulls and the in-fight condition.             *)
Saved(g, c) ==
  [Unhurt(c) EXCEPT !.health = IF g.who[c].health = 0 THEN 1 ELSE g.who[c].health,
                    !.inFight = g.who[c].inFight,
                    !.skull = IF g.who[c].skull \in {"red", "black"} THEN g.who[c].skull ELSE "none"]
Forget(id, c) == IF id = c THEN NoOne ELSE id
RemoveCreature(g, c) ==
  [who |-> [d \in Creatures |->
     IF d = c THEN Saved(g, c)
     ELSE [g.who[d] EXCEPT !.target = Forget(@, c), !.lastHit = Forget(@, c), !.damage = @ \ {c}]],
   deaths |-> [n \in DOMAIN g.deaths |-> Forget(g.deaths[n], c)]]
-----------------------------------------------------------------------------
(* Dying.                                                                  *)

(* addUnjustifiedDead(); `many': the kills of the day, week or month reach *)
(* the configured limit.                                                   *)
AddUnjustifiedDead(g, k, many) ==
  IF WorldType = "pvp-enforced" \/ ~many THEN g
  ELSE [g EXCEPT !.who[k].skull = IF @ \in {"red", "black"} THEN "black" ELSE "red"]
Unprovoked(g, k, c) == k # c /\ c \in g.who[k].attacked /\ k \notin g.who[c].attacked
OnKilledCreature(g, k, c, lastHit, many) ==
  CASE ~ BothPlayers(k, c) -> g
    [] BothPlayers(k, c) /\ g.who[c].zone = "pvp" -> [g EXCEPT !.who[c].skillLoss = FALSE]
    [] BothPlayers(k, c) /\ g.who[c].zone # "pvp" /\ Unprovoked(g, k, c) ->
         LET killed == IF g.who[c].skull = "none" THEN AddUnjustifiedDead(g, k, many) ELSE g
         IN IF lastHit /\ g.who[k].inFight THEN PzLock(killed, k) ELSE killed
    [] OTHER -> g
RemoveAttacked(g, c) ==
  IF c \in Monsters THEN g
  ELSE [g EXCEPT !.who = [k \in Creatures |->
          IF k \in g.who[c].damage \ {c} THEN [g.who[k] EXCEPT !.attacked = @ \ {c}] ELSE g.who[k]]]

(* Player::dropCorpse(): in an arena a player killed by a player stays.    *)
DropCorpse(g, c, lastHit) == ~ (c \in Players /\ g.who[c].zone = "pvp" /\ lastHit \in Players)
(* Player::death(): the persistent conditions end; without skill loss the  *)
(* player stands in the temple again.                                      *)
Death(g, c) ==
  LET lost == IF g.who[c].skillLoss
              THEN [g EXCEPT !.who[c].health = IF g.who[c].skull = "black" THEN 1 ELSE MaxHealth[c]]
              ELSE g
      ended == [lost EXCEPT !.who[c] = EndFight(@)]
      temple == EnterZone([ended EXCEPT !.who[c].skillLoss = TRUE, !.who[c].health = MaxHealth[c]],
                          c, "protection")
  IN CASE c \in Monsters -> g
       [] c \in Players /\ g.who[c].skillLoss -> ended
       [] OTHER -> [temple EXCEPT !.who[c] = OnIdleStatus(@)]
OnDeath(g, c, most, many) ==
  LET lastHit == g.who[c].lastHit
      killed == IF lastHit = NoOne THEN g ELSE OnKilledCreature(g, lastHit, c, TRUE, many)
      shared == RemoveAttacked(killed, c)
      blamed == IF most \in {NoOne, lastHit} THEN shared
                ELSE OnKilledCreature(shared, most, c, FALSE, many)
      dead == Death(blamed, c)
  IN IF DropCorpse(g, c, lastHit) THEN RemoveCreature(dead, c) ELSE dead
-----------------------------------------------------------------------------
Alive(c) == who[c].inGame /\ who[c].health > 0

(* Game::playerSetAttackedCreature(), also with an id that finds nothing   *)
(* or a creature out of sight (NoOne).                                     *)
PlayerSetAttackedCreature ==
  \E p \in Players, t \in Creatures \cup {NoOne}, secureMode \in BOOLEAN :
    /\ who[p].inGame
    /\ LET found == t # NoOne /\ who[t].inGame /\ CanTargetCreature(game, p, t, secureMode)
       IN Follows(SetAttackedCreature(game, p, IF found THEN t ELSE NoOne))

(* A monster selects a target it may attack, or gives its target up.       *)
MonsterSetTarget ==
  \E m \in Monsters, t \in Players \cup {NoOne} :
    /\ Alive(m)
    /\ t # NoOne => who[t].inGame /\ who[t].zone # "protection" /\ who[m].zone # "protection"
    /\ Follows(SetAttackedCreature(game, m, t))

(* Using a weapon may cost health; a leech may give some back.             *)
OnUsedWeapon(g, p, cost) == ChangeHealth(g, p, g.who[p].health - cost)
(* Game::checkCreatureAttack() of a player: the weapon does not ask        *)
(* whether the combat is still allowed.                                    *)
PlayerAttacks ==
  \E p \in Players :
    /\ Alive(p) /\ who[p].target # NoOne
    /\ \E blow \in Blows(who[p].target), cost \in {0, 1}, leech \in BOOLEAN :
         LET hit == DoTargetCombat(game, p, who[p].target, blow)
             g == IF leech THEN GainHealth(hit, NoOne, p) ELSE hit
         IN  Follows(IF cost = 0 THEN g ELSE OnUsedWeapon(g, p, cost))
(* The spells of a monster, on its target: they do ask.                    *)
MonsterAttacks ==
  \E m \in Monsters :
    /\ Alive(m) /\ who[m].target # NoOne
    /\ CanDoCombat(game, m, who[m].target)
    /\ \E blow \in Blows(who[m].target) : Follows(DoTargetCombat(game, m, who[m].target, blow))

(* A spell or a rune; the caster may be dead already: nothing asks.        *)
Casts(a) == who[a].inGame /\ who[a].zone # "protection"
CastAtTarget ==
  \E a \in Creatures, t \in Creatures :
    /\ Casts(a) /\ who[t].inGame /\ a # t
    /\ CanDoCombat(game, a, t)
    /\ \E blow \in Blows(t) : Follows(DoTargetCombat(game, a, t, blow))
CastAtArea ==
  \E a \in Creatures :
    /\ Casts(a)
    /\ \E area \in SUBSET {t \in Creatures \ {a} : who[t].inGame} :
         LET hit == {t \in area : TileAllowsCombat(who[t].zone) /\ CanDoCombat(game, a, t)}
         IN  \E blow \in UNION {Blows(t) : t \in hit} : Follows(DoAreaCombat(game, a, hit, blow))
(* A round of a damage condition, the creature's own or one that a spell   *)
(* or a field has left; its owner may be gone.                             *)
ConditionDamage ==
  \E a \in Creatures \cup {NoOne}, t \in Creatures :
    /\ Alive(t)
    /\ a # NoOne => who[a].inGame
    /\ CanDoCombat(game, a, t)
    /\ \E blow \in Blows(t) : Follows(DoTargetCombat(game, a, t, blow))

Heal ==
  \E a \in Creatures \cup {NoOne}, t \in Creatures :
    /\ a # NoOne => who[a].inGame
    /\ who[t].inGame
    /\ Follows(GainHealth(game, a, t))

(* A step, or a teleport by a script, to a tile of another zone.           *)
ChangeZone ==
  \E c \in Creatures, zone \in Zones, teleport \in BOOLEAN :
    /\ who[c].inGame
    /\ teleport \/ (who[c].health > 0 /\ PzLockAllows(who[c], zone))
    /\ c \in Monsters => zone # "protection"
    /\ Follows(EnterZone(game, c, zone))

FightEnds ==
  \E p \in Players : /\ Alive(p) /\ who[p].inFight
                     /\ Follows([game EXCEPT !.who[p] = EndFight(@)])

CheckSkullTicks ==
  \E p \in Players : /\ Alive(p) /\ ~who[p].inFight /\ who[p].skull \in {"red", "black"}
                     /\ Follows([game EXCEPT !.who[p].skull = "none"])

ExecuteDeath ==
  /\ deaths # <<>>
  /\ LET c == Head(deaths)
         rest == [game EXCEPT !.deaths = Tail(@)]
     IN IF c = NoOne THEN Follows(rest)
        ELSE \E most \in who[c].damage \cup {NoOne}, many \in BOOLEAN : Follows(OnDeath(rest, c, most, many))

Logout ==
  \E p \in Players, forced \in BOOLEAN :
    /\ who[p].inGame
    /\ forced \/ who[p].zone = "protection" \/ ~who[p].inFight
    /\ Follows(RemoveCreature(game, p))
(* The players are saved now and then: savePlayer() lifts a health of 0.   *)
SavePlayers ==
  Follows([game EXCEPT !.who = [c \in Creatures |->
             IF c \in Players /\ who[c].inGame /\ who[c].health = 0
             THEN [who[c] EXCEPT !.health = 1] ELSE who[c]]])
(* Back to the position of the logout, the temple after a death; another   *)
(* monster takes the place of a dead one.                                  *)
Login ==
  \E c \in Creatures, zone \in Zones :
    /\ ~who[c].inGame
    /\ c \in Monsters => zone # "protection"
    /\ Follows([game EXCEPT !.who[c] = PlacedIn(IF c \in Players THEN @ ELSE Unhurt(c), zone)])

CombatNext ==
  \/ PlayerSetAttackedCreature \/ MonsterSetTarget \/ PlayerAttacks \/ MonsterAttacks
  \/ CastAtTarget \/ CastAtArea \/ ConditionDamage \/ Heal \/ ChangeZone \/ FightEnds \/ CheckSkullTicks
  \/ ExecuteDeath \/ Logout \/ SavePlayers \/ Login

CombatSpec == CombatInit /\ [][CombatNext]_combatVars
-----------------------------------------------------------------------------
CombatTypeOK ==
  /\ who \in [Creatures ->
       [inGame : BOOLEAN, health : Nat, zone : Zones, target : Creatures \cup {NoOne},
        damage : SUBSET Creatures, lastHit : Creatures \cup {NoOne}, inFight : BOOLEAN,
        pzLocked : BOOLEAN, skull : {"none", "white", "red", "black"},
        attacked : SUBSET Players, skillLoss : BOOLEAN]]
  /\ \A c \in Creatures : who[c].health <= MaxHealth[c]
  /\ deaths \in Seq(Creatures \cup {NoOne}) /\ Len(deaths) <= MaxDeaths

(* A creature in the game that has no health left will die: its            *)
(* executeDeath() is in the queue, whatever heals, saves, drains mana or   *)
(* removes others meanwhile.  (checkCreatures() passes such a creature     *)
(* over, so without the task it would stand there for ever.)               *)
DeathIsPending ==
  \A c \in Creatures : who[c].inGame /\ who[c].health = 0 => \E n \in DOMAIN deaths : deaths[n] = c

(* pzLocked, a white skull and the set of attacked players last no longer  *)
(* than the in-fight condition that will take them back.                   *)
MarksEndWithFight ==
  \A p \in Players :
    who[p].pzLocked \/ who[p].skull = "white" \/ who[p].attacked # {} => who[p].inFight

(* Automatic attacks rely on the target alone: it is in the game, nobody   *)
(* in a protection zone attacks or is attacked, and no player attacks a    *)
(* player who stands in a no-pvp zone, however both have walked since.     *)
TargetsAreLegal ==
  \A c \in Creatures :
    who[c].target # NoOne =>
      LET t == who[who[c].target]
      IN /\ who[c].inGame /\ t.inGame
         /\ who[c].zone # "protection" /\ t.zone # "protection"
         /\ BothPlayers(c, who[c].target) => t.zone # "nopvp"

CombatAgrees == CombatTypeOK /\ DeathIsPending /\ MarksEndWithFight /\ TargetsAreLegal
=============================================================================
