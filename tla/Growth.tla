------------------------------- MODULE Growth -------------------------------
(***************************************************************************)
(* A player's experience and level, a skill and the magic level: the loops *)
(* of addExperience, addSkillAdvance and addManaSpent that carry what was  *)
(* gained over several levels, those that take it back, death and its      *)
(* blessings, and the maximum health that follows the level.               *)
(*                                                                         *)
(* One skill stands for all.  Of getLostPercent the formula for level 25   *)
(* and above is left out: levels stay below.  A script's onAdvance may     *)
(* give tries of its own, inside the loop that called it.  unsigned and    *)
(* int32_t conversions wrap at Word and Half.                              *)
(***************************************************************************)
EXTENDS Integers, FiniteSets, FiniteSetsExt

CONSTANTS ExpUnit,            \* 100 in the code
          SkillBase, SkillMultiplier, ManaBase, ManaMultiplier,
          Cap,                \* where the requirements stop growing
          Word, Half,         \* 2^64 and 2^31
          Gift,               \* tries that a script gives for an advance
          HPGain, BaseHealth,
          DEATH_LOSE_PERCENT, \* or -1
          MaxLevel,           \* bound
          Gains, Losses       \* amounts that are gained and lost

VARIABLES p,        \* the player
          credit    \* what was given and not taken back: [exp, skill, mana]

vars == <<p, credit>>

GrowthAssumption ==
    /\ {ExpUnit, SkillBase, ManaBase, Cap, Half, HPGain} \subseteq Nat \ {0} /\ Word > Half
    /\ MaxLevel < 25 /\ DEATH_LOSE_PERCENT \in -1..100

\* Player::getExpForLevel, Vocation::getReqSkillTries and getReqMana; a skill's
\* level counts from MINIMUM_SKILL_LEVEL.
ExpForLevel(lv) == ((((lv - 6) * lv + 17) * lv - 12) \div 6) * ExpUnit
ReqTries(lv) == IF lv = 0 THEN SkillBase \div SkillMultiplier ELSE Min({Cap, SkillBase * SkillMultiplier^(lv - 1)})
ReqMana(lv) == IF lv = 0 THEN 0 ELSE Min({Cap, ManaBase * ManaMultiplier^(lv - 1)})

PercentLevel(count, next) ==
    LET result == IF next = 0 THEN 0 ELSE ((count * 100) \div next) % 256
    IN  IF result > 100 THEN 0 ELSE result

(***************************************************************************)
(* A skill.                                                                *)
(***************************************************************************)
AtTop(lv) == ReqTries(lv) >= ReqTries(lv + 1)

\* fault: the rest of what was gained is dropped at an advance
DropRest(count, used) == 0
Rest(count, used) == count - used

RECURSIVE AddSkillAdvance(_, _), Advance(_, _)
\* The loop: a level, the script, the next requirement.
Advance(s, count) ==
    LET next == ReqTries(s.level + 1)
        up == [s EXCEPT !.level = @ + 1, !.tries = 0, !.percent = 0]
        told == IF Gift = 0 THEN up ELSE AddSkillAdvance([up EXCEPT !.gifts = @ + IF AtTop(up.level) THEN 0 ELSE Gift], Gift)
        rest == Rest(count, next - s.tries)
    IN  IF s.tries + count < next THEN [s EXCEPT !.tries = @ + count]
        ELSE IF next >= ReqTries(told.level + 1) THEN told
        ELSE Advance(told, rest)

AddSkillAdvance(s, count) ==
    IF AtTop(s.level) \/ count = 0 THEN s
    ELSE LET t == Advance(s, count)
         IN  [t EXCEPT !.percent = IF AtTop(t.level) THEN 0 ELSE PercentLevel(t.tries, ReqTries(t.level + 1))]

RECURSIVE TakeTries(_, _)
TakeTries(s, count) ==
    IF count <= s.tries THEN [s EXCEPT !.tries = IF @ - count >= Half THEN 0 ELSE @ - count]
    ELSE IF s.level = 0 THEN [s EXCEPT !.tries = 0]
    ELSE TakeTries([s EXCEPT !.tries = ReqTries(s.level), !.level = @ - 1], count - s.tries)

\* The percentage is taken of the requirement of the level that was reached.
RemoveSkillTries(s, count) ==
    LET t == TakeTries(s, count)
    IN  [t EXCEPT !.percent = PercentLevel(t.tries, ReqTries(t.level)), !.lost = TRUE]

(***************************************************************************)
(* The magic level.                                                        *)
(***************************************************************************)
ManaTop(lv) == ReqMana(lv) >= ReqMana(lv + 1)

RECURSIVE Spend(_, _)
Spend(g, amount) ==
    LET next == ReqMana(g.level + 1)
    IN  IF g.spent + amount < next THEN [g EXCEPT !.spent = @ + amount, !.percent = PercentLevel(g.spent + amount, next)]
        ELSE LET up == [g EXCEPT !.level = @ + 1, !.spent = 0]
             IN  IF ManaTop(up.level) THEN up ELSE Spend(up, amount - (next - g.spent))
AddManaSpent(g, amount) == IF ManaTop(g.level) \/ amount = 0 THEN g ELSE Spend(g, amount)

RECURSIVE Unspend(_, _)
Unspend(g, amount) ==
    IF amount > g.spent /\ g.level > 0
    THEN Unspend([g EXCEPT !.spent = ReqMana(g.level), !.level = @ - 1], amount - g.spent)
    ELSE [g EXCEPT !.spent = (@ - amount) % Word]
RemoveManaSpent(g, amount) ==
    IF amount = 0 THEN g
    ELSE LET h == Unspend(g, amount)
         IN  [h EXCEPT !.percent = IF ManaTop(h.level) THEN 0 ELSE PercentLevel(h.spent, ReqMana(h.level + 1))]

(***************************************************************************)
(* Experience and level.                                                   *)
(***************************************************************************)
MaxHealth(c) == Max({1, c.healthMax + c.var})

LevelPercent(c) == PercentLevel(c.experience - ExpForLevel(c.level), ExpForLevel(c.level + 1) - ExpForLevel(c.level))

RECURSIVE Rise(_)
Rise(c) ==
    IF c.experience < ExpForLevel(c.level + 1) THEN c
    ELSE Rise([c EXCEPT !.level = @ + 1, !.healthMax = @ + HPGain, !.health = @ + HPGain])

RECURSIVE Fall(_)
Fall(c) ==
    IF c.level = 1 \/ c.experience >= ExpForLevel(c.level) THEN c
    ELSE Fall([c EXCEPT !.level = @ - 1, !.healthMax = Max({0, @ - HPGain})])

\* A new level heals; the percentage belongs to the level that was reached.
Settled(old, c) ==
    LET healed == IF c.level = old.level THEN c ELSE [c EXCEPT !.health = MaxHealth(c)]
    IN  [healed EXCEPT !.levelPercent = LevelPercent(c)]

AddExperience(c, exp) == Settled(c, Rise([c EXCEPT !.experience = @ + exp]))
RemoveExperience(c, exp) == Settled(c, Fall([c EXCEPT !.experience = Max({0, @ - exp})]))

(***************************************************************************)
(* Death.                                                                  *)
(***************************************************************************)

\* getLostPercent, in units of 1/10000.
LostPercent(c) ==
    IF DEATH_LOSE_PERCENT # -1
    THEN Max({0, DEATH_LOSE_PERCENT - (IF c.promoted THEN 3 ELSE 0) - c.blessings}) * 100
    ELSE 10 * (100 - (IF c.promoted THEN 30 ELSE 0) - 8 * c.blessings)
Lost(c, total) == (total * LostPercent(c)) \div 10000

SumMana(g) == MapThenSumSet(ReqMana, 1..g.level) + g.spent
SumTries(s) == MapThenSumSet(ReqTries, 1..s.level) + s.tries

\* Only a character without a vocation, or above level 7, loses experience.
LosesLevels(c) == c.novice \/ c.level > 7

Bereft(c) == IF LosesLevels(c) THEN [c EXCEPT !.experience = @ - Lost(c, c.experience)] ELSE c

\* The twist of fate is lost to a player and saves the other blessings then;
\* to anything else all are lost but it.
Unblessed(c, byPlayer) ==
    IF c.twist /\ byPlayer THEN [c EXCEPT !.twist = FALSE, !.blessings = @ - 1]
    ELSE [c EXCEPT !.blessings = IF c.twist THEN 1 ELSE 0]

DeathWithLoss(c, byPlayer) ==
    LET weaker == [c EXCEPT !.magic = RemoveManaSpent(@, Lost(c, SumMana(@))),
                            !.skill = RemoveSkillTries(@, Lost(c, SumTries(@)))]
        fallen == IF Lost(c, c.experience) = 0 THEN weaker
                  ELSE LET f == Fall(Bereft(weaker)) IN [f EXCEPT !.levelPercent = LevelPercent(f)]
        plain == Unblessed(fallen, byPlayer)
    IN  [plain EXCEPT !.health = plain.healthMax]

(***************************************************************************)
(* The steps.                                                              *)
(***************************************************************************)
NewSkill == [level |-> 0, tries |-> 0, percent |-> 0, gifts |-> 0, lost |-> FALSE]
NewMagic == [level |-> 0, spent |-> 0, percent |-> 0]

Init ==
    /\ \E novice \in BOOLEAN :
          p = [experience |-> 0, level |-> 1, levelPercent |-> 0, healthMax |-> BaseHealth, health |-> BaseHealth,
               var |-> 0, skill |-> NewSkill, magic |-> NewMagic, skillLoss |-> TRUE,
               promoted |-> ~novice, novice |-> novice, blessings |-> 0, twist |-> FALSE]
    /\ credit = [exp |-> 0, skill |-> 0, mana |-> 0]

GainExperience ==
    \E n \in Gains :
        /\ p.experience + n < ExpForLevel(MaxLevel + 1)
        /\ p' = AddExperience(p, n) /\ credit' = [credit EXCEPT !.exp = @ + n]
LoseExperience ==
    \E n \in Losses :
        /\ p.experience > 0
        /\ p' = RemoveExperience(p, n) /\ credit' = [credit EXCEPT !.exp = Max({0, @ - n})]

\* Beyond the highest level nothing is counted.
TopLevel == CHOOSE lv \in 1..Cap : AtTop(lv) /\ \A k \in 1..(lv - 1) : ~AtTop(k)
SkillTop == MapThenSumSet(ReqTries, 1..TopLevel)
TopMana == CHOOSE lv \in 1..Cap : ManaTop(lv) /\ \A k \in 1..(lv - 1) : ~ManaTop(k)
ManaMost == MapThenSumSet(ReqMana, 1..TopMana)

GainTries ==
    \E n \in Gains :
        /\ p' = [p EXCEPT !.skill = AddSkillAdvance([p.skill EXCEPT !.gifts = 0, !.lost = FALSE], n)]
        /\ credit' = [credit EXCEPT !.skill = Min({SkillTop, @ + n + p'.skill.gifts})]
LoseTries ==
    \E n \in Losses :
        /\ p' = [p EXCEPT !.skill = RemoveSkillTries(@, n)]
        /\ credit' = [credit EXCEPT !.skill = Max({0, @ - n})]
SpendMana ==
    \E n \in Gains :
        /\ p' = [p EXCEPT !.magic = AddManaSpent(@, n)]
        /\ credit' = [credit EXCEPT !.mana = Min({ManaMost, @ + n})]

\* A script that takes more than there is is left out: it wraps.
LoseMana ==
    \E n \in Losses :
        /\ n <= SumMana(p.magic)
        /\ p' = [p EXCEPT !.magic = RemoveManaSpent(@, n)]
        /\ credit' = [credit EXCEPT !.mana = @ - n]

Death ==
    /\ p.skillLoss
    /\ \E byPlayer \in BOOLEAN : p' = DeathWithLoss(p, byPlayer)
    /\ credit' = [exp |-> IF LosesLevels(p) THEN credit.exp - Lost(p, credit.exp) ELSE credit.exp,
                  skill |-> credit.skill - Lost(p, credit.skill),
                  mana |-> credit.mana - Lost(p, credit.mana)]

\* In a fight for sport nothing is lost, and he wakes up at the temple.
DeathWithoutLoss ==
    /\ ~p.skillLoss
    /\ p' = [p EXCEPT !.skillLoss = TRUE, !.health = p.healthMax]
    /\ UNCHANGED credit
EnterPvpZone == p.skillLoss /\ p' = [p EXCEPT !.skillLoss = FALSE] /\ UNCHANGED credit

\* setVarStats: a ring that gives health, and its loss.
SetVarStats ==
    \E v \in {0, HPGain} \ {p.var} :
        LET c == [p EXCEPT !.var = v]
        IN  p' = [c EXCEPT !.health = Min({@, MaxHealth(c)})] /\ UNCHANGED credit
ChangeHealth ==
    \E h \in {1, MaxHealth(p)} \ {p.health} : p' = [p EXCEPT !.health = h] /\ UNCHANGED credit
AddBlessing ==
    /\ p' \in {[p EXCEPT !.twist = TRUE, !.blessings = IF p.twist THEN @ ELSE @ + 1], [p EXCEPT !.blessings = IF p.twist THEN 2 ELSE 1]}
    /\ UNCHANGED credit

Next ==
    \/ GainExperience \/ LoseExperience \/ GainTries \/ LoseTries \/ SpendMana \/ LoseMana
    \/ Death \/ DeathWithoutLoss \/ EnterPvpZone \/ SetVarStats \/ ChangeHealth \/ AddBlessing

Spec == Init /\ [][Next]_vars
-----------------------------------------------------------------------------
TypeOK ==
    /\ p.experience \in Nat /\ p.level \in 1..MaxLevel /\ p.levelPercent \in 0..100
    /\ p.skill.percent \in 0..100 /\ p.magic.percent \in 0..100 /\ p.blessings \in 0..2

\* The level is the one that the experience deserves, and the maximum health is
\* that of the level: gains over several levels, losses, deaths and fights
\* without loss never let them drift.
LevelAgrees ==
    /\ ExpForLevel(p.level) <= p.experience /\ p.experience < ExpForLevel(p.level + 1)
    /\ p.healthMax = BaseHealth + (p.level - 1) * HPGain
    /\ p.health <= MaxHealth(p)
    /\ p.levelPercent = LevelPercent(p)

\* No point is lost or counted twice in the loops: what the levels and the rest
\* are worth is what was given less what was taken, also when a script gives
\* more in the middle of an advance.  A skill is exact as long as the rest fits
\* the int32_t it is converted to.
SumsAgree ==
    /\ p.experience = credit.exp
    /\ SumTries(p.skill) = credit.skill
    /\ SumMana(p.magic) = credit.mana

\* The rest is less than the next level needs, and the bar the client draws is
\* the part of it that is done (after a loss of tries it is not: it is taken
\* of another level's requirement until the next gain).
BarsAgree ==
    /\ AtTop(p.skill.level) \/ p.skill.tries <= ReqTries(p.skill.level + 1)
    /\ ManaTop(p.magic.level) \/ p.magic.spent <= ReqMana(p.magic.level + 1)
    /\ p.skill.lost \/ AtTop(p.skill.level) \/ p.skill.percent = PercentLevel(p.skill.tries, ReqTries(p.skill.level + 1))
    /\ ManaTop(p.magic.level) \/ p.magic.percent = PercentLevel(p.magic.spent, ReqMana(p.magic.level + 1))

GrowthAgrees == TypeOK /\ LevelAgrees /\ SumsAgree /\ BarsAgree
=============================================================================
