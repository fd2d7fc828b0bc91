---------------------------- MODULE MonsterMind ----------------------------
(***************************************************************************)
(* What a monster without a master does every time it thinks: wake and     *)
(* sleep, choose and change its target, attack, defend itself and summon.  *)
(* Its spells share one clock for attacks and one for defences, which go   *)
(* back to zero when every spell has had its turn.                         *)
(*                                                                         *)
(* A turn of a spell is the moment when its chance is drawn; whether it is *)
(* cast and what it does is in Combat.  Times are multiples of a common    *)
(* unit.  The targets in sight come and go as in module Creatures; here    *)
(* they are what a choice depends on: attackable, in reach, protected.     *)
(***************************************************************************)
EXTENDS Integers, FiniteSets, Sequences

CONSTANTS Targets, NoTarget,
          Interval,        \* EVENT_CREATURE_THINK_INTERVAL
          Attacks,         \* the speeds of attackSpells, melee (which has a time of its own) aside
          Defenses,        \* the speeds of defenseSpells
          SummonBlocks,    \* mType->info.summons: [speed, max]
          maxSummons,
          changeTargetSpeed,
          ChallengeTime,   \* 8000 ms in the code
          RemoveOnDespawn

VARIABLES m,        \* the monster
          seen      \* [ok, near, safe, home]: which targets it could attack,
                    \* reach from here, may not touch; whether it is near home

mindVars == <<m, seen>>

MindAssumption ==
    /\ NoTarget \notin Targets /\ maxSummons \in Nat /\ changeTargetSpeed \in Nat
    /\ Interval \in Nat \ {0} /\ ChallengeTime \in Nat \ {0}
    /\ Attacks \in Seq(Nat \ {0}) /\ Defenses \in Seq(Nat \ {0})
    /\ SummonBlocks \in Seq([speed : Nat \ {0}, max : Nat])

Zeros(s) == [i \in DOMAIN s |-> 0]

\* summons lists the blocks of the living summons.  turns and casts count, and
\* since... measure, what the code does not keep.
NewMonster(alive) ==
         [alive |-> alive, idle |-> FALSE, targetList |-> <<>>, follow |-> NoTarget, path |-> FALSE,
          attackTicks |-> 0, turns |-> Zeros(Attacks), defenseTicks |-> 0, casts |-> Zeros(Defenses),
          summons |-> <<>>, changeTicks |-> 0, cooldown |-> 0, focus |-> 0,
          sinceChallenge |-> ChallengeTime, sinceChange |-> changeTargetSpeed, gap |-> changeTargetSpeed,
          changed |-> FALSE]

(***************************************************************************)
(* Lists.                                                                  *)
(***************************************************************************)
Listed(s) == {s[i] : i \in DOMAIN s}
CutOut(s, k) == [i \in 1..Len(s) - 1 |-> IF i < k THEN s[i] ELSE s[i + 1]]

\* std::find and erase.
Unlisted(s, t) == IF t \in Listed(s) THEN CutOut(s, CHOOSE k \in DOMAIN s : s[k] = t) ELSE s

(***************************************************************************)
(* Targets.                                                                *)
(***************************************************************************)
IsTarget(t) == t \in seen.ok

SelectTarget(c, t) ==
    IF t \in seen.safe \/ ~IsTarget(t) \/ t \notin Listed(c.targetList) THEN c
    ELSE [c EXCEPT !.follow = t, !.path = IF c.follow = t THEN @ ELSE FALSE]

\* "lets just pick the first target in the list"
PickFirst(c) ==
    LET able == {i \in DOMAIN c.targetList : LET t == c.targetList[i]
                                             IN  t # c.follow /\ IsTarget(t) /\ t \notin seen.safe}
    IN  IF able = {} THEN c
        ELSE SelectTarget(c, c.targetList[CHOOSE i \in able : \A j \in able : i <= j])

\* searchTarget: what it may lead to.
SearchTarget(c, type) ==
    LET list == Listed(c.targetList)
        result == {t \in list \ {c.follow} : IsTarget(t) /\ (type = "random" \/ t \in seen.near)}
        nearest == IF result # {} THEN result ELSE {t \in list : IsTarget(t)}
        picked(t) == IF t \in seen.safe THEN PickFirst(c) ELSE SelectTarget(c, t)
    IN  IF type = "nearest" /\ nearest # {} THEN {picked(t) : t \in nearest}
        ELSE IF type # "nearest" /\ result # {} THEN {SelectTarget(c, t) : t \in result}
        ELSE IF type = "attackrange" THEN {c}
        ELSE {PickFirst(c)}

SetIdle(c, idle) ==
    IF idle THEN [c EXCEPT !.idle = TRUE, !.targetList = <<>>]
    ELSE [c EXCEPT !.idle = FALSE]

\* A monster without targets stays awake while a condition hurts it.
UpdateIdleStatus(c, hurt) == SetIdle(c, c.targetList = <<>> /\ ~hurt)

(***************************************************************************)
(* onThinkTarget.                                                          *)
(***************************************************************************)
Down(n, by) == IF n > by THEN n - by ELSE 0
Aged(n, top) == IF n + Interval > top THEN top ELSE n + Interval

\* fault: a challenge does not start the pause before the next change
Unpaused(c) == [c EXCEPT !.focus = ChallengeTime, !.changeTicks = 0]
\* challengeCreature, once the target is taken.
Challenged(c) == [c EXCEPT !.cooldown = ChallengeTime, !.focus = ChallengeTime, !.changeTicks = 0]

\* The clocks after an interval; `due' says that a change is to be tried.
Clocks(c) ==
    LET left == Down(c.cooldown, Interval)
        over == c.cooldown > 0 /\ left = 0
        ticks == (IF over THEN changeTargetSpeed ELSE c.changeTicks) + Interval
        due == left = 0 /\ ticks >= changeTargetSpeed
    IN  [c EXCEPT !.focus = IF due THEN 0 ELSE Down(@, Interval),
                  !.cooldown = IF due THEN changeTargetSpeed ELSE left,
                  !.changeTicks = IF due THEN 0 ELSE IF left = 0 THEN ticks ELSE @,
                  !.sinceChallenge = Aged(@, ChallengeTime),
                  !.sinceChange = IF due THEN 0 ELSE Aged(@, changeTargetSpeed),
                  !.gap = IF due THEN Aged(c.sinceChange, changeTargetSpeed) ELSE @,
                  !.changed = due]

\* A protected player is let go first; a change is tried at random.
ThinkTarget(c) ==
    LET free == IF c.follow \in seen.safe THEN [c EXCEPT !.follow = NoTarget, !.path = FALSE] ELSE c
        k == Clocks(free)
    IN  IF changeTargetSpeed = 0 THEN {free}
        ELSE IF ~k.changed THEN {k}
        ELSE {k} \union SearchTarget(k, "random") \union SearchTarget(k, "nearest")

(***************************************************************************)
(* The clocks of the spells.                                               *)
(***************************************************************************)

\* "already used this spell for this round"
InTurn(ticks, speed, interval) == speed <= ticks /\ ticks % speed < interval

Counted(turns, speeds, ticks, interval) ==
    [i \in DOMAIN speeds |-> turns[i] + IF InTurn(ticks, speeds[i], interval) THEN 1 ELSE 0]
AllDue(speeds, ticks) == \A i \in DOMAIN speeds : speeds[i] <= ticks

\* doAttacking: with an interval of 0 (a new target) nothing but melee.
Attacked(c, interval) ==
    LET ticks == c.attackTicks + interval
        reset == interval # 0 /\ AllDue(Attacks, ticks)
    IN  [c EXCEPT !.attackTicks = IF reset THEN 0 ELSE ticks,
                  !.turns = IF reset THEN Zeros(Attacks) ELSE Counted(@, Attacks, ticks, interval)]

OfBlock(s, n) == Cardinality({k \in DOMAIN s : s[k] = n})

\* A summon block in its turn may or may not call a monster.
Called(s, n, ticks) ==
    {s} \union
    IF Len(s) < maxSummons /\ InTurn(ticks, SummonBlocks[n].speed, Interval) /\ OfBlock(s, n) < SummonBlocks[n].max
    THEN {Append(s, n)} ELSE {}

\* The blocks in their order.
SummonsAfter(s, ticks) ==
    LET after[n \in 0..Len(SummonBlocks)] ==
          IF n = 0 THEN {s} ELSE UNION {Called(l, n, ticks) : l \in after[n - 1]}
    IN  after[Len(SummonBlocks)]

\* onThinkDefense: the summon blocks count only while there is room for summons
\* and a way to the target.
ThinkDefense(c) ==
    LET ticks == c.defenseTicks + Interval
        calls == Len(c.summons) < maxSummons /\ c.path
        reset == AllDue(Defenses, ticks) /\ (calls => \A i \in DOMAIN SummonBlocks : SummonBlocks[i].speed <= ticks)
    IN  {[c EXCEPT !.defenseTicks = IF reset THEN 0 ELSE ticks,
                   !.casts = IF reset THEN Zeros(Defenses) ELSE Counted(@, Defenses, ticks, Interval),
                   !.summons = s] : s \in IF calls THEN SummonsAfter(c.summons, ticks) ELSE {c.summons}}

(***************************************************************************)
(* The steps.                                                              *)
(***************************************************************************)
MindInit == m = NewMonster(TRUE) /\ seen = [ok |-> Targets, near |-> {}, safe |-> {}, home |-> TRUE]

Calm == [m EXCEPT !.changed = FALSE]

\* A target comes into sight or is lost.
Appears ==
    /\ \E t \in Targets \ Listed(m.targetList) :
          m' = SetIdle([Calm EXCEPT !.targetList = Append(@, t)], FALSE)
    /\ m.alive /\ UNCHANGED seen
Leaves ==
    /\ \E t \in Listed(m.targetList) \union ({m.follow} \ {NoTarget}), hurt \in BOOLEAN :
          LET lost == IF m.follow # t THEN Calm
                      ELSE [Calm EXCEPT !.follow = NoTarget, !.path = FALSE, !.attackTicks = 0, !.turns = Zeros(Attacks)]
          IN  m' = UpdateIdleStatus([lost EXCEPT !.targetList = Unlisted(@, t)], hurt)
    /\ m.alive /\ UNCHANGED seen

\* onAddCondition and onEndCondition; an attack wakes it, with a condition or not.
Hurt == m' \in {UpdateIdleStatus(Calm, FALSE), SetIdle(Calm, FALSE)} /\ m.alive /\ UNCHANGED seen

\* What a choice depends on changes.
Changes ==
    /\ \E t \in Targets, f \in {"ok", "near", "safe"} :
          seen' = [seen EXCEPT ![f] = IF t \in @ THEN @ \ {t} ELSE @ \union {t}]
    /\ UNCHANGED m
Strays == seen' = [seen EXCEPT !.home = FALSE] /\ UNCHANGED m

\* goToFollowCreature found a way or none, and onFollowCreatureComplete puts
\* the target first or last.
UpdatePath ==
    /\ m.follow # NoTarget
    /\ \E way \in BOOLEAN :
         LET rest == Unlisted(m.targetList, m.follow)
         IN  m' = [Calm EXCEPT !.path = way,
                               !.targetList = IF m.follow \notin Listed(@) THEN @
                                              ELSE IF way THEN <<m.follow>> \o rest ELSE Append(rest, m.follow)]
    /\ UNCHANGED seen

\* onThink: with targets but no way to one it searches; a monster that flees
\* may look for one in reach.
Chosen(c) == IF c.targetList # <<>> /\ ~c.path THEN SearchTarget(c, "default")
             ELSE {c} \union SearchTarget(c, "attackrange")

\* A script's onThink that returns true ends the turn; so does a stray.
Think ==
    /\ m.alive /\ ~m.idle /\ seen.home
    /\ \E hurt \in BOOLEAN :
          LET awake == UpdateIdleStatus(Calm, hurt)
          IN  \/ awake.idle /\ m' = awake
              \/ ~awake.idle /\ \E c \in Chosen(awake) : \E d \in ThinkTarget(c) : m' \in ThinkDefense(d)
    /\ UNCHANGED seen

Despawn ==
    /\ m.alive /\ ~m.idle /\ ~seen.home
    /\ m' = IF RemoveOnDespawn THEN NewMonster(FALSE) ELSE SetIdle(Calm, TRUE)
    /\ seen' = [seen EXCEPT !.home = TRUE]

\* onAttacking in the same turn, if the target can be seen.
DoAttacking ==
    /\ m.alive /\ ~m.idle /\ m.follow # NoTarget
    /\ m' = Attacked(Calm, Interval)
    /\ UNCHANGED seen

\* checkCreatureAttack, after a new target was taken.
AttackAtOnce ==
    /\ m.alive /\ m.follow # NoTarget
    /\ m' = Attacked(Calm, 0)
    /\ UNCHANGED seen

ChallengeCreature ==
    /\ \E t \in Listed(m.targetList) :
          /\ SelectTarget(m, t).follow = t
          /\ m' = [Challenged(SelectTarget(Calm, t)) EXCEPT !.sinceChallenge = 0]
    /\ m.alive /\ UNCHANGED seen

SummonDies ==
    /\ \E k \in DOMAIN m.summons : m' = [Calm EXCEPT !.summons = CutOut(@, k)]
    /\ UNCHANGED seen

MindNext ==
    \/ Appears \/ Leaves \/ Hurt \/ Changes \/ Strays \/ UpdatePath \/ Think \/ Despawn
    \/ DoAttacking \/ AttackAtOnce \/ ChallengeCreature \/ SummonDies

MindSpec == MindInit /\ [][MindNext]_mindVars
-----------------------------------------------------------------------------
MindTypeOK ==
    /\ seen \in [ok : SUBSET Targets, near : SUBSET Targets, safe : SUBSET Targets, home : BOOLEAN]
    /\ m.follow \in Targets \union {NoTarget}
    /\ \A i, j \in DOMAIN m.targetList : m.targetList[i] = m.targetList[j] => i = j
    /\ m.attackTicks \in Nat /\ m.defenseTicks \in Nat /\ m.cooldown \in Nat /\ m.focus \in Nat

\* One clock for all attacks: in a round a spell gets exactly the turns that
\* its speed (or the interval, if that is longer) allows in the time that
\* passed, no matter how often targets changed, and a round ends as soon as the
\* slowest spell is due, so that every spell gets a turn in every round.
Pace(speed) == IF speed < Interval THEN Interval ELSE speed
Fair(turns, speeds, ticks) == \A i \in DOMAIN speeds : turns[i] = ticks \div Pace(speeds[i])
RoundsAreFair ==
    /\ Fair(m.turns, Attacks, m.attackTicks) /\ Fair(m.casts, Defenses, m.defenseTicks)
    /\ m.attackTicks > 0 => ~AllDue(Attacks, m.attackTicks)
    /\ m.defenseTicks > 0 => \/ ~AllDue(Defenses, m.defenseTicks)
                             \/ \E i \in DOMAIN SummonBlocks : SummonBlocks[i].speed > m.defenseTicks

\* The limits of summons hold for the monster and for each block, though blocks
\* are tried in the same turn.
SummonsAreFew ==
    Len(m.summons) <= maxSummons /\ \A i \in DOMAIN SummonBlocks : OfBlock(m.summons, i) <= SummonBlocks[i].max

\* A challenged monster does not flee and does not change its target on its own
\* until the time of the challenge is over; and it never changes twice within
\* the pause of its type.
FocusEnds == changeTargetSpeed # 0 => (m.focus > 0 <=> m.sinceChallenge < ChallengeTime)
Pause == IF changeTargetSpeed < ChallengeTime THEN changeTargetSpeed ELSE ChallengeTime
ChangesAreApart == m.changed => m.sinceChallenge >= ChallengeTime /\ m.gap >= Pause

\* What a monster keeps while it thinks, attacks, is challenged and is hurt:
\* fair rounds of its spells, few summons, and a target during a challenge.
MindAgrees == MindTypeOK /\ RoundsAreFair /\ SummonsAreFew /\ FocusEnds /\ ChangesAreApart
=============================================================================
