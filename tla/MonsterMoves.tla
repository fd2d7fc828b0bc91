---------------------------- MODULE MonsterMoves ----------------------------
(***************************************************************************)
(* Where a monster without a master steps next: Creature::                 *)
(* goToFollowCreature and Monster::getNextStep with the distance step, the *)
(* dance step and the random step, and the items and weaker monsters it    *)
(* pushes out of its way.                                                  *)
(*                                                                         *)
(* A decision and its step are apart: the direction waits in listWalkDir   *)
(* for the walk event while the target goes on.  A path of the search in   *)
(* module PathFinding is taken as any walkable step.  Positions are pairs, *)
(* directions unit offsets; the y axis points south.  stepDuration, which  *)
(* only slows the walk, is left out.                                       *)
(***************************************************************************)
EXTENDS Integers, FiniteSets, FiniteSetsExt

CONSTANTS Width, Height,      \* the tiles
          MaxWalls,           \* bound: tiles nothing can enter
          targetDistance,     \* of the monster's type
          AttackRange,        \* the longest range of its attacks
          CanPushItems, CanPushCreatures,
          MaxThings, MaxWeak, \* bounds: blocking items, weak monsters
          Nowhere

VARIABLES walls, me, target,
          sight,          \* whether the line between them is clear
          fleeing,        \* health at or below runAwayHealth
          listWalkDir,    \* the step that waits, or Nowhere
          things,         \* movable items that block a tile, by tile
          weak,           \* tiles of pushable monsters
          killed,         \* tiles of those that were crushed
          how             \* its last step: "none", "walk", "dance" or "random"

vars == <<walls, me, target, sight, fleeing, listWalkDir, things, weak, killed, how>>

Positions == (1..Width) \X (1..Height)

MovesAssumption == /\ targetDistance \in Nat \ {0} /\ AttackRange \in Nat
                   /\ {CanPushItems, CanPushCreatures} \subseteq BOOLEAN

N == <<0, -1>>
S == <<0, 1>>
E == <<1, 0>>
W == <<-1, 0>>
Straight == {N, S, E, W}
Diagonal == {<<x, y>> : x \in {-1, 1}, y \in {-1, 1}}

Abs(n) == IF n < 0 THEN -n ELSE n
Sign(n) == IF n > 0 THEN 1 ELSE IF n < 0 THEN -1 ELSE 0
Add(p, d) == <<p[1] + d[1], p[2] + d[2]>>
Minus(d) == <<-d[1], -d[2]>>
Distance(p, q) == Max({Abs(p[1] - q[1]), Abs(p[2] - q[2])})

Occupied == {me, target} \union weak \union killed
Blocked == {p \in Positions : things[p] > 0}

\* Tile::queryAdd for the monster: what it can push does not stop it.
CanEnter(p) ==
    /\ p \in Positions \ (walls \union {me, target})
    /\ ~CanPushItems => p \notin Blocked
    /\ ~CanPushCreatures => p \notin weak \union killed

\* Monster::canWalkTo, for the steps it chooses itself: no creature at all.
CanWalkTo(d) == CanEnter(Add(me, d)) /\ Add(me, d) \notin Occupied

CanUseAttack(p) == Distance(p, target) <= AttackRange /\ sight

(***************************************************************************)
(* getDistanceStep: the set of directions it may answer.  {Nowhere} is an  *)
(* answer without a direction.                                             *)
(***************************************************************************)
Free(ds) == {d \in ds : CanWalkTo(d)}

\* The first of the sets that is not empty.
First(a, b) == IF a # {} THEN a ELSE b

\* The target is on a diagonal: both straight ways away, then the diagonal
\* away; one that flees then goes past the target; at last a step to the side
\* from which it could get away.
DiagonalStep(flee) ==
    LET x == Sign(me[1] - target[1])
        y == Sign(me[2] - target[2])
        side(d, then) == IF CanWalkTo(d) /\ CanWalkTo(then) THEN {d} ELSE {}
        alongX == side(<<-x, 0>>, <<-x, y>>)
        alongY == side(<<0, -y>>, <<x, -y>>)
        aside == IF <<x, y>> = <<-1, -1>> THEN First(alongY, alongX) ELSE First(alongX, alongY)
    IN  First(Free({<<x, 0>>, <<0, y>>}),
        First(Free({<<x, y>>}),
        First(IF flee THEN Free({<<-x, 0>>, <<0, -y>>}) ELSE {},
        First(aside, {Nowhere}))))

\* fault: a monster that only keeps its distance also goes towards the target
EvenHunting(flee, d) == Free({d})
\* "towards player, yea": only one that flees.
LastResort(flee, d) == IF flee THEN Free({d}) ELSE {}

\* The target is straight ahead, or nearly: away from it, to a side that does
\* not lead back, (fleeing) to any side, diagonally away, (fleeing) towards it.
AwayStep(vertical, flee) ==
    LET away == IF vertical THEN <<0, IF me[2] < target[2] THEN -1 ELSE 1>>
                            ELSE <<IF me[1] < target[1] THEN -1 ELSE 1, 0>>
        lower == IF vertical THEN W ELSE N
        upper == IF vertical THEN E ELSE S
        off == IF vertical THEN me[1] - target[1] ELSE me[2] - target[2]
        open == Free({lower, upper})
        sides == {d \in open : (d = lower => off <= 0) /\ (d = upper => off >= 0)}
        diagonals == Free({Add(away, lower), Add(away, upper)})
        one == IF away = E THEN upper ELSE lower
        other == Minus(one)
        diagonal == CASE diagonals = {} -> {}
                      [] Cardinality(diagonals) = 2 -> diagonals
                      [] one \in open -> {one}
                      [] Add(away, one) \in diagonals -> {Add(away, one)}
                      [] other \in open -> {other}
                      [] OTHER -> diagonals
    IN  First(Free({away}),
        First(sides,
        First(IF flee THEN open ELSE {},
        First(diagonal,
        First(LastResort(flee, Minus(away)), {Nowhere})))))

NorthSouthStep(flee) == AwayStep(TRUE, flee)
EastWestStep(flee) == AwayStep(FALSE, flee)

DistanceStep(flee) ==
    LET dx == Abs(me[1] - target[1])
        dy == Abs(me[2] - target[2])
    IN  CASE dx = dy -> DiagonalStep(flee)
          [] dy > dx -> NorthSouthStep(flee)
          [] OTHER -> EastWestStep(flee)

\* getDistanceStep answers false: the search finds the way.
AsksSearch == ~fleeing /\ (Distance(me, target) > targetDistance \/ ~sight)
AtDistance == ~fleeing /\ Distance(me, target) = targetDistance

(***************************************************************************)
(* getDanceStep: around the target at the same distance, and not out of    *)
(* reach of an attack it could make.                                       *)
(***************************************************************************)
DanceSteps(keepAttack, keepDistance) ==
    {d \in Free(Straight) :
        /\ keepDistance => \/ d[2] = -1 /\ me[2] >= target[2]
                           \/ d[2] = 1 /\ me[2] <= target[2]
                           \/ d[1] = 1 /\ me[1] <= target[1]
                           \/ d[1] = -1 /\ me[1] >= target[1]
        /\ Distance(Add(me, d), target) = Distance(me, target)
        /\ (keepAttack /\ CanUseAttack(me)) => CanUseAttack(Add(me, d))}

\* The sets of at most n elements of s.
UpTo(n, s) == UNION {kSubset(k, s) : k \in 0..n}

Init ==
    /\ walls \in UpTo(MaxWalls, Positions)
    /\ me \in Positions \ walls /\ target \in Positions \ (walls \union {me})
    /\ sight \in BOOLEAN /\ fleeing \in BOOLEAN
    /\ \E b \in UpTo(MaxThings, Positions \ (walls \union {me, target})) :
           things = [p \in Positions |-> IF p \in b THEN 1 ELSE 0]
    /\ weak \in UpTo(MaxWeak, Positions \ (walls \union {me, target}))
    /\ listWalkDir = Nowhere /\ killed = {}
    /\ how = "none"

(***************************************************************************)
(* The target and the monster's health.                                    *)
(***************************************************************************)
TargetSteps ==
    /\ \E d \in Straight :
          /\ Add(target, d) \in Positions \ (walls \union Occupied \union Blocked)
          /\ target' = Add(target, d)
    /\ sight' \in BOOLEAN
    /\ UNCHANGED <<walls, me, fleeing, listWalkDir, things, weak, killed, how>>

ChangeHealth ==
    /\ fleeing' = ~fleeing
    /\ UNCHANGED <<walls, me, target, sight, listWalkDir, things, weak, killed, how>>

\* goToFollowCreature: the step waits for the walk event.
GoToFollowCreature ==
    /\ IF AsksSearch
       THEN listWalkDir' \in {d \in Straight \union Diagonal : CanEnter(Add(me, d))} \union {Nowhere}
       ELSE \E d \in IF AtDistance THEN {Nowhere} ELSE DistanceStep(fleeing) :
                listWalkDir' = IF d = Nowhere THEN listWalkDir ELSE d
    /\ UNCHANGED <<walls, me, target, sight, fleeing, things, weak, killed, how>>

(***************************************************************************)
(* The step: pushItems and pushCreatures clear the tile, then the monster  *)
(* moves if it still can.                                                  *)
(***************************************************************************)

\* An item goes to a neighbouring tile that takes it, or is destroyed.
PushItems(p, t) ==
    LET room == {q \in Positions \ (walls \union Occupied) : Distance(p, q) = 1}
    IN  IF ~CanPushItems \/ t[p] = 0 THEN {t}
        ELSE IF room = {} THEN {[t EXCEPT ![p] = 0]}
        ELSE {[t EXCEPT ![p] = 0, ![q] = @ + t[p]] : q \in room}

\* A weak monster is moved one tile straight away, or killed where it is.
PushCreatures(p) ==
    LET room == {Add(p, d) : d \in Straight} \intersect (Positions \ (walls \union Occupied \union Blocked))
    IN  IF ~CanPushCreatures \/ p \notin weak THEN {[weak |-> weak, killed |-> killed]}
        ELSE IF room = {} THEN {[weak |-> weak \ {p}, killed |-> killed \union {p}]}
        ELSE {[weak |-> (weak \ {p}) \union {q}, killed |-> killed] : q \in room}

Step(d) ==
    LET p == Add(me, d)
    IN  \E t \in PushItems(p, things), c \in PushCreatures(p) :
            /\ things' = t /\ weak' = c.weak /\ killed' = c.killed
            /\ me' = IF p \in Positions \ (walls \union {target}) /\ t[p] = 0 /\ p \notin c.weak
                     THEN p ELSE me

\* Monster::getNextStep with a step that waits.
Walk ==
    /\ listWalkDir # Nowhere /\ Add(me, listWalkDir) \in Positions
    /\ Step(listWalkDir) /\ listWalkDir' = Nowhere /\ how' = "walk"
    /\ UNCHANGED <<walls, target, sight, fleeing>>

\* ... and without one: a dance step, keeping clear only of its distance when
\* it flees.
Dance ==
    /\ listWalkDir = Nowhere
    /\ \E d \in IF fleeing THEN DanceSteps(FALSE, FALSE) ELSE DanceSteps(TRUE, TRUE) : Step(d)
    /\ how' = "dance"
    /\ UNCHANGED <<walls, target, sight, fleeing, listWalkDir>>

\* A monster without a way (or without a target) steps anywhere it can.
RandomStep ==
    /\ listWalkDir = Nowhere
    /\ \E d \in Free(Straight) : Step(d)
    /\ how' = "random"
    /\ UNCHANGED <<walls, target, sight, fleeing, listWalkDir>>

\* The dispatcher removes what was killed.
Buried ==
    /\ killed # {} /\ killed' = {}
    /\ UNCHANGED <<walls, me, target, sight, fleeing, listWalkDir, things, weak, how>>

Next == \/ TargetSteps \/ ChangeHealth \/ GoToFollowCreature
        \/ Walk \/ Dance \/ RandomStep \/ Buried

Spec == Init /\ [][Next]_vars
-----------------------------------------------------------------------------
TypeOK ==
    /\ me \in Positions \ walls /\ target \in Positions \ walls
    /\ listWalkDir \in Straight \union Diagonal \union {Nowhere}
    /\ weak \subseteq Positions /\ killed \subseteq Positions

Nears(d) == Distance(Add(me, d), target) < Distance(me, target)

\* getDistanceStep has sixty branches for eight places of the target.  A monster
\* that only keeps its distance is never sent nearer to its target; one that
\* flees is sent nearer only when it has no straight step and no way out that
\* is not nearer (a diagonal past the target is not tried).
KeepsAway ==
    (listWalkDir' \notin {listWalkDir, Nowhere} /\ ~AsksSearch) =>
        /\ CanWalkTo(listWalkDir')
        /\ Nears(listWalkDir') =>
               fleeing /\ \A d \in Straight \union {e \in Diagonal : Distance(Add(me, e), target) > Distance(me, target)} :
                   CanWalkTo(d) => Nears(d)

\* A dance step goes round the target at the same distance, and a monster that
\* can attack from where it stands does not dance out of reach.
DanceHolds ==
    (me' # me /\ how' = "dance") =>
        /\ Distance(me', target) = Distance(me, target)
        /\ (~fleeing /\ CanUseAttack(me)) => CanUseAttack(me')

\* No item is destroyed and no monster crushed as long as there is room for it
\* next to its tile, and the monster never ends up on either.
PushesAreGentle ==
    LET units(t) == MapThenSumSet(LAMBDA q : t[q], Positions)
        room(q) == {r \in Positions \ (walls \union Occupied) : Distance(q, r) = 1}
    IN  /\ units(things') < units(things) => \E q \in Blocked : things'[q] = 0 /\ room(q) = {}
        /\ \A q \in killed' \ killed : \A d \in Straight : Add(q, d) \notin room(q) \ Blocked
        /\ things'[me'] = 0 /\ me' \notin weak'

MovesAgree == TypeOK' /\ KeepsAway /\ DanceHolds /\ PushesAreGentle
=============================================================================
