---------------------------- MODULE PathFinding ----------------------------
(***************************************************************************)
(* The search for a path (Map::getPathMatching with its AStarNodes) that   *)
(* following, fleeing and scripted walks use, one iteration of its loop    *)
(* per step.  The nodes are kept in the order of their creation, because   *)
(* getBestNode takes the first of the cheapest.  A node other than the     *)
(* start looks only at the five neighbours its parent is not next to.      *)
(*                                                                         *)
(* The map is one floor of Width x Height tiles drawn at the beginning:    *)
(* "wall" stops walking and sight, "water" walking only; a "creature" that *)
(* may be passed and a "field" cost more.  The creature's walk cache is in *)
(* module WalkCache, the sight line in Sight.                              *)
(***************************************************************************)
EXTENDS Integers, Sequences, FiniteSets, FiniteSetsExt, SequencesExt, TLC

CONSTANTS Width, Height,  \* the tiles of the floor
          Kinds,          \* the kinds of tiles that are drawn
          MaxOdd,         \* bound: tiles that are not "free"
          Starts, Targets,\* where the creature may stand and what it may look for
          Params,         \* the FindPathParams of the callers
          MAX_NODES,      \* 512 in the code
          MaxClosed       \* 100 in the code, for a search without a distance

VARIABLES tiles, from, to, fpp,  \* the call
          nodes,                 \* AStarNodes: [pos, f, parent, open]
          closedNodes,
          found,                 \* the index of the best match, 0 for none
          bestMatch,
          result,                \* "searching", "path" or "none"
          dirList                \* the offsets of the steps, the last one first

vars == <<tiles, from, to, fpp, nodes, closedNodes, found, bestMatch, result, dirList>>
call == <<tiles, from, to, fpp>>

MAP_NORMALWALKCOST == 10
MAP_DIAGONALWALKCOST == 25

Positions == (1..Width) \X (1..Height)

PathAssumption ==
    /\ Starts \subseteq Positions /\ Targets \subseteq Positions
    /\ Kinds \subseteq {"wall", "water", "creature", "field"}
    /\ MAX_NODES \in Nat \ {0} /\ MaxClosed \in Nat \ {0}
    /\ \A p \in Params : p.maxTargetDist >= p.minTargetDist

Distance(a, b) == LET D(i) == IF a[i] > b[i] THEN a[i] - b[i] ELSE b[i] - a[i]
                  IN  Max({D(1), D(2)})
Add(a, b) == <<a[1] + b[1], a[2] + b[2]>>
Offset(a, b) == <<a[1] - b[1], a[2] - b[2]>>

(***************************************************************************)
(* What the callers ask for: scripts and npcs (getPathTo), creatures that  *)
(* follow, and monsters, by their distance, their part and whether they    *)
(* can attack from where they are.                                         *)
(***************************************************************************)
ScriptParams(least, most, full, sight, dist) ==
    [fullPathSearch |-> full, clearSight |-> sight, keepDistance |-> FALSE,
     maxSearchDist |-> dist, minTargetDist |-> least, maxTargetDist |-> most]

FollowParams(hasFollowPath) == ScriptParams(1, 1, ~hasFollowPath, TRUE, 12)

MonsterParams(part, targetDistance, canUseAttack) ==
    LET p == [FollowParams(FALSE) EXCEPT !.maxTargetDist = targetDistance,
                                         !.fullPathSearch = targetDistance <= 1 \/ ~canUseAttack]
    IN  CASE part = "follows its master" -> [p EXCEPT !.maxTargetDist = 2, !.fullPathSearch = TRUE]
          [] part = "flees" -> [p EXCEPT !.maxTargetDist = 11, !.clearSight = FALSE,
                                         !.keepDistance = TRUE, !.fullPathSearch = FALSE]
          [] part = "hunts" -> p

(***************************************************************************)
(* What the search asks the map and its caller.                            *)
(***************************************************************************)

\* canWalkTo: the tile the creature stands on counts as free.
CanWalkTo(p) == p \in Positions /\ (p = from \/ tiles[p] \notin {"wall", "water"})

GetTileWalkCost(p) == CASE tiles[p] = "creature" -> 3 * MAP_NORMALWALKCOST
                        [] tiles[p] = "field" -> 18 * MAP_NORMALWALKCOST
                        [] OTHER -> 0

GetMapWalkCost(a, b) == IF a[1] # b[1] /\ a[2] # b[2] THEN MAP_DIAGONALWALKCOST
                                                      ELSE MAP_NORMALWALKCOST

\* The side of the target on which a search that is not full stays.
IsInRange(p) ==
    \A i \in {1, 2} :
        LET d == from[i] - to[i]
            hi == IF fpp.fullPathSearch \/ d >= 0 THEN fpp.maxTargetDist ELSE 0
            lo == IF fpp.fullPathSearch \/ d <= 0 THEN fpp.maxTargetDist ELSE 0
        IN  to[i] - lo <= p[i] /\ p[i] <= to[i] + hi

Abs(n) == IF n < 0 THEN -n ELSE n
Sign(n) == IF n > 0 THEN 1 ELSE IF n < 0 THEN -1 ELSE 0

\* checkSightLine moves along one axis when the other move, or both at once,
\* leads further away from the line.
Worse(p, q, r) == p > q \/ p > r

\* One turn of checkSightLine's loop, from p towards b on the line from a.
LineStep(a, b, p) ==
    LET m == <<Sign(b[1] - a[1]), Sign(b[2] - a[2])>>
        A == b[2] - a[2]
        B == a[1] - b[1]
        Off(x, y) == Abs(A * (x - b[1]) + B * (y - b[2]))
        hor == Off(p[1] + m[1], p[2])
        ver == Off(p[1], p[2] + m[2])
        cross == Off(p[1] + m[1], p[2] + m[2])
        y == IF p[2] # b[2] /\ (p[1] = b[1] \/ Worse(hor, ver, cross)) THEN p[2] + m[2] ELSE p[2]
        x == IF p[1] # b[1] /\ (y = b[2] \/ Worse(ver, hor, cross)) THEN p[1] + m[1] ELSE p[1]
    IN  <<x, y>>

\* The tiles the loop looks at, as many as the line could take at most.
Line(a, b) ==
    LET Longer(l, k) == IF Last(l) = b THEN l ELSE Append(l, LineStep(a, b, Last(l)))
    IN  FoldLeft(Longer, <<a>>, [k \in 1..Abs(a[1] - b[1]) + Abs(a[2] - b[2]) |-> k])

CheckSightLine(a, b) == LET l == Line(a, b) IN \A k \in 2..Len(l) : tiles[l[k]] # "wall"

\* isSightClear on the same floor.
IsSightClear(a, b) == Distance(a, b) < 2 \/ CheckSightLine(a, b) \/ CheckSightLine(b, a)

\* fault: a later match of the same distance replaces the first
NotWorse(d, best) == d >= best
\* "not quite what we want, but the best so far"
Better(d, best) == d > best

\* FrozenPathingConditionCall::operator(): whether p matches, and the best
\* distance so far.
Matches(p, best) ==
    LET d == Distance(to, p)
    IN  IF ~IsInRange(p) \/ (fpp.clearSight /\ ~IsSightClear(p, to)) THEN [ok |-> FALSE, best |-> best]
        ELSE IF d < fpp.minTargetDist \/ d > fpp.maxTargetDist THEN [ok |-> FALSE, best |-> best]
        ELSE IF fpp.maxTargetDist = 1 THEN [ok |-> TRUE, best |-> best]
        ELSE IF d = fpp.maxTargetDist THEN [ok |-> TRUE, best |-> 0]
        ELSE IF Better(d, best) THEN [ok |-> TRUE, best |-> d]
        ELSE [ok |-> FALSE, best |-> best]

Allowed(p) ==
    /\ fpp.maxSearchDist # 0 => Distance(from, p) <= fpp.maxSearchDist
    /\ fpp.keepDistance => IsInRange(p)

(***************************************************************************)
(* AStarNodes.                                                             *)
(***************************************************************************)
AllNeighbors == <<<<-1, 0>>, <<0, 1>>, <<1, 0>>, <<0, -1>>, <<-1, -1>>, <<1, -1>>, <<1, 1>>, <<-1, 1>>>>

\* dirNeighbors, by where the parent is.
DirNeighbors ==
    (<<0, -1>> :> <<<<-1, 0>>, <<0, 1>>, <<1, 0>>, <<1, 1>>, <<-1, 1>>>>) @@
    (<<1, 0>> :> <<<<-1, 0>>, <<0, 1>>, <<0, -1>>, <<-1, -1>>, <<-1, 1>>>>) @@
    (<<0, 1>> :> <<<<-1, 0>>, <<1, 0>>, <<0, -1>>, <<-1, -1>>, <<1, -1>>>>) @@
    (<<-1, 0>> :> <<<<0, 1>>, <<1, 0>>, <<0, -1>>, <<1, -1>>, <<1, 1>>>>) @@
    (<<-1, 1>> :> <<<<1, 0>>, <<0, -1>>, <<-1, -1>>, <<1, -1>>, <<1, 1>>>>) @@
    (<<1, 1>> :> <<<<-1, 0>>, <<0, -1>>, <<-1, -1>>, <<1, -1>>, <<-1, 1>>>>) @@
    (<<-1, -1>> :> <<<<0, 1>>, <<1, 0>>, <<1, -1>>, <<1, 1>>, <<-1, 1>>>>) @@
    (<<1, -1>> :> <<<<-1, 0>>, <<0, 1>>, <<-1, -1>>, <<1, 1>>, <<-1, 1>>>>)

Neighbors(i) ==
    IF nodes[i].parent = 0 THEN AllNeighbors
    ELSE DirNeighbors[Offset(nodes[nodes[i].parent].pos, nodes[i].pos)]

NodeAt(ns, p) == {k \in DOMAIN ns : ns[k].pos = p}

\* One neighbour: a new node, a cheaper way to a known one, or nothing.
\* `full` is a createOpenNode that found no room.
Visit(s, i, off) ==
    LET p == Add(nodes[i].pos, off)
        known == NodeAt(s.ns, p)
        newf == s.ns[i].f + GetMapWalkCost(nodes[i].pos, p) + GetTileWalkCost(p)
        k == CHOOSE n \in known : TRUE
    IN  IF s.full \/ ~Allowed(p) \/ (known = {} /\ ~CanWalkTo(p)) THEN s
        ELSE IF known = {} THEN
             IF Len(s.ns) = MAX_NODES THEN [s EXCEPT !.full = TRUE]
             ELSE [s EXCEPT !.ns = Append(@, [pos |-> p, f |-> newf, parent |-> i, open |-> TRUE])]
        ELSE IF s.ns[k].f <= newf THEN s
        ELSE [s EXCEPT !.closed = IF s.ns[k].open THEN @ ELSE @ - 1,
                       !.ns[k] = [@ EXCEPT !.f = newf, !.parent = i, !.open = TRUE]]

Open == {i \in DOMAIN nodes : nodes[i].open}
\* getBestNode: the first of the cheapest open nodes.
GetBestNode == CHOOSE i \in Open : \A j \in Open : nodes[i].f < nodes[j].f \/ (nodes[i].f = nodes[j].f /\ i <= j)

\* The chain of parents from a match back to the start, as the code pushes it.
PathOf(ns, i) ==
    LET Step(s, k) == IF ns[s.at].parent = 0 THEN s
                      ELSE [at |-> ns[s.at].parent,
                            dirs |-> Append(s.dirs, Offset(ns[s.at].pos, ns[ns[s.at].parent].pos))]
    IN  FoldLeft(Step, [at |-> i, dirs |-> <<>>], [k \in 1..Len(ns) |-> k]).dirs

(***************************************************************************)
(* The loop.                                                               *)
(***************************************************************************)
Goes == fpp.maxSearchDist # 0 \/ closedNodes < MaxClosed

Answer(i, ns) ==
    /\ result' = IF i = 0 THEN "none" ELSE "path"
    /\ dirList' = IF i = 0 THEN <<>> ELSE PathOf(ns, i)

Init ==
    /\ tiles \in {t \in [Positions -> Kinds \union {"free"}] : Cardinality({p \in Positions : t[p] # "free"}) <= MaxOdd}
    /\ from \in Starts /\ to \in Targets /\ fpp \in Params
    /\ nodes = <<[pos |-> from, f |-> 0, parent |-> 0, open |-> TRUE]>>
    /\ closedNodes = 0 /\ found = 0 /\ bestMatch = 0
    /\ result = "searching" /\ dirList = <<>>

\* The loop ends: too many closed nodes, or no open node.
GiveUp ==
    /\ result = "searching" /\ (~Goes \/ Open = {})
    /\ Answer(found, nodes)
    /\ UNCHANGED <<tiles, from, to, fpp, nodes, closedNodes, found, bestMatch>>

\* One iteration: test the best node, then look at its neighbours.
Expand ==
    /\ result = "searching" /\ Goes /\ Open # {}
    /\ LET i == GetBestNode
           m == Matches(nodes[i].pos, bestMatch)
           match == IF m.ok THEN i ELSE found
           s == FoldLeft(LAMBDA t, off : Visit(t, i, off), [ns |-> nodes, closed |-> closedNodes, full |-> FALSE], Neighbors(i))
       IN  /\ bestMatch' = m.best /\ found' = match
           /\ IF m.ok /\ m.best = 0 THEN Answer(i, nodes) /\ UNCHANGED <<nodes, closedNodes>>
              ELSE IF s.full /\ match = 0 THEN Answer(0, nodes) /\ nodes' = s.ns /\ UNCHANGED closedNodes
              ELSE /\ nodes' = [s.ns EXCEPT ![i].open = FALSE]
                   /\ closedNodes' = s.closed + 1
                   /\ UNCHANGED <<result, dirList>>
    /\ UNCHANGED call

Next == Expand \/ GiveUp

Spec == Init /\ [][Next]_vars /\ WF_vars(Next)

-----------------------------------------------------------------------------
(***************************************************************************)
(* The reference: what the cheapest walk to every tile costs, by           *)
(* relaxing every pair of neighbours as often as there are tiles.          *)
(***************************************************************************)
Far == 10000

Walkable == {p \in Positions : Allowed(p) /\ CanWalkTo(p)} \union {from}

Costs ==
    LET w == Walkable
        Via(t, p) == IF t[1] = p THEN t[2] ELSE t[2] + GetMapWalkCost(t[1], p) + GetTileWalkCost(p)
        Relax(c, k) == {<<p, Min({Via(t, p) : t \in {u \in c : Distance(u[1], p) <= 1}})>> : p \in w}
        costs == FoldLeft(Relax, {<<p, IF p = from THEN 0 ELSE Far>> : p \in w}, [k \in 1..Cardinality(w) |-> k])
    IN  [p \in w |-> (CHOOSE t \in costs : t[1] = p)[2]]

\* Where the caller may want to be, among the tiles that can be reached.
Wanted(c) == {p \in Walkable : /\ c[p] < Far /\ IsInRange(p)
                               /\ Distance(to, p) \in fpp.minTargetDist..fpp.maxTargetDist
                               /\ Distance(to, p) > 0 \/ fpp.maxTargetDist <= 1
                               /\ fpp.clearSight => IsSightClear(p, to)}

\* Of those, the ones nearest to the distance that was asked for.
Best(w) == {p \in w : \A q \in w : fpp.maxTargetDist > 1 => Distance(to, q) <= Distance(to, p)}

Walked == [k \in 0..Len(dirList) |-> FoldLeft(Add, from, SubSeq(Reverse(dirList), 1, k))]
PathCost(w) == FoldLeft(LAMBDA n, k : n + GetMapWalkCost(w[k - 1], w[k]) + GetTileWalkCost(w[k]),
                        0, [k \in 1..Len(dirList) |-> k])

TypeOK ==
    /\ tiles \in [Positions -> Kinds \union {"free"}]
    /\ \A k \in DOMAIN nodes : nodes[k].pos \in Positions /\ nodes[k].parent \in 0..Len(nodes)
    /\ found \in 0..Len(nodes) /\ result \in {"searching", "path", "none"}
    /\ Len(nodes) <= MAX_NODES

\* The search prunes the neighbours of a node by where its parent is and stops at the first exact match, yet what it returns is
\* a walk over free tiles to the best place there is, and no walk to such a
\* place is cheaper (a search that ran out of nodes or of closed nodes aside).
PathIsBest ==
    result = "path" =>
        LET c == Costs
            w == Wanted(c)
            walked == Walked
            last == walked[Len(dirList)]
        IN  /\ \A k \in DOMAIN walked : walked[k] \in Walkable
            /\ \A k \in 1..Len(dirList) : Distance(walked[k - 1], walked[k]) = 1
            /\ last \in w
            /\ (Len(nodes) < MAX_NODES /\ Goes) => (last \in Best(w) /\ \A p \in Best(w) : PathCost(walked) <= c[p])

\* getPathTo says no only when there is no way (or the nodes ran out): a
\* monster does not give up a target it could reach.
NoneMeansNone ==
    (result = "none" /\ Len(nodes) < MAX_NODES /\ Goes) => Wanted(Costs) = {}

\* The walk along a sight line makes progress in every turn of its loop and
\* keeps to the tiles next to the straight line, so it ends, and a wall away
\* from the line never blocks it.
SightLineIsStraight ==
    \A b \in Targets :
        LET l == Line(from, b)
            dev(p) == Abs((b[2] - from[2]) * (p[1] - b[1]) - (b[1] - from[1]) * (p[2] - b[2]))
        IN  /\ Last(l) = b
            /\ \A k \in 2..Len(l) : Distance(l[k - 1], l[k]) = 1
            /\ \A k \in DOMAIN l : dev(l[k]) <= Max({Abs(b[1] - from[1]), Abs(b[2] - from[2])})

PathsAgree ==
    /\ TypeOK /\ PathIsBest /\ NoneMeansNone
    /\ (Len(nodes) = 1 /\ \A p \in Positions : tiles[p] = "free") => SightLineIsStraight
=============================================================================
