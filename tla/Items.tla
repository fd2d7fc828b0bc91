------------------------------- MODULE Items -------------------------------
(***************************************************************************)
(* Items in containers and on a tile: Game::internalMoveItem,              *)
(* internalAddItem and internalRemoveItem of src/src/game.cpp with the     *)
(* cylinder operations of src/src/container.cpp and src/src/tile.cpp that  *)
(* they call.  Items are containers or stackable; moves that the code      *)
(* refuses leave everything as it is and are not steps.                    *)
(***************************************************************************)
EXTENDS Integers, Sequences, FiniteSets, FiniteSetsExt, SequencesExt

CONSTANTS Bags,          \* containers
          Stacks,        \* the Item objects of stackable items, all of one id
          Tile, NoCylinder,
          BagCapacity,   \* Container::capacity()
          StackMax,      \* 100
          MaxUnits       \* bound: units in the world

ItemsAssumption ==
  /\ Bags \cap Stacks = {} /\ Tile \notin Bags \cup Stacks /\ NoCylinder \notin Bags \cup Stacks \cup {Tile}
  /\ IsFiniteSet(Bags) /\ BagCapacity \in Nat \ {0} /\ StackMax \in Nat \ {0} /\ MaxUnits \in Nat

Objects == Bags \cup Stacks
Cylinders == Bags \cup {Tile}

VARIABLES
  world,    \* [parent, list, count, total, ammo] of the items and containers
  supply    \* units that came into the world and have not been taken out

vars == <<world, supply>>

Init == /\ world = [parent |-> [i \in Objects |-> NoCylinder],
                    list |-> [c \in Cylinders |-> <<>>],
                    count |-> [s \in Stacks |-> 0],
                    total |-> [b \in Bags |-> 0],
                    ammo |-> [b \in Bags |-> 0]]
        /\ supply = 0

Exists(w, i) == w.parent[i] # NoCylinder
Fresh(w) == {s \in Stacks : ~Exists(w, s)}
Least(a, b) == IF a < b THEN a ELSE b

-----------------------------------------------------------------------------
(* Container::getWeight(), Item::getWeight() with unit weights, and        *)
(* getItemCount()                                                          *)
WeightOf(w, i) == IF i \in Bags THEN 1 + w.total[i] ELSE w.count[i]
CountOf(w, i) == IF i \in Bags THEN 1 ELSE w.count[i]

(* A container and those it is in, up to the tile. *)
Chain(w, c) ==
  LET up[n \in 0..Cardinality(Bags)] ==
        IF n = 0 THEN {c} \cap Bags ELSE up[n - 1] \cup ({w.parent[b] : b \in up[n - 1]} \cap Bags)
  IN  up[Cardinality(Bags)]

(* updateItemWeight(): this container and every one around it. *)
UpdateItemWeight(w, c, diff) == [b \in Bags |-> IF b \in Chain(w, c) THEN w.total[b] + diff ELSE w.total[b]]

UpdateAmmo(w, c, diff) == [b \in Bags |-> IF b = c THEN w.ammo[b] + diff ELSE w.ammo[b]]

(* addThing() *)
AddThing(w, c, i) ==
  [w EXCEPT !.parent[i] = c,
            !.list[c] = <<i>> \o @,
            !.total = UpdateItemWeight(w, c, WeightOf(w, i)),
            !.ammo = UpdateAmmo(w, c, CountOf(w, i))]

(* updateThing(): a stack gets another count. *)
UpdateThing(w, c, i, n) ==
  [w EXCEPT !.count[i] = n,
            !.total = UpdateItemWeight(w, c, n - w.count[i]),
            !.ammo = UpdateAmmo(w, c, n - w.count[i])]

(* removeThing(): a part of a stack, or the item as a whole. *)
TakenOut(w, c, i) == SelectSeq(w.list[c], LAMBDA j : j # i)

RemoveThing(w, c, i, n) ==
  IF i \in Stacks /\ n # w.count[i] THEN UpdateThing(w, c, i, w.count[i] - n)
  ELSE [w EXCEPT !.parent[i] = NoCylinder,
                 !.list[c] = TakenOut(w, c, i),
                 !.total = UpdateItemWeight(w, c, -WeightOf(w, i)),
                 !.ammo = UpdateAmmo(w, c, -CountOf(w, i))]

-----------------------------------------------------------------------------
(* queryDestination(): where an item dropped at an index ends up.          *)

Partial(w, c, i) == {k \in DOMAIN w.list[c] : /\ w.list[c][k] # i /\ w.list[c][k] \in Stacks
                                              /\ w.count[w.list[c][k]] < StackMax}
ItemAt(w, c, k) == IF k \in DOMAIN w.list[c] THEN w.list[c][k] ELSE NoCylinder

Up == -2            \* index 254, "move up"
Wherever == -1      \* index 255, and INDEX_WHEREEVER

(* The cylinder: a container at the index, or the one around. *)
DestinationCylinder(w, c, k) ==
  IF c = Tile THEN Tile
  ELSE IF k = Up THEN (IF w.parent[c] \in Bags THEN w.parent[c] ELSE c)
  ELSE IF ItemAt(w, c, k) \in Bags THEN ItemAt(w, c, k) ELSE c

(* The item to stack with and its index, in the cylinder c that was found. *)
CanStackWith(w, c, i, k) == i \in Stacks /\ k \in Partial(w, c, i)
DestinationIndex(w, c, i, k) ==
  IF c = Tile THEN Wherever
  ELSE IF i \in Stacks /\ w.parent[i] # c /\ ~CanStackWith(w, c, i, k) /\ Partial(w, c, i) # {}
  THEN Min(Partial(w, c, i))
  ELSE k
DestinationItem(w, c, k) == IF c = Tile THEN ItemAt(w, c, 1) ELSE ItemAt(w, c, k)

-----------------------------------------------------------------------------
(* queryAdd(), queryMaxCount(), queryRemove() *)

NotInside(w, c, i) == i \notin Chain(w, c)

IsFull(w, c) == Len(w.list[c]) >= BagCapacity

QueryAdd(w, c, i, k) ==
  c = Tile \/ (NotInside(w, c, i) /\ ~(k = Wherever /\ IsFull(w, c)))

FreeSlots(w, c) == BagCapacity - Len(w.list[c])
Room(w, c, i, k) == IF k \in Partial(w, c, i) THEN StackMax - w.count[w.list[c][k]] ELSE 0

QueryMaxCount(w, c, i, k, n) ==
  IF c = Tile THEN n
  ELSE IF i \in Bags THEN FreeSlots(w, c)
  ELSE FreeSlots(w, c) * StackMax
       + (IF k = Wherever THEN MapThenSumSet(LAMBDA j : Room(w, c, i, j), Partial(w, c, i))
          ELSE Room(w, c, i, k))

(* How many units the item there takes. *)
Merged(w, target, m) == Least(StackMax - w.count[target], m)

(* What is left is added as an item of its own. *)
LeftAsWell(m, n) == m                              \* fault: the merged units again
LeftOver(m, n) == m - n

(* internalMoveItem(): count units of item i to index k of cylinder c.     *)
Stacked(w, c, target, n) == UpdateThing(w, c, target, w.count[target] + n)

MoveStack(w, from, c, i, m, target) ==
  LET n == IF target \in Stacks THEN Merged(w, target, m) ELSE 0
      taken == RemoveThing(w, from, i, m)
      merged == IF n > 0 THEN Stacked(taken, c, target, n) ELSE taken
  IN  IF LeftOver(m, n) = 0
      THEN {IF Exists(merged, i) THEN merged ELSE [merged EXCEPT !.count[i] = 0]}
      ELSE {AddThing([merged EXCEPT !.count[s] = LeftOver(m, n)], c, s) :
              s \in IF Exists(merged, i) THEN Fresh(merged) ELSE {i}}

InternalMoveItem(w, to, i, k0, count) ==
  LET c == DestinationCylinder(w, to, k0)
      hop == IF c = to /\ k0 \in 1..BagCapacity THEN k0 ELSE Wherever
      k == DestinationIndex(w, c, i, hop)
      target == DestinationItem(w, c, k)
      m == IF i \in Stacks THEN Least(count, QueryMaxCount(w, c, i, k, count))
           ELSE QueryMaxCount(w, c, i, k, count)
      from == w.parent[i]
  IN  IF target = i \/ ~QueryAdd(w, c, i, k) \/ m = 0 THEN {}
      ELSE IF i \in Stacks THEN MoveStack(w, from, c, i, m, target)
      ELSE {AddThing(RemoveThing(w, from, i, m), c, i)}

MoveItem(i, to, k, count) ==
  /\ Exists(world, i) /\ (to \in Bags => Exists(world, to))
  /\ count \in 1..CountOf(world, i)
  /\ world' \in InternalMoveItem(world, to, i, k, count)
  /\ supply' = supply

(* internalAddItem(): a new item.  A stack fills those that are there, on  *)
(* a tile only the topmost, and the rest is an item of its own.            *)
Filled(w, c) == IF c = Tile THEN {1} \cap Partial(w, c, NoCylinder) ELSE Partial(w, c, NoCylinder)
RoomIn(w, c, ks) == MapThenSumSet(LAMBDA k : Room(w, c, NoCylinder, k), ks)
Share(w, c, n, k) == Least(Room(w, c, NoCylinder, k),
                           Max({0, n - RoomIn(w, c, {j \in Filled(w, c) : j < k})}))

FillStacks(w, c, n) ==
  LET got == Least(n, RoomIn(w, c, Filled(w, c)))
  IN  [w EXCEPT !.count = [s \in Stacks |->
                   IF \E k \in Filled(w, c) : w.list[c][k] = s
                   THEN w.count[s] + Share(w, c, n, CHOOSE k \in Filled(w, c) : w.list[c][k] = s)
                   ELSE w.count[s]],
                !.total = UpdateItemWeight(w, c, got),
                !.ammo = UpdateAmmo(w, c, got)]

AddStack(c, n) ==
  /\ supply + n <= MaxUnits
  /\ c = Tile \/ n <= FreeSlots(world, c) * StackMax + RoomIn(world, c, Filled(world, c))
  /\ LET rest == n - Least(n, RoomIn(world, c, Filled(world, c)))
         filled == FillStacks(world, c, n)
     IN  IF rest = 0 THEN world' = filled
         ELSE \E s \in Fresh(filled) : world' = AddThing([filled EXCEPT !.count[s] = rest], c, s)
  /\ supply' = supply + n

AddBag(b, c) ==
  /\ ~Exists(world, b)
  /\ QueryAdd(world, c, b, Wherever)
  /\ world' = AddThing(world, c, b)
  /\ supply' = supply

AddItem(c) ==
  /\ c \in Bags => Exists(world, c)
  /\ (\E n \in 1..StackMax : AddStack(c, n)) \/ (\E b \in Bags : AddBag(b, c))

(* internalRemoveItem(); a container is released with what is in it. *)
Within(w, i) == {j \in Objects : Exists(w, j) /\ i \in Chain(w, w.parent[j])}
Released(w, i) ==
  LET gone == Within(w, i) \cup {i}
  IN  [w EXCEPT !.parent = [j \in Objects |-> IF j \in gone THEN NoCylinder ELSE w.parent[j]],
                !.list = [c \in Cylinders |-> IF c \in gone THEN <<>> ELSE w.list[c]],
                !.count = [s \in Stacks |-> IF s \in gone THEN 0 ELSE w.count[s]],
                !.total = [b \in Bags |-> IF b \in gone THEN 0 ELSE w.total[b]],
                !.ammo = [b \in Bags |-> IF b \in gone THEN 0 ELSE w.ammo[b]]]

UnitsIn(w, set) == MapThenSumSet(LAMBDA s : w.count[s], set \cap Stacks)

RemoveItem(i, n) ==
  /\ Exists(world, i) /\ n \in 1..CountOf(world, i)
  /\ LET removed == RemoveThing(world, world.parent[i], i, n)
     IN  world' = IF Exists(removed, i) THEN removed ELSE Released(removed, i)
  /\ supply' = supply - (IF i \in Stacks THEN n ELSE UnitsIn(world, Within(world, i)))

Indexes == (1..BagCapacity) \cup {Up, Wherever}
Next == \/ \E c \in Cylinders : AddItem(c)
        \/ \E i \in Objects, n \in 1..StackMax : RemoveItem(i, n)
        \/ \E i \in Objects, c \in Cylinders, k \in Indexes, n \in 1..StackMax : MoveItem(i, c, k, n)

Spec == Init /\ [][Next]_vars
-----------------------------------------------------------------------------
(* Type invariant: what exists has a parent and a count within a stack. *)
TypeOK ==
  /\ world.parent \in [Objects -> Cylinders \cup {NoCylinder}]
  /\ world.list \in [Cylinders -> Seq(Objects)]
  /\ world.count \in [Stacks -> 0..StackMax]
  /\ \A s \in Stacks : Exists(world, s) <=> world.count[s] > 0
  /\ world.total \in [Bags -> Nat] /\ world.ammo \in [Bags -> Nat]
  /\ supply \in 0..MaxUnits

(* Item::parent and the lists agree: an item is once in the list of its    *)
(* parent and in no other list, whatever was moved, split and merged.      *)
ParentsAgree ==
  \A c \in Cylinders :
    /\ \A k, l \in DOMAIN world.list[c] : k # l => world.list[c][k] # world.list[c][l]
    /\ ToSet(world.list[c]) = {i \in Objects : world.parent[i] = c}

(* No container ends up inside itself: from every item the parents lead to *)
(* the tile.  Otherwise getTopParent() never returns.                      *)
ReachesTile ==
  \A i \in Objects : Exists(world, i) =>
    \E c \in Chain(world, world.parent[i]) \cup {world.parent[i]} : c = Tile \/ world.parent[c] = Tile

(* No container holds more items than it has slots, although an item that  *)
(* is dropped on an index is let in without looking at the size.           *)
WithinCapacity == \A b \in Bags : Len(world.list[b]) <= BagCapacity

(* The cached totalWeight and ammoCount are those of the contents.         *)
CachesAreSums ==
  \A b \in Bags : Exists(world, b) =>
    /\ world.total[b] = MapThenSumSet(LAMBDA i : WeightOf(world, i), ToSet(world.list[b]))
    /\ world.ammo[b] = MapThenSumSet(LAMBDA i : CountOf(world, i), ToSet(world.list[b]))

(* Nothing is duplicated or lost: the units in the world are those that    *)
(* were added and not removed.                                             *)
UnitsConserved == UnitsIn(world, Objects) = supply
=============================================================================
