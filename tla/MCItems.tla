------------------------------ MODULE MCItems ------------------------------
(***************************************************************************)
(* What is moved and exchanged, for TLC: Trade, which this module extends, *)
(* and Items.  They have no state in common here, so that one run explores *)
(* them side by side: `part' is the one that moves.                        *)
(***************************************************************************)
EXTENDS Trade, TLC

CONSTANTS a1, a2, a3, pack, bag, gem,   \* three that trade, and their things
          b1, b2, b3,   \* containers
          s1, s2, s3,   \* stacks
          Tile, None

VARIABLES part, world, supply

itemVars == <<world, supply>>
allVars == <<part, vars, itemVars>>

(* a1 wears the pack with the bag in it; the gem lies on the ground. *)
MCInitialParent == pack :> <<a1, "back">> @@ bag :> pack @@ gem :> Ground

Moving == INSTANCE Items WITH Bags <- {b1, b2, b3}, Stacks <- {s1, s2, s3}, NoCylinder <- None,
            BagCapacity <- 2, StackMax <- 3, MaxUnits <- 7

ASSUME Moving!ItemsAssumption

SuiteInit == /\ Init
             /\ \/ part = "trade" /\ world = None /\ supply = None
                \/ part = "moving" /\ Moving!Init

SuiteNext == \/ part = "trade" /\ Next /\ UNCHANGED <<part, itemVars>>
             \/ part = "moving" /\ Moving!Next /\ UNCHANGED <<part, vars>>

SuiteSpec == SuiteInit /\ [][SuiteNext]_allVars

Symmetry == UNION {Permutations({b1, b2, b3}), Permutations({s1, s2, s3}), Permutations({a2, a3})}
-----------------------------------------------------------------------------
(* The items are a tree, whatever internalMoveItem() moved, split and      *)
(* merged: an item is once in the list of its parent and in no other, the  *)
(* parents lead to the tile (getTopParent() returns), no container holds   *)
(* more than its slots although queryAdd() lets an item in on an index     *)
(* without looking at the size, the cached totalWeight and ammoCount are   *)
(* the sums over the contents, at every depth, and no unit of a stack is   *)
(* duplicated or lost.                                                     *)
ItemsAgree == part = "moving" => /\ Moving!TypeOK
                                 /\ Moving!ParentsAgree
                                 /\ Moving!ReachesTile
                                 /\ Moving!WithinCapacity
                                 /\ Moving!CachesAreSums
                                 /\ Moving!UnitsConserved
=============================================================================
