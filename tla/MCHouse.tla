------------------------------ MODULE MCHouse ------------------------------
(***************************************************************************)
(* What players own, what they are worth and what wears out, for TLC:      *)
(* House and Decay, which this module extends, Inventory and Growth, in    *)
(* instances that one run explores side by side: `part' is the one that    *)
(* moves.                                                                  *)
(*                                                                         *)
(* "access" is a house whose lists players and one of the staff write;     *)
(* "beds" are two houses, one with a bed, two players and a server that    *)
(* crashes: two bounds of one instance of House.  What decays: a corpse    *)
(* becomes bones and vanishes; a ring that is worn decays, one that is not *)
(* keeps its time; a lit helmet forgets it when it is taken off.  In       *)
(* "decaying" are two items without scripts, in "scripted" is one with     *)
(* them.  What is carried: coins of two worths with arrows that are sold   *)
(* and stack, or with a sword that becomes a blade; a backpack with a bag  *)
(* in it.  "growth" is a character.                                        *)
(***************************************************************************)
EXTENDS House, Decay, Sequences, TLC

CONSTANTS ann, bob, cid,  \* players
          hut, inn,       \* houses
          i1, i2,         \* items that decay
          None

VARIABLES part,
          w, purse, goods,                     \* Inventory
          grown, credit                        \* Growth

carriedVars == <<w, purse, goods>>
growthVars == <<grown, credit>>
suiteVars == <<part, houseVars, decayVars, carriedVars, growthVars>>

(* Part "access": no bed, no second house, no restart. *)
Stays(p) == at'[p] = Street /\ (p \in inGame' <=> ~restarted')
AccessOnly == /\ owner'[hut] = NoGuid
              /\ hut \notin {at'[p] : p \in Guids}
              /\ UNCHANGED <<beds, saved>> /\ ~restarted'

(* Part "beds": bob stays out of it, and one list is written, by cid. *)
BedsOnly == /\ Stays(bob)
            /\ \A h \in Houses : bob \notin {owner'[h], document'[h].buyer}
            /\ window'[cid] \in {NoWindow, <<inn, "guest">>} /\ window'[ann] = NoWindow

(* Part "scripted": one item. *)
DecayBounds == IF part = "decaying" THEN scripted' = {} ELSE UNCHANGED game[i2]

Bounds == /\ part = "access" => AccessOnly
          /\ part = "beds" => BedsOnly

MCDecayTime == "corpse" :> 8 @@ "bones" :> 4 @@ "worn" :> 8 @@ "ring" :> 0 @@ "lit" :> 4 @@ "helmet" :> 0
MCItemIds == DOMAIN MCDecayTime
MCDecayTo == "corpse" :> "bones" @@ "lit" :> "helmet" @@ [t \in MCItemIds |-> None]
MCStopTime == [t \in MCItemIds |-> t = "ring"]
MCEquipTo == {<<"ring", "worn">>, <<"worn", "ring">>, <<"lit", "helmet">>}

Archer == INSTANCE Inventory WITH Slots <- <<"ammo">>, Sizes <- [backpack |-> 2, quiver |-> 0, bag |-> 1],
            Worth <- [gold |-> 1, plat |-> 3], Goods <- {"arrow"}, Stackable <- {"gold", "plat", "arrow"},
            Ammo <- {"arrow"}, Weight <- [gold |-> 1, plat |-> 1, arrow |-> 1, bag |-> 1],
            Capacity <- 5, StackMax <- 3, Sold <- {"arrow"}, Transforms <- {},
            Amounts <- {2, 4}, Portions <- {2}, Held <- <<>>, MaxMoney <- 8, MaxGoods <- 2
Fencer == INSTANCE Inventory WITH Slots <- <<"ammo">>, Sizes <- [backpack |-> 2, quiver |-> 0, bag |-> 1],
            Worth <- [gold |-> 1, plat |-> 3], Goods <- {"sword", "blade"}, Stackable <- {"gold", "plat"},
            Ammo <- {}, Weight <- [gold |-> 1, plat |-> 1, sword |-> 2, blade |-> 1, bag |-> 1],
            Capacity <- 7, StackMax <- 3, Sold <- {}, Transforms <- {<<"sword", "blade">>},
            Amounts <- {2, 5}, Portions <- {1}, Held <- <<>>, MaxMoney <- 5, MaxGoods <- 2

(* A quiver of one place beside the backpack: change may be lost. *)
Quivered == INSTANCE Inventory WITH Slots <- <<"ammo">>, Sizes <- [backpack |-> 2, quiver |-> 1, bag |-> 1],
              Worth <- [gold |-> 1, plat |-> 3], Goods <- {"arrow"}, Stackable <- {"gold", "plat", "arrow"},
              Ammo <- {"arrow"}, Weight <- [gold |-> 1, plat |-> 1, arrow |-> 1, bag |-> 1],
              Capacity <- 8, StackMax <- 3, Sold <- {"arrow"}, Transforms <- {},
              Amounts <- {2, 4}, Portions <- {2}, Held <- <<>>, MaxMoney <- 8, MaxGoods <- 2

(* Counters of 32 values, experience and tries in small units. *)
Growing == INSTANCE Growth WITH p <- grown, ExpUnit <- 2, SkillBase <- 2, SkillMultiplier <- 2, ManaBase <- 1,
             ManaMultiplier <- 2, Cap <- 4, Word <- 32, Half <- 16, Gift <- 1, HPGain <- 2, BaseHealth <- 3,
             DEATH_LOSE_PERCENT <- 50, MaxLevel <- 3, Gains <- {1, 9}, Losses <- {1, 7}

ASSUME /\ HouseAssumption
       /\ DecayAssumption
       /\ Archer!InventoryAssumption /\ Fencer!InventoryAssumption /\ Quivered!InventoryAssumption
       /\ Growing!GrowthAssumption

NoGrowth == grown = None /\ credit = None
NothingCarried == w = None /\ purse = None /\ goods = None

SuiteInit ==
  /\ HouseInit /\ DecayInit
  /\ \/ part \in {"access", "beds", "decaying", "scripted"} /\ NothingCarried /\ NoGrowth
     \/ part = "archer" /\ Archer!Init /\ NoGrowth
     \/ part = "fencer" /\ Fencer!Init /\ NoGrowth
     \/ part = "growth" /\ Growing!Init /\ NothingCarried
SuiteNext ==
  \/ part \in {"access", "beds"} /\ HouseNext /\ Bounds /\ UNCHANGED <<part, decayVars, carriedVars, growthVars>>
  \/ /\ part \in {"decaying", "scripted"} /\ DecayNext /\ DecayBounds
     /\ UNCHANGED <<part, houseVars, carriedVars, growthVars>>
  \/ part = "archer" /\ Archer!Next /\ UNCHANGED <<part, houseVars, decayVars, growthVars>>
  \/ part = "fencer" /\ Fencer!Next /\ UNCHANGED <<part, houseVars, decayVars, growthVars>>
  \/ part = "growth" /\ Growing!Next /\ UNCHANGED <<part, houseVars, decayVars, carriedVars>>
SuiteSpec == SuiteInit /\ [][SuiteNext]_suiteVars

QuiverInit == part = "quiver" /\ Quivered!Init /\ HouseInit /\ DecayInit /\ NoGrowth
QuiverNext == Quivered!Next /\ UNCHANGED <<part, houseVars, decayVars, growthVars>>
QuiverSpec == QuiverInit /\ [][QuiverNext]_suiteVars
-----------------------------------------------------------------------------
(* Adding, removing, paying, changing and selling keep what a player has:  *)
(* no coin and no good is lost or made, although an amount is taken from   *)
(* and put into several stacks and containers; the cached weight is that   *)
(* of what is carried; the list of what a shop buys is what he carries.    *)
InventoryAgrees == /\ part = "archer" => Archer!InventoryAgrees
                   /\ part = "fencer" => Fencer!InventoryAgrees

(* What a player carries and what lies about is worth what he was given,  *)
(* less what he paid: the change that does not fit is put on the ground.   *)
MoneyConserved == Quivered!MoneyConserved

(* Level and maximum health are those that the experience deserves; what   *)
(* levels, skill and magic level are worth with the rest is what was given *)
(* less what was taken, through gains over several levels, advances inside *)
(* advances, losses and deaths; the bars show the part that is done.       *)
GrowthAgrees == part = "growth" => Growing!GrowthAgrees
=============================================================================
