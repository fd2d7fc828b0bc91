----------------------------- MODULE Inventory -----------------------------
(***************************************************************************)
(* What a player carries and what is paid with it: the inventory as a      *)
(* cylinder (src/src/player.cpp: the queries, getMoney, removeItemOfType,  *)
(* the notifications with updateInventoryWeight and updateSaleShopList),   *)
(* addMoney, removeMoney, internalPlayerAddItem and findItemOfType of      *)
(* src/src/game.cpp, and the calls of scripts and shopkeepers that use     *)
(* them.  A player carries a backpack with a bag that can be put down,     *)
(* perhaps a quiver, and slots that take any one item.  An item is a       *)
(* stack [type, n]; at[p] is the content of a place, front first.          *)
(***************************************************************************)
EXTENDS Integers, Sequences, FiniteSets, FiniteSetsExt, SequencesExt

CONSTANTS Slots,        \* slots that take any item, in order (after the backpack and the quiver)
          Sizes,        \* [backpack, quiver, bag |-> Container::capacity()]; quiver 0: none is worn
          Worth,        \* [coin type -> worth]: Items::currencyItems
          Goods,        \* the other types
          Stackable, Ammo, \* types that stack, types a quiver takes
          Weight,       \* [type -> weight of one]
          Capacity, StackMax,
          Sold,         \* types with a sell price in the shop's list
          Transforms,   \* pairs <<type, type it becomes>>
          Amounts, Portions,   \* sums of money and numbers of items of one call
          Held,         \* what the quiver holds at the start
          MaxMoney, MaxGoods   \* bounds: money and units of a type in the world

Coins == DOMAIN Worth
Types == Coins \cup Goods
Bag == "bag"
Plain == Range(Slots)
Containers == {"backpack", "quiver", Bag}

InventoryAssumption ==
  /\ Stackable \subseteq Types /\ Coins \subseteq Stackable /\ Ammo \subseteq Goods /\ Sold \subseteq Goods
  /\ Weight \in [Types \cup {Bag} -> Nat] /\ Worth \in [Coins -> Nat \ {0}]
  /\ StackMax \in Nat \ {0} /\ \E c \in Coins : Worth[c] = 1
  /\ Transforms \subseteq Goods \X Goods
  /\ Plain \cap Containers = {}

VARIABLES w,      \* [at, carried, floor, weight, trading, shown]: the player and the tile below
          purse,  \* money that came into the world and was not paid
          goods   \* [type -> units that came into the world and were not taken out]

vars == <<w, purse, goods>>

NothingShown == [money |-> 0, count |-> [t \in Sold |-> 0]]
Init == /\ w = [at |-> [p \in Plain \cup Containers |->
                          CASE p = "backpack" -> <<[type |-> Bag, n |-> 1]>> [] p = "quiver" -> Held [] OTHER -> <<>>],
                carried |-> TRUE,                     \* the bag is in the backpack
                floor |-> [t \in Types |-> 0],
                weight |-> Weight[Bag] + FoldLeft(LAMBDA s, x : s + Weight[x.type] * x.n, 0, Held),
                trading |-> FALSE, shown |-> NothingShown]
        /\ purse = 0
        /\ goods = [t \in Goods |-> FoldLeft(LAMBDA s, x : IF x.type = t THEN s + x.n ELSE s, 0, Held)]

-----------------------------------------------------------------------------
(* The places of an inventory in the order queryDestination() and the      *)
(* search for money meet them: the slots, then the containers, outer ones  *)
(* first; removeItemOfType() looks into a container when it meets its slot *)
Nested(s) == IF s.carried THEN <<Bag>> ELSE <<>>
Outer == IF Sizes.quiver = 0 THEN <<"backpack">> ELSE <<"backpack", "quiver">>
Breadth(s) == Slots \o Outer \o Nested(s)
Depth(s) == <<"backpack">> \o Nested(s) \o Tail(Outer) \o Slots

Entries(s, places) == FlattenSeq([i \in DOMAIN places |-> [k \in DOMAIN s.at[places[i]] |-> <<places[i], k>>]])
Stack(s, e) == s.at[e[1]][e[2]]
Total(s, F(_)) == FoldLeft(LAMBDA sum, e : sum + F(Stack(s, e)), 0, Entries(s, Breadth(s)))

(* Item::getWorth(), getMoney(), getItemTypeCount() *)
WorthOf(x) == IF x.type \in Coins THEN Worth[x.type] * x.n ELSE 0
GetMoney(s) == Total(s, WorthOf)
GetItemTypeCount(s, t) == Total(s, LAMBDA x : IF x.type = t THEN x.n ELSE 0)

(* updateInventoryWeight() *)
WeightOf(x) == Weight[x.type] * x.n
UpdateInventoryWeight(s) == [s EXCEPT !.weight = Total(s, WeightOf)]

(* sendSaleItemList(): the money and what is owned of each type the shop   *)
(* buys; getAllItemTypeCount() gives the same numbers for a large shop     *)
SendSaleItemList(s) == [s EXCEPT !.shown = [money |-> GetMoney(s), count |-> [t \in Sold |-> GetItemTypeCount(s, t)]]]

(* updateSaleShopList(): only for money and types on the list, or a        *)
(* container with one of them inside                                       *)
Concerns(s, t) == \/ t \in Coins \cup Sold
                  \/ t = Bag /\ \E k \in DOMAIN s.at[Bag] : s.at[Bag][k].type \in Coins \cup Sold
UpdateSaleShopList(s, t) == IF s.trading /\ Concerns(s, t) THEN SendSaleItemList(s) ELSE s

(* The notifications of the player when something comes in or goes: the    *)
(* list is brought up to date only if the other parent is not the player's *)
PostAddNotification(s, t) == UpdateSaleShopList(UpdateInventoryWeight(s), t)
PostRemoveNotification(s, t) == UpdateSaleShopList(UpdateInventoryWeight(s), t)
NotifiedOwn(s) == UpdateInventoryWeight(s)

-----------------------------------------------------------------------------
(* hasCapacity(), queryAdd() of a slot and of a container *)
FreeCapacity(s) == IF Capacity > s.weight THEN Capacity - s.weight ELSE 0
HasCapacity(s, t, n) == Weight[t] * n <= FreeCapacity(s)
Limit(t) == IF t \in Stackable THEN StackMax ELSE 1
Takes(p, t) == p = "quiver" => t \in Ammo
SizeOf(p) == IF p \in Plain THEN 1 ELSE Sizes[p]
Free(s, p) == SizeOf(p) - Len(s.at[p])
Partly(s, p, t) == {k \in DOMAIN s.at[p] : s.at[p][k].type = t /\ s.at[p][k].n < Limit(t)}

(* queryDestination(): the first place with a stack to join or with room *)
Suits(s, p, t) == Takes(p, t) /\ (Partly(s, p, t) # {} \/ Free(s, p) > 0)
QueryDestination(s, t) == SelectInSeq(Breadth(s), LAMBDA p : Suits(s, p, t))

(* queryMaxCount(INDEX_WHEREEVER): a container counts its free slots       *)
(* whether or not it takes the item                                        *)
RoomInSlot(s, p, t, n) ==
  IF s.at[p] = <<>> THEN (IF HasCapacity(s, t, n) THEN Limit(t) ELSE 0)
  ELSE LET x == s.at[p][1]
       IN  IF x.type = t /\ x.n < Limit(t) /\ HasCapacity(s, t, Limit(t) - x.n) THEN Limit(t) - x.n ELSE 0
RoomInContainer(s, p, t, n) ==
  Free(s, p) * Limit(t)
    + (IF HasCapacity(s, t, n) THEN MapThenSumSet(LAMBDA k : Limit(t) - s.at[p][k].n, Partly(s, p, t)) ELSE 0)
QueryMaxCount(s, t, n) ==
  FoldLeft(LAMBDA sum, p : sum + (IF p \in Plain THEN RoomInSlot(s, p, t, n) ELSE RoomInContainer(s, p, t, n)),
           0, Breadth(s))

-----------------------------------------------------------------------------
(* updateThing(), addThing() of the place, removeThing() *)
UpdateThing(s, p, k, n) == [s EXCEPT !.at[p][k].n = n]
AddThing(s, p, t, n) == [s EXCEPT !.at[p] = <<[type |-> t, n |-> n]>> \o @]
RemoveThing(s, p, k, n) == IF n = s.at[p][k].n THEN [s EXCEPT !.at[p] = RemoveAt(@, k)]
                           ELSE [s EXCEPT !.at[p][k].n = @ - n]

(* One call of internalAddItem() for the a.rest units still to be placed:  *)
(* it merges what fits into one stack and calls itself for the remainder.  *)
(* The remainder of the first call that finds no place is reported, that   *)
(* of a later one is dropped.                                              *)
Refused(a) ==
  LET i == QueryDestination(a.s, a.t)
  IN  i = 0 \/ ~HasCapacity(a.s, a.t, a.rest) \/ QueryMaxCount(a.s, a.t, a.rest) < a.rest
Placed(a) ==
  LET p == Breadth(a.s)[QueryDestination(a.s, a.t)]
      ks == Partly(a.s, p, a.t)
      k == Min(ks)
      m == Min({a.rest, Limit(a.t) - a.s.at[p][k].n})
  IN  IF ks = {} THEN [a EXCEPT !.s = PostAddNotification(AddThing(a.s, p, a.t, a.rest), a.t), !.rest = 0]
      ELSE IF m = a.rest
           THEN [a EXCEPT !.s = PostAddNotification(UpdateThing(a.s, p, k, a.s.at[p][k].n + m), a.t), !.rest = 0]
           ELSE [a EXCEPT !.s = UpdateThing(a.s, p, k, a.s.at[p][k].n + m), !.rest = @ - m, !.level = @ + 1]
AddStep(a, i) ==
  IF a.rest = 0 THEN a
  ELSE IF ~Refused(a) THEN Placed(a)
  ELSE IF a.level = 0 THEN [a EXCEPT !.ok = FALSE, !.rest = 0]
  ELSE [a EXCEPT !.left = IF a.level = 1 THEN a.rest ELSE 0, !.rest = 0]
Asked(s, t, n) == [s |-> s, t |-> t, n |-> n, rest |-> n, ok |-> TRUE, left |-> 0, level |-> 0]
Calls == [i \in 1..(StackMax + 1) |-> i]
InternalAddItem(s, t, n) == FoldLeft(AddStep, Asked(s, t, n), Calls)

(* internalAddItem() on the tile with FLAG_NOLIMIT *)
OnFloor(s, t, n) == [s EXCEPT !.floor[t] = @ + n]

(* internalPlayerAddItem(): the remainder is put on the tile, and all of   *)
(* it if it was refused and may be dropped.                                *)
WithFloor(a, dropOnMap) ==
  [a EXCEPT !.s = OnFloor(@, a.t, a.left + (IF a.ok \/ ~dropOnMap THEN 0 ELSE a.n)), !.ok = @ \/ dropOnMap]
PlayerStep(a, dropOnMap, i) == IF i <= StackMax THEN AddStep(a, i) ELSE WithFloor(AddStep(a, i), dropOnMap)
InternalPlayerAddItem(s, t, n, dropOnMap) == FoldLeft(LAMBDA a, i : PlayerStep(a, dropOnMap, i), Asked(s, t, n), Calls)

(* addMoney(): the largest coins first, in stacks; what the player cannot  *)
(* take falls on the tile                                                  *)
Currency == SetToSortSeq(Coins, LAMBDA a, b : Worth[a] > Worth[b])
Portion(t, n) == [i \in 1..((n + StackMax - 1) \div StackMax) |-> [type |-> t, n |-> Min({StackMax, n - (i - 1) * StackMax})]]
Change(money) ==
  FoldLeft(LAMBDA a, c : [left |-> a.left % Worth[c], coins |-> a.coins \o Portion(c, a.left \div Worth[c])],
           [left |-> money, coins |-> <<>>], Currency).coins
AddCoins(s, x) == LET a == InternalAddItem(s, x.type, x.n) IN IF a.ok THEN a.s ELSE OnFloor(a.s, x.type, x.n)
AddMoney(s, money) == FoldLeft(AddCoins, s, Change(money))

(* internalRemoveItem(): one entry is reduced or taken out *)
InternalRemoveItem(s, e, n) == LET t == Stack(s, e).type IN PostRemoveNotification(RemoveThing(s, e[1], e[2], n), t)
(* Where an entry is after others of its place were taken out, or put at   *)
(* the front.                                                              *)
Moved(e, before, after) == <<e[1], e[2] + Len(after.at[e[1]]) - Len(before.at[e[1]])>>

(* removeMoney(): the stacks of least worth go first; of the one that is   *)
(* worth more than what is left to pay only a part goes, and its change    *)
(* comes in before it is taken                                             *)
MoneyMap(s) ==
  LET found == SelectSeq(Entries(s, Breadth(s)), LAMBDA e : Stack(s, e).type \in Coins)
      order == SetToSortSeq(DOMAIN found, LAMBDA i, j :
                 LET a == WorthOf(Stack(s, found[i])) b == WorthOf(Stack(s, found[j])) IN a < b \/ (a = b /\ i < j))
  IN  [i \in DOMAIN order |-> found[order[i]]]
OnePaid(s, a, e) ==
  LET x == Stack(s, e) IN
  IF a.due = 0 \/ WorthOf(x) > a.due THEN [a EXCEPT !.last = IF a.due = 0 \/ @ # <<>> THEN @ ELSE e]
  ELSE [a EXCEPT !.due = @ - WorthOf(x), !.gone = @ \cup {e}]
CeilDiv(a, b) == (a + b - 1) \div b
WithChange(s, e, due) ==
  LET worth == Worth[Stack(s, e).type]
      count == CeilDiv(due, worth)
      richer == AddMoney(s, worth * count - due)
  IN  InternalRemoveItem(richer, Moved(e, s, richer), count)
NoChange(s, e, due) == InternalRemoveItem(s, e, CeilDiv(due, Worth[Stack(s, e).type]))  \* fault: no change
GiveBack(s, e, due) == WithChange(s, e, due)
Kept(s, p, gone) ==
  FoldLeftDomain(LAMBDA kept, k : IF <<p, k>> \in gone THEN kept ELSE Append(kept, s.at[p][k]), <<>>, s.at[p])
TakeAll(s, gone, t) ==
  IF gone = {} THEN s ELSE PostRemoveNotification([s EXCEPT !.at = [p \in DOMAIN s.at |-> Kept(s, p, gone)]], t)
RemoveMoney(s, money) ==
  LET a == FoldLeft(LAMBDA x, e : OnePaid(s, x, e), [due |-> money, gone |-> {}, last |-> <<>>], MoneyMap(s))
      paid == TakeAll(s, a.gone, Currency[1])
      before == {e \in a.gone : e[1] = a.last[1] /\ e[2] < a.last[2]}
  IN  IF a.due = 0 THEN paid ELSE GiveBack(paid, <<a.last[1], a.last[2] - Cardinality(before)>>, a.due)

(* removeItemOfType() with internalRemoveItems(): nothing happens unless   *)
(* there is enough                                                         *)
OfType(s, t, ignoreEquipped) ==
  SelectSeq(Entries(s, Depth(s)), LAMBDA e : Stack(s, e).type = t /\ (ignoreEquipped => e[1] \notin Plain))
SumTo(s, es, i) == FoldLeft(LAMBDA sum, e : sum + Stack(s, e).n, 0, SubSeq(es, 1, i))
RemoveItemOfType(s, t, amount, ignoreEquipped) ==
  LET es == OfType(s, t, ignoreEquipped)
      i == Min({j \in DOMAIN es : SumTo(s, es, j) >= amount})
      gone == Range(SubSeq(es, 1, i - 1))
      last == es[i]
      before == {e \in gone : e[1] = last[1] /\ e[2] < last[2]}
  IN  InternalRemoveItem(TakeAll(s, gone, t), <<last[1], last[2] - Cardinality(before)>>, amount - SumTo(s, es, i - 1))

(* findItemOfType() *)
FindItemOfType(s, t) ==
  LET es == Entries(s, Breadth(s)) i == SelectInSeq(es, LAMBDA e : Stack(s, e).type = t) IN IF i = 0 THEN <<>> ELSE es[i]

(* transformItem() within the inventory: both parents are the player's *)
TransformItem(s, e, t) == NotifiedOwn([s EXCEPT !.at[e[1]][e[2]].type = t])

-----------------------------------------------------------------------------
(* player:addMoney(), player:removeMoney() *)
GiveMoney(money) ==
  /\ purse + money <= MaxMoney
  /\ w' = AddMoney(w, money) /\ purse' = purse + money /\ UNCHANGED goods

Pay(money) ==
  /\ GetMoney(w) >= money
  /\ w' = RemoveMoney(w, money) /\ purse' = purse - money /\ UNCHANGED goods

(* player:addItem() and doSellItem(): stack after stack until one is       *)
(* refused; [s, ok, count] with the units delivered                        *)
Delivered(t, n, canDropOnMap) ==
  LET portions == IF t \in Stackable THEN Portion(t, n) ELSE [i \in 1..n |-> [type |-> t, n |-> 1]]
  IN  FoldLeft(LAMBDA a, x : IF ~a.ok THEN a
                             ELSE LET r == InternalPlayerAddItem(a.s, x.type, x.n, canDropOnMap)
                                  IN  [s |-> r.s, ok |-> r.ok, count |-> a.count + (IF r.ok THEN x.n ELSE 0)],
               [s |-> w, ok |-> TRUE, count |-> 0], portions)
DoSellItem(t, n, canDropOnMap) ==
  LET sold == Delivered(t, n, canDropOnMap)
  IN  /\ goods[t] + n <= MaxGoods
      /\ w' = sold.s /\ goods' = [goods EXCEPT ![t] = @ + sold.count] /\ UNCHANGED purse

(* player:addItemEx() of one item, with or without the floor below *)
AddItemEx(t, n, canDropOnMap) ==
  LET r == IF canDropOnMap THEN InternalPlayerAddItem(w, t, n, TRUE) ELSE InternalAddItem(w, t, n)
  IN  /\ n <= Limit(t) /\ goods[t] + n <= MaxGoods /\ r.ok
      /\ w' = r.s /\ goods' = [goods EXCEPT ![t] = @ + n] /\ UNCHANGED purse

(* player:removeItem() *)
RemoveItem(t, n, ignoreEquipped) ==
  /\ SumTo(w, OfType(w, t, ignoreEquipped), Len(OfType(w, t, ignoreEquipped))) >= n
  /\ w' = RemoveItemOfType(w, t, n, ignoreEquipped)
  /\ goods' = [goods EXCEPT ![t] = @ - n] /\ UNCHANGED purse

(* player:getItemById() and item:remove(1) or item:transform() *)
RemoveOne(t) ==
  LET e == FindItemOfType(w, t)
  IN  /\ e # <<>> /\ w' = InternalRemoveItem(w, e, 1)
      /\ goods' = [goods EXCEPT ![t] = @ - 1] /\ UNCHANGED purse
Transform(t, u) ==
  LET e == FindItemOfType(w, t) n == Stack(w, e).n
  IN  /\ e # <<>> /\ goods[u] + n <= MaxGoods
      /\ w' = TransformItem(w, e, u)
      /\ goods' = [goods EXCEPT ![t] = @ - n, ![u] = @ + n] /\ UNCHANGED purse

(* The bag with what is in it is put on the floor, and taken up into the   *)
(* backpack again.                                                         *)
BagWeight(s) == Weight[Bag] + FoldLeft(LAMBDA sum, x : sum + WeightOf(x), 0, s.at[Bag])
DropBag ==
  /\ w.carried
  /\ LET k == SelectInSeq(w.at["backpack"], LAMBDA x : x.type = Bag)
     IN  w' = PostRemoveNotification([RemoveThing(w, "backpack", k, 1) EXCEPT !.carried = FALSE], Bag)
  /\ UNCHANGED <<purse, goods>>
TakeBag ==
  /\ ~w.carried /\ Free(w, "backpack") > 0 /\ BagWeight(w) <= FreeCapacity(w)
  /\ w' = PostAddNotification([AddThing(w, "backpack", Bag, 1) EXCEPT !.carried = TRUE], Bag)
  /\ UNCHANGED <<purse, goods>>

(* openShopWindow(), closeShopWindow() *)
OpenShopWindow == w' = SendSaleItemList([w EXCEPT !.trading = TRUE]) /\ ~w.trading /\ UNCHANGED <<purse, goods>>
CloseShopWindow == w' = [w EXCEPT !.trading = FALSE, !.shown = NothingShown] /\ w.trading /\ UNCHANGED <<purse, goods>>

(* Somebody else takes what lies on the floor. *)
FloorTaken(t) ==
  /\ w.floor[t] > 0 /\ w' = [w EXCEPT !.floor[t] = 0]
  /\ purse' = purse - (IF t \in Coins THEN w.floor[t] * Worth[t] ELSE 0)
  /\ goods' = [g \in Goods |-> IF g = t THEN goods[g] - w.floor[t] ELSE goods[g]]

Next == \/ \E a \in Amounts : GiveMoney(a) \/ Pay(a)
        \/ \E t \in Goods, n \in Portions, b \in BOOLEAN : DoSellItem(t, n, b) \/ AddItemEx(t, n, b) \/ RemoveItem(t, n, b)
        \/ \E t \in Goods : RemoveOne(t)
        \/ \E x \in Transforms : Transform(x[1], x[2])
        \/ DropBag \/ TakeBag \/ OpenShopWindow \/ CloseShopWindow
        \/ \E t \in Types : FloorTaken(t)

Spec == Init /\ [][Next]_vars

-----------------------------------------------------------------------------
TypeOK == /\ \A p \in Plain \cup Containers : /\ Len(w.at[p]) <= (IF p \in Plain THEN 1 ELSE Sizes[p])
                                              /\ \A k \in DOMAIN w.at[p] : LET x == w.at[p][k] IN x.n \in 1..Limit(x.type)
          /\ w.weight \in Nat /\ purse \in 0..MaxMoney

Lying(t) == w.floor[t] + (IF w.carried THEN 0 ELSE FoldLeft(LAMBDA s, x : IF x.type = t THEN s + x.n ELSE s, 0, w.at[Bag]))

(* Money is neither made nor lost by payments and their change, however    *)
(* the coins lie and whether or not the change can be carried: what is     *)
(* carried and lies below is what came in less what was paid.              *)
MoneyConserved == MapThenSumSet(LAMBDA c : Worth[c] * (GetItemTypeCount(w, c) + Lying(c)), Coins) = purse

(* The same of every other type: a sale that is refused half way counts    *)
(* what it delivered, a removal takes all or nothing.                      *)
GoodsConserved == \A t \in Goods : GetItemTypeCount(w, t) + Lying(t) = goods[t]

(* inventoryWeight, which every capacity test reads, is the weight of what *)
(* is carried after every call.                                            *)
WeightIsTrue == w.weight = Total(w, WeightOf)

(* With a shop open the list last sent to the client shows what the player *)
(* has (updateSaleShopList is called for single items and containers).     *)
SaleListIsTrue == w.trading => w.shown = [money |-> GetMoney(w), count |-> [t \in Sold |-> GetItemTypeCount(w, t)]]
InventoryAgrees == TypeOK /\ MoneyConserved /\ GoodsConserved /\ WeightIsTrue /\ SaleListIsTrue
=============================================================================
