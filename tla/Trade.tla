------------------------------- MODULE Trade -------------------------------
(***************************************************************************)
(* Trades between players: Game::playerRequestTrade, internalStartTrade,   *)
(* playerAcceptTrade and internalCloseTrade of src/src/game.cpp, with the  *)
(* callbacks of src/src/player.cpp that cancel a trade when an item moves, *)
(* a player walks or logs out.  All of it runs in the dispatcher thread,   *)
(* one handler at a time; what can go wrong is the sequence of handlers.   *)
(*                                                                         *)
(* Items are unstackable.  Containers nest.  A player wears a container on *)
(* the back and holds anything in the hand (classicEquipmentSlots); other  *)
(* slots, weight and stacking are left out.  All of the map is two places; *)
(* what lies on the ground lies "here".                                    *)
(***************************************************************************)
EXTENDS Naturals, FiniteSets

CONSTANTS Players, Items,
          Containers,   \* the items that are containers
          Capacity,     \* Container::maxSize
          MaxObjects,   \* objects that one offer may have (100 in the code)
          Ground,       \* parent of an item that lies on a tile
          Nowhere,      \* parent of an item that was removed
          NoItem, NoPlayer,   \* nullptr
          InitialParent \* where the items are at first

Places == {"here", "away"}
Slots == Players \X {"back", "hand"}
Parents == Containers \cup Slots \cup {Ground, Nowhere}
TradeStates == {"none", "initiated", "accept", "acknowledge"}

ASSUME TradeAssumption ==
  /\ Containers \subseteq Items
  /\ IsFiniteSet(Items)
  /\ Capacity \in Nat /\ MaxObjects \in Nat
  /\ NoItem \notin Items /\ NoPlayer \notin Players
  /\ Ground # Nowhere /\ {Ground, Nowhere} \cap (Items \cup Slots) = {} /\ Slots \cap Items = {}
  /\ InitialParent \in [Items -> Parents]

VARIABLES
  online,       \* the players that getPlayerByID() finds
  place,        \* where each player is
  parent,       \* Item::parent
  tradeState,   \* Player::tradeState; TRADE_TRANSFER only exists within playerAcceptTrade()
  tradePartner, \* Player::tradePartner
  tradeItem,    \* Player::tradeItem
  tradeItems,   \* Game::tradeItems, a set of pairs <<item, player>>
  crashed       \* has a null pointer been dereferenced?

trade == <<tradeState, tradePartner, tradeItem, tradeItems>>
vars == <<online, place, parent, trade, crashed>>

Init == /\ online = Players
        /\ place = [p \in Players |-> "here"]
        /\ parent = InitialParent
        /\ tradeState = [p \in Players |-> "none"]
        /\ tradePartner = [p \in Players |-> NoPlayer]
        /\ tradeItem = [p \in Players |-> NoItem]
        /\ tradeItems = {}
        /\ crashed = FALSE

-----------------------------------------------------------------------------
(* Where things are.                                                       *)

(* The parents of i, from the nearest to the one that is not an item. *)
Ancestors(par, i) ==
  LET N == Cardinality(Items)
      up[n \in 0..N] == IF n = 0 THEN i
                        ELSE IF up[n - 1] \in Items THEN par[up[n - 1]] ELSE up[n - 1]
  IN  {up[n] : n \in 1..N}

(* Container::isHoldingItem() *)
IsHoldingItem(par, c, i) == c \in Ancestors(par, i)

Contents(par, c) == {i \in Items : par[i] = c}
HoldingCount(par, c) == Cardinality({i \in Items : IsHoldingItem(par, c, i)})

(* The items are a forest, containers hold what they have room for, and a  *)
(* slot one item: the world that the map and the players' saves are loaded *)
(* into.                                                                   *)
NothingInItself(par) == \A i \in Items : ~IsHoldingItem(par, i, i)
NothingOverfull(par) == \A c \in Containers : Cardinality(Contents(par, c)) <= Capacity
SlotsHoldOne(par) == \A i, j \in Items : par[i] \in Slots /\ par[i] = par[j] => i = j

IsWorld(par) == NothingInItself(par) /\ NothingOverfull(par) /\ SlotsHoldOne(par)

ASSUME WorldAssumption == IsWorld(InitialParent)

Root(par, i) == CHOOSE r \in Ancestors(par, i) : r \notin Items

(* Can player p see, open and take item i? *)
Reaches(p, i) == LET r == Root(parent, i)
                 IN  IF r = Ground THEN place[p] = "here" ELSE r \in Slots /\ r[1] = p

(* The players that see what happens in container c. *)
Spectators(c) == LET r == Root(parent, c)
                 IN  {p \in online : place[p] = IF r \in Slots THEN place[r[1]] ELSE "here"}

(* Player::queryAdd() for a slot, Container::queryAdd() *)
SlotAccepts(par, s, i) == Contents(par, s) = {} /\ (s[2] = "back" => i \in Containers)
ContainerAccepts(par, c, i) ==
  /\ c # i /\ ~IsHoldingItem(par, i, c)
  /\ Cardinality(Contents(par, c)) < Capacity

-----------------------------------------------------------------------------
(* internalCloseTrade() for every player of the set `who'. *)

Released(who) == who \cup ({tradePartner[p] : p \in who} \ {NoPlayer})

(* tradeItems.erase(it) *)
KeepsRegistered(closed) == tradeItems                       \* fault: no erase
Unregistered(closed) == {t \in tradeItems : t[1] \notin {tradeItem[p] : p \in closed}}

(* setTradeState(TRADE_NONE) *)
StateAfterTrade == "none"

CloseTrades(who) ==
  LET closed == Released(who)
  IN  /\ tradeState' = [p \in Players |-> IF p \in closed THEN StateAfterTrade ELSE tradeState[p]]
      /\ tradePartner' = [p \in Players |-> IF p \in closed THEN NoPlayer ELSE tradePartner[p]]
      /\ tradeItem' = [p \in Players |-> IF p \in closed THEN NoItem ELSE tradeItem[p]]
      /\ tradeItems' = Unregistered(closed)

(* playerCloseTrade() *)
PlayerCloseTrade(p) ==
  /\ p \in online
  /\ CloseTrades({p})
  /\ UNCHANGED <<online, place, parent, crashed>>

-----------------------------------------------------------------------------
(* "This item is already being traded." *)
BeingTraded(i) == \E t \in tradeItems : \/ t[1] = i
                                        \/ IsHoldingItem(parent, i, t[1])
                                        \/ IsHoldingItem(parent, t[1], i)

(* "You are already trading", "This player is already trading" *)
AlreadyTrading(p, q) == /\ tradeState[p] # "none"
                        /\ ~(tradeState[p] = "acknowledge" /\ tradePartner[p] = q)
PartnerTrading(p, q) == tradeState[q] # "none" /\ tradePartner[q] # p

(* internalStartTrade() *)
InternalStartTrade(p, q, i) ==
  LET first == tradeState[q] = "none"
  IN  /\ ~AlreadyTrading(p, q)
      /\ ~PartnerTrading(p, q)
      /\ tradeState' = [tradeState EXCEPT ![p] = "initiated", ![q] = IF first THEN "acknowledge" ELSE @]
      /\ tradePartner' = [tradePartner EXCEPT ![p] = q, ![q] = IF first THEN p ELSE @]
      /\ tradeItem' = [tradeItem EXCEPT ![p] = i]
      /\ tradeItems' = {t \in tradeItems : t[1] # i} \cup {<<i, p>>}

(* "Select a player to trade with", out of reach *)
CanTradeWith(p, q) == p # q /\ place[p] = place[q]

(* playerRequestTrade(); whatever it refuses changes nothing. *)
PlayerRequestTrade(p, q, i) ==
  /\ p \in online /\ q \in online
  /\ CanTradeWith(p, q)
  /\ Reaches(p, i)
  /\ ~BeingTraded(i)
  /\ HoldingCount(parent, i) + 1 <= MaxObjects
  /\ InternalStartTrade(p, q, i)
  /\ UNCHANGED <<online, place, parent, crashed>>

-----------------------------------------------------------------------------
(* playerAcceptTrade() *)

(* Player::queryDestination() for an unstackable item: an empty slot, else *)
(* a container with room.  The code takes the first in breadth first       *)
(* order, here it may be any.  It does not look into the offered item of   *)
(* the player when that is worn; it does when it is in a container.        *)
Destinations(par, p, i) ==
  LET slots == {s \in {p} \X {"back", "hand"} : SlotAccepts(par, s, i)}
      worn  == {c \in Containers \ {tradeItem[p], i} : par[c] \in {p} \X {"back", "hand"}}
      inner == {c \in Containers : c \in worn \/ Ancestors(par, c) \cap worn # {}}
      room  == {c \in inner : ContainerAccepts(par, c, i)}
  IN  IF slots # {} THEN slots ELSE room

(* if (tradeItem) ... in internalMoveItem(): not into the counter-offer *)
Anywhere(par, to, counter) == TRUE                          \* fault: test missing
OutsideCounterOffer(par, to, counter) == to # counter /\ (to \in Items => ~IsHoldingItem(par, counter, to))

(* getInventoryItem(getSlotType(...)): every item of the model is for the hand *)
TradesBackpack(p) == parent[tradeItem[p]] = <<p, "back">>
HandTaken(p) == Contents(parent, <<p, "hand">>) # {}
NoRoomWithoutBackpack(p, q) ==
  \/ TradesBackpack(q) /\ HandTaken(q)
  \/ TradesBackpack(p) /\ HandTaken(p)
  \/ TradesBackpack(p) /\ TradesBackpack(q)

(* internalAddItem(..., test) of both items *)
BothFit(p, q) == /\ Destinations(parent, q, tradeItem[p]) # {}
                 /\ Destinations(parent, p, tradeItem[q]) # {}

(* The two calls of internalMoveItem(): the result of the first is looked  *)
(* at, that of the second is not.                                          *)
Exchange(p, q) ==
  IF NoRoomWithoutBackpack(p, q) \/ ~BothFit(p, q) \/ Destinations(parent, q, tradeItem[p]) = {}
  THEN parent' = parent
  ELSE \E to \in Destinations(parent, q, tradeItem[p]) :
         IF ~OutsideCounterOffer(parent, to, tradeItem[q])
         THEN parent' = parent
         ELSE LET first  == [parent EXCEPT ![tradeItem[p]] = to]
                  second == Destinations(first, p, tradeItem[q])
              IN  IF second = {} THEN parent' = first
                  ELSE \E back \in second : parent' = [first EXCEPT ![tradeItem[q]] = back]

(* The first to accept waits. *)
AcceptFirst(p) ==
  LET q == tradePartner[p]
  IN  /\ p \in online /\ tradeState[p] \in {"acknowledge", "initiated"}
      /\ q # NoPlayer
      /\ tradeState[q] # "accept"
      /\ tradeState' = [tradeState EXCEPT ![p] = "accept"]
      /\ UNCHANGED <<online, place, parent, tradePartner, tradeItem, tradeItems, crashed>>

(* canThrowObjectTo() or the script says no. *)
AcceptRefused(p) ==
  LET q == tradePartner[p]
  IN  /\ p \in online /\ tradeState[p] \in {"acknowledge", "initiated"}
      /\ q # NoPlayer
      /\ tradeState[q] = "accept"
      /\ CloseTrades({p})
      /\ UNCHANGED <<online, place, parent, crashed>>

(* The script is called with both items: a null item is dereferenced, when *)
(* one of the two has accepted without an offer.                           *)
AcceptLast(p) ==
  LET q == tradePartner[p]
      missing == NoItem \in {tradeItem[p], tradeItem[q]}
  IN  /\ p \in online /\ tradeState[p] \in {"acknowledge", "initiated"}
      /\ q # NoPlayer
      /\ tradeState[q] = "accept"
      /\ crashed' = missing
      /\ IF missing THEN UNCHANGED <<parent, trade>>
         ELSE Exchange(p, q) /\ CloseTrades({p})
      /\ UNCHANGED <<online, place>>

-----------------------------------------------------------------------------
(* Callbacks when item i leaves its parent, and when it enters `to'.       *)

(* checkTradeState(): the offer of p is item i or holds it. *)
CheckTradeState(par, p, i) == \/ tradeItem[p] = i
                              \/ tradeItem[p] \in Ancestors(par, i) \ {Ground, Nowhere}

(* onRemoveInventoryItem(), onRemoveTileItem(): the item holds the offer. *)
HoldsOffer(p, i) == tradeItem[p] # NoItem /\ IsHoldingItem(parent, i, tradeItem[p])

(* onRemoveContainerItem(): the container holds the offer, not directly. *)
HoldsOfferInside(p, c) == /\ tradeItem[p] # NoItem
                          /\ parent[tradeItem[p]] # c
                          /\ IsHoldingItem(parent, c, tradeItem[p])

CancelledByRemoval(i) ==
  LET from == parent[i]
  IN  CASE from \in Slots -> {p \in {from[1]} : CheckTradeState(parent, p, i) \/ HoldsOffer(p, i)}
        [] from \in Containers -> {p \in Spectators(from) : CheckTradeState(parent, p, i) \/ HoldsOfferInside(p, from)}
        [] OTHER -> {p \in online : place[p] = "here" /\ (CheckTradeState(parent, p, i) \/ HoldsOffer(p, i))}

(* onAddContainerItem() *)
NotNotified(par, i, to) == {}                               \* fault: not notified
CancelledByAdding(par, i, to) ==
  IF to \in Containers THEN {p \in Spectators(to) : CheckTradeState(par, p, i)} ELSE {}

Relocate(i, to) ==
  LET par == [parent EXCEPT ![i] = to]
  IN  /\ parent' = par
      /\ CloseTrades(CancelledByRemoval(i) \cup CancelledByAdding(par, i, to))
      /\ UNCHANGED <<online, place, crashed>>

(* A player moves an item to a place with room that is within reach. *)
MoveItem(p, i, to) ==
  /\ p \in online /\ Reaches(p, i) /\ to # parent[i]
  /\ \/ to = Ground /\ place[p] = "here"
     \/ to \in {p} \X {"back", "hand"} /\ SlotAccepts(parent, to, i)
     \/ to \in Containers /\ Reaches(p, to) /\ ContainerAccepts(parent, to, i)
  /\ Relocate(i, to)

(* An item decays, is used up or is removed by a script. *)
RemoveItem(i) == parent[i] # Nowhere /\ Root(parent, i) # Nowhere /\ Relocate(i, Nowhere)

(* onCreatureMove() of the player that walks *)
TooFar(p, pl) ==
  {q \in {p} : \/ tradeItem[p] # NoItem /\ Root(parent, tradeItem[p]) = Ground /\ pl[p] # "here"
               \/ tradePartner[p] # NoPlayer /\ pl[tradePartner[p]] # pl[p]}

Walk(p) ==
  /\ p \in online
  /\ \E there \in Places \ {place[p]} :
       LET pl == [place EXCEPT ![p] = there]
       IN  place' = pl /\ CloseTrades(TooFar(p, pl))
  /\ UNCHANGED <<online, parent, crashed>>

(* onRemoveCreature() *)
ClosedOnLogout(p) == {q \in {p} : tradePartner[p] # NoPlayer}

Logout(p) == /\ p \in online
             /\ online' = online \ {p}
             /\ CloseTrades(ClosedOnLogout(p))
             /\ UNCHANGED <<place, parent, crashed>>

Login(p) == /\ p \notin online
            /\ online' = online \cup {p}
            /\ UNCHANGED <<place, parent, trade, crashed>>

Next == ~crashed /\
  \/ \E p \in Players :
       \/ PlayerCloseTrade(p)
       \/ AcceptFirst(p) \/ AcceptRefused(p) \/ AcceptLast(p)
       \/ Walk(p) \/ Logout(p) \/ Login(p)
       \/ \E q \in Players, i \in Items : PlayerRequestTrade(p, q, i)
       \/ \E i \in Items, to \in Parents : MoveItem(p, i, to)
  \/ \E i \in Items : RemoveItem(i)

Spec == Init /\ [][Next]_vars

-----------------------------------------------------------------------------
(* Type invariant: every variable keeps the type it has in the code. *)
TypeOK ==
  /\ online \subseteq Players
  /\ place \in [Players -> Places]
  /\ parent \in [Items -> Parents]
  /\ tradeState \in [Players -> TradeStates]
  /\ tradePartner \in [Players -> Players \cup {NoPlayer}]
  /\ tradeItem \in [Players -> Items \cup {NoItem}]
  /\ tradeItems \subseteq Items \X Players
  /\ crashed \in BOOLEAN

(* A trade is between two: the partner of a player has that player as its  *)
(* partner and is not the player itself, and both are on line, so that the *)
(* raw pointers tradePartner never dangle; a player without partner has    *)
(* neither a trade state nor an offer.                                     *)
PartnersAreMutual ==
  \A p \in Players :
    IF tradePartner[p] = NoPlayer
    THEN tradeState[p] = "none" /\ tradeItem[p] = NoItem
    ELSE /\ tradePartner[p] # p
         /\ tradePartner[tradePartner[p]] = p
         /\ p \in online
         /\ tradeState[p] # "none"

(* Game::tradeItems holds exactly the offers that stand, each once, under  *)
(* the player that made it; an offer is dropped from both at the same time,*)
(* so that no item stays "already being traded" for ever.                  *)
OffersAreRegistered ==
  /\ \A p \in Players : tradeItem[p] # NoItem => <<tradeItem[p], p>> \in tradeItems
  /\ \A t \in tradeItems : tradeItem[t[2]] = t[1]

(* No item is part of two offers: an offer is not inside another one, also *)
(* after items have been moved about by anyone.                            *)
OffersAreDisjoint ==
  \A s, t \in tradeItems :
    s # t => s[1] # t[1] /\ ~IsHoldingItem(parent, s[1], t[1])

(* Who trades stays together: walking away closes the trade, whoever of    *)
(* the two walks.                                                          *)
TradersAreTogether ==
  \A p \in Players : tradePartner[p] # NoPlayer => place[p] = place[tradePartner[p]]

(* Both sides see what they get: as long as an offer stands, neither what  *)
(* is inside it changes nor where it is, whoever moves or removes items.   *)
OfferUntouched ==
  \A p \in Players :
    tradeItem[p] # NoItem /\ tradeItem'[p] = tradeItem[p] =>
      LET i == tradeItem[p]
      IN  /\ Ancestors(parent', i) = Ancestors(parent, i)
          /\ \A j \in Items : IsHoldingItem(parent', i, j) <=> IsHoldingItem(parent, i, j)

(* An offer stands as it was made: no item is part of two offers, and      *)
(* neither what is inside an offer changes nor where it is, whoever moves  *)
(* or removes items: the listeners of cylinders and items close the trade. *)
OffersStand == []OffersAreDisjoint /\ [][OfferUntouched]_vars

CarriedBy(par, p, i) == \E s \in Ancestors(par, i) : s \in Slots /\ s[1] = p

BothOrNone ==
  \A p, q \in Players :
    AcceptLast(p) /\ q = tradePartner[p] /\ parent' # parent =>
      /\ CarriedBy(parent', q, tradeItem[p])
      /\ CarriedBy(parent', p, tradeItem[q])
      /\ \A i \in Items \ {tradeItem[p], tradeItem[q]} : parent'[i] = parent[i]

(* playerAcceptTrade() exchanges both items or none, although the result   *)
(* of the second internalMoveItem() is not looked at and the tests before  *)
(* are made while both items are still where they were.                    *)
ExchangeIsAtomic == [][BothOrNone]_vars

(* "// Player:onTradeAccept(target, item, targetItem)": the script is told *)
(* two items.                                                              *)
ScriptGetsTwoItems == ~crashed

(* The four copies of the trade relation (the partners, states and offers  *)
(* of the players, and Game::tradeItems) say the same after every handler, *)
(* and about players who stand together.                                   *)
TradeAgrees == /\ TypeOK
               /\ PartnersAreMutual
               /\ OffersAreRegistered
               /\ TradersAreTogether
=============================================================================
