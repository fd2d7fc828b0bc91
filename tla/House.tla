------------------------------- MODULE House -------------------------------
(***************************************************************************)
(* Houses and their beds: class House of src/src/house.cpp with its owner, *)
(* access lists, eviction and transfer document, src/src/housetile.cpp,    *)
(* src/src/bed.cpp with Game::bedSleepersMap, and what the scripts of      *)
(* data/scripts/talkactions/player/house and data/scripts/spells/house     *)
(* make of them.  All of it runs in the dispatcher thread; a sleeping      *)
(* player is logged out by a scheduler event 50 ms later, and only a save  *)
(* makes access lists and beds survive a restart, while a new owner is     *)
(* written to the database at once.                                        *)
(*                                                                         *)
(* A place is a house or the street; a house has a bed of two halves, or   *)
(* none.  An access list is the set of the players it names: guilds,     *)
(* doors, rent and the furniture that goes to the depot are left out.  Two *)
(* that trade a document stay within reach of each other wherever they go, *)
(* or CancelTrade happens.                                                 *)
(***************************************************************************)
EXTENDS Naturals, FiniteSets

CONSTANTS Guids,        \* the players, by their guid
          Houses,
          BedHouses,    \* the houses that have a bed
          Editors,      \* the players with PlayerFlag_CanEditHouses
          Texts,        \* the access lists that players write
          Street,       \* every place outside the houses
          NoGuid, NoBed, NoWindow   \* 0, nullptr

ListIds == {"guest", "subowner"}
Halves == BedHouses \X {1, 2}
NoDocument == [seller |-> NoGuid, buyer |-> NoGuid]

HouseAssumption ==
  /\ IsFiniteSet(Guids) /\ Editors \subseteq Guids /\ BedHouses \subseteq Houses
  /\ Texts \subseteq SUBSET Guids
  /\ Street \notin Houses /\ NoGuid \notin Guids /\ NoBed \notin Halves
  /\ NoWindow \notin Houses \X ListIds

VARIABLES
  owner,        \* House::owner, also the column of the table houses
  lists,        \* House::guestList, House::subOwnerList
  document,     \* House::transferItem and the two players that trade it
  at,           \* where a player is, or was when it went off line
  inGame,
  window,       \* Player::editHouse, Player::editListId
  sleeper,      \* BedItem::sleeperGUID of each half of a bed
  bedSleepers,  \* Game::bedSleepersMap
  kicks,        \* players with a scheduled Game::kickPlayer() task
  saved,        \* what the last save wrote: lists, writer, sleeper
  trusted,      \* history: whom the owner has trusted, since it owns the house
  writer,       \* history: who wrote each list
  restarted     \* history: the server has died and started again

house == <<owner, lists, document>>
beds == <<sleeper, bedSleepers, kicks>>
history == <<trusted, writer, restarted>>
houseVars == <<house, at, inGame, window, beds, saved, history>>

HouseInit ==
  /\ owner = [h \in Houses |-> NoGuid]
  /\ lists = [h \in Houses |-> [l \in ListIds |-> {}]]
  /\ document = [h \in Houses |-> NoDocument]
  /\ at = [p \in Guids |-> Street]
  /\ inGame = Guids
  /\ window = [p \in Guids |-> NoWindow]
  /\ sleeper = [b \in Halves |-> NoGuid]
  /\ bedSleepers = [p \in Guids |-> NoBed]
  /\ kicks = {}
  /\ trusted = [h \in Houses |-> Editors]
  /\ writer = [h \in Houses |-> [l \in ListIds |-> NoGuid]]
  /\ restarted = FALSE
  /\ saved = [lists |-> lists, writer |-> writer, sleeper |-> sleeper]

-----------------------------------------------------------------------------
(* getHouseAccessLevel(): HOUSE_OWNER is 3, HOUSE_NOT_INVITED is 0. *)
AccessLevel(own, ls, h, p) ==
  CASE p \in Editors \/ own[h] = p -> 3
    [] p \in ls[h].subowner -> 2
    [] p \in ls[h].guest -> 1
    [] OTHER -> 0

IsInvited(own, ls, h, p) == AccessLevel(own, ls, h, p) # 0

(* canEditAccessList() *)
CanEditAccessList(h, l, p) ==
  CASE AccessLevel(owner, lists, h, p) = 3 -> TRUE
    [] AccessLevel(owner, lists, h, p) = 2 -> l = "guest"
    [] OTHER -> FALSE

(* kickPlayer(player, target): never one that may edit houses. *)
Kickable(p, t) == /\ at[t] \in Houses
                  /\ AccessLevel(owner, lists, at[t], p) >= AccessLevel(owner, lists, at[t], t)
                  /\ t \notin Editors

(* "kick uninvited players", in setAccessList() *)
Uninvited(ls, h) == {p \in inGame \ Editors : at[p] = h /\ ~IsInvited(owner, ls, h, p)}

PutOut(who) == at' = [p \in Guids |-> IF p \in who THEN Street ELSE at[p]]

(* getHouseByPlayerId() *)
OwnsHouse(p) == \E h \in Houses : owner[h] = p

-----------------------------------------------------------------------------
(* Beds *)

(* wakeUp() of every bed of the set `hs' of houses that is slept in: both  *)
(* halves are made free, and the map forgets the sleeper.                  *)
OneHalf(hs, b) == b[1] \in hs /\ b[2] = 1                   \* fault: getNextBedItem() not called
WokenHalf(hs, b) == b[1] \in hs
Sleepers(hs) == {sleeper[b] : b \in {c \in Halves : c[1] \in hs}} \ {NoGuid}

SleepersForgotten(hs) == [p \in Guids |-> IF p \in Sleepers(hs) THEN NoBed ELSE bedSleepers[p]]

WakeUp(hs) ==
  /\ sleeper' = [b \in Halves |-> IF WokenHalf(hs, b) THEN NoGuid ELSE sleeper[b]]
  /\ bedSleepers' = SleepersForgotten(hs)

(* Actions::internalUseItem() of a bed: canUse() has no say in a house.    *)
(* The kick comes before the player may use anything again: the delay of   *)
(* an action is longer than SCHEDULER_MINTICKS.                            *)
CanAct(p) == p \in inGame /\ p \notin kicks

Sleep(p, b) ==
  /\ CanAct(p) /\ at[p] = b[1]
  /\ sleeper[b] = NoGuid
  /\ sleeper' = [c \in Halves |-> IF c[1] = b[1] THEN p ELSE sleeper[c]]
  /\ bedSleepers' = [bedSleepers EXCEPT ![p] = b]
  /\ kicks' = kicks \cup {p}
  /\ UNCHANGED <<house, at, inGame, window, saved, history>>

(* trySleep() of the owner in a bed that is taken *)
WakeSleeper(p, b) ==
  /\ CanAct(p) /\ at[p] = b[1]
  /\ sleeper[b] # NoGuid /\ owner[b[1]] = p
  /\ WakeUp({b[1]})
  /\ UNCHANGED <<house, at, inGame, window, kicks, saved, history>>

-----------------------------------------------------------------------------
(* setOwner().  The history of trust begins with the new owner; what the   *)
(* staff did to a house that nobody owned stays in force, lists and all.   *)

(* owner = 0; setAccessList(..., ""): only when the house had an owner *)
CleanAccessLists(h) ==
  IF owner[h] = NoGuid THEN lists
  ELSE [lists EXCEPT ![h] = [l \in ListIds |-> {}]]

(* "Remove players from beds" *)
SetOwner(h, q) ==
  IF owner[h] = q THEN UNCHANGED <<owner, lists, at, sleeper, bedSleepers, trusted>>
  ELSE /\ IF owner[h] = NoGuid
          THEN UNCHANGED <<at, sleeper, bedSleepers>>
          ELSE /\ PutOut({p \in inGame \ Editors : at[p] = h})
               /\ WakeUp({h})
       /\ lists' = CleanAccessLists(h)
       /\ owner' = [owner EXCEPT ![h] = q]
       /\ trusted' = [trusted EXCEPT ![h] = ({q} \ {NoGuid}) \cup
                                       (IF owner[h] = NoGuid THEN @ ELSE Editors)]

(* !buyhouse, from the entry of the house *)
BuyHouse(p, h) ==
  /\ CanAct(p) /\ at[p] = Street
  /\ owner[h] = NoGuid /\ ~OwnsHouse(p)
  /\ SetOwner(h, p)
  /\ UNCHANGED <<document, inGame, window, kicks, saved, writer, restarted>>

(* !leavehouse *)
LeaveHouse(p, h) ==
  /\ p \in inGame /\ at[p] = h
  /\ owner[h] = p
  /\ SetOwner(h, NoGuid)
  /\ UNCHANGED <<document, inGame, window, kicks, saved, writer, restarted>>

-----------------------------------------------------------------------------
(* !sellhouse: luaHouseStartTrade(), getTransferItem() *)
Trading(p) == \E h \in Houses : p \in {document[h].seller, document[h].buyer}

StartTrade(p, q, h) ==
  /\ p \in inGame /\ q \in inGame /\ p # q
  /\ at[p] = h
  /\ owner[h] = p
  /\ ~OwnsHouse(q)
  /\ document[h] = NoDocument
  /\ ~Trading(p) /\ ~Trading(q)
  /\ document' = [document EXCEPT ![h] = [seller |-> p, buyer |-> q]]
  /\ UNCHANGED <<owner, lists, at, inGame, window, beds, saved, history>>

(* HouseTransferItem::onTradeEvent(ON_TRADE_CANCEL): resetTransferItem() *)
WithoutDocumentsOf(who) ==
  [h \in Houses |-> IF {document[h].seller, document[h].buyer} \cap who # {} THEN NoDocument ELSE document[h]]

CancelTrade(h) ==
  /\ document[h] # NoDocument
  /\ document' = [document EXCEPT ![h] = NoDocument]
  /\ UNCHANGED <<owner, lists, at, inGame, window, beds, saved, history>>

(* HouseTransferItem::onTradeEvent(ON_TRADE_TRANSFER): executeTransfer() *)
TransferHouse(h) ==
  /\ document[h] # NoDocument
  /\ SetOwner(h, document[h].buyer)
  /\ document' = [document EXCEPT ![h] = NoDocument]
  /\ UNCHANGED <<inGame, window, kicks, saved, writer, restarted>>

-----------------------------------------------------------------------------
(* HouseTile::queryAdd() *)
Enter(p, h) ==
  /\ p \in inGame /\ at[p] # h
  /\ IsInvited(owner, lists, h, p)
  /\ at' = [at EXCEPT ![p] = h]
  /\ UNCHANGED <<house, inGame, window, beds, saved, history>>

Exit(p) ==
  /\ p \in inGame /\ at[p] # Street
  /\ at' = [at EXCEPT ![p] = Street]
  /\ UNCHANGED <<house, inGame, window, beds, saved, history>>

(* The spell "House Kick": from any house, of any house *)
KickSpell(p, t) ==
  /\ CanAct(p) /\ t \in inGame
  /\ at[p] \in Houses
  /\ Kickable(p, t)
  /\ PutOut({t})
  /\ UNCHANGED <<house, inGame, window, beds, saved, history>>

(* The spells "House Guest List" and "House Subowner List" *)
EditList(p, l) ==
  /\ CanAct(p) /\ at[p] \in Houses
  /\ CanEditAccessList(at[p], l, p)
  /\ window' = [window EXCEPT ![p] = <<at[p], l>>]
  /\ UNCHANGED <<house, at, inGame, beds, saved, history>>

NotTestedAgain(p) == TRUE                                   \* fault: trusts the open window
StillMayEdit(p) == CanEditAccessList(window[p][1], window[p][2], p)

(* playerUpdateHouseWindow(): the answer comes any time later, from        *)
(* anywhere; the right is tested again.                                    *)
UpdateHouseWindow(p, text) ==
  /\ p \in inGame /\ window[p] # NoWindow
  /\ LET h == window[p][1]
         l == window[p][2]
         ls == [lists EXCEPT ![h][l] = text]
     IN  IF StillMayEdit(p)
         THEN /\ lists' = ls
              /\ PutOut(Uninvited(ls, h))
              /\ writer' = [writer EXCEPT ![h][l] = p]
              /\ trusted' = [trusted EXCEPT ![h] = IF l = "subowner" THEN @ \cup text ELSE @]
         ELSE UNCHANGED <<lists, at, writer, trusted>>
  /\ window' = [window EXCEPT ![p] = NoWindow]
  /\ UNCHANGED <<owner, document, inGame, beds, saved, restarted>>

(* An answer to an older window: only the window is closed. *)
UpdateOldWindow(p) ==
  /\ p \in inGame /\ window[p] # NoWindow
  /\ window' = [window EXCEPT ![p] = NoWindow]
  /\ UNCHANGED <<house, at, inGame, beds, saved, history>>

-----------------------------------------------------------------------------
RemovePlayers(who) ==
  /\ inGame' = inGame \ who
  /\ window' = [p \in Guids |-> IF p \in who THEN NoWindow ELSE window[p]]
  /\ document' = WithoutDocumentsOf(who)

(* The scheduled Game::kickPlayer(): the player that sleeps goes off line. *)
KickTask(p) ==
  /\ p \in kicks
  /\ kicks' = kicks \ {p}
  /\ RemovePlayers({p})
  /\ UNCHANGED <<owner, lists, at, sleeper, bedSleepers, saved, history>>

(* The player leaves by itself: the kick finds its id no more. *)
LeaveGame(p) ==
  /\ p \in inGame
  /\ kicks' = kicks \ {p}
  /\ RemovePlayers({p})
  /\ UNCHANGED <<owner, lists, at, sleeper, bedSleepers, saved, history>>

(* Map::placeCreature() with HouseTile::queryDestination(); then the bed   *)
(* of the player is free, in Player::onCreatureAppear().                   *)
WakeOnAppear(p) ==
  IF bedSleepers[p] = NoBed THEN UNCHANGED <<sleeper, bedSleepers>>
  ELSE WakeUp({bedSleepers[p][1]})

OnCreatureAppear(p) ==
  /\ p \notin inGame
  /\ inGame' = inGame \cup {p}
  /\ PutOut({q \in {p} : at[q] \in Houses /\ ~IsInvited(owner, lists, at[q], q)})
  /\ WakeOnAppear(p)
  /\ UNCHANGED <<house, window, kicks, saved, history>>

-----------------------------------------------------------------------------
(* saveHouseInfo(), saveHouseItems() *)
Save ==
  /\ saved' = [lists |-> lists, writer |-> writer, sleeper |-> sleeper]
  /\ UNCHANGED <<house, at, inGame, window, beds, history>>

(* The server starts again: loadHouseInfo() finds the owner of now and the *)
(* lists of the last save; BedItem::readAttr() enters the sleeper of each  *)
(* half in the map, so that one of the two halves stays there.             *)
Crash ==
  /\ lists' = saved.lists /\ writer' = saved.writer /\ sleeper' = saved.sleeper
  /\ \E half \in {1, 2} :
       bedSleepers' = [p \in Guids |->
         LET bed == {b \in Halves : saved.sleeper[b] = p /\ b[2] = half}
         IN  IF bed = {} THEN NoBed ELSE CHOOSE b \in bed : TRUE]
  /\ document' = [h \in Houses |-> NoDocument]
  /\ inGame' = {} /\ kicks' = {}
  /\ window' = [p \in Guids |-> NoWindow]
  /\ restarted' = TRUE
  /\ UNCHANGED <<owner, at, saved, trusted>>

HouseNext ==
  \/ \E p \in Guids :
       \/ Exit(p) \/ UpdateOldWindow(p) \/ KickTask(p) \/ LeaveGame(p) \/ OnCreatureAppear(p)
       \/ \E h \in Houses : BuyHouse(p, h) \/ LeaveHouse(p, h) \/ Enter(p, h)
       \/ \E b \in Halves : Sleep(p, b) \/ WakeSleeper(p, b)
       \/ \E q \in Guids, h \in Houses : StartTrade(p, q, h)
       \/ \E t \in Guids : KickSpell(p, t)
       \/ \E l \in ListIds : EditList(p, l)
       \/ \E text \in Texts : UpdateHouseWindow(p, text)
  \/ \E h \in Houses : CancelTrade(h) \/ TransferHouse(h)
  \/ Save \/ Crash

HouseSpec == HouseInit /\ [][HouseNext]_houseVars

-----------------------------------------------------------------------------
(* Type invariant: every variable keeps the type it has in the code. *)
HouseTypeOK ==
  /\ owner \in [Houses -> Guids \cup {NoGuid}]
  /\ lists \in [Houses -> [ListIds -> SUBSET Guids]]
  /\ at \in [Guids -> Houses \cup {Street}]
  /\ kicks \subseteq inGame /\ inGame \subseteq Guids
  /\ window \in [Guids -> (Houses \X ListIds) \cup {NoWindow}]
  /\ sleeper \in [Halves -> Guids \cup {NoGuid}]
  /\ bedSleepers \in [Guids -> Halves \cup {NoBed}]
  /\ \A h \in Houses : document[h] \in {NoDocument} \cup [seller : inGame, buyer : inGame]
  /\ saved.lists \in [Houses -> [ListIds -> SUBSET Guids]]
  /\ saved.sleeper \in [Halves -> Guids \cup {NoGuid}]

(* Whoever stands on a tile of a house is invited, whatever has happened   *)
(* to the owner and to the lists since the player came in: setOwner() and  *)
(* setAccessList() put out everyone else, and a player that was off line   *)
(* meanwhile does not come back to the place where it left.                *)
InsideIsInvited ==
  \A p \in inGame : at[p] \in Houses => IsInvited(owner, lists, at[p], p)

(* "clean access lists": a list in force was written by the owner of the   *)
(* house, or by somebody whom this owner has made sub-owner, and never     *)
(* under an earlier owner; also when the answer to the edit window comes   *)
(* after the house has changed hands.  (Until the server is started again  *)
(* without a save: owner and lists are written at different times.)        *)
ListsAreTrusted ==
  ~restarted =>
    \A h \in Houses, l \in ListIds : lists[h][l] # {} => writer[h][l] \in trusted[h]

(* A house is private: who is inside is invited, and who wrote its lists   *)
(* was trusted to.                                                         *)
HousesArePrivate == HouseTypeOK /\ InsideIsInvited /\ ListsAreTrusted

(* The two halves of a bed have the same sleeper, and bedSleepersMap finds *)
(* one of them exactly when somebody sleeps there: a bed never stays taken *)
(* by a player that no login can wake.                                     *)
BedsAgree ==
  /\ \A h \in BedHouses : sleeper[<<h, 1>>] = sleeper[<<h, 2>>]
  /\ \A b \in Halves : sleeper[b] # NoGuid =>
       bedSleepers[sleeper[b]] # NoBed /\ bedSleepers[sleeper[b]][1] = b[1]
  /\ \A p \in Guids : bedSleepers[p] # NoBed => sleeper[bedSleepers[p]] = p

(* Nobody plays and sleeps at the same time, but for the moment between    *)
(* sleep() and the scheduled kick.                                         *)
AwakeOnline == \A p \in inGame \ kicks : bedSleepers[p] = NoBed

(* Beds, the map of sleepers and the players in the game agree, also after *)
(* a crash.                                                                *)
SleepersAgree == BedsAgree /\ AwakeOnline

(* "You don't own this house.": a transfer document that may be accepted   *)
(* any moment is one of the owner of the house, and of nobody else.        *)
OnlyOwnerSells ==
  \A h \in Houses : document[h] # NoDocument => document[h].seller = owner[h]

(* "Trade player already owns a house.", "You are already the owner of a   *)
(* house.": nobody owns two.                                               *)
OwnsOneHouse ==
  \A g, h \in Houses : owner[g] # NoGuid /\ owner[g] = owner[h] => g = h
=============================================================================
