------------------------------ MODULE WaitList ------------------------------
(***************************************************************************)
(* The waiting list of a full server: findClient, cleanupList and          *)
(* clientLogin of src/src/protocolgame.cpp, called by ProtocolGame::login  *)
(* on the dispatcher for a character that is not in the game.              *)
(***************************************************************************)
EXTENDS Naturals, Sequences, FiniteSets, SequencesExt

CONSTANTS Guids, Privileged,  \* CanAlwaysLogin or a gamemaster's account
          NoGuid,             \* a number that is nobody's guid
          MaxPlayers,         \* config maxPlayers, 0 for no limit
          TickSeconds,        \* time advances by so many seconds
          MaxEntries          \* bound: entries in the two lists

WaitListAssumption ==
  /\ Privileged \subseteq Guids /\ NoGuid \notin Guids
  /\ MaxPlayers \in Nat /\ TickSeconds \in Nat \ {0} /\ MaxEntries \in Nat

VARIABLES
  priorityWaitList, waitList,  \* entries [left, guid], left is the time to the timeout
  admitted,                    \* players in the game
  answer                       \* the last answer of clientLogin, [guid, slot]

waitLists == <<priorityWaitList, waitList>>
waitVars == <<waitLists, admitted, answer>>

WaitInit == /\ priorityWaitList = <<>> /\ waitList = <<>>
            /\ admitted = {} /\ answer = [guid |-> NoGuid, slot |-> 0]

-----------------------------------------------------------------------------
GetWaitTime(slot) == IF slot < 5 THEN 5 ELSE IF slot < 10 THEN 10
                     ELSE IF slot < 20 THEN 20 ELSE IF slot < 50 THEN 60 ELSE 120
GetTimeout(slot) == (GetWaitTime(slot) + 15) \div TickSeconds

(* cleanupList() *)
Unexpired(e) == e.left > 0
CleanupList(list) ==
  LET clean[n \in 0..Len(list)] ==
        IF n = 0 THEN <<>>
        ELSE IF Unexpired(list[n]) THEN Append(clean[n - 1], list[n]) ELSE clean[n - 1]
  IN  clean[Len(list)]

WaitEntry(slot, guid) == [left |-> GetTimeout(slot), guid |-> guid]
Has(list, g) == \E i \in DOMAIN list : list[i].guid = g
IndexOf(list, g) == CHOOSE i \in DOMAIN list :
                      list[i].guid = g /\ \A j \in 1..(i-1) : list[j].guid # g
Distance(list, g) == Len(list) - IndexOf(list, g) + 1       \* std::distance(it, end())

(* findClient(), for the lists p and w *)
PriorityForgotten(p, w, g) == Distance(w, g) + 1   \* fault: the priority list is not counted
WaitSlot(p, w, g) == Len(p) + Distance(w, g) + 1
FindSlot(p, w, g) == IF Has(p, g) THEN Distance(p, g) + 1 ELSE WaitSlot(p, w, g)

HasCapacity(slot) == Cardinality(admitted) + slot <= MaxPlayers

DirectAccess(p, w) ==
  MaxPlayers = 0 \/ (p = <<>> /\ w = <<>> /\ Cardinality(admitted) < MaxPlayers)

Removed(list, g) == IF Has(list, g) THEN RemoveAt(list, IndexOf(list, g)) ELSE list

(* "let them wait a bit longer": `second' of the entry gets the new time.  *)
Longer(list, g) == IF Has(list, g) THEN [list EXCEPT ![IndexOf(list, g)].guid = NoGuid] ELSE list

Waits(p, w, g) == Has(p, g) \/ Has(w, g)

(* The player gets in, or cannot be loaded or placed after all. *)
LetIn(g) == admitted' \in {admitted, admitted \cup {g}} /\ answer' = [guid |-> g, slot |-> 0]
Refused(g, slot) == admitted' = admitted /\ answer' = [guid |-> g, slot |-> slot]

(* clientLogin() and what login() does with its answer *)
LoginPrivileged(g) == g \in Privileged /\ LetIn(g) /\ UNCHANGED waitLists

LoginDirect(g, p, w) ==
  /\ DirectAccess(p, w)
  /\ LetIn(g) /\ priorityWaitList' = p /\ waitList' = w

LoginFromList(g, p, w) ==
  /\ ~DirectAccess(p, w) /\ Waits(p, w, g)
  /\ IF HasCapacity(FindSlot(p, w, g))
     THEN /\ LetIn(g)
          /\ priorityWaitList' = Removed(p, g)
          /\ waitList' = IF Has(p, g) THEN w ELSE Removed(w, g)
     ELSE /\ Refused(g, FindSlot(p, w, g))
          /\ priorityWaitList' = Longer(p, g)
          /\ waitList' = IF Has(p, g) THEN w ELSE Longer(w, g)

LoginEnlist(g, p, w, premium) ==
  /\ ~DirectAccess(p, w) /\ ~Waits(p, w, g)
  /\ Len(p) + Len(w) < MaxEntries
  /\ LET slot == Len(p) + (IF premium THEN 0 ELSE Len(w)) + 1
     IN  /\ Refused(g, slot)
         /\ priorityWaitList' = IF premium THEN Append(p, WaitEntry(slot, g)) ELSE p
         /\ waitList' = IF premium THEN w ELSE Append(w, WaitEntry(slot, g))

ClientLogin(g, premium) ==
  /\ g \notin admitted
  /\ \/ LoginPrivileged(g)
     \/ /\ g \notin Privileged
        /\ LET p == CleanupList(priorityWaitList)
               w == CleanupList(waitList)
           IN  \/ LoginDirect(g, p, w)
               \/ LoginFromList(g, p, w)
               \/ LoginEnlist(g, p, w, premium)

LeaveServer(g) == g \in admitted /\ admitted' = admitted \ {g} /\ UNCHANGED <<waitLists, answer>>

Older(list) == [i \in DOMAIN list |-> [list[i] EXCEPT !.left = IF @ = 0 THEN 0 ELSE @ - 1]]
Tick == /\ priorityWaitList' = Older(priorityWaitList) /\ waitList' = Older(waitList)
        /\ UNCHANGED <<admitted, answer>>

WaitNext == Tick \/ \E g \in Guids : LeaveServer(g) \/ \E premium \in BOOLEAN : ClientLogin(g, premium)
WaitSpec == WaitInit /\ [][WaitNext]_waitVars

-----------------------------------------------------------------------------
WaitEntries == [left : 0..(135 \div TickSeconds), guid : Guids \cup {NoGuid}]
(* Type invariant: entries are pairs of a timeout and a number. *)
WaitTypeOK == /\ priorityWaitList \in Seq(WaitEntries) /\ waitList \in Seq(WaitEntries)
              /\ admitted \subseteq Guids
              /\ answer \in [guid : Guids \cup {NoGuid}, slot : Nat]

(* However its premium status changes between two tries, a player has at   *)
(* most one entry in the two lists: findClient() looks through both.       *)
WaitsOnce == \A g \in Guids :
               Cardinality({i \in DOMAIN priorityWaitList : priorityWaitList[i].guid = g})
               + Cardinality({i \in DOMAIN waitList : waitList[i].guid = g}) <= 1

Ordinary(g) == g \in (admitted' \ admitted) \ Privileged

(* An ordinary player that gets in, from a list or past it, never makes    *)
(* more players than maxPlayers (gamemasters may).                         *)
LimitIsKept == [][MaxPlayers > 0 =>
                    \A g \in Guids : Ordinary(g) => Cardinality(admitted') <= MaxPlayers]_waitVars

(* Places are kept for those with priority: when a player who is not in    *)
(* the priority list gets in, everybody in it still finds a place.         *)
PriorityIsServed ==
  [][MaxPlayers > 0 =>
       \A g \in Guids : Ordinary(g) /\ ~Has(priorityWaitList, g)
         => Cardinality(admitted') + Len(priorityWaitList') <= MaxPlayers]_waitVars

(* clientLogin() keeps maxPlayers for ordinary players, lets nobody in     *)
(* before those in the priority list have a place, and never enters a      *)
(* player twice, however its premium status changes between two tries.     *)
AdmissionIsFair == LimitIsKept /\ PriorityIsServed /\ [](WaitTypeOK /\ WaitsOnce)

(* "//let them wait a bit longer": who asks again in time keeps its place  *)
(* until it gets in or its time is over.                                   *)
KeepsItsPlace ==
  [][\A g \in Guids : \A e \in ToSet(waitList) :
       e.guid = g /\ Unexpired(e) /\ ~Has(waitList', g) => answer' = [guid |-> g, slot |-> 0]]_waitVars

(* "Currentslot = position in wait list": a player that has asked before   *)
(* is told its position.                                                   *)
SlotIsPosition ==
  [][\A g \in Guids : Has(CleanupList(waitList), g) /\ answer' # answer /\ answer'.guid = g /\ answer'.slot > 0
       => answer'.slot = Len(CleanupList(priorityWaitList)) + IndexOf(CleanupList(waitList), g)]_waitVars

(* "If server has capacity for this client, let him in even though his     *)
(* current slot might be higher than 0": the only player that waits gets   *)
(* the only free place.                                                    *)
FreePlaceIsUsed ==
  [][\A g \in Guids :
       /\ priorityWaitList = <<>> /\ Len(waitList) = 1 /\ waitList[1].guid = g /\ Unexpired(waitList[1])
       /\ answer' # answer /\ answer'.guid = g /\ Cardinality(admitted) + 1 <= MaxPlayers
       => answer'.slot = 0]_waitVars
=============================================================================
