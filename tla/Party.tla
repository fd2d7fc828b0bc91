------------------------------- MODULE Party -------------------------------
(***************************************************************************)
(* Parties: src/src/party.cpp, the handlers of src/src/game.cpp that call  *)
(* it, and what src/src/player.cpp does when a player walks, changes       *)
(* level, fights, is idle or logs out.  A Party is allocated by the first  *)
(* invitation and deletes itself; players, its two lists and the           *)
(* invitations that each player keeps refer to each other by raw pointers. *)
(* Everything runs in the dispatcher thread.  The party scripts are        *)
(* disabled in data/events/events.xml, so that no event refuses anything.  *)
(***************************************************************************)
EXTENDS Naturals, Sequences

CONSTANTS Players,
          Parties,      \* addresses that a Party may have; a bound on how many live at once
          Levels,       \* levels of players
          Zones,        \* the map, cut up so that players of one zone are in range
          NoPlayer, NoParty

PartyAssumption ==
  /\ NoPlayer \notin Players /\ NoParty \notin Parties
  /\ Levels \subseteq Nat

VARIABLES
  online,       \* players in the game
  level, zone,  \* of every player
  party,        \* Player::party
  invitations,  \* Player::invitePartyList
  heap          \* the Party objects

vars == <<online, level, zone, party, invitations, heap>>

Objects == [leader : Players \cup {NoPlayer}, members : Seq(Players), invites : SUBSET Players,
            active : BOOLEAN, enabled : BOOLEAN, ticks : SUBSET Players, stale : BOOLEAN]

(* Not allocated, or deleted. *)
Free == [leader |-> NoPlayer, members |-> <<>>, invites |-> {},
         active |-> FALSE, enabled |-> FALSE,
         ticks |-> {},      \* who has a recent entry in ticksMap
         stale |-> FALSE]   \* history: has an entry grown old since `enabled' was computed?

Init == /\ online = Players
        /\ level \in [Players -> Levels]
        /\ zone \in [Players -> Zones]
        /\ party = [p \in Players |-> NoParty]
        /\ invitations = [p \in Players |-> {}]
        /\ heap = [g \in Parties |-> Free]

Live(g) == heap[g].leader # NoPlayer
InSeq(s) == {s[n] : n \in DOMAIN s}
Everybody(pt) == {pt.leader} \cup InSeq(pt.members)

\* std::find() and erase()
Without(s, p) ==
  IF p \notin InSeq(s) THEN s
  ELSE LET i == CHOOSE n \in DOMAIN s : s[n] = p /\ \A m \in 1 .. (n - 1) : s[m] # p
       IN  SubSeq(s, 1, i - 1) \o SubSeq(s, i + 1, Len(s))
Empty(pt) == pt.members = <<>> /\ pt.invites = {}

-----------------------------------------------------------------------------
(* Shared experience.                                                      *)

(* level >= ceil(highest * 2 / 3) *)
LevelSuffices(l, highest) == 3 * l >= 2 * highest

(* canUseSharedExperience() with levels lv and zones zn *)
CanUse(pt, p, lv, zn) ==
  /\ pt.members # <<>>
  /\ \A q \in Everybody(pt) : LevelSuffices(lv[p], lv[q])
  /\ zn[p] = zn[pt.leader]
  /\ p \in pt.ticks

CanEnable(pt, lv, zn) == \A p \in Everybody(pt) : CanUse(pt, p, lv, zn)

(* updateSharedExperience() *)
Updated(pt, lv, zn) ==
  IF pt.active THEN [pt EXCEPT !.enabled = CanEnable(pt, lv, zn), !.stale = FALSE] ELSE pt

NotUpdated(pt) == pt                       \* fault: updateSharedExperience() not called
UpdatedNow(pt) == Updated(pt, level, zone)

(* clearPlayerPoints() *)
WithoutPoints(pt, p) == IF p \in pt.ticks THEN UpdatedNow([pt EXCEPT !.ticks = @ \ {p}]) ELSE pt

-----------------------------------------------------------------------------
(* What becomes of a party whose state is pt: it is kept, or it disbands.  *)

InvitesDropped(g, pt) == [p \in Players |-> IF p \in pt.invites THEN invitations[p] \ {g} ELSE invitations[p]]

(* disband(); `left' has its pointer cleared in any case *)
Disband(g, pt, left) ==
  /\ heap' = [heap EXCEPT ![g] = Free]
  /\ party' = [p \in Players |-> IF p \in left \cup Everybody(pt) THEN NoParty ELSE party[p]]
  /\ invitations' = InvitesDropped(g, pt)

Keep(g, pt, left) ==
  /\ heap' = [heap EXCEPT ![g] = pt]
  /\ party' = [p \in Players |-> IF p \in left THEN NoParty ELSE party[p]]
  /\ UNCHANGED invitations

-----------------------------------------------------------------------------
(* Game::playerInviteToParty(); whatever it refuses changes nothing *)
InvitedHasParty(q) == party[q] # NoParty
Inviting(p, q) == party[p] # NoParty /\ heap[party[p]].leader = p /\ q \in heap[party[p]].invites

\* new Party(player), or the party that the player leads
InvitingParty(p, g) == IF party[p] = NoParty THEN [Free EXCEPT !.leader = p] ELSE heap[g]

PlayerInviteToParty(p, q) ==
  /\ {p, q} \subseteq online /\ p # q
  /\ ~Inviting(q, p)
  /\ ~InvitedHasParty(q)
  /\ ~Inviting(p, q)
  /\ \E g \in Parties :
       /\ IF party[p] = NoParty THEN ~Live(g) ELSE party[p] = g /\ heap[g].leader = p
       /\ heap' = [heap EXCEPT ![g] = [InvitingParty(p, g) EXCEPT !.invites = @ \cup {q}]]
       /\ party' = [party EXCEPT ![p] = g]
       /\ invitations' = [invitations EXCEPT ![q] = @ \cup {g}]
  /\ UNCHANGED <<online, level, zone>>

(* playerJoinParty(), joinParty() *)
HasNoParty(p) == party[p] = NoParty

PlayerJoinParty(p, l) ==
  /\ {p, l} \subseteq online
  /\ Inviting(l, p)
  /\ HasNoParty(p)
  /\ LET g  == party[l]
         pt == [heap[g] EXCEPT !.invites = @ \ {p}, !.members = Append(@, p)]
     IN  /\ heap' = [heap EXCEPT ![g] = UpdatedNow(pt)]
         /\ party' = [party EXCEPT ![p] = g]
         /\ invitations' = [invitations EXCEPT ![p] = @ \ {g}]
  /\ UNCHANGED <<online, level, zone>>

(* removeInvite(); the party that nobody is in or invited to disbands *)
BecomesEmpty(pt) == Empty(pt)

(* playerRevokePartyInvitation(), revokeInvitation() *)
PlayerRevokePartyInvitation(p, q) ==
  /\ {p, q} \subseteq online
  /\ Inviting(p, q)
  /\ LET g  == party[p]
         pt == [heap[g] EXCEPT !.invites = @ \ {q}]
     IN  /\ heap' = [heap EXCEPT ![g] = IF BecomesEmpty(pt) THEN Free ELSE pt]
         /\ party' = [party EXCEPT ![p] = IF BecomesEmpty(pt) THEN NoParty ELSE @]
         /\ invitations' = [invitations EXCEPT ![q] = @ \ {g}]
  /\ UNCHANGED <<online, level, zone>>

(* passPartyLeadership(); the old leader comes first in memberList *)
OldLeader(pt) == <<pt.leader>>
Passed(pt, q) == UpdatedNow([pt EXCEPT !.leader = q, !.members = OldLeader(pt) \o Without(@, q)])

PlayerPassPartyLeadership(p, q) ==
  /\ {p, q} \subseteq online /\ p # q
  /\ party[p] # NoParty /\ heap[party[p]].leader = p /\ party[q] = party[p]
  /\ heap' = [heap EXCEPT ![party[p]] = Passed(@, q)]
  /\ UNCHANGED <<online, level, zone, party, invitations>>

-----------------------------------------------------------------------------
(* leaveParty() *)

(* memberList.size() == 1 && inviteList.empty(), or no members at all *)
NobodyToLead(pt) == pt.members = <<>> \/ (Len(pt.members) = 1 /\ pt.invites = {})

DisbandsAlways(pt) == TRUE                 \* fault: the leader's leaving ends every party
MissingLeader(pt) == NobodyToLead(pt)

(* The party without p, when it does not disband. *)
Left(pt, p) ==
  LET passed == IF pt.leader = p /\ ~MissingLeader(pt) THEN Passed(pt, Head(pt.members)) ELSE pt
  IN  WithoutPoints(UpdatedNow([passed EXCEPT !.members = Without(@, p)]), p)

LeaveParty(p) ==
  LET g  == party[p]
      pt == Left(heap[g], p)
  IN  IF (heap[g].leader = p /\ MissingLeader(heap[g])) \/ BecomesEmpty(pt)
      THEN Disband(g, pt, {p})
      ELSE Keep(g, pt, {p})

(* playerLeaveParty(), not while fighting *)
PlayerLeaveParty(p) ==
  /\ p \in online /\ party[p] # NoParty
  /\ LeaveParty(p)
  /\ UNCHANGED <<online, level, zone>>

(* setSharedExperience() *)
PlayerEnableSharedPartyExperience(p, active) ==
  /\ p \in online /\ party[p] # NoParty
  /\ LET g == party[p]
     IN  /\ heap[g].leader = p /\ heap[g].active # active
         /\ heap' = [heap EXCEPT ![g] = UpdatedNow([heap[g] EXCEPT !.active = active])]
  /\ UNCHANGED <<online, level, zone, party, invitations>>

-----------------------------------------------------------------------------
(* Player callbacks.                                                       *)

Refreshed(p, lv, zn) ==
  heap' = IF party[p] = NoParty THEN heap ELSE [heap EXCEPT ![party[p]] = Updated(@, lv, zn)]

(* onCreatureMove() *)
OnCreatureMove(p) ==
  /\ p \in online
  /\ \E z \in Zones \ {zone[p]} : LET zn == [zone EXCEPT ![p] = z] IN zone' = zn /\ Refreshed(p, level, zn)
  /\ UNCHANGED <<online, level, party, invitations>>

(* addExperience(), removeExperience() *)
ChangeLevel(p) ==
  /\ p \in online
  /\ \E l \in Levels \ {level[p]} : LET lv == [level EXCEPT ![p] = l] IN level' = lv /\ Refreshed(p, lv, zone)
  /\ UNCHANGED <<online, zone, party, invitations>>

(* updatePlayerTicks(): a hit on a monster, or healing another member *)
UpdatePlayerTicks(p) ==
  /\ p \in online /\ party[p] # NoParty
  /\ LET g == party[p]
     IN  heap' = [heap EXCEPT ![g] = UpdatedNow([heap[g] EXCEPT !.ticks = @ \cup {p}])]
  /\ UNCHANGED <<online, level, zone, party, invitations>>

(* onIdleStatus() *)
OnIdleStatus(p) ==
  /\ p \in online /\ party[p] # NoParty
  /\ heap' = [heap EXCEPT ![party[p]] = WithoutPoints(@, p)]
  /\ UNCHANGED <<online, level, zone, party, invitations>>

(* Time passes: the entry of p is older than PZ_LOCKED.  Nothing is run. *)
TicksGrowOld(p) ==
  /\ party[p] # NoParty /\ p \in heap[party[p]].ticks
  /\ LET g == party[p]
     IN  heap' = [heap EXCEPT ![g] = [heap[g] EXCEPT !.ticks = @ \ {p}, !.stale = TRUE]]
  /\ UNCHANGED <<online, level, zone, party, invitations>>

(* onRemoveCreature(): clearPartyInvitations(), then leaveParty().  A party *)
(* that had only invited p disbands.                                       *)
Uninvited(g, p) == [heap[g] EXCEPT !.invites = @ \ {p}]

OnRemoveCreature(p) ==
  LET cleared == [g \in Parties |-> IF g \in invitations[p] THEN Uninvited(g, p) ELSE heap[g]]
      ended   == {g \in invitations[p] : Empty(cleared[g])}
      own     == party[p]
      pt      == Left(cleared[own], p)
      disband == \/ cleared[own].leader = p /\ MissingLeader(cleared[own])
                 \/ Empty(pt)
      gone    == ended \cup {g \in {own} \ {NoParty} : disband}
  IN  /\ p \in online
      /\ online' = online \ {p}
      /\ heap' = [g \in Parties |-> IF g \in gone THEN Free ELSE IF g = own THEN pt ELSE cleared[g]]
      /\ party' = [q \in Players |-> IF q = p \/ party[q] \in gone THEN NoParty ELSE party[q]]
      /\ invitations' = [q \in Players |-> IF q = p THEN {} ELSE invitations[q] \ gone]
      /\ UNCHANGED <<level, zone>>

Login(p) == /\ p \notin online
            /\ online' = online \cup {p}
            /\ UNCHANGED <<level, zone, party, invitations, heap>>

Next == \E p \in Players :
  \/ PlayerLeaveParty(p) \/ OnRemoveCreature(p) \/ Login(p)
  \/ OnCreatureMove(p) \/ ChangeLevel(p)
  \/ UpdatePlayerTicks(p) \/ OnIdleStatus(p) \/ TicksGrowOld(p)
  \/ \E active \in BOOLEAN : PlayerEnableSharedPartyExperience(p, active)
  \/ \E q \in Players : \/ PlayerInviteToParty(p, q) \/ PlayerJoinParty(p, q)
                        \/ PlayerRevokePartyInvitation(p, q) \/ PlayerPassPartyLeadership(p, q)

Spec == Init /\ [][Next]_vars

-----------------------------------------------------------------------------
(* Type invariant: every variable keeps the type it has in the code. *)
TypeOK ==
  /\ online \subseteq Players
  /\ level \in [Players -> Levels] /\ zone \in [Players -> Zones]
  /\ party \in [Players -> Parties \cup {NoParty}]
  /\ invitations \in [Players -> SUBSET Parties]
  /\ heap \in [Parties -> Objects]

(* A player's party pointer and the party's leader and memberList say the  *)
(* same, nobody is in a list twice, everybody in it is on line: neither    *)
(* pointer dangles, and no one is in two parties.                          *)
MembershipAgrees ==
  \A g \in Parties :
    /\ {p \in Players : party[p] = g} = Everybody(heap[g]) \ {NoPlayer}
    /\ Live(g) => Everybody(heap[g]) \subseteq online
    /\ heap[g].leader \notin InSeq(heap[g].members)
    /\ \A m, n \in DOMAIN heap[g].members : heap[g].members[m] = heap[g].members[n] => m = n

(* A party's inviteList and the players' invitePartyList mirror each       *)
(* other; nobody is invited to where he is, nor when off line.             *)
InvitationsAgree ==
  \A p \in Players, g \in Parties :
    /\ (g \in invitations[p]) <=> (p \in heap[g].invites)
    /\ g \in invitations[p] => Live(g) /\ p \in online /\ party[p] # g

(* A party has somebody besides the leader, or has invited somebody: the   *)
(* one that becomes empty is deleted.                                      *)
NoPartyOfOne == \A g \in Parties : Live(g) => ~Empty(heap[g])

(* sharedExpEnabled is a cache.  While sharing is active it says what      *)
(* canEnableSharedExperience() would say, except that nobody looks when an *)
(* entry of ticksMap grows old: joining, leaving, a change of leader, of   *)
(* level or of place, and fighting all bring it up to date.                *)
SharedExperienceUpToDate ==
  \A g \in Parties :
    Live(g) /\ heap[g].active /\ ~heap[g].stale => heap[g].enabled = CanEnable(heap[g], level, zone)

(* The copies of who is in which party, who is invited to it and whether   *)
(* it shares its experience say the same.                                  *)
PartiesAgree == /\ TypeOK
                /\ MembershipAgrees /\ InvitationsAgree
                /\ NoPartyOfOne
                /\ SharedExperienceUpToDate

(* A party of three or more outlives its leader, however he leaves, and    *)
(* the one who has been a member longest leads it.                         *)
LeaderSucceeded ==
  \A g \in Parties :
    Live(g) /\ Len(heap[g].members) > 1 /\ party'[heap[g].leader] # g =>
      heap'[g].leader = Head(heap[g].members) /\ heap'[g].members = Tail(heap[g].members)

(* So it is in every step. *)
PartyOutlivesLeader == [][LeaderSucceeded]_vars
=============================================================================
