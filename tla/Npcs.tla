--------------------------------- MODULE Npcs ---------------------------------
(***************************************************************************)
(* Non-player characters (npc.cpp): when they sleep and wake, how they     *)
(* walk, the creature they attend to, the shop windows their scripts open  *)
(* at players, the callbacks those windows hold in the registry of the     *)
(* script engine, and /reload npcs.                                        *)
(*                                                                         *)
(* Positions are points of a line.  A player sees an NPC up to View away   *)
(* (Player::canSee); creatures up to Hearing away are told of each other's   *)
(* moves (Map::getSpectators).  What an NPC's script answers is left open; *)
(* it opens no shop while one is being closed.                             *)
(***************************************************************************)
EXTENDS Integers, FiniteSets

CONSTANTS Customers,     \* the players
          Npcs, NoNpc,
          Home,            \* NPC -> position it was placed at
          WalkRadius,      \* NPC -> walkradius; 0 never walks
          StreetEnd, View, Hearing, MaxRefs, MaxNpcReloads

VARIABLES npc,      \* NPC -> [there, handler, idle, spectators, focus, shop, pos]
          client,   \* player -> [online, pos, owner, buy, sell, items]
          refs,     \* references of the registry in use
          npcReloads,
          npcFaults \* what went wrong: "dead", "twice", "crash"

npcVars == <<npc, client, refs, npcReloads, npcFaults>>

NoRef == -1

Near(a, b, d) == IF a > b THEN a - b <= d ELSE b - a <= d

PlayersNear(pos) == {p \in Customers : client[p].online /\ Near(client[p].pos, pos, Hearing)}

(***************************************************************************)
(* Sleeping and waking                                                     *)
(***************************************************************************)
SetIdle(n) == [n EXCEPT !.idle = n.spectators = {}]

Reset(n) == [n EXCEPT !.handler = FALSE, !.idle = TRUE, !.focus = FALSE, !.shop = {}, !.spectators = {}]

\* load() and onCreatureAppear() of the NPC itself; a broken file leaves it without a script.
Appear(n, file) == SetIdle([n EXCEPT !.handler = file = "good", !.spectators = PlayersNear(n.pos)])

\* Other creatures' comings, goings and moves, as an NPC near enough is told of them.
PlayerAppears(n, p, pos) ==
    IF n.there /\ Near(n.pos, pos, Hearing) THEN SetIdle([n EXCEPT !.spectators = @ \cup {p}]) ELSE n

PlayerDisappears(n, p, pos) ==
    IF n.there /\ Near(n.pos, pos, Hearing) THEN SetIdle([n EXCEPT !.spectators = @ \ {p}]) ELSE n

PlayerMoves(n, p, old, new) ==
    IF n.there /\ (Near(n.pos, old, Hearing) \/ Near(n.pos, new, Hearing))
    THEN SetIdle([n EXCEPT !.spectators = IF Near(n.pos, new, View) THEN @ \cup {p} ELSE @ \ {p}]) ELSE n

(***************************************************************************)
(* Shop windows                                                            *)
(***************************************************************************)
World == [npc |-> npc, client |-> client, refs |-> refs, faults |-> npcFaults]

Become(w) == npc' = w.npc /\ client' = w.client /\ refs' = w.refs /\ npcFaults' = w.faults

Unref(w, r) == IF r = NoRef THEN w
               ELSE [w EXCEPT !.refs = @ \ {r}, !.faults = IF r \in w.refs THEN @ ELSE @ \cup {"twice"}]

FreeRef(w) == CHOOSE r \in (1 .. MaxRefs) \ w.refs : \A q \in (1 .. MaxRefs) \ w.refs : r <= q

\* luaL_ref takes what is on top of the stack: with nil after the buy callback that is nil.
TakeRefs(w, args) ==
    CASE args = "both" -> LET sell == FreeRef(w)
                              v == [w EXCEPT !.refs = @ \cup {sell}]
                          IN  [w |-> [v EXCEPT !.refs = @ \cup {FreeRef(v)}], buy |-> FreeRef(v), sell |-> sell]
      [] args = "buy" -> [w |-> [w EXCEPT !.refs = @ \cup {FreeRef(w)}], buy |-> FreeRef(w), sell |-> NoRef]
      [] args = "buy, nil" -> [w |-> w, buy |-> NoRef, sell |-> NoRef]

SetShopOwner(w, p, n, buy, sell) == [w EXCEPT !.client[p] = [@ EXCEPT !.owner = n, !.buy = buy, !.sell = sell]]

AddShopPlayer(w, n, p) == [w EXCEPT !.npc[n].shop = @ \cup {p}]

\* fault: the NPC goes on counting the player among its customers
KeepShopPlayer(w, n, p) == w

RemoveShopPlayer(w, n, p) == [w EXCEPT !.npc[n].shop = @ \ {p}]

\* Npc::onPlayerEndTrade reaches for the NPC's script interface.
OnPlayerEndTrade(w, n, p, buy, sell) ==
    IF ~w.npc[n].handler THEN [w EXCEPT !.faults = @ \cup {"crash"}]
    ELSE RemoveShopPlayer(Unref(Unref(w, buy), sell), n, p)

CloseShopWindow(w, p) ==
    LET q == w.client[p]
        closed == IF q.owner = NoNpc THEN w
                  ELSE OnPlayerEndTrade(SetShopOwner(w, p, NoNpc, NoRef, NoRef), q.owner, p, q.buy, q.sell)
    IN  [closed EXCEPT !.client[p].items = FALSE]

CloseWindow(w, n, p) == IF w.client[p].owner = NoNpc THEN RemoveShopPlayer(w, n, p) ELSE CloseShopWindow(w, p)

\* while an NPC of ns has a customer left
CloseAllShopWindows(w, ns) ==
    LET open == {c \in ns \X Customers : c[2] \in w.npc[c[1]].shop}
        after[cs \in SUBSET open] ==
            IF cs = {} THEN w
            ELSE LET c == CHOOSE d \in cs : TRUE IN CloseWindow(after[cs \ {c}], c[1], c[2])
    IN  after[open]

\* openShopWindow and npc:openShopWindow
OpenShopWindow == \E n \in Npcs, p \in Customers, args \in {"both", "buy", "buy, nil"} :
    /\ npc[n].there /\ npc[n].handler /\ client[p].online
    /\ LET closed == CloseShopWindow(World, p)
           took == TakeRefs(closed, args)
           added == [AddShopPlayer(took.w, n, p) EXCEPT !.client[p].items = TRUE]
       IN  Cardinality(closed.refs) + 2 <= MaxRefs /\ Become(SetShopOwner(added, p, n, took.buy, took.sell))
    /\ UNCHANGED npcReloads

\* closeShopWindow and npc:closeShopWindow: only of a window of this NPC.
LuaCloseShopWindow == \E n \in Npcs, p \in Customers :
    /\ npc[n].there /\ npc[n].handler /\ client[p].online /\ client[p].owner = n
    /\ LET released == Unref(Unref(World, client[p].buy), client[p].sell)
       IN  Become(RemoveShopPlayer(SetShopOwner(released, p, NoNpc, NoRef, NoRef), n, p))
    /\ UNCHANGED npcReloads

\* The client closes the window.
PlayerCloseShop == \E p \in Customers : /\ client[p].online /\ Become(CloseShopWindow(World, p))
                                      /\ UNCHANGED npcReloads

\* A purchase needs the merchant and the ware, a sale the merchant only; each runs its callback.
PlayerTrades == \E p \in Customers, buys \in BOOLEAN :
    LET ref == IF buys THEN client[p].buy ELSE client[p].sell
    IN  /\ client[p].online /\ client[p].owner # NoNpc /\ (buys => client[p].items)
        /\ npc[client[p].owner].handler /\ ref # NoRef
        /\ npcFaults' = IF ref \in refs THEN npcFaults ELSE npcFaults \cup {"dead"}
        /\ UNCHANGED <<npc, client, refs, npcReloads>>

(***************************************************************************)
(* Players                                                                 *)
(***************************************************************************)
PlayerLogin == \E p \in Customers, pos \in 0 .. StreetEnd :
    /\ ~client[p].online
    /\ client' = [client EXCEPT ![p].online = TRUE, ![p].pos = pos]
    /\ npc' = [n \in Npcs |-> PlayerAppears(npc[n], p, pos)]
    /\ UNCHANGED <<refs, npcReloads, npcFaults>>

\* Logging out closes the shop, then those around are told.
PlayerLogout == \E p \in Customers :
    /\ client[p].online
    /\ LET w == CloseShopWindow(World, p)
       IN  Become([w EXCEPT !.client[p].online = FALSE,
                            !.npc = [n \in Npcs |-> PlayerDisappears(w.npc[n], p, client[p].pos)]])
    /\ UNCHANGED npcReloads

PlayerMove == \E p \in Customers, pos \in 0 .. StreetEnd :
    /\ client[p].online /\ pos # client[p].pos /\ Near(pos, client[p].pos, 1)
    /\ client' = [client EXCEPT ![p].pos = pos]
    /\ npc' = [n \in Npcs |-> PlayerMoves(npc[n], p, client[p].pos, pos)]
    /\ UNCHANGED <<refs, npcReloads, npcFaults>>

(***************************************************************************)
(* NPCs                                                                    *)
(***************************************************************************)
CanWalkTo(n, pos) == WalkRadius[n] # 0 /\ Near(pos, Home[n], WalkRadius[n]) /\ \A m \in Npcs : npc[m].there => npc[m].pos # pos

\* Its own step tells an NPC nothing about who sees it.
NpcWalks == \E n \in Npcs, pos \in 0 .. StreetEnd :
    /\ npc[n].there /\ ~npc[n].idle /\ ~npc[n].focus
    /\ Near(pos, npc[n].pos, 1) /\ CanWalkTo(n, pos)
    /\ npc' = [npc EXCEPT ![n].pos = pos]
    /\ UNCHANGED <<client, refs, npcReloads, npcFaults>>

\* Whom it attends to is the script's affair; an NPC that attends to somebody does not walk.
SetCreatureFocus == \E n \in Npcs :
    /\ npc[n].there /\ npc[n].handler
    /\ ~npc[n].focus => \E p \in Customers : client[p].online
    /\ npc' = [npc EXCEPT ![n].focus = ~@]
    /\ UNCHANGED <<client, refs, npcReloads, npcFaults>>

\* An NPC is placed on the map; one whose file cannot be read is not made at all.
CreateNpc == \E n \in Npcs :
    /\ ~npc[n].there
    /\ npc' = [npc EXCEPT ![n] = Appear([Reset(npc[n]) EXCEPT !.there = TRUE, !.pos = Home[n]], "good")]
    /\ UNCHANGED <<client, refs, npcReloads, npcFaults>>

RemoveNpc == \E n \in Npcs : /\ npc[n].there
                             /\ LET w == CloseAllShopWindows(World, {n})
                                IN  Become([w EXCEPT !.npc[n].there = FALSE])
                             /\ UNCHANGED npcReloads

\* /reload npcs: every shop is closed before the first NPC is reset.
Reload == /\ npcReloads < MaxNpcReloads
          /\ npcReloads' = npcReloads + 1
          /\ \E file \in [Npcs -> {"good", "broken"}] :
                LET w == CloseAllShopWindows(World, {n \in Npcs : npc[n].there})
                IN  Become([w EXCEPT !.npc = [n \in Npcs |-> IF w.npc[n].there THEN Appear(Reset(w.npc[n]), file[n]) ELSE w.npc[n]]])

NpcInit == /\ npc = [n \in Npcs |-> [there |-> FALSE, handler |-> FALSE, idle |-> TRUE, spectators |-> {}, focus |-> FALSE, shop |-> {}, pos |-> Home[n]]]
        /\ client = [p \in Customers |-> [online |-> FALSE, pos |-> 0, owner |-> NoNpc, buy |-> NoRef, sell |-> NoRef, items |-> FALSE]]
        /\ refs = {} /\ npcReloads = 0 /\ npcFaults = {}

NpcNext == OpenShopWindow \/ LuaCloseShopWindow \/ PlayerCloseShop \/ PlayerTrades \/ PlayerLogin \/ PlayerLogout
        \/ PlayerMove \/ NpcWalks \/ SetCreatureFocus \/ CreateNpc \/ RemoveNpc \/ Reload

NpcSpec == NpcInit /\ [][NpcNext]_npcVars

(***************************************************************************)
(* Properties                                                              *)
(***************************************************************************)
NpcTypeOK == /\ refs \subseteq 1 .. MaxRefs
          /\ \A n \in Npcs : npc[n].spectators \subseteq Customers /\ npc[n].pos \in 0 .. StreetEnd
          /\ \A p \in Customers : client[p].owner \in Npcs \cup {NoNpc}

\* A player is among an NPC's customers exactly while the NPC owns his shop window, and then
\* both are in the game and the NPC still has the script that answers (npc.cpp, player.cpp).
CustomersAgree == \A n \in Npcs, p \in Customers :
    /\ p \in npc[n].shop <=> client[p].owner = n
    /\ client[p].owner = n => npc[n].there /\ npc[n].handler /\ client[p].online

\* Every reference of the registry is held by one open window, and every window's references
\* are in use: none is released twice, leaks or comes to mean another window's callback.
RefsAreOwned ==
    LET held(p) == {client[p].buy, client[p].sell} \ {NoRef}
    IN  /\ refs = UNION {held(p) : p \in Customers}
        /\ \A p, q \in Customers : p # q => held(p) \cap held(q) = {}
        /\ npcFaults = {}

\* An NPC that never walks is awake while a player sees it, and only players that are in the
\* game keep it awake, through logins, logouts, moves, reloads and its own coming and going.
SeenIsAwake == \A n \in Npcs : npc[n].there /\ WalkRadius[n] = 0 =>
    /\ \A p \in Customers : client[p].online /\ Near(client[p].pos, npc[n].pos, View) => ~npc[n].idle
    /\ \A p \in npc[n].spectators : client[p].online

NpcsAgree == NpcTypeOK /\ CustomersAgree /\ RefsAreOwned /\ SeenIsAwake

NpcsAssumption == /\ NoNpc \notin Customers \cup Npcs /\ IsFiniteSet(Npcs) /\ IsFiniteSet(Customers)
                  /\ StreetEnd \in Nat /\ Home \in [Npcs -> 0 .. StreetEnd] /\ WalkRadius \in [Npcs -> Nat]
                  /\ View \in Nat /\ Hearing \in Nat /\ View <= Hearing
                  /\ MaxRefs \in Nat \ {0, 1} /\ MaxNpcReloads \in Nat
==============================================================================
