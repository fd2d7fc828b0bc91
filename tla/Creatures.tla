------------------------------ MODULE Creatures ------------------------------
(***************************************************************************)
(* Creatures of the game: placing and removing (src/src/game.cpp), the     *)
(* lists of creatures that think (addCreatureCheck, checkCreatures), what  *)
(* monsters know of those around them (src/src/monster.cpp), masters and   *)
(* summons (src/src/creature.cpp), death, and the reference counters that  *)
(* tell when a Creature is deleted.  All of it runs on the dispatcher;     *)
(* what onThink() does happens inside the loop of checkCreatures().        *)
(***************************************************************************)
EXTENDS Naturals, Sequences, FiniteSets, SequencesExt, FiniteSetsExt

CONSTANTS Players, Monsters,
          NoCreature,
          Places,       \* positions; one place is seen from itself only
          Lists,        \* EVENT_CREATURECOUNT
          Summoners     \* those that get summons

Creatures == Players \cup Monsters

CreaturesAssumption ==
  /\ Players \cap Monsters = {} /\ NoCreature \notin Creatures /\ IsFiniteSet(Creatures)
  /\ Lists \in Nat \ {0} /\ Summoners \subseteq Creatures

VARIABLES
  game,   \* the creatures and what Game knows of them, see Init
  loop    \* checkCreatures(): [on, index, pos, thinking]

vars == <<game, loop>>

Init ==
  /\ game = [state     |-> [c \in Creatures |-> "none"],    \* none, placed or removed
             at        |-> [c \in Creatures |-> CHOOSE p \in Places : TRUE],
             alive     |-> [c \in Creatures |-> FALSE],     \* health > 0
             ref       |-> [c \in Creatures |-> 0],         \* referenceCounter
             check     |-> [c \in Creatures |-> FALSE],     \* creatureCheck
             listed    |-> [c \in Creatures |-> FALSE],     \* inCheckCreaturesVector
             idle      |-> [c \in Creatures |-> TRUE],      \* Monster::isIdle
             master    |-> [c \in Creatures |-> NoCreature],
             summons   |-> [c \in Creatures |-> {}],
             targets   |-> [c \in Creatures |-> {}],        \* Monster::targetList
             friends   |-> [c \in Creatures |-> {}],        \* Monster::friendList
             list      |-> [i \in 0..(Lists - 1) |-> <<>>], \* checkCreatureLists
             toRelease |-> <<>>,                            \* ToReleaseCreatures
             deaths    |-> {}]                              \* executeDeath() tasks
  /\ loop = [on |-> FALSE, index |-> 0, pos |-> 1, thinking |-> FALSE]

Occurrences(seq, c) == Len(SelectSeq(seq, LAMBDA d : d = c))
Placed(g, c) == g.state[c] = "placed"
CanSee(g, m, c) == g.at[m] = g.at[c]

(* incrementReferenceCounter(), decrementReferenceCounter() of many *)
Held(g, s) == [g EXCEPT !.ref = [c \in Creatures |-> @[c] + IF c \in s THEN 1 ELSE 0]]
Given(g, s) == [g EXCEPT !.ref = [c \in Creatures |-> @[c] - IF c \in s THEN 1 ELSE 0]]

-----------------------------------------------------------------------------
(* addCreatureCheck(): the random list is the same one for all that one    *)
(* step adds.                                                              *)
AddCreatureCheck(g, c, b) ==
  IF g.listed[c] THEN [g EXCEPT !.check[c] = TRUE]
  ELSE Held([g EXCEPT !.check[c] = TRUE, !.listed[c] = TRUE, !.list[b] = Append(@, c)], {c})

RemoveCreatureCheck(g, c) == IF g.listed[c] THEN [g EXCEPT !.check[c] = FALSE] ELSE g

KeepsReferences(g, m) == [g EXCEPT !.targets[m] = {}, !.friends[m] = {}]   \* fault: lists emptied only
ClearLists(g, m) ==
  Given(Given([g EXCEPT !.targets[m] = {}, !.friends[m] = {}], g.targets[m]), g.friends[m])

SetIdle(g, m, idle, b) ==
  IF g.state[m] = "removed" \/ ~g.alive[m] THEN g
  ELSE IF idle THEN RemoveCreatureCheck(ClearLists([g EXCEPT !.idle[m] = TRUE], m), m)
  ELSE AddCreatureCheck([g EXCEPT !.idle[m] = FALSE], m, b)

UpdateIdleStatus(g, m, b) == SetIdle(g, m, g.master[m] = NoCreature /\ g.targets[m] = {}, b)

(* isFriend() and isOpponent(); the players have no party. *)
OfPlayer(g, c) == g.master[c] \in Players
IsFriend(g, m, c) == IF OfPlayer(g, m) THEN c = g.master[m] \/ g.master[c] = g.master[m]
                     ELSE c \in Monsters /\ g.master[c] = NoCreature
IsOpponent(g, m, c) == IF OfPlayer(g, m) THEN c # g.master[m]
                       ELSE c \in Players \/ OfPlayer(g, c)

AddFriend(g, m, c) == IF c \in g.friends[m] THEN g ELSE Held([g EXCEPT !.friends[m] = @ \cup {c}], {c})
AddTarget(g, m, c) == IF c \in g.targets[m] THEN g ELSE Held([g EXCEPT !.targets[m] = @ \cup {c}], {c})
RemoveFriend(g, m, c) == IF c \in g.friends[m] THEN Given([g EXCEPT !.friends[m] = @ \ {c}], {c}) ELSE g
RemoveTarget(g, m, c) == IF c \in g.targets[m] THEN Given([g EXCEPT !.targets[m] = @ \ {c}], {c}) ELSE g

OnCreatureFound(g, m, c, b) ==
  IF ~CanSee(g, m, c) THEN g
  ELSE LET h == IF IsFriend(g, m, c) THEN AddFriend(g, m, c) ELSE g
           k == IF IsOpponent(g, m, c) THEN AddTarget(h, m, c) ELSE h
       IN  UpdateIdleStatus(k, m, b)

OnCreatureLeave(g, m, c, b) ==
  LET h == IF IsFriend(g, m, c) THEN RemoveFriend(g, m, c) ELSE g
  IN  IF IsOpponent(g, m, c) THEN UpdateIdleStatus(RemoveTarget(h, m, c), m, b) ELSE h

(* updateTargetList(): what is dead or out of sight goes, what is in sight *)
(* is found.                                                               *)
Lost(g, m, s) == {c \in s : ~g.alive[c] \/ ~CanSee(g, m, c)}
UpdateTargetList(g, m, b) ==
  LET gone == Lost(g, m, g.targets[m])
      left == Lost(g, m, g.friends[m])
      h == Given(Given([g EXCEPT !.targets[m] = @ \ gone, !.friends[m] = @ \ left], gone), left)
      around == {c \in Creatures \ {m} : Placed(g, c) /\ CanSee(g, m, c)}
  IN  FoldSet(LAMBDA c, k : OnCreatureFound(k, m, c, b), h, around)

-----------------------------------------------------------------------------
(* setMaster(); a master has no master itself, and one summons list holds  *)
(* a summon once.                                                          *)
SetMaster(g, c, m) ==
  LET old == g.master[c]
      h == IF m = NoCreature THEN g ELSE Held([g EXCEPT !.summons[m] = @ \cup {c}], {c})
      k == [h EXCEPT !.master[c] = m]
  IN  IF old # NoCreature /\ c \in g.summons[old]
      THEN Given([k EXCEPT !.summons[old] = @ \ {c}], {c})
      ELSE k

RemoveMaster(g, c) == IF g.master[c] = NoCreature THEN g ELSE Given([g EXCEPT !.master[c] = NoCreature], {c})

(* onRemoveCreature() of the creature itself and of a monster that sees it *)
LeavesMaster(g, c) == g.master[c] # NoCreature /\ g.state[g.master[c]] # "removed"
OnRemoveSelf(g, c, b) ==
  LET h == IF LeavesMaster(g, c) THEN SetMaster(g, c, NoCreature) ELSE g
  IN  IF c \in Monsters THEN SetIdle(h, c, TRUE, b) ELSE h

(* removeCreature() but for its summons: the spectators hear of it in any  *)
(* order; `first' says whether the creature itself hears of it first.  A   *)
(* task executeDeath() will not find it any more.                          *)
StopsThinking(g, c) == RemoveCreatureCheck(g, c)
RemoveOne(g, c, b, first) ==
  LET seers == {m \in Monsters \ {c} : Placed(g, m) /\ CanSee(g, m, c)}
      told(h) == FoldSet(LAMBDA m, k : OnCreatureLeave(k, m, c, b), h, seers)
      h == IF first THEN told(OnRemoveSelf(g, c, b)) ELSE OnRemoveSelf(told(g), c, b)
  IN  StopsThinking([h EXCEPT !.state[c] = "removed", !.toRelease = Append(@, c), !.deaths = @ \ {c}], c)

RemoveCreature(g, c, b, first) ==
  LET h == RemoveOne(g, c, b, first)
  IN  FoldSet(LAMBDA s, k : IF Placed(k, s) THEN RemoveOne(k, s, b, first) ELSE k, h, h.summons[c])

ChangeHealth(g, c, b) ==
  LET h == IF c \in Monsters THEN SetIdle(g, c, FALSE, b) ELSE g
  IN  [h EXCEPT !.alive[c] = FALSE, !.deaths = @ \cup {c}]

(* onDeath() with Monster::death() *)
Death(g, c, b) ==
  LET k == FoldSet(LAMBDA s, h : RemoveMaster(ChangeHealth(h, s, b), s), g, g.summons[c])
  IN  IF c \in Monsters THEN ClearLists([k EXCEPT !.summons[c] = {}], c) ELSE g
OnDeath(g, c, b, first) ==
  LET h == Death(g, c, b)
  IN  RemoveCreature(IF h.master[c] = NoCreature THEN h ELSE SetMaster(h, c, NoCreature), c, b, first)

(* internalPlaceCreature(), and what placeCreature() does besides *)
New(g, c, p) ==
  Held([g EXCEPT !.state[c] = "placed", !.at[c] = p, !.alive[c] = TRUE, !.idle[c] = TRUE], {c})
Appears(g, c, b) ==
  LET seers == {m \in Monsters \ {c} : Placed(g, m) /\ CanSee(g, m, c)}
      h == FoldSet(LAMBDA m, k : OnCreatureFound(k, m, c, b), g, seers)
  IN  IF c \in Monsters THEN UpdateIdleStatus(UpdateTargetList(h, c, b), c, b) ELSE h

(* onCreatureMove() of all that see the move *)
Moves(g, c, p, b) ==
  LET from == g.at[c]
      h == [g EXCEPT !.at[c] = p]
      moved(m, k) == UpdateIdleStatus(IF g.at[m] = p THEN OnCreatureFound(k, m, c, b)
                                      ELSE OnCreatureLeave(k, m, c, b), m, b)
      others == {m \in Monsters \ {c} : Placed(g, m) /\ g.at[m] \in {from, p}}
      k == FoldSet(LAMBDA m, l : moved(m, l), h, others)
  IN  IF c \in Monsters THEN UpdateIdleStatus(UpdateTargetList(k, c, b), c, b) ELSE k

(* The destructors: ~Creature() and ~Monster() of what has no reference    *)
(* left, and of what that sets free.                                       *)
Sweep(g) ==
  LET dead == {c \in Creatures : g.state[c] # "none" /\ g.ref[c] = 0}
      free(h, c) == ClearLists(FoldSet(LAMBDA s, k : RemoveMaster(k, s), h, g.summons[c]), c)
      h == FoldSet(LAMBDA c, k : free(k, c), g, dead)
  IN  [h EXCEPT !.state = [c \in Creatures |-> IF c \in dead THEN "none" ELSE @[c]],
                !.summons = [c \in Creatures |-> IF c \in dead THEN {} ELSE @[c]],
                !.alive = [c \in Creatures |-> IF c \in dead THEN FALSE ELSE @[c]],
                !.idle = [c \in Creatures |-> IF c \in dead THEN TRUE ELSE @[c]],
                !.at = [c \in Creatures |-> IF c \in dead THEN CHOOSE p \in Places : TRUE ELSE @[c]]]
Deleted(g) == FoldSet(LAMBDA c, h : Sweep(h), g, Creatures)

Cleanup(g) == [g EXCEPT !.ref = [c \in Creatures |-> @[c] - Occurrences(g.toRelease, c)],
                        !.toRelease = <<>>]

-----------------------------------------------------------------------------
(* What happens between two rounds of checkCreatures(), or as part of the  *)
(* onThink(), onAttacking() or executeConditions() of a creature in one.   *)
MayAct == ~loop.on \/ loop.thinking
Does(h) == MayAct /\ game' = Deleted(h) /\ UNCHANGED loop

PlaceCreature(c, p, b) ==
  game.state[c] = "none" /\ Does(AddCreatureCheck(Appears(New(game, c, p), c, b), c, b))

(* Spawns place their monsters like this when the server starts. *)
InternalPlaceCreature(c, p) ==
  /\ c \in Monsters /\ game.state[c] = "none"
  /\ \A q \in Players : game.state[q] = "none"
  /\ Does(New(game, c, p))

TakeOut(c, b, first) == Placed(game, c) /\ Does(RemoveCreature(game, c, b, first))

Hit(c, b) == Placed(game, c) /\ game.alive[c] /\ Does(ChangeHealth(game, c, b))

ExecuteDeath(c, b, first) ==
  /\ ~loop.on
  /\ c \in game.deaths
  /\ Does(OnDeath([game EXCEPT !.deaths = @ \ {c}], c, b, first))

Move(c, p, b) == Placed(game, c) /\ game.at[c] # p /\ Does(Moves(game, c, p, b))

Summon(c, m) ==
  /\ c \in Monsters /\ Placed(game, c) /\ game.alive[c] /\ game.summons[c] = {}
  /\ m \in Summoners \ {c} /\ Placed(game, m) /\ game.master[m] = NoCreature
  /\ game.master[c] # m
  /\ Does(SetMaster(game, c, m))

(* checkCreatures() *)
BeginCheck == /\ ~loop.on
              /\ loop' = [loop EXCEPT !.on = TRUE, !.pos = 1, !.thinking = FALSE]
              /\ UNCHANGED game

Checked == game.list[loop.index]
Look ==
  /\ loop.on /\ ~loop.thinking /\ loop.pos <= Len(Checked)
  /\ LET c == Checked[loop.pos]
     IN  IF game.check[c]
         THEN /\ loop' = IF game.alive[c] THEN [loop EXCEPT !.thinking = TRUE]
                         ELSE [loop EXCEPT !.pos = @ + 1]
              /\ UNCHANGED game
         ELSE /\ game' = [game EXCEPT !.listed[c] = FALSE, !.toRelease = Append(@, c),
                                      !.list[loop.index] = RemoveAt(@, loop.pos)]
              /\ UNCHANGED loop

EndThink == loop.thinking /\ loop' = [loop EXCEPT !.thinking = FALSE, !.pos = @ + 1] /\ UNCHANGED game

SameList(i) == i                                     \* fault: the round never gets to the other lists
NextList(i) == (i + 1) % Lists
EndCheck ==
  /\ loop.on /\ ~loop.thinking /\ loop.pos > Len(Checked)
  /\ game' = Deleted(Cleanup(game))
  /\ loop' = [loop EXCEPT !.on = FALSE, !.index = NextList(@), !.pos = 1]

Next == \/ BeginCheck \/ Look \/ EndThink \/ EndCheck
        \/ \E c \in Creatures, b \in 0..(Lists - 1) :
             \/ Hit(c, b)
             \/ \E first \in BOOLEAN : TakeOut(c, b, first) \/ ExecuteDeath(c, b, first)
             \/ \E p \in Places : Move(c, p, b) \/ PlaceCreature(c, p, b)
        \/ \E c \in Monsters : \/ \E p \in Places : InternalPlaceCreature(c, p)
                               \/ \E m \in Summoners : Summon(c, m)
Spec == Init /\ [][Next]_vars

(* checkCreatures() re-schedules itself and its loop ends; the tasks of    *)
(* executeDeath() are run.  Some step of the loop is always enabled, and a *)
(* task when no loop is running: these are the weak fairness conditions    *)
(* with ENABLED written out.                                               *)
CheckStep == BeginCheck \/ Look \/ EndThink \/ EndCheck
DeathStep(c) == \E b \in 0..(Lists - 1), first \in BOOLEAN : ExecuteDeath(c, b, first)
FairSpec == /\ Spec
            /\ []<><<CheckStep>>_vars
            /\ \A c \in Creatures : []<>(loop.on \/ c \notin game.deaths) \/ []<><<DeathStep(c)>>_vars

-----------------------------------------------------------------------------
(* Type invariant. *)
TypeOK ==
  /\ game.state \in [Creatures -> {"none", "placed", "removed"}]
  /\ game.ref \in [Creatures -> Nat]
  /\ game.master \in [Creatures -> Creatures \cup {NoCreature}]
  /\ \A f \in {game.summons, game.targets, game.friends} : f \in [Creatures -> SUBSET Creatures]
  /\ \A f \in {game.alive, game.check, game.listed, game.idle} : f \in [Creatures -> BOOLEAN]
  /\ game.list \in [0..(Lists - 1) -> Seq(Creatures)] /\ game.toRelease \in Seq(Creatures)
  /\ game.deaths \subseteq Creatures
  /\ loop.index \in 0..(Lists - 1) /\ loop.pos \in Nat /\ loop.on \in BOOLEAN /\ loop.thinking \in BOOLEAN

InLists(c) == FoldSet(LAMBDA i, n : n + Occurrences(game.list[i], c), 0, DOMAIN game.list)
Holders(f, c) == Cardinality({m \in Creatures : c \in f[m]})

(* The counter of a creature is the number of its holders: the map, the    *)
(* lists of creatures that think, its master, monsters that know it, and   *)
(* the releases not done yet.                                              *)
RefsAgree ==
  \A c \in Creatures :
    game.ref[c] = (IF Placed(game, c) THEN 1 ELSE 0) + InLists(c) + Occurrences(game.toRelease, c)
                  + Holders(game.summons, c) + Holders(game.targets, c) + Holders(game.friends, c)

(* Master and summons, which no counter protects, point at each other and  *)
(* never at a creature that is deleted.                                    *)
MastersAgree ==
  \A c \in Creatures, m \in Creatures :
    (game.master[c] = m) <=> (c \in game.summons[m])
    /\ (game.master[c] = m => game.state[c] # "none" /\ game.state[m] # "none")

(* The flags say where a creature is: in one list, once, or in none. *)
ListedOnce == \A c \in Creatures : /\ InLists(c) = IF game.listed[c] THEN 1 ELSE 0
                                   /\ game.check[c] => game.listed[c]

(* Who is in the game and awake will think, and who has left it will not   *)
(* be called again once the round is over.                                 *)
AwakeThinks ==
  \A c \in Creatures :
    /\ Placed(game, c) /\ game.alive[c] /\ (c \in Players \/ ~game.idle[c]) => game.check[c]
    /\ game.state[c] = "removed" => ~game.check[c]

(* onCreatureLeave() (`update targetList', src/src/monster.cpp) forgets    *)
(* those that leave: a monster's targets are in the game and in sight.     *)
TargetsAreHere ==
  \A m \in Monsters : Placed(game, m) =>
    \A c \in game.targets[m] : Placed(game, c) /\ CanSee(game, m, c)

(* Who was removed is deleted in the end. *)
RemovedIsDeleted == \A c \in Creatures : game.state[c] = "removed" ~> game.state[c] # "removed"

(* Every creature that is awake gets its turn to think. *)
AwakeGetsTurn ==
  \A c \in Creatures : game.check[c] ~> \/ ~game.check[c]
                                        \/ loop.on /\ loop.pos <= Len(Checked) /\ Checked[loop.pos] = c
=============================================================================
