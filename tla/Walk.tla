-------------------------------- MODULE Walk --------------------------------
(***************************************************************************)
(* How a player walks: the list of steps and the event that takes the next *)
(* one (src/src/creature.cpp), the action that waits for the end of the    *)
(* walk (src/src/player.cpp) and the commands of the client                *)
(* (src/src/game.cpp).  An event is armed in the scheduler until its time  *)
(* comes and is then a task of the dispatcher, which stopEvent() does not  *)
(* reach.  Directions are left out: a walk is a number of steps.           *)
(***************************************************************************)
EXTENDS Naturals, Sequences, FiniteSets

CONSTANTS Tasks,        \* actions that need a walk first
          NoTask,
          Ids,          \* identifiers of events; one is used again when forgotten
          NoId,         \* 0
          MaxSteps,     \* length of a path
          MaxCommands   \* bound on what client, scripts and others do

WalkAssumption == /\ NoTask \notin Tasks /\ NoId \notin Ids
                  /\ MaxSteps \in Nat \ {0} /\ MaxCommands \in Nat

(* There are more identifiers than commands make events: the counter of    *)
(* the scheduler has 32 bits.                                              *)
IdsSuffice == IsFiniteSet(Ids) => Cardinality(Ids) > MaxCommands + 2

VARIABLES
  player,    \* what Creature and Player keep, see WalkInit
  armed,     \* events of the scheduler
  queue,     \* tasks of the dispatcher
  commands   \* number of commands so far

walkVars == <<player, armed, queue, commands>>

(* Events are walks (task = NoTask) and walk actions. *)
Event(id, t) == [id |-> id, task |-> t, steps |-> 0]
Path(n) == [id |-> NoId, task |-> NoTask, steps |-> n]     \* playerAutoWalk()

WalkInit == /\ player = [steps |-> 0,           \* listWalkDir
                     eventWalk |-> NoId,
                     cancel |-> FALSE,      \* cancelNextWalk
                     fast |-> TRUE,         \* getStepSpeed() > 0
                     blocked |-> FALSE,     \* movementBlocked
                     delay |-> FALSE,       \* getWalkDelay() > 0
                     walkTask |-> NoTask, taskEvent |-> NoId,
                     halted |-> FALSE,      \* for the properties: by a teleport,
                     broken |-> FALSE]     \* or by the loss of speed, or refused
        /\ armed = {} /\ queue = <<>> /\ commands = 0

(* The functions below work on [p, armed], the player and the scheduler. *)
QueuedIds == {queue[i].id : i \in DOMAIN queue}
Used(s) == {e.id : e \in s.armed} \cup QueuedIds \cup {s.p.eventWalk, s.p.taskEvent}
Fresh(s) == CHOOSE id \in Ids : id \notin Used(s)

StopEvent(s, id) == [s EXCEPT !.armed = {e \in @ : e.id # id}]
AddEvent(s, t) == [s EXCEPT !.armed = @ \cup {Event(Fresh(s), t)}]

ForgetsHandle(s) == StopEvent(s, s.p.eventWalk)          \* fault: eventWalk not set to 0
StopEventWalk(s) == [StopEvent(s, s.p.eventWalk) EXCEPT !.p.eventWalk = NoId]

(* setNextWalkActionTask(), which deletes the task it replaces *)
SetNextWalkActionTask(s, t) ==
  [StopEvent(s, s.p.taskEvent) EXCEPT !.p.taskEvent = NoId, !.p.walkTask = t]

RunsTask(s) == [AddEvent(s, s.p.walkTask) EXCEPT !.p.taskEvent = Fresh(s), !.p.walkTask = NoTask]
OnWalkComplete(s) == IF s.p.walkTask = NoTask THEN s ELSE RunsTask(s)
OnWalkAborted(s) == SetNextWalkActionTask(s, NoTask)

(* addEventWalk() when the first step is not to be taken right away *)
Arm(s) == [AddEvent(s, NoTask) EXCEPT
             !.p = [s.p EXCEPT !.eventWalk = Fresh(s), !.halted = FALSE, !.broken = FALSE]]
AddEventWalk(s) ==
  LET c == [s EXCEPT !.p.cancel = FALSE]
  IN  IF s.p.fast /\ s.p.eventWalk = NoId THEN Arm(c) ELSE c

(* onWalk(): a step is made, fails, ends on a teleport or on something     *)
(* that stops the player; the rest is done in any case.                    *)
Outcomes == {"moved", "failed", "teleported"}
TakeStep(s, outcome) ==
  LET w == [s EXCEPT !.p = [s.p EXCEPT !.steps = s.p.steps - 1, !.delay = outcome # "failed"]]
  IN  IF outcome = "teleported" THEN [StopEventWalk(w) EXCEPT !.p.halted = TRUE] ELSE w
NextStep(s, outcome) == IF s.p.delay THEN s
                        ELSE IF s.p.steps > 0 THEN TakeStep(s, outcome)
                        ELSE OnWalkComplete(StopEventWalk(s))
Cancelled(s) == IF ~s.p.cancel THEN s
                ELSE [OnWalkAborted([s EXCEPT !.p.steps = 0]) EXCEPT !.p.cancel = FALSE]
Continues(s) == IF s.p.eventWalk = NoId THEN s ELSE AddEventWalk([s EXCEPT !.p.eventWalk = NoId])
OnWalk(s, outcome) == Continues(Cancelled(NextStep(s, outcome)))

(* startAutoWalk(): a single step is taken at once, `ticks == 1', and an   *)
(* event armed for the next.                                               *)
StartAutoWalk(s, n, outcome) ==
  LET c == [s EXCEPT !.p = [s.p EXCEPT !.steps = n, !.cancel = FALSE]]
  IN  IF s.p.blocked THEN [s EXCEPT !.p.broken = TRUE]
      ELSE IF ~s.p.fast \/ s.p.eventWalk # NoId THEN c
      ELSE IF n = 1 /\ ~s.p.delay THEN Arm(OnWalk(c, outcome))
      ELSE Arm(c)

State == [p |-> player, armed |-> armed]
Becomes(s) == player' = s.p /\ armed' = s.armed

-----------------------------------------------------------------------------
Command == commands < MaxCommands /\ commands' = commands + 1

PlayerMove(outcome) ==
  /\ Command /\ ~player.blocked
  /\ Becomes(StartAutoWalk(SetNextWalkActionTask(State, NoTask), 1, outcome))
  /\ UNCHANGED queue

PlayerAutoWalk(n, outcome) ==
  /\ Command
  /\ Becomes(StartAutoWalk(State, n, outcome))
  /\ UNCHANGED queue

(* playerUseItem() and the like, from too far away *)
PlayerUseItem(t, n) ==
  /\ Command
  /\ player.walkTask # t /\ \A e \in armed : e.task # t
  /\ \A i \in DOMAIN queue : queue[i].task # t
  /\ queue' = Append(queue, Path(n))
  /\ Becomes(SetNextWalkActionTask(State, t))

PlayerStopAutoWalk ==
  /\ Command
  /\ player' = [player EXCEPT !.cancel = TRUE] /\ UNCHANGED <<armed, queue>>

SetMovementBlocked(b) ==
  /\ Command /\ player.blocked # b
  /\ player' = [player EXCEPT !.blocked = b, !.cancel = TRUE] /\ UNCHANGED <<armed, queue>>

(* setSpeed() *)
SetSpeed(fast) ==
  /\ Command
  /\ LET s == [State EXCEPT !.p.fast = fast]
         stopped == StopEventWalk(s)
     IN  Becomes(IF ~fast THEN [stopped EXCEPT !.p = [stopped.p EXCEPT !.cancel = TRUE, !.broken = TRUE]]
                 ELSE IF ~player.fast /\ player.steps > 0 THEN AddEventWalk(s) ELSE s)
  /\ UNCHANGED queue

(* onCreatureMove() of a teleport by someone else *)
Teleported ==
  /\ Command
  /\ LET s == StopEventWalk(State)
     IN  Becomes([s EXCEPT !.p = [s.p EXCEPT !.delay = TRUE, !.halted = TRUE]])
  /\ UNCHANGED queue

(* The scheduler hands an event over. *)
Fire(e) ==
  /\ e \in armed
  /\ armed' = armed \ {e} /\ queue' = Append(queue, e)
  /\ UNCHANGED <<player, commands>>

(* The dispatcher runs a task: checkCreatureWalk(), playerAutoWalk() or    *)
(* the walk action.                                                        *)
Dispatch(outcome) ==
  /\ queue # <<>>
  /\ LET e == Head(queue)
     IN  IF e.steps > 0 THEN Becomes(StartAutoWalk(State, e.steps, outcome))
         ELSE IF e.task # NoTask THEN UNCHANGED <<player, armed>>
         ELSE Becomes(OnWalk(State, outcome))
  /\ queue' = Tail(queue)
  /\ UNCHANGED commands

(* The time of a step passes. *)
Tick == player.delay /\ player' = [player EXCEPT !.delay = FALSE] /\ UNCHANGED <<armed, queue, commands>>

WalkNext == \/ \E e \in armed : Fire(e)
        \/ \E o \in Outcomes : \/ Dispatch(o) \/ PlayerMove(o)
                               \/ \E n \in 1..MaxSteps : PlayerAutoWalk(n, o)
        \/ \E t \in Tasks, n \in 1..MaxSteps : PlayerUseItem(t, n)
        \/ \E b \in BOOLEAN : SetMovementBlocked(b) \/ SetSpeed(b)
        \/ PlayerStopAutoWalk \/ Teleported \/ Tick
WalkSpec == WalkInit /\ [][WalkNext]_walkVars

(* Events come due, tasks are run and time passes. *)
FairWalkSpec == /\ WalkSpec
            /\ \A id \in Ids : WF_walkVars(\E e \in armed : e.id = id /\ Fire(e))
            /\ WF_walkVars(\E o \in Outcomes : Dispatch(o)) /\ WF_walkVars(Tick)

-----------------------------------------------------------------------------
Pending(id) == (\E e \in armed : e.id = id) \/ id \in QueuedIds
WalkPending == (\E e \in armed : e.task = NoTask)
               \/ \E i \in DOMAIN queue : queue[i].id # NoId /\ queue[i].task = NoTask

(* Type invariant. *)
WalkTypeOK ==
  /\ player \in [steps: 0..MaxSteps, eventWalk: Ids \cup {NoId}, cancel: BOOLEAN, fast: BOOLEAN,
                 blocked: BOOLEAN, delay: BOOLEAN, walkTask: Tasks \cup {NoTask},
                 taskEvent: Ids \cup {NoId}, halted: BOOLEAN, broken: BOOLEAN]
  /\ armed \subseteq [id: Ids, task: Tasks \cup {NoTask}, steps: {0}]
  /\ queue \in Seq([id: Ids \cup {NoId}, task: Tasks \cup {NoTask}, steps: 0..MaxSteps])
  /\ commands \in 0..MaxCommands

(* eventWalk is never the identifier of an event that is over: it would    *)
(* keep addEventWalk() from arming another one for good.                   *)
HandleIsPending == player.eventWalk # NoId => Pending(player.eventWalk)

(* As long as steps are left and the player can move there is an event     *)
(* that will take the next one, whatever was cancelled, paralysed or       *)
(* started anew; only a teleport leaves them behind.                       *)
StepsAreDriven == player.steps > 0 /\ player.fast => WalkPending \/ player.halted

(* A walk action is owned by the player, by the scheduler or by the        *)
(* dispatcher, and by one of them only: each deletes its own.              *)
TaskHasOneOwner ==
  \A t \in Tasks : (IF player.walkTask = t THEN 1 ELSE 0) + Cardinality({e \in armed : e.task = t})
                   + Cardinality({i \in DOMAIN queue : queue[i].task = t}) <= 1

(* Whatever was cancelled, paralysed or started anew: eventWalk is never   *)
(* the identifier of an event that is over, which would keep               *)
(* addEventWalk() from arming another for good; while steps are left and   *)
(* the player can move, an event will take the next; and a walk action is  *)
(* owned by one of player, scheduler and dispatcher, each of which deletes *)
(* its own.                                                                *)
WalkAgrees == WalkTypeOK /\ HandleIsPending /\ StepsAreDriven /\ TaskHasOneOwner

(* A walk comes to its end. *)
WalkEnds == player.steps > 0 ~> player.steps = 0 \/ ~player.fast \/ player.halted

(* An action that waits for a walk is run or dropped, unless the walk is    *)
(* refused or stopped by a teleport or by the loss of speed.               *)
TaskIsSettled ==
  player.walkTask # NoTask ~> player.walkTask = NoTask \/ player.halted \/ player.broken
=============================================================================
