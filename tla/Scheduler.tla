------------------------------ MODULE Scheduler ------------------------------
(***************************************************************************)
(* The scheduler thread of src/src/scheduler.cpp: an io_context run by one *)
(* thread.  addEvent(), stopEvent() and shutdown() only post a handler;    *)
(* the timer map eventIdTimerMap is touched by handlers alone, so it needs *)
(* no lock.  What races is the order: a timer that has expired has already *)
(* queued its completion, and no cancel() reaches it any more.             *)
(*                                                                         *)
(* boost::asio is external: a FIFO queue of handlers, and timers whose     *)
(* pending wait completes once, with success or operation_aborted.         *)
(***************************************************************************)
EXTENDS Naturals, Sequences, FiniteSets, Functions

CONSTANTS
  Tasks,            \* SchedulerTask objects; each is added once
  Callers,          \* the threads that use the scheduler
  DispatcherThread, \* the one of them that executes expired events
  NoTask,           \* no task
  IdSpace           \* number of values of lastEventId, 2^32 in the code

SchedulerAssumption ==
  /\ NoTask \notin Tasks
  /\ DispatcherThread \in Callers
  /\ IdSpace \in Nat \ {0}

(* No two events share an id: there are not more of them than ids. *)
IdsSuffice == IsFiniteSet(Tasks) /\ Cardinality(Tasks) <= IdSpace

VARIABLES
  schedulerState, \* ThreadHolder::threadState
  lastEventId,  \* the atomic counter
  eventId,      \* SchedulerTask::eventId of every task, 0 until it is added
  added,        \* history: tasks addEvent() was called with
  ready,        \* io_context: the queue of handlers
  eventIdTimerMap, \* id -> the task waiting on it, or NoTask
  running,      \* has io_context::run() not returned?
  adding,       \* per caller: the task addEvent() still has to read, or NoTask
  handed,       \* tasks g_dispatcher has been given and not deleted yet
  deleted,      \* deleted tasks
  leaked,       \* tasks left behind in a stopped io_context
  returned,     \* history: tasks whose addEvent() has returned the id
  fired,        \* history: tasks given to g_dispatcher
  aborted,      \* history: tasks whose wait was aborted
  stopAsked     \* history: ids given to stopEvent()

callerVars == <<lastEventId, eventId, added, adding, returned, stopAsked>>
fate == <<handed, deleted, leaked, fired, aborted>>
schedulerVars == <<schedulerState, callerVars, ready, eventIdTimerMap, running, fate>>

Insert(t) == [op |-> "insert", task |-> t]
Cancel(id) == [op |-> "cancel", id |-> id]
ShutdownOp == [op |-> "shutdown"]
Done(t, error) == [op |-> "done", task |-> t, aborted |-> error]

Waiting == {eventIdTimerMap[id] : id \in DOMAIN eventIdTimerMap} \ {NoTask}
Queued == {h.task : h \in {x \in Range(ready) : x.op \in {"insert", "done"}}}

SchedulerInit ==
  /\ schedulerState = "RUNNING" /\ running = TRUE
  /\ lastEventId = 0 /\ eventId = [t \in Tasks |-> 0] /\ added = {}
  /\ ready = <<>> /\ eventIdTimerMap = [id \in {} |-> NoTask]
  /\ adding = [c \in Callers |-> NoTask]
  /\ handed = {} /\ deleted = {} /\ leaked = {}
  /\ returned = {} /\ fired = {} /\ aborted = {} /\ stopAsked = {}

-----------------------------------------------------------------------------
(* The calls of other threads.                                             *)

Idle(c) == adding[c] = NoTask

(* ++lastEventId, a uint32_t. *)
NextId == (lastEventId + 1) % IdSpace

(* addEvent(): every call site hands over a task whose eventId is 0. *)
AddEvent(c, t) ==
  /\ Idle(c)
  /\ t \notin added
  /\ lastEventId' = NextId
  /\ eventId' = [eventId EXCEPT ![t] = NextId]
  /\ added' = added \cup {t}
  /\ ready' = Append(ready, Insert(t))
  /\ adding' = [adding EXCEPT ![c] = t]
  /\ UNCHANGED <<schedulerState, returned, stopAsked, eventIdTimerMap, running, fate>>

(* return task->getEventId(): reads the task after it was posted. *)
AddEventReturn(c) ==
  /\ ~Idle(c)
  /\ returned' = returned \cup {adding[c]}
  /\ adding' = [adding EXCEPT ![c] = NoTask]
  /\ UNCHANGED <<schedulerState, lastEventId, eventId, added, stopAsked, ready, eventIdTimerMap,
                 running, fate>>

(* stopEvent() of an id that addEvent() returned; 0 is refused.  A caller  *)
(* zeroes its copy after the call, so it stops an id once.                 *)
StopEvent(c, t) ==
  /\ Idle(c)
  /\ t \in returned
  /\ eventId[t] # 0
  /\ eventId[t] \notin stopAsked
  /\ stopAsked' = stopAsked \cup {eventId[t]}
  /\ ready' = Append(ready, Cancel(eventId[t]))
  /\ UNCHANGED <<schedulerState, lastEventId, eventId, added, adding, returned, eventIdTimerMap,
                 running, fate>>

(* stop(), with those of the dispatcher and the database thread, by the    *)
(* task that runs Game::setGameState(GAME_STATE_SHUTDOWN).                 *)
StopScheduler ==
  /\ Idle(DispatcherThread)
  /\ schedulerState = "RUNNING"
  /\ schedulerState' = "CLOSING"
  /\ UNCHANGED <<callerVars, ready, eventIdTimerMap, running, fate>>

(* shutdown(): by Game::shutdown(), or by main() when no service started.  *)
ShutdownScheduler(c) ==
  /\ Idle(c)
  /\ schedulerState # "TERMINATED"
  /\ schedulerState' = "TERMINATED"
  /\ ready' = Append(ready, ShutdownOp)
  /\ UNCHANGED <<callerVars, eventIdTimerMap, running, fate>>

-----------------------------------------------------------------------------
(* The scheduler thread: one handler after the other.                      *)

Next1(op) == running /\ ready # <<>> /\ Head(ready).op = op

(* A pending wait on the timer of id ends with operation_aborted. *)
AbortOf(id) ==
  IF id \in DOMAIN eventIdTimerMap /\ eventIdTimerMap[id] # NoTask THEN <<Done(eventIdTimerMap[id], TRUE)>> ELSE <<>>

(* emplace() keeps a timer that is already there; expires_from_now() then  *)
(* aborts the wait that is pending on it.                                  *)
RunInsert ==
  /\ Next1("insert")
  /\ LET t == Head(ready).task
         id == eventId[t]
     IN  /\ ready' = Tail(ready) \o AbortOf(id)
         /\ eventIdTimerMap' = [i \in DOMAIN eventIdTimerMap \cup {id} |-> IF i = id THEN t ELSE eventIdTimerMap[i]]
  /\ UNCHANGED <<schedulerState, callerVars, running, fate>>

(* The timer of id expires: its completion handler is queued. *)
Expire(id) ==
  /\ running
  /\ id \in DOMAIN eventIdTimerMap
  /\ eventIdTimerMap[id] # NoTask
  /\ ready' = Append(ready, Done(eventIdTimerMap[id], FALSE))
  /\ eventIdTimerMap' = [eventIdTimerMap EXCEPT ![id] = NoTask]
  /\ UNCHANGED <<schedulerState, callerVars, running, fate>>

(* The handler of stopEvent(): cancel() if the id is still in the map. *)
RunCancel ==
  /\ Next1("cancel")
  /\ LET id == Head(ready).id
     IN  /\ ready' = Tail(ready) \o AbortOf(id)
         /\ eventIdTimerMap' = [i \in DOMAIN eventIdTimerMap |-> IF i = id THEN NoTask ELSE eventIdTimerMap[i]]
  /\ UNCHANGED <<schedulerState, callerVars, running, fate>>

(* if (error == operation_aborted || getState() == TERMINATED) *)
Discards(error) == error \/ schedulerState = "TERMINATED"

(* After the delete the handler returns. *)
HandsOverAlways(error) == TRUE                           \* fault: no return after delete
HandsOver(error) == ~Discards(error)

(* The completion handler of a wait: erase the timer, whose destructor     *)
(* aborts a wait pending on it, and then delete the task or pass it on.    *)
(* A dispatcher that is not RUNNING deletes what addTask() is given.       *)
RunDone ==
  /\ Next1("done")
  /\ LET t == Head(ready).task
         id == eventId[t]
         error == Head(ready).aborted
         drop == Discards(error) \/ schedulerState # "RUNNING"
     IN  /\ ready' = Tail(ready) \o AbortOf(id)
         /\ eventIdTimerMap' = [i \in DOMAIN eventIdTimerMap \ {id} |-> eventIdTimerMap[i]]
         /\ aborted' = IF error THEN aborted \cup {t} ELSE aborted
         /\ deleted' = IF drop THEN deleted \cup {t} ELSE deleted
         /\ fired' = IF HandsOver(error) THEN fired \cup {t} ELSE fired
         /\ handed' = IF HandsOver(error) /\ schedulerState = "RUNNING"
                      THEN handed \cup {t} ELSE handed
  /\ UNCHANGED <<schedulerState, callerVars, running, leaked>>

(* io_context.stop() makes run() return. *)
RunningAfterShutdown == FALSE

(* The handler of shutdown(): every wait is aborted, but stop() keeps the  *)
(* completion handlers from ever running; what they own is leaked.         *)
RunShutdown ==
  /\ Next1("shutdown")
  /\ running' = RunningAfterShutdown
  /\ leaked' = leaked \cup Waiting \cup Queued
  /\ ready' = <<>>
  /\ eventIdTimerMap' = [id \in {} |-> NoTask]
  /\ UNCHANGED <<schedulerState, callerVars, handed, deleted, fired, aborted>>

schedulerThread ==
  \/ RunInsert \/ RunCancel \/ RunDone \/ RunShutdown
  \/ \E id \in DOMAIN eventIdTimerMap : Expire(id)

(* g_dispatcher executes and deletes a task; its thread does so only       *)
(* between the calls it makes itself.                                      *)
Dispatch(t) ==
  /\ Idle(DispatcherThread)
  /\ t \in handed
  /\ handed' = handed \ {t}
  /\ deleted' = deleted \cup {t}
  /\ UNCHANGED <<schedulerState, callerVars, ready, eventIdTimerMap, running, leaked, fired, aborted>>

SchedulerNext ==
  \/ \E c \in Callers, t \in Tasks : AddEvent(c, t) \/ StopEvent(c, t)
  \/ \E c \in Callers : AddEventReturn(c) \/ ShutdownScheduler(c)
  \/ StopScheduler
  \/ schedulerThread
  \/ \E t \in Tasks : Dispatch(t)

SchedulerSpec == SchedulerInit /\ [][SchedulerNext]_schedulerVars

(* The thread runs, and a timer expires some time. *)
SchedulerFairSpec == /\ SchedulerSpec
            /\ WF_schedulerVars(RunInsert \/ RunCancel \/ RunDone \/ RunShutdown)
            /\ \A id \in 0 .. IdSpace - 1 : WF_schedulerVars(Expire(id))

-----------------------------------------------------------------------------
Ids == 0 .. IdSpace - 1

(* The values the scheduler's fields can hold. *)
SchedulerTypeOK ==
  /\ schedulerState \in {"RUNNING", "CLOSING", "TERMINATED"} /\ running \in BOOLEAN
  /\ lastEventId \in Ids
  /\ eventId \in [Tasks -> Ids] /\ added \subseteq Tasks
  /\ DOMAIN eventIdTimerMap \subseteq Ids
  /\ \A i \in DOMAIN eventIdTimerMap : eventIdTimerMap[i] \in Tasks \cup {NoTask}
  /\ \A h \in Range(ready) : h.op \in {"insert", "done"} => h.task \in added
  /\ adding \in [Callers -> Tasks \cup {NoTask}]
  /\ UNION {handed, deleted, leaked, returned, fired, aborted} \subseteq added
  /\ stopAsked \subseteq Ids \ {0}

Insertions(t) == Cardinality({i \in DOMAIN ready : ready[i].op = "insert" /\ ready[i].task = t})
Completions(t) == Cardinality({i \in DOMAIN ready : ready[i].op = "done" /\ ready[i].task = t})
Waits(t) == Cardinality({i \in DOMAIN eventIdTimerMap : eventIdTimerMap[i] = t})
One(b) == IF b THEN 1 ELSE 0

(* Raw Task pointers travel from the caller through a handler, a timer and *)
(* its completion to the dispatcher: at any time one of them owns a task,  *)
(* so none is executed twice, deleted twice, or deleted and executed.      *)
OneOwner ==
  \A t \in added :
     Insertions(t) + Waits(t) + Completions(t)
       + One(t \in handed) + One(t \in deleted) + One(t \in leaked) = 1

(* addEvent() reads the task's id after posting the task.  While the       *)
(* server runs, a caller on the dispatcher thread reads a task that is     *)
(* still alive: it cannot be executed before the caller's own task ends,   *)
(* and nobody else knows its id.                                           *)
AddEventReadsLiveTask ==
  schedulerState = "RUNNING" => adding[DispatcherThread] \notin deleted

(* A wait that stopEvent() aborted never reaches the dispatcher, however   *)
(* the cancel interleaves with other events; one that expired first does.  *)
StoppedInTimeNeverRuns == aborted \cap fired = {}

(* "the timer has been manually canceled(timer->cancel()) or               *)
(* Scheduler::shutdown has been called" (scheduler.cpp, line 43): no event *)
(* is dropped that nobody asked to stop.                                   *)
AbortedWasStopped ==
  \A t \in aborted : eventId[t] \in stopAsked \/ schedulerState = "TERMINATED"

(* An event that is not stopped is given to the dispatcher, unless the     *)
(* scheduler is shut down first.                                           *)
EventsFire ==
  \A t \in Tasks :
     t \in added
       ~> (t \in fired \/ eventId[t] \in stopAsked \/ schedulerState = "TERMINATED")

(* shutdown() ends io_context::run(), so join() returns. *)
SchedulerEnds == schedulerState = "TERMINATED" ~> ~running

(* The raw pointers to tasks are safe: each task has one owner, and        *)
(* addEvent(), which reads the id of a task it has given away, finds it    *)
(* alive.                                                                  *)
TasksAreOwned == SchedulerTypeOK /\ OneOwner /\ AddEventReadsLiveTask

(* stopEvent() stops the event that was meant, if it comes in time, and no *)
(* other one.                                                              *)
StopIsExact == StoppedInTimeNeverRuns /\ AbortedWasStopped

(* The raw pointers of the scheduler are safe: each task has one owner,    *)
(* and addEvent(), which reads the id of a task it has given away, finds   *)
(* it alive; stopEvent() stops the event that was meant, if it comes in    *)
(* time, and no other one.                                                 *)
TimersAreSound == TasksAreOwned /\ StopIsExact

(* Timers that nobody stops fire, and shutdown() ends the thread.          *)
TimersRun == EventsFire /\ SchedulerEnds
=============================================================================
