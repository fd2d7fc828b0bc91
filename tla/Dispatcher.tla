----------------------------- MODULE Dispatcher -----------------------------
(***************************************************************************)
(* The dispatcher thread of src/src/tasks.cpp: one consumer that swaps the *)
(* shared vector taskList into its private tmpTaskList and runs the batch, *)
(* and any number of threads that call addTask() and shutdown().           *)
(*                                                                         *)
(* A critical section of taskLock is one step: nobody holds the mutex      *)
(* across steps.  What happens outside it is a step of its own: the read   *)
(* of threadState at the head of the loop, the notify_one() that addTask() *)
(* sends after unlock(), the return from a condition-variable wait.        *)
(***************************************************************************)
EXTENDS Naturals, Sequences

CONSTANTS
  Callers,        \* threads other than the dispatcher's own
  Self,           \* the dispatcher thread, calling in from the task it runs
  Tasks,          \* Task objects; each is allocated and handed over once
  Expiring,       \* those made by createTask(expiration, f)
  GameShutdown,   \* the task made by shutdown() when Game::shutdown calls it
  StartupFailure  \* the task made by shutdown() when main() calls it

Terminators == {GameShutdown, StartupFailure}
Threads == Callers \cup {Self}

ASSUME DispatcherAssumption ==
  /\ Self \notin Callers
  /\ Terminators \subseteq Tasks
  /\ GameShutdown # StartupFailure
  /\ Expiring \subseteq Tasks \ Terminators

VARIABLES
  threadState,  \* ThreadHolder::threadState
  taskList,     \* the shared vector
  tmpTaskList,  \* what is left of the batch; its head is the current task
  pc,           \* where threadMain() is
  signalling,   \* threads between addTask()'s unlock and its notify_one
  expired,      \* tasks whose expiration lies in the past
  accepted,     \* history: the push_backs, in order
  finished,     \* history: the deletes of threadMain(), in order
  dropped       \* history: the tasks addTask() deleted

lists == <<taskList, tmpTaskList>>
history == <<accepted, finished, dropped>>
vars == <<threadState, lists, pc, signalling, expired, history>>

Elems(s) == {s[i] : i \in DOMAIN s}

(* A Task pointer that no queue has seen yet. *)
Fresh(t) == t \notin Elems(accepted) \cup dropped

(* The dispatcher thread calls in only from a task that game code made.    *)
CanCall(c) ==
  /\ c \notin signalling
  /\ c = Self => pc = "exec" /\ Head(tmpTaskList) \notin Terminators

(* g_dispatcher.start() has been called: main() starts it before any use.  *)
Init == /\ threadState = "RUNNING"
        /\ taskList = <<>> /\ tmpTaskList = <<>>
        /\ pc = "check"
        /\ signalling = {} /\ expired = {}
        /\ accepted = <<>> /\ finished = <<>> /\ dropped = {}

-----------------------------------------------------------------------------
(* Only the dispatcher thread ever waits on taskSignal. *)
Woken == IF pc = "waiting" THEN "woken" ELSE pc

(* addTask() takes work only while the thread is RUNNING. *)
AcceptsUntilTerminated == threadState # "TERMINATED"  \* fault: CLOSING not refused
Accepts == threadState = "RUNNING"

(* do_signal = taskList.empty(), read before the push_back. *)
SignalAfterPush == taskList # <<>>                    \* fault: read after it
DoSignal == taskList = <<>>

PushedFront(t) == <<t>> \o taskList                   \* fault: push_front
Pushed(t) == Append(taskList, t)

(* addTask() up to and including unlock(). *)
AddTask(c, t) ==
  /\ CanCall(c)
  /\ t \notin Terminators
  /\ Fresh(t)
  /\ \/ /\ Accepts
        /\ signalling' = IF DoSignal THEN signalling \cup {c} ELSE signalling
        /\ taskList' = Pushed(t)
        /\ accepted' = Append(accepted, t)
        /\ UNCHANGED dropped
     \/ /\ ~Accepts
        /\ dropped' = dropped \cup {t}
        /\ UNCHANGED <<signalling, taskList, accepted>>
  /\ UNCHANGED <<threadState, tmpTaskList, pc, expired, finished>>

(* The if (do_signal) notify_one() that follows the unlock. *)
NotifyOne(c) ==
  /\ c \in signalling
  /\ signalling' = signalling \ {c}
  /\ pc' = Woken
  /\ UNCHANGED <<threadState, lists, expired, history>>

(* shutdown(): Game::shutdown() calls it from a task that runs after the   *)
(* stop() of Game::setGameState; main() calls it when no service started,  *)
(* and then no stop() ever follows.  It notifies before it unlocks.        *)
Shutdown(c, t) ==
  /\ CanCall(c)
  /\ Fresh(t)
  /\ \/ c = Self      /\ t = GameShutdown   /\ threadState = "CLOSING"
     \/ c \in Callers /\ t = StartupFailure /\ threadState = "RUNNING"
  /\ taskList' = Pushed(t)
  /\ accepted' = Append(accepted, t)
  /\ pc' = Woken
  /\ UNCHANGED <<threadState, tmpTaskList, signalling, expired, finished, dropped>>

(* stop(), which Game::setGameState(GAME_STATE_SHUTDOWN) calls, once, from *)
(* a task; it takes no lock.                                               *)
Stop ==
  /\ CanCall(Self)
  /\ threadState = "RUNNING"
  /\ StartupFailure \notin Elems(accepted)
  /\ threadState' = "CLOSING"
  /\ UNCHANGED <<lists, pc, signalling, expired, history>>

(* SYSTEM_TIME_ZERO marks a task without expiration. *)
HasExpiration(t) == t \in Expiring

(* The clock passes the expiration that the creator of a task gave it.     *)
Expire(t) ==
  /\ HasExpiration(t)
  /\ t \notin expired
  /\ expired' = expired \cup {t}
  /\ UNCHANGED <<threadState, lists, pc, signalling, history>>

-----------------------------------------------------------------------------
(* threadMain(), one step per shared access.                               *)

Goto(from, to) == /\ pc = from
                  /\ pc' = to
                  /\ UNCHANGED <<threadState, signalling, expired, accepted, dropped>>

(* while (getState() != THREAD_STATE_TERMINATED) *)
CheckState ==
  /\ Goto("check", IF threadState = "TERMINATED" THEN "exit" ELSE "lock")
  /\ UNCHANGED <<lists, finished>>

(* if (taskList.empty()) taskSignal.wait(): releases the lock atomically. *)
Wait == taskList = <<>> /\ Goto("lock", "waiting") /\ UNCHANGED <<lists, finished>>

(* The standard lets a wait return with nobody having notified. *)
SpuriousWakeup == Goto("waiting", "woken") /\ UNCHANGED <<lists, finished>>

(* tmpTaskList.swap(taskList) and unlock.  After a wait the test for empty *)
(* is not repeated, so an empty list may be swapped in.                    *)
Swap ==
  /\ \/ taskList # <<>> /\ Goto("lock", "next")
     \/ Goto("woken", "next")
  /\ tmpTaskList' = taskList
  /\ taskList' = tmpTaskList
  /\ UNCHANGED finished

DeleteHead ==
  /\ tmpTaskList # <<>>
  /\ finished' = Append(finished, Head(tmpTaskList))
  /\ tmpTaskList' = Tail(tmpTaskList)
  /\ UNCHANGED taskList

(* hasExpired(): deleted without being executed. *)
SkipExpired == DeleteHead /\ Head(tmpTaskList) \in expired /\ Goto("next", "next")

(* ++dispatcherCycle and the call of the task begins. *)
BeginTask ==
  /\ tmpTaskList # <<>>
  /\ Head(tmpTaskList) \notin expired
  /\ Goto("next", "exec")
  /\ UNCHANGED <<lists, finished>>

(* What executing a task does to threadState. *)
StateAfterClosing(t) == IF t \in Terminators THEN "CLOSING" ELSE threadState  \* fault: wrong state
StateAfter(t) == IF t \in Terminators THEN "TERMINATED" ELSE threadState

(* The call returns and the task is deleted.  The function of the task     *)
(* that shutdown() makes sets the state; its notify_one() finds no waiter, *)
(* since the only thread that waits is the one executing it.               *)
EndTask ==
  /\ pc = "exec" /\ pc' = "next"
  /\ Self \notin signalling
  /\ threadState' = StateAfter(Head(tmpTaskList))
  /\ DeleteHead
  /\ UNCHANGED <<signalling, expired, accepted, dropped>>

(* tmpTaskList.clear() and back to the head of the loop. *)
EndBatch == tmpTaskList = <<>> /\ Goto("next", "check") /\ UNCHANGED <<lists, finished>>

threadMain == CheckState \/ Wait \/ Swap \/ SkipExpired \/ BeginTask \/ EndTask \/ EndBatch

Next ==
  \/ \E c \in Threads, t \in Tasks : AddTask(c, t) \/ Shutdown(c, t)
  \/ \E c \in Threads : NotifyOne(c)
  \/ \E t \in Tasks : Expire(t)
  \/ Stop
  \/ SpuriousWakeup
  \/ threadMain

Spec == Init /\ [][Next]_vars

(* The operating system runs every thread and tasks return.  Nothing       *)
(* forces a thread to add a task, and no wakeup has to be spurious.        *)
FairSpec == Spec /\ WF_vars(threadMain) /\ \A c \in Threads : WF_vars(NotifyOne(c))

-----------------------------------------------------------------------------
(* The values the fields of Dispatcher can hold; only a task that was      *)
(* given an expiration ever counts as expired.                             *)
TypeOK ==
  /\ threadState \in {"RUNNING", "CLOSING", "TERMINATED"}
  /\ taskList \in Seq(Tasks) /\ tmpTaskList \in Seq(Tasks)
  /\ pc \in {"check", "lock", "waiting", "woken", "next", "exec", "exit"}
  /\ signalling \subseteq Threads
  /\ expired \subseteq Expiring
  /\ accepted \in Seq(Tasks) /\ finished \in Seq(Tasks)
  /\ dropped \subseteq Tasks

(* threadMain() deletes tasks in the order in which addTask() and          *)
(* shutdown() pushed them, across batches, swaps and spurious wakeups: no  *)
(* accepted task overtakes another, is lost, or is deleted twice.          *)
FifoDelivery == accepted = finished \o tmpTaskList \o taskList

(* addTask() signals only when it found the list empty, and after it has   *)
(* released the lock.  That is enough: whenever the dispatcher sleeps on a *)
(* nonempty list, some thread is still on its way to notify_one().         *)
NoLostWakeup == pc = "waiting" /\ taskList # <<>> => signalling # {}

(* When the server goes down the way Game::shutdown does it, stop() first, *)
(* threadMain() leaves no task behind in taskList: none leaks and none of  *)
(* the work accepted before the stop is skipped.                           *)
CleanShutdown ==
  pc = "exit" /\ GameShutdown \in Elems(finished) => taskList = <<>>

(* Every task threadMain() can still reach is eventually over. *)
AcceptedTasksFinish ==
  \A t \in Tasks : t \in Elems(taskList) ~> (t \in Elems(finished) \/ pc = "exit")

(* Once shutdown() has been called the thread ends and join() returns. *)
ShutdownEnds == \A t \in Terminators : t \in Elems(accepted) ~> pc = "exit"

Executor == INSTANCE SerialExecutor
              WITH pending <- tmpTaskList \o taskList,
                   running <- pc = "exec"

(* The dispatcher is a serial executor: tasks run one at a time, in the    *)
(* order of addTask(), whatever the threads that call it do meanwhile.     *)
ImplementsSerialExecutor == Executor!Spec

(* What is accepted comes to an end: tasks that threadMain() can reach are *)
(* over at last, and after shutdown() the thread itself is.                *)
EverythingEnds == AcceptedTasksFinish /\ ShutdownEnds
=============================================================================
