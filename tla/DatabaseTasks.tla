---------------------------- MODULE DatabaseTasks ----------------------------
(***************************************************************************)
(* The asynchronous queries of src/src/databasetasks.cpp.  Two threads run *)
(* them: the database thread in threadMain(), and whoever calls flush() or *)
(* shutdown().  Both pop under taskLock and run what they popped without   *)
(* it; db.executeQuery() serialises the queries themselves.                *)
(*                                                                         *)
(* The callers are the dispatcher thread (Lua, IOBan, saveGameState,       *)
(* Game::shutdown) and main() (shutdown() when no service started).        *)
(***************************************************************************)
EXTENDS Naturals, Sequences, Functions

CONSTANTS
  Queries,       \* DatabaseTask objects; each is added once
  WithCallback,  \* those that carry a callback
  Dispatcher,    \* the dispatcher thread
  Main,          \* the main thread
  DbThread,      \* the thread of DatabaseTasks
  NoQuery        \* nothing

Users == {Dispatcher, Main}
Workers == Users \cup {DbThread}

DatabaseAssumption ==
  /\ WithCallback \subseteq Queries
  /\ NoQuery \notin Queries
  /\ DbThread \notin Users
  /\ Dispatcher # Main

VARIABLES
  threadState,  \* ThreadHolder::threadState
  tasks,        \* the shared list
  pc,           \* where threadMain() is
  call,         \* per caller: the call it is in
  hold,         \* per worker: the query it popped and has not finished, or NoQuery
  queried,      \* per worker: has MySQL executed that query already?
  dispatcherClosed, \* has g_dispatcher stopped taking tasks?
  accepted,     \* history: the queries taken by addTask(), in order
  executed,     \* history: the queries MySQL executed, in order
  called,       \* history: the callbacks handed to g_dispatcher, in order
  flushFrom     \* history: the queries accepted when a flush began

runs == <<hold, queried, executed, called>>
vars == <<threadState, tasks, pc, call, runs, dispatcherClosed, accepted, flushFrom>>

Init == /\ threadState = "RUNNING" /\ dispatcherClosed = FALSE
        /\ tasks = <<>>
        /\ pc = "check"
        /\ call = [c \in Users |-> "none"]
        /\ hold = [w \in Workers |-> NoQuery]
        /\ queried = [w \in Workers |-> FALSE]
        /\ accepted = <<>> /\ executed = <<>> /\ called = <<>>
        /\ flushFrom = {}

-----------------------------------------------------------------------------
(* Only the database thread waits on taskSignal. *)
Woken == IF pc = "waiting" THEN "woken" ELSE pc

(* A caller moves from one point of a call to another. *)
Step(c, from, to) == call[c] = from /\ call' = [call EXCEPT ![c] = to]

(* addTask() takes a query only while the thread is RUNNING. *)
Accepts == threadState = "RUNNING"

(* signal = tasks.empty(), read before the emplace_back. *)
DoSignal == tasks = <<>>

(* addTask() up to and including unlock(); a refused query is forgotten.   *)
(* Lua scripts and IOBan call it, on the dispatcher thread.                *)
AddTask(q) ==
  /\ Step(Dispatcher, "none", IF Accepts /\ DoSignal THEN "notify" ELSE "none")
  /\ q \notin Range(accepted)
  /\ tasks' = IF Accepts THEN Append(tasks, q) ELSE tasks
  /\ accepted' = IF Accepts THEN Append(accepted, q) ELSE accepted
  /\ UNCHANGED <<threadState, pc, runs, dispatcherClosed, flushFrom>>

(* The notify_one() at the end of addTask() and of shutdown(). *)
NotifyOne(c) ==
  /\ Step(c, "notify", "none")
  /\ pc' = Woken
  /\ UNCHANGED <<threadState, tasks, runs, dispatcherClosed, accepted, flushFrom>>

(* Game::saveGameState() calls flush() on the dispatcher thread. *)
Flush ==
  /\ Step(Dispatcher, "none", "flush")
  /\ flushFrom' = Range(accepted)
  /\ UNCHANGED <<threadState, tasks, pc, runs, dispatcherClosed, accepted>>

(* stop(), together with that of g_dispatcher, in setGameState(SHUTDOWN).  *)
Stop ==
  /\ call[Dispatcher] = "none"
  /\ threadState = "RUNNING"
  /\ threadState' = "CLOSING"
  /\ dispatcherClosed' = TRUE
  /\ UNCHANGED <<tasks, pc, call, runs, accepted, flushFrom>>

(* shutdown() up to its call of flush(). *)
Shutdown(c) ==
  /\ threadState = IF c = Dispatcher THEN "CLOSING" ELSE "RUNNING"
  /\ threadState' = "TERMINATED"
  /\ Step(c, "none", "shutdown")
  /\ UNCHANGED <<tasks, pc, runs, dispatcherClosed, accepted, flushFrom>>

Flushing(c) == call[c] \in {"flush", "shutdown"}

(* tasks.front() and pop_front(), under the lock. *)
Pop(w) == /\ tasks # <<>>
          /\ hold' = [hold EXCEPT ![w] = Head(tasks)]
          /\ tasks' = Tail(tasks)

(* flush(): while (!tasks.empty()), pop under the lock. *)
FlushPop(c) ==
  /\ Flushing(c) /\ hold[c] = NoQuery
  /\ Pop(c)
  /\ UNCHANGED <<threadState, pc, call, queried, executed, called, dispatcherClosed, accepted, flushFrom>>

(* flush() ends when it finds the list empty. *)
FlushMayLeave == TRUE                                  \* fault: if instead of while
FlushIsOver == tasks = <<>>

FlushEnd(c) ==
  /\ hold[c] = NoQuery
  /\ FlushIsOver
  /\ Step(c, "flush", "none") \/ Step(c, "shutdown", "notify")
  /\ UNCHANGED <<threadState, tasks, pc, runs, dispatcherClosed, accepted, flushFrom>>

-----------------------------------------------------------------------------
(* runTask(), on whichever thread popped the query.                        *)

(* db.storeQuery() or db.executeQuery(): retried until MySQL answers. *)
Query(w) ==
  /\ hold[w] # NoQuery /\ ~queried[w]
  /\ executed' = Append(executed, hold[w])
  /\ queried' = [queried EXCEPT ![w] = TRUE]
  /\ UNCHANGED <<threadState, tasks, pc, call, hold, called, dispatcherClosed, accepted, flushFrom>>

(* if (task.callback) *)
CallsBack(q) == q \in WithCallback

(* The callback is handed to g_dispatcher, which drops it once stopped;    *)
(* then runTask() returns to its caller.                                   *)
Answer(w) ==
  /\ hold[w] # NoQuery /\ queried[w]
  /\ called' = IF CallsBack(hold[w]) /\ ~dispatcherClosed THEN Append(called, hold[w]) ELSE called
  /\ hold' = [hold EXCEPT ![w] = NoQuery]
  /\ queried' = [queried EXCEPT ![w] = FALSE]
  /\ pc' = IF w = DbThread THEN "check" ELSE pc
  /\ UNCHANGED <<threadState, tasks, call, executed, dispatcherClosed, accepted, flushFrom>>

-----------------------------------------------------------------------------
(* threadMain() *)

Goto(from, to) == /\ pc = from
                  /\ pc' = to
                  /\ UNCHANGED <<threadState, call, queried, executed, called,
                                 dispatcherClosed, accepted, flushFrom>>

(* while (getState() != THREAD_STATE_TERMINATED), read without the lock. *)
CheckState ==
  /\ Goto("check", IF threadState = "TERMINATED" THEN "exit" ELSE "lock")
  /\ UNCHANGED <<tasks, hold>>

(* if (tasks.empty()) taskSignal.wait() *)
Wait == tasks = <<>> /\ Goto("lock", "waiting") /\ UNCHANGED <<tasks, hold>>

SpuriousWakeup == Goto("waiting", "woken") /\ UNCHANGED <<tasks, hold>>

(* if (!tasks.empty()) pop, unlock and runTask() *)
PopFront == (Goto("lock", "run") \/ Goto("woken", "run")) /\ Pop(DbThread)

(* else unlock: the wakeup was spurious or flush() was faster. *)
NothingToDo == tasks = <<>> /\ Goto("woken", "check") /\ UNCHANGED <<tasks, hold>>

threadMain == CheckState \/ Wait \/ PopFront \/ NothingToDo \/ Query(DbThread) \/ Answer(DbThread)

caller(c) == NotifyOne(c) \/ FlushPop(c) \/ FlushEnd(c) \/ Query(c) \/ Answer(c)

Next ==
  \/ \E q \in Queries : AddTask(q)
  \/ \E c \in Users : Shutdown(c) \/ caller(c)
  \/ Flush
  \/ Stop
  \/ SpuriousWakeup
  \/ threadMain

Spec == Init /\ [][Next]_vars

(* The threads run and MySQL answers every query. *)
FairSpec == Spec /\ WF_vars(threadMain) /\ \A c \in Users : WF_vars(caller(c))

-----------------------------------------------------------------------------
(* The values the fields of DatabaseTasks can hold. *)
TypeOK ==
  /\ threadState \in {"RUNNING", "CLOSING", "TERMINATED"} /\ dispatcherClosed \in BOOLEAN
  /\ tasks \in Seq(Queries)
  /\ pc \in {"check", "lock", "waiting", "woken", "run", "exit"}
  /\ call \in [Users -> {"none", "notify", "flush", "shutdown"}]
  /\ hold \in [Workers -> Queries \cup {NoQuery}]
  /\ queried \in [Workers -> BOOLEAN]
  /\ accepted \in Seq(Queries) /\ executed \in Seq(Queries)
  /\ called \in Seq(WithCallback)
  /\ flushFrom \subseteq Queries

Before(s, q, r) == \E i, j \in DOMAIN s : i < j /\ s[i] = q /\ s[j] = r
InHand(q) == \E w \in Workers : hold[w] = q

(* The thread that flushes and the database thread pop from the same list  *)
(* and run what they popped at the same time, so queries can overtake one  *)
(* another.  A query overtakes nothing but what the other thread has       *)
(* already popped: nothing still in the list is ever overtaken.            *)
OvertakesOnlyInHand ==
  \A q, r \in Range(accepted) :
     Before(accepted, q, r) /\ r \in Range(executed) /\ q \notin Range(executed) => InHand(q)

(* A query is executed once: two threads never run the same one.           *)
ExecutedOnce ==
  /\ \A i, j \in DOMAIN executed : executed[i] = executed[j] => i = j
  /\ \A w \in Workers : hold[w] \in Range(executed) => queried[w]
  /\ \A v, w \in Workers : hold[v] = hold[w] /\ hold[v] # NoQuery => v = w

(* saveGameState() counts on flush(): when it is over, all that had been   *)
(* accepted before it is executed, but for a query the database thread (or *)
(* main()'s own flush) still has in hand.                                  *)
FlushCompletes ==
  call[Dispatcher] = "none" =>
     \A q \in flushFrom : q \in Range(executed) \/ InHand(q)

(* addTask() notifies after it has released the lock, and flush() may take *)
(* the query before the woken thread does: no query waits in the list      *)
(* while the database thread sleeps with nobody on the way to wake it or   *)
(* to run the query instead.                                               *)
NoLostWakeup ==
  pc = "waiting" /\ tasks # <<>> => \E c \in Users : call[c] # "none"

(* Once shutdown() has flushed nothing is left in the list, nor will be.   *)
NothingLeftBehind ==
  threadState = "TERMINATED" /\ (\A c \in Users : ~Flushing(c)) => tasks = <<>>

(* Every query addTask() took is executed, shutdown or not. *)
AcceptedQueriesRun ==
  \A q \in Queries : q \in Range(accepted) ~> q \in Range(executed)

(* "Shuts the server down" (signals.cpp, lines 147 and 150): after         *)
(* shutdown() the database thread ends, so that main() can join it.        *)
ShutdownEnds == threadState = "TERMINATED" ~> pc = "exit"

(* The list with its two consumers, threadMain() and flush(): each query   *)
(* is run by one of them, in order but for the one in hand, none is left   *)
(* in the list by a sleeping thread or by shutdown(), and flush() leaves   *)
(* none behind that was there when it began.                               *)
QueriesAreSound == /\ TypeOK
                   /\ OvertakesOnlyInHand
                   /\ ExecutedOnce
                   /\ NoLostWakeup
                   /\ NothingLeftBehind
                   /\ FlushCompletes
=============================================================================
