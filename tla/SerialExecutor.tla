--------------------------- MODULE SerialExecutor ---------------------------
(***************************************************************************)
(* What the game logic relies on: work handed over by any thread is done   *)
(* one piece at a time, in the order in which it was accepted, and every   *)
(* accepted piece is finished at most once.  Game::*, Player::* and the    *)
(* Lua scripts hold no locks because of this promise ("//dispatcher        *)
(* thread" is the only comment they carry).  Dispatcher.tla implements it. *)
(***************************************************************************)
EXTENDS Sequences

CONSTANT Tasks

VARIABLES pending,   \* accepted and not yet finished, oldest first
          running,   \* is the head of pending being executed?
          finished   \* the tasks that are over, in the order they ended

executorVars == <<pending, running, finished>>

Init == /\ pending = <<>>
        /\ running = FALSE
        /\ finished = <<>>

Accept(t) == /\ pending' = Append(pending, t)
             /\ UNCHANGED <<running, finished>>

Start == /\ pending # <<>>
         /\ ~running
         /\ running' = TRUE
         /\ UNCHANGED <<pending, finished>>

(* The head ends; a task that was never started ends by being discarded.   *)
Finish == /\ pending # <<>>
          /\ running' = FALSE
          /\ finished' = Append(finished, Head(pending))
          /\ pending' = Tail(pending)

Next == (\E t \in Tasks : Accept(t)) \/ Start \/ Finish

Spec == Init /\ [][Next]_executorVars
=============================================================================
