--------------------------- MODULE DatabaseProofs ----------------------------
(***************************************************************************)
(* Proofs about what reaches the database.  DatabaseTasks: for any         *)
(* queries, each one that addTask() took is run once, by threadMain() or   *)
(* by a flush(), in order but for the one that the other thread has in     *)
(* hand; none is left in the list by a sleeping thread, by flush() or by   *)
(* shutdown().  Persistence: for any characters, accounts and tables, the  *)
(* committed rows of a player or of the houses are those of one save, and  *)
(* no later failure takes away what a save has acknowledged.               *)
(***************************************************************************)
EXTENDS DatabaseTasks, Persistence, FiniteSetTheorems, TLAPS

-----------------------------------------------------------------------------
(* DatabaseTasks.                                                          *)

NoneTwice(s) == \A i, j \in DOMAIN s : s[i] = s[j] => i = j

(* How many queries have been popped, and which. *)
Taken  == Len(accepted) - Len(tasks)
Popped == {accepted[i] : i \in 1 .. Taken}

(* The list is the end of what was accepted. *)
ListInv == /\ Taken \in Nat
           /\ \A i \in DOMAIN tasks : tasks[i] = accepted[Taken + i]
           /\ NoneTwice(accepted)

(* What was popped is executed or in one worker's hand, and nothing else is. *)
Accounted == /\ NoneTwice(executed) /\ Range(executed) \subseteq Popped
             /\ \A q \in Popped : q \in Range(executed) \/ InHand(q)

HandInv == \A w \in Workers :
             /\ hold[w] # NoQuery => hold[w] \in Popped
             /\ queried[w] <=> hold[w] # NoQuery /\ hold[w] \in Range(executed)
             /\ \A v \in Workers : hold[v] = hold[w] /\ hold[v] # NoQuery => v = w

(* Where a thread is when it has a query in hand. *)
ThreadInv == /\ hold[DbThread] # NoQuery <=> pc = "run"
             /\ \A c \in Users : hold[c] # NoQuery => Flushing(c)

FlushInv == /\ flushFrom \subseteq Range(accepted)
            /\ call[Dispatcher] # "flush" => flushFrom \subseteq Popped

(* The inductive invariant. *)
IInv == /\ TypeOK
        /\ ListInv /\ Accounted /\ HandInv
        /\ ThreadInv /\ FlushInv
        /\ NoLostWakeup /\ NothingLeftBehind

-----------------------------------------------------------------------------
(* Sequences.                                                              *)
LEMMA AppendFacts ==
  ASSUME NEW S, NEW s \in Seq(S), NEW x \in S
  PROVE  /\ Append(s, x) \in Seq(S) /\ Len(Append(s, x)) = Len(s) + 1 /\ Len(s) \in Nat
         /\ \A i \in 1 .. Len(s) : Append(s, x)[i] = s[i]
         /\ Append(s, x)[Len(s) + 1] = x
OBVIOUS

LEMMA AppendElems ==
  ASSUME NEW S, NEW s \in Seq(S), NEW x \in S
  PROVE  /\ Range(Append(s, x)) = Range(s) \cup {x}
         /\ NoneTwice(s) /\ x \notin Range(s) => NoneTwice(Append(s, x))
<1>. DEFINE t == Append(s, x)
<1>1. /\ DOMAIN t = 1 .. (Len(s) + 1) /\ DOMAIN s = 1 .. Len(s) /\ Len(s) \in Nat
      /\ \A i \in DOMAIN s : t[i] = s[i]
      /\ t[Len(s) + 1] = x
  BY AppendFacts
<1>. HIDE DEF t
<1>2. \A i \in DOMAIN t : i \in DOMAIN s \/ i = Len(s) + 1
  BY <1>1
<1>3. DOMAIN s \subseteq DOMAIN t /\ Len(s) + 1 \in DOMAIN t /\ Len(s) + 1 \notin DOMAIN s
  BY <1>1
<1>4. Range(t) = Range(s) \cup {x}
  <2>1. ASSUME NEW y \in Range(t) PROVE y \in Range(s) \cup {x}
    <3>1. PICK i \in DOMAIN t : y = t[i]
      BY <2>1 DEF Range
    <3>. QED BY <3>1, <1>1, <1>2 DEF Range
  <2>2. ASSUME NEW y \in Range(s) PROVE y \in Range(t)
    <3>1. PICK i \in DOMAIN s : y = s[i]
      BY <2>2 DEF Range
    <3>. QED BY <3>1, <1>1, <1>3 DEF Range
  <2>3. x \in Range(t)
    BY <1>1, <1>3 DEF Range
  <2>. QED BY <2>1, <2>2, <2>3
<1>5. ASSUME NoneTwice(s), x \notin Range(s) PROVE NoneTwice(t)
  <2>1. \A i \in DOMAIN s : s[i] # x
    BY <1>5 DEF Range
  <2>. QED BY <1>1, <1>2, <1>5, <2>1 DEF NoneTwice
<1>. QED BY <1>4, <1>5 DEF t

(* An element that is popped was accepted, and one in the list comes after *)
(* every one that is popped.                                               *)
LEMMA ListFacts ==
  ASSUME TypeOK, ListInv
  PROVE  /\ Len(tasks) \in Nat /\ Len(accepted) = Taken + Len(tasks)
         /\ DOMAIN tasks = 1 .. Len(tasks) /\ DOMAIN accepted = 1 .. Len(accepted)
         /\ 1 .. Taken \subseteq DOMAIN accepted
         /\ Popped \subseteq Range(accepted) /\ Popped \subseteq Queries
         /\ tasks = <<>> => Popped = Range(accepted)
<1>1. /\ Len(tasks) \in Nat /\ Len(accepted) \in Nat /\ Taken \in Nat
      /\ DOMAIN tasks = 1 .. Len(tasks) /\ DOMAIN accepted = 1 .. Len(accepted)
  BY DEF TypeOK, ListInv
<1>2. Len(accepted) = Taken + Len(tasks)
  BY <1>1 DEF Taken
<1>3. 1 .. Taken \subseteq DOMAIN accepted
  BY <1>1, <1>2
<1>4. Popped \subseteq Range(accepted) /\ Popped \subseteq Queries
  <2>1. Popped \subseteq Range(accepted)
    BY <1>3 DEF Popped, Range
  <2>2. Range(accepted) \subseteq Queries
    BY DEF Range, TypeOK
  <2>. QED BY <2>1, <2>2
<1>5. tasks = <<>> => Popped = Range(accepted)
  <2>. SUFFICES ASSUME tasks = <<>> PROVE Popped = Range(accepted)
    OBVIOUS
  <2>1. Len(<<>>) = 0
    OBVIOUS
  <2>2. Taken = Len(accepted)
    BY <1>1, <2>1 DEF Taken
  <2>. QED BY <1>1, <2>2 DEF Popped, Range
<1>. QED BY <1>1, <1>2, <1>3, <1>4, <1>5

(* addTask() adds to the list and to what was accepted. *)
LEMMA AddedToList ==
  ASSUME TypeOK, ListInv, NEW q \in Queries, q \notin Range(accepted),
         tasks' = Append(tasks, q), accepted' = Append(accepted, q)
  PROVE  /\ ListInv' /\ Popped' = Popped
         /\ tasks' \in Seq(Queries) /\ accepted' \in Seq(Queries)
         /\ Range(accepted') = Range(accepted) \cup {q} /\ tasks' # <<>>
<1>1. /\ Len(tasks) \in Nat /\ Len(accepted) = Taken + Len(tasks) /\ Taken \in Nat /\ Len(accepted) \in Nat
      /\ DOMAIN tasks = 1 .. Len(tasks) /\ DOMAIN accepted = 1 .. Len(accepted)
      /\ 1 .. Taken \subseteq DOMAIN accepted
  BY ListFacts DEF ListInv, TypeOK
<1>2. /\ tasks' \in Seq(Queries) /\ Len(tasks') = Len(tasks) + 1
      /\ \A i \in 1 .. Len(tasks) : tasks'[i] = tasks[i]
      /\ tasks'[Len(tasks) + 1] = q
  BY AppendFacts DEF TypeOK
<1>3. /\ accepted' \in Seq(Queries) /\ Len(accepted') = Len(accepted) + 1
      /\ \A i \in 1 .. Len(accepted) : accepted'[i] = accepted[i]
      /\ accepted'[Len(accepted) + 1] = q
  BY AppendFacts DEF TypeOK
<1>4. Range(accepted') = Range(accepted) \cup {q} /\ NoneTwice(accepted')
  BY AppendElems DEF TypeOK, ListInv
<1>5. Taken' = Taken
  BY <1>1, <1>2, <1>3 DEF Taken
<1>6. Popped' = Popped
  BY <1>1, <1>3, <1>5 DEF Popped
<1>7. ASSUME NEW i \in DOMAIN tasks' PROVE tasks'[i] = accepted'[Taken + i]
  <2>1. i \in 1 .. (Len(tasks) + 1) /\ Taken + i \in 1 .. (Len(accepted) + 1)
    BY <1>1, <1>2
  <2>2. CASE i = Len(tasks) + 1
    BY <1>1, <1>2, <1>3, <2>2
  <2>3. CASE i # Len(tasks) + 1
    <3>1. i \in 1 .. Len(tasks) /\ Taken + i \in 1 .. Len(accepted)
      BY <1>1, <2>1, <2>3
    <3>. QED BY <1>1, <1>2, <1>3, <3>1 DEF ListInv
  <2>. QED BY <2>2, <2>3
<1>8. tasks' # <<>>
  <2>1. Len(<<>>) = 0 /\ Len(tasks') # 0
    BY <1>1, <1>2
  <2>. QED BY <2>1
<1>. QED BY <1>1, <1>2, <1>3, <1>4, <1>5, <1>6, <1>7, <1>8 DEF ListInv

(* tasks.front() and pop_front() *)
LEMMA PoppedFromList ==
  ASSUME TypeOK, ListInv, tasks # <<>>, tasks' = Tail(tasks), accepted' = accepted
  PROVE  /\ ListInv' /\ Popped' = Popped \cup {Head(tasks)}
         /\ Head(tasks) \notin Popped /\ Head(tasks) \in Queries
         /\ tasks' \in Seq(Queries)
<1>1. /\ Len(tasks) \in Nat /\ Len(accepted) = Taken + Len(tasks) /\ Taken \in Nat /\ Len(accepted) \in Nat
      /\ DOMAIN tasks = 1 .. Len(tasks) /\ DOMAIN accepted = 1 .. Len(accepted)
      /\ 1 .. Taken \subseteq DOMAIN accepted
  BY ListFacts DEF ListInv, TypeOK
<1>2. /\ Len(tasks) # 0 /\ tasks' \in Seq(Queries) /\ Len(tasks') = Len(tasks) - 1
      /\ \A i \in 1 .. (Len(tasks) - 1) : tasks'[i] = tasks[i + 1]
      /\ Head(tasks) = tasks[1]
  BY DEF TypeOK
<1>3. Taken' = Taken + 1
  BY <1>1, <1>2 DEF Taken
<1>4. Head(tasks) = accepted[Taken + 1] /\ Taken + 1 \in DOMAIN accepted
  <2>1. 1 \in DOMAIN tasks /\ Taken + 1 \in DOMAIN accepted
    BY <1>1, <1>2
  <2>. QED BY <1>2, <2>1 DEF ListInv
<1>5. Head(tasks) \in Queries
  BY <1>4 DEF TypeOK
<1>6. Popped' = Popped \cup {Head(tasks)}
  <2>1. 1 .. (Taken + 1) = (1 .. Taken) \cup {Taken + 1}
    BY <1>1
  <2>2. Popped' = {accepted[i] : i \in 1 .. (Taken + 1)}
    BY <1>3 DEF Popped
  <2>. QED BY <1>4, <2>1, <2>2 DEF Popped
<1>7. Head(tasks) \notin Popped
  <2>1. ASSUME NEW i \in 1 .. Taken, accepted[i] = accepted[Taken + 1] PROVE FALSE
    <3>1. i \in DOMAIN accepted
      BY <1>1
    <3>2. i = Taken + 1
      BY <1>4, <2>1, <3>1 DEF ListInv, NoneTwice
    <3>. QED BY <1>1, <3>2
  <2>. QED BY <1>4, <2>1 DEF Popped
<1>8. ASSUME NEW i \in DOMAIN tasks' PROVE tasks'[i] = accepted[(Taken + 1) + i]
  <2>1. i \in 1 .. (Len(tasks) - 1) /\ i + 1 \in DOMAIN tasks /\ (Taken + 1) + i = Taken + (i + 1)
    BY <1>1, <1>2
  <2>. QED BY <1>2, <2>1 DEF ListInv
<1>9. Taken' \in Nat
  BY <1>1, <1>3
<1>. QED BY <1>2, <1>3, <1>5, <1>6, <1>7, <1>8, <1>9 DEF ListInv

-----------------------------------------------------------------------------
(* The list and the hands of the workers.                                  *)

LEMMA SameLists ==
  ASSUME IInv, UNCHANGED <<tasks, accepted, hold, queried, executed>>
  PROVE  ListInv' /\ Accounted' /\ HandInv' /\ Popped' = Popped
<1>1. Taken' = Taken /\ Popped' = Popped
  BY DEF Taken, Popped
<1>. QED BY <1>1 DEF IInv, ListInv, Accounted, HandInv, InHand

LEMMA PopKeeps ==
  ASSUME DatabaseAssumption, IInv, NEW w \in Workers, hold[w] = NoQuery, Pop(w),
         UNCHANGED <<queried, executed, accepted>>
  PROVE  /\ ListInv' /\ Accounted' /\ HandInv' /\ Popped \subseteq Popped'
         /\ tasks' \in Seq(Queries) /\ hold' \in [Workers -> Queries \cup {NoQuery}]
         /\ \A v \in Workers : hold'[v] = IF v = w THEN Head(tasks) ELSE hold[v]
         /\ Head(tasks) # NoQuery
<1>. DEFINE h == Head(tasks)
<1>1. /\ ListInv' /\ Popped' = Popped \cup {h} /\ h \notin Popped /\ h \in Queries
      /\ tasks' \in Seq(Queries)
  BY PoppedFromList DEF IInv, Pop
<1>2. h # NoQuery
  BY <1>1 DEF DatabaseAssumption
<1>3. /\ hold' \in [Workers -> Queries \cup {NoQuery}]
      /\ \A v \in Workers : hold'[v] = IF v = w THEN h ELSE hold[v]
  BY <1>1 DEF IInv, TypeOK, Pop
<1>. HIDE DEF h
<1>4. Accounted'
  <2>1. ASSUME NEW q \in Popped' PROVE q \in Range(executed) \/ InHand(q)'
    <3>1. CASE q = h
      BY <1>3, <3>1 DEF InHand
    <3>2. CASE q \in Popped
      <4>1. CASE InHand(q)
        <5>1. PICK v \in Workers : hold[v] = q
          BY <4>1 DEF InHand
        <5>2. q # NoQuery
          <6>1. Popped \subseteq Queries
            BY ListFacts DEF IInv
          <6>. QED BY <3>2, <6>1 DEF DatabaseAssumption
        <5>3. hold'[v] = q
          BY <1>3, <5>1, <5>2
        <5>. QED BY <5>3 DEF InHand
      <4>2. CASE q \in Range(executed)
        BY <4>2
      <4>. QED BY <3>2, <4>1, <4>2 DEF IInv, Accounted
    <3>. QED BY <1>1, <3>1, <3>2
  <2>2. NoneTwice(executed) /\ Range(executed) \subseteq Popped
    BY DEF IInv, Accounted
  <2>. QED BY <1>1, <2>1, <2>2 DEF Accounted
<1>5. HandInv'
  <2>1. h \notin Range(executed)
    BY <1>1 DEF IInv, Accounted
  <2>. SUFFICES ASSUME NEW u \in Workers
                PROVE  /\ hold'[u] # NoQuery => hold'[u] \in Popped'
                       /\ queried[u] <=> hold'[u] # NoQuery /\ hold'[u] \in Range(executed)
                       /\ \A v \in Workers : hold'[v] = hold'[u] /\ hold'[v] # NoQuery => v = u
    BY DEF HandInv
  <2>2. \A v \in Workers : /\ hold[v] # NoQuery => hold[v] \in Popped
                           /\ queried[v] <=> hold[v] # NoQuery /\ hold[v] \in Range(executed)
    BY DEF IInv, HandInv
  <2>3. \A v \in Workers : hold[v] = hold[u] /\ hold[v] # NoQuery => v = u
    BY DEF IInv, HandInv
  <2>. QED BY <1>1, <1>2, <1>3, <2>1, <2>2, <2>3
<1>. QED BY <1>1, <1>2, <1>3, <1>4, <1>5 DEF h

LEMMA QueryKeeps ==
  ASSUME DatabaseAssumption, IInv, NEW w \in Workers, Query(w)
  PROVE  IInv'
<1>1. /\ hold[w] \in Queries /\ hold[w] # NoQuery /\ hold[w] \notin Range(executed) /\ hold[w] \in Popped
      /\ executed \in Seq(Queries)
  BY DEF Query, IInv, TypeOK, HandInv
<1>2. /\ executed' = Append(executed, hold[w])
      /\ queried' = [queried EXCEPT ![w] = TRUE]
      /\ UNCHANGED <<threadState, tasks, pc, call, hold, called, dispatcherClosed, accepted, flushFrom>>
  BY DEF Query
<1>3. /\ executed' \in Seq(Queries) /\ Range(executed') = Range(executed) \cup {hold[w]}
      /\ NoneTwice(executed')
  BY <1>1, <1>2, AppendFacts, AppendElems DEF IInv, Accounted
<1>4. queried' \in [Workers -> BOOLEAN] /\ \A v \in Workers : queried'[v] <=> v = w \/ queried[v]
  BY <1>2 DEF IInv, TypeOK
<1>5. Popped' = Popped /\ ListInv'
  <2>1. Taken' = Taken
    BY <1>2 DEF Taken
  <2>. QED BY <1>2, <2>1 DEF Popped, ListInv, IInv
<1>6. TypeOK'
  BY <1>2, <1>3, <1>4 DEF IInv, TypeOK
<1>7. Accounted'
  BY <1>1, <1>2, <1>3, <1>5 DEF IInv, Accounted, InHand
<1>8. HandInv'
  <2>. SUFFICES ASSUME NEW u \in Workers
                PROVE  /\ hold[u] # NoQuery => hold[u] \in Popped
                       /\ queried'[u] <=> hold[u] # NoQuery /\ hold[u] \in Range(executed')
                       /\ \A v \in Workers : hold[v] = hold[u] /\ hold[v] # NoQuery => v = u
    BY <1>2, <1>5 DEF HandInv
  <2>1. /\ hold[u] # NoQuery => hold[u] \in Popped
        /\ queried[u] <=> hold[u] # NoQuery /\ hold[u] \in Range(executed)
        /\ \A v \in Workers : hold[v] = hold[u] /\ hold[v] # NoQuery => v = u
    BY DEF IInv, HandInv
  <2>. QED BY <1>1, <1>3, <1>4, <2>1
<1>9. ThreadInv' /\ FlushInv' /\ NoLostWakeup' /\ NothingLeftBehind'
  BY <1>2, <1>5 DEF IInv, ThreadInv, FlushInv, NoLostWakeup, NothingLeftBehind, Flushing
<1>. QED BY <1>5, <1>6, <1>7, <1>8, <1>9 DEF IInv

LEMMA AnswerKeeps ==
  ASSUME DatabaseAssumption, IInv, NEW w \in Workers, Answer(w)
  PROVE  IInv'
<1>1. hold[w] \in Queries /\ hold[w] # NoQuery /\ hold[w] \in Range(executed) /\ queried[w]
  BY DEF Answer, IInv, TypeOK, HandInv
<1>2. /\ called' = IF CallsBack(hold[w]) /\ ~dispatcherClosed THEN Append(called, hold[w]) ELSE called
      /\ hold' = [hold EXCEPT ![w] = NoQuery]
      /\ queried' = [queried EXCEPT ![w] = FALSE]
      /\ pc' = IF w = DbThread THEN "check" ELSE pc
      /\ UNCHANGED <<threadState, tasks, call, executed, dispatcherClosed, accepted, flushFrom>>
  BY DEF Answer
<1>3. /\ hold' \in [Workers -> Queries \cup {NoQuery}] /\ queried' \in [Workers -> BOOLEAN]
      /\ \A v \in Workers : /\ hold'[v] = IF v = w THEN NoQuery ELSE hold[v]
                            /\ queried'[v] <=> v # w /\ queried[v]
  BY <1>2 DEF IInv, TypeOK
<1>4. Popped' = Popped /\ ListInv'
  <2>1. Taken' = Taken
    BY <1>2 DEF Taken
  <2>. QED BY <1>2, <2>1 DEF Popped, ListInv, IInv
<1>5. TypeOK'
  <2>1. called' \in Seq(WithCallback)
    BY <1>2 DEF IInv, TypeOK, CallsBack
  <2>. QED BY <1>2, <1>3, <2>1 DEF IInv, TypeOK
<1>6. Accounted'
  <2>1. ASSUME NEW q \in Popped PROVE q \in Range(executed) \/ InHand(q)'
    <3>1. CASE InHand(q)
      <4>1. PICK v \in Workers : hold[v] = q
        BY <3>1 DEF InHand
      <4>. QED BY <1>1, <1>3, <4>1 DEF InHand
    <3>. QED BY <3>1 DEF IInv, Accounted
  <2>. QED BY <1>2, <1>4, <2>1 DEF IInv, Accounted
<1>7. HandInv'
  <2>. SUFFICES ASSUME NEW u \in Workers
                PROVE  /\ hold'[u] # NoQuery => hold'[u] \in Popped
                       /\ queried'[u] <=> hold'[u] # NoQuery /\ hold'[u] \in Range(executed)
                       /\ \A v \in Workers : hold'[v] = hold'[u] /\ hold'[v] # NoQuery => v = u
    BY <1>2, <1>4 DEF HandInv
  <2>1. /\ hold[u] # NoQuery => hold[u] \in Popped
        /\ queried[u] <=> hold[u] # NoQuery /\ hold[u] \in Range(executed)
        /\ \A v \in Workers : hold[v] = hold[u] /\ hold[v] # NoQuery => v = u
    BY DEF IInv, HandInv
  <2>. QED BY <1>3, <2>1
<1>8. ThreadInv'
  <2>1. /\ hold[DbThread] # NoQuery <=> pc = "run"
        /\ \A c \in Users : hold[c] # NoQuery => Flushing(c)
    BY DEF IInv, ThreadInv
  <2>2. DbThread \in Workers /\ Users \subseteq Workers /\ DbThread \notin Users
    BY DEF Workers, DatabaseAssumption
  <2>3. \A c \in Users : Flushing(c)' <=> Flushing(c)
    BY <1>2 DEF Flushing
  <2>. QED BY <1>2, <1>3, <2>1, <2>2, <2>3 DEF ThreadInv
<1>9. FlushInv' /\ NoLostWakeup' /\ NothingLeftBehind'
  BY <1>2, <1>4 DEF IInv, FlushInv, NoLostWakeup, NothingLeftBehind, Flushing
<1>. QED BY <1>4, <1>5, <1>6, <1>7, <1>8, <1>9 DEF IInv

-----------------------------------------------------------------------------
(* The callers: addTask(), flush(), stop() and shutdown().                 *)

(* A caller's step from one point of a call to another. *)
LEMMA StepFacts ==
  ASSUME IInv, NEW c \in Users, NEW from,
         NEW to \in {"none", "notify", "flush", "shutdown"}, Step(c, from, to)
  PROVE  /\ call' \in [Users -> {"none", "notify", "flush", "shutdown"}]
         /\ call[c] = from /\ \A d \in Users : call'[d] = IF d = c THEN to ELSE call[d]
BY DEF Step, IInv, TypeOK

LEMMA AddTaskKeeps ==
  ASSUME DatabaseAssumption, IInv, NEW q \in Queries, AddTask(q)
  PROVE  IInv'
<1>1. /\ q \notin Range(accepted) /\ call[Dispatcher] = "none"
      /\ UNCHANGED <<threadState, pc, hold, queried, executed, called, dispatcherClosed, flushFrom>>
  BY DEF AddTask, Step, runs
<1>2. /\ call' \in [Users -> {"none", "notify", "flush", "shutdown"}]
      /\ \A d \in Users : call'[d] = IF d = Dispatcher
                                     THEN (IF Accepts /\ DoSignal THEN "notify" ELSE "none")
                                     ELSE call[d]
  <2>. DEFINE to == IF Accepts /\ DoSignal THEN "notify" ELSE "none"
  <2>1. Step(Dispatcher, "none", to) /\ to \in {"none", "notify", "flush", "shutdown"} /\ Dispatcher \in Users
    BY DEF AddTask, Users
  <2>. HIDE DEF to
  <2>2. /\ call' \in [Users -> {"none", "notify", "flush", "shutdown"}]
        /\ \A d \in Users : call'[d] = IF d = Dispatcher THEN to ELSE call[d]
    BY <2>1, StepFacts
  <2>. QED BY <2>2 DEF to
<1>3. CASE ~Accepts
  <2>1. UNCHANGED <<tasks, accepted>>
    BY <1>3 DEF AddTask
  <2>2. ListInv' /\ Accounted' /\ HandInv' /\ Popped' = Popped
    BY <1>1, <2>1, SameLists
  <2>3. call' = call
    BY <1>1, <1>2, <1>3 DEF IInv, TypeOK, Users
  <2>4. TypeOK'
    BY <1>1, <2>1, <2>3 DEF IInv, TypeOK
  <2>. QED BY <1>1, <2>1, <2>2, <2>3, <2>4
           DEF IInv, ThreadInv, FlushInv, NoLostWakeup, NothingLeftBehind, Flushing
<1>4. CASE Accepts
  <2>1. tasks' = Append(tasks, q) /\ accepted' = Append(accepted, q)
    BY <1>4 DEF AddTask
  <2>2. /\ ListInv' /\ Popped' = Popped /\ tasks' \in Seq(Queries) /\ accepted' \in Seq(Queries)
        /\ Range(accepted') = Range(accepted) \cup {q}
    BY <1>1, <2>1, AddedToList DEF IInv
  <2>3. TypeOK'
    BY <1>1, <1>2, <2>2 DEF IInv, TypeOK
  <2>4. Accounted' /\ HandInv'
    BY <1>1, <2>2 DEF IInv, Accounted, HandInv, InHand
  <2>5. \A c \in Users : Flushing(c)' <=> Flushing(c)
    BY <1>1, <1>2 DEF Flushing
  <2>6. ThreadInv' /\ FlushInv'
    BY <1>1, <2>2, <2>5, <1>2 DEF IInv, ThreadInv, FlushInv, Users
  <2>7. NoLostWakeup'
    <3>. SUFFICES ASSUME pc = "waiting" PROVE \E c \in Users : call'[c] # "none"
      BY <1>1 DEF NoLostWakeup
    <3>1. CASE DoSignal
      BY <1>2, <1>4, <3>1 DEF Users
    <3>2. CASE ~DoSignal
      <4>1. PICK c \in Users : call[c] # "none"
        BY <3>2 DEF IInv, NoLostWakeup, DoSignal
      <4>. QED BY <1>1, <1>2, <4>1
    <3>. QED BY <3>1, <3>2
  <2>8. NothingLeftBehind'
    BY <1>1, <1>4 DEF Accepts, NothingLeftBehind
  <2>. QED BY <2>2, <2>3, <2>4, <2>6, <2>7, <2>8 DEF IInv
<1>. QED BY <1>3, <1>4

LEMMA NotifyKeeps ==
  ASSUME DatabaseAssumption, IInv, NEW c \in Users, NotifyOne(c)
  PROVE  IInv'
<1>1. /\ call' \in [Users -> {"none", "notify", "flush", "shutdown"}]
      /\ call[c] = "notify" /\ \A d \in Users : call'[d] = IF d = c THEN "none" ELSE call[d]
  BY StepFacts DEF NotifyOne
<1>2. /\ UNCHANGED <<threadState, tasks, hold, queried, executed, called, dispatcherClosed, accepted, flushFrom>>
      /\ pc' = IF pc = "waiting" THEN "woken" ELSE pc
  BY DEF NotifyOne, runs, Woken
<1>3. ListInv' /\ Accounted' /\ HandInv' /\ Popped' = Popped
  BY <1>2, SameLists
<1>4. TypeOK'
  BY <1>1, <1>2 DEF IInv, TypeOK
<1>5. \A d \in Users : Flushing(d)' <=> Flushing(d)
  BY <1>1 DEF Flushing
<1>6. ThreadInv'
  BY <1>2, <1>5 DEF IInv, ThreadInv
<1>7. FlushInv'
  BY <1>1, <1>2, <1>3 DEF IInv, FlushInv, Users
<1>8. NoLostWakeup' /\ NothingLeftBehind'
  BY <1>2, <1>5 DEF IInv, NoLostWakeup, NothingLeftBehind
<1>. QED BY <1>3, <1>4, <1>6, <1>7, <1>8 DEF IInv

LEMMA FlushKeeps ==
  ASSUME DatabaseAssumption, IInv, Flush
  PROVE  IInv'
<1>1. /\ call' \in [Users -> {"none", "notify", "flush", "shutdown"}]
      /\ call[Dispatcher] = "none" /\ Dispatcher \in Users
      /\ \A d \in Users : call'[d] = IF d = Dispatcher THEN "flush" ELSE call[d]
  <2>1. Dispatcher \in Users
    BY DEF Users
  <2>. QED BY <2>1, StepFacts DEF Flush
<1>2. /\ flushFrom' = Range(accepted)
      /\ UNCHANGED <<threadState, tasks, pc, hold, queried, executed, called, dispatcherClosed, accepted>>
  BY DEF Flush, runs
<1>3. ListInv' /\ Accounted' /\ HandInv' /\ Popped' = Popped
  BY <1>2, SameLists
<1>4. TypeOK'
  <2>1. Range(accepted) \subseteq Queries
    BY DEF IInv, TypeOK, Range
  <2>. QED BY <1>1, <1>2, <2>1 DEF IInv, TypeOK
<1>5. ThreadInv'
  BY <1>1, <1>2 DEF IInv, ThreadInv, Flushing
<1>6. FlushInv'
  BY <1>1, <1>2 DEF FlushInv
<1>7. NoLostWakeup' /\ NothingLeftBehind'
  BY <1>1, <1>2 DEF IInv, NoLostWakeup, NothingLeftBehind, Flushing
<1>. QED BY <1>3, <1>4, <1>5, <1>6, <1>7 DEF IInv

LEMMA StopKeeps ==
  ASSUME IInv, Stop
  PROVE  IInv'
<1>1. /\ threadState' = "CLOSING" /\ dispatcherClosed' = TRUE
      /\ UNCHANGED <<tasks, pc, call, hold, queried, executed, called, accepted, flushFrom>>
  BY DEF Stop, runs
<1>2. ListInv' /\ Accounted' /\ HandInv' /\ Popped' = Popped
  BY <1>1, SameLists
<1>3. TypeOK'
  BY <1>1 DEF IInv, TypeOK
<1>. QED BY <1>1, <1>2, <1>3 DEF IInv, ThreadInv, FlushInv, NoLostWakeup, NothingLeftBehind, Flushing

LEMMA ShutdownKeeps ==
  ASSUME DatabaseAssumption, IInv, NEW c \in Users, Shutdown(c)
  PROVE  IInv'
<1>1. /\ call' \in [Users -> {"none", "notify", "flush", "shutdown"}]
      /\ call[c] = "none" /\ \A d \in Users : call'[d] = IF d = c THEN "shutdown" ELSE call[d]
  BY StepFacts DEF Shutdown
<1>2. /\ threadState' = "TERMINATED"
      /\ UNCHANGED <<tasks, pc, hold, queried, executed, called, dispatcherClosed, accepted, flushFrom>>
  BY DEF Shutdown, runs
<1>3. ListInv' /\ Accounted' /\ HandInv' /\ Popped' = Popped
  BY <1>2, SameLists
<1>4. TypeOK'
  BY <1>1, <1>2 DEF IInv, TypeOK
<1>5. ThreadInv'
  BY <1>1, <1>2 DEF IInv, ThreadInv, Flushing
<1>6. FlushInv'
  BY <1>1, <1>2, <1>3 DEF IInv, FlushInv, Users
<1>7. NoLostWakeup' /\ NothingLeftBehind'
  BY <1>1, <1>2 DEF IInv, NoLostWakeup, NothingLeftBehind, Flushing
<1>. QED BY <1>3, <1>4, <1>5, <1>6, <1>7 DEF IInv

LEMMA FlushPopKeeps ==
  ASSUME DatabaseAssumption, IInv, NEW c \in Users, FlushPop(c)
  PROVE  IInv'
<1>1. /\ c \in Workers /\ Flushing(c) /\ hold[c] = NoQuery /\ Pop(c)
      /\ UNCHANGED <<threadState, pc, call, queried, executed, called, dispatcherClosed, accepted, flushFrom>>
  BY DEF FlushPop, Workers
<1>2. /\ ListInv' /\ Accounted' /\ HandInv' /\ Popped \subseteq Popped'
      /\ tasks' \in Seq(Queries) /\ hold' \in [Workers -> Queries \cup {NoQuery}]
      /\ \A v \in Workers : hold'[v] = IF v = c THEN Head(tasks) ELSE hold[v]
  BY <1>1, PopKeeps
<1>3. TypeOK'
  BY <1>1, <1>2 DEF IInv, TypeOK
<1>4. ThreadInv'
  BY <1>1, <1>2 DEF IInv, ThreadInv, Flushing, Workers, DatabaseAssumption
<1>5. FlushInv'
  BY <1>1, <1>2 DEF IInv, FlushInv
<1>6. NoLostWakeup' /\ NothingLeftBehind'
  BY <1>1 DEF IInv, NoLostWakeup, NothingLeftBehind, Flushing, Pop
<1>. QED BY <1>2, <1>3, <1>4, <1>5, <1>6 DEF IInv

(* flush() is over: the list was empty. *)
LEMMA FlushEndKeeps ==
  ASSUME DatabaseAssumption, IInv, NEW c \in Users, FlushEnd(c)
  PROVE  IInv'
<1>1. /\ tasks = <<>> /\ hold[c] = NoQuery
      /\ UNCHANGED <<threadState, tasks, pc, hold, queried, executed, called, dispatcherClosed, accepted, flushFrom>>
  BY DEF FlushEnd, FlushIsOver, runs
<1>2. PICK to \in {"none", "notify"} :
        /\ call' \in [Users -> {"none", "notify", "flush", "shutdown"}]
        /\ \A d \in Users : call'[d] = IF d = c THEN to ELSE call[d]
  <2>1. CASE Step(c, "flush", "none")
    BY <2>1, StepFacts
  <2>2. CASE Step(c, "shutdown", "notify")
    BY <2>2, StepFacts
  <2>. QED BY <2>1, <2>2 DEF FlushEnd
<1>3. ListInv' /\ Accounted' /\ HandInv' /\ Popped' = Popped
  BY <1>1, SameLists
<1>4. TypeOK'
  BY <1>1, <1>2 DEF IInv, TypeOK
<1>5. ThreadInv'
  BY <1>1, <1>2 DEF IInv, ThreadInv, Flushing
<1>6. FlushInv'
  <2>1. Popped = Range(accepted)
    BY <1>1, ListFacts DEF IInv
  <2>. QED BY <1>1, <1>3, <2>1 DEF IInv, FlushInv
<1>7. NoLostWakeup' /\ NothingLeftBehind'
  BY <1>1 DEF NoLostWakeup, NothingLeftBehind
<1>. QED BY <1>3, <1>4, <1>5, <1>6, <1>7 DEF IInv

-----------------------------------------------------------------------------
(* threadMain() *)
LEMMA ThreadKeeps ==
  ASSUME DatabaseAssumption, IInv, CheckState \/ Wait \/ PopFront \/ NothingToDo \/ SpuriousWakeup
  PROVE  IInv'
<1>1. /\ UNCHANGED <<threadState, call, queried, executed, called, dispatcherClosed, accepted, flushFrom>>
      /\ pc # "run" /\ pc' \in {"check", "lock", "waiting", "woken", "run", "exit"}
      /\ pc' = "waiting" => tasks = <<>> /\ tasks' = tasks
  BY DEF CheckState, Wait, PopFront, NothingToDo, SpuriousWakeup, Goto
<1>2. hold[DbThread] = NoQuery /\ DbThread \in Workers /\ DbThread \notin Users
  BY <1>1 DEF IInv, ThreadInv, Workers, DatabaseAssumption
<1>3. \A c \in Users : Flushing(c)' <=> Flushing(c)
  BY <1>1 DEF Flushing
<1>4. CASE PopFront
  <2>1. Pop(DbThread) /\ pc' = "run"
    BY <1>4 DEF PopFront, Goto
  <2>2. /\ ListInv' /\ Accounted' /\ HandInv' /\ Popped \subseteq Popped'
        /\ tasks' \in Seq(Queries) /\ hold' \in [Workers -> Queries \cup {NoQuery}]
        /\ \A v \in Workers : hold'[v] = IF v = DbThread THEN Head(tasks) ELSE hold[v]
        /\ Head(tasks) # NoQuery
    BY <1>1, <1>2, <2>1, PopKeeps
  <2>3. TypeOK'
    BY <1>1, <2>2 DEF IInv, TypeOK
  <2>4. ThreadInv'
    BY <1>1, <1>2, <1>3, <2>1, <2>2 DEF IInv, ThreadInv, Workers
  <2>5. FlushInv'
    BY <1>1, <2>2 DEF IInv, FlushInv
  <2>6. NoLostWakeup' /\ NothingLeftBehind'
    BY <1>1, <1>3, <2>1 DEF IInv, NoLostWakeup, NothingLeftBehind, Pop
  <2>. QED BY <2>2, <2>3, <2>4, <2>5, <2>6 DEF IInv
<1>5. CASE CheckState \/ Wait \/ NothingToDo \/ SpuriousWakeup
  <2>1. UNCHANGED <<tasks, hold>> /\ pc' # "run"
    BY <1>5 DEF CheckState, Wait, NothingToDo, SpuriousWakeup, Goto
  <2>2. ListInv' /\ Accounted' /\ HandInv' /\ Popped' = Popped
    BY <1>1, <2>1, SameLists
  <2>3. TypeOK'
    BY <1>1, <2>1 DEF IInv, TypeOK
  <2>4. ThreadInv'
    BY <1>1, <1>2, <1>3, <2>1 DEF IInv, ThreadInv
  <2>5. FlushInv' /\ NothingLeftBehind'
    BY <1>1, <1>3, <2>1, <2>2 DEF IInv, FlushInv, NothingLeftBehind
  <2>6. NoLostWakeup'
    BY <1>1, <2>1 DEF NoLostWakeup
  <2>. QED BY <2>2, <2>3, <2>4, <2>5, <2>6 DEF IInv
<1>. QED BY <1>4, <1>5

-----------------------------------------------------------------------------
LEMMA InitHolds == DatabaseAssumption /\ Init => IInv
<1>. SUFFICES ASSUME DatabaseAssumption, Init PROVE IInv
  OBVIOUS
<1>1. <<>> \in Seq(Queries) /\ <<>> \in Seq(WithCallback) /\ Len(<<>>) = 0 /\ DOMAIN <<>> = {}
  OBVIOUS
<1>2. TypeOK
  BY <1>1 DEF Init, TypeOK
<1>3. Taken = 0 /\ Popped = {} /\ ListInv
  <2>1. Taken = 0
    BY <1>1 DEF Init, Taken
  <2>. QED BY <1>1, <2>1 DEF Init, Popped, ListInv, NoneTwice
<1>4. Accounted /\ HandInv
  BY <1>1, <1>3 DEF Init, Accounted, HandInv, NoneTwice, Range
<1>5. ThreadInv /\ FlushInv /\ NoLostWakeup /\ NothingLeftBehind
  BY DEF Init, ThreadInv, FlushInv, NoLostWakeup, NothingLeftBehind, Workers
<1>. QED BY <1>2, <1>3, <1>4, <1>5 DEF IInv

LEMMA NextKeeps == DatabaseAssumption /\ IInv /\ [Next]_vars => IInv'
<1>. SUFFICES ASSUME DatabaseAssumption, IInv, [Next]_vars PROVE IInv'
  OBVIOUS
<1>1. CASE UNCHANGED vars
  <2>1. ListInv' /\ Accounted' /\ HandInv' /\ Popped' = Popped
    BY <1>1, SameLists DEF vars, runs
  <2>. QED BY <1>1, <2>1 DEF IInv, TypeOK, ThreadInv, FlushInv, NoLostWakeup, NothingLeftBehind,
                              Flushing, vars, runs
<1>2. ASSUME NEW q \in Queries, AddTask(q) PROVE IInv'
  BY <1>2, AddTaskKeeps
<1>3. ASSUME NEW c \in Users, Shutdown(c) \/ caller(c) PROVE IInv'
  <2>1. c \in Workers
    BY DEF Workers
  <2>. QED BY <1>3, <2>1, ShutdownKeeps, NotifyKeeps, FlushPopKeeps, FlushEndKeeps, QueryKeeps, AnswerKeeps
           DEF caller
<1>4. CASE Flush
  BY <1>4, FlushKeeps
<1>5. CASE Stop
  BY <1>5, StopKeeps
<1>6. CASE SpuriousWakeup \/ threadMain
  <2>1. DbThread \in Workers
    BY DEF Workers
  <2>. QED BY <1>6, <2>1, ThreadKeeps, QueryKeeps, AnswerKeeps DEF threadMain
<1>. QED BY <1>1, <1>2, <1>3, <1>4, <1>5, <1>6 DEF Next

-----------------------------------------------------------------------------
(* What is read out of the inductive invariant. *)
LEMMA InvariantSays == DatabaseAssumption /\ IInv => QueriesAreSound
<1>. SUFFICES ASSUME DatabaseAssumption, IInv PROVE QueriesAreSound
  OBVIOUS
<1>1. OvertakesOnlyInHand
  <2>. SUFFICES ASSUME NEW q \in Range(accepted), NEW r \in Range(accepted), Before(accepted, q, r),
                       r \in Range(executed), q \notin Range(executed)
                PROVE  InHand(q)
    BY DEF OvertakesOnlyInHand
  <2>1. PICK i, j \in DOMAIN accepted : i < j /\ accepted[i] = q /\ accepted[j] = r
    BY DEF Before
  <2>2. PICK k \in 1 .. Taken : accepted[k] = r
    BY DEF IInv, Accounted, Popped
  <2>3. /\ Taken \in Nat /\ DOMAIN accepted = 1 .. Len(accepted) /\ Len(accepted) \in Nat
        /\ 1 .. Taken \subseteq DOMAIN accepted
    BY ListFacts DEF IInv, ListInv, TypeOK
  <2>4. k = j
    BY <2>1, <2>2, <2>3 DEF IInv, ListInv, NoneTwice
  <2>5. i \in 1 .. Taken
    BY <2>1, <2>2, <2>3, <2>4
  <2>6. q \in Popped
    BY <2>1, <2>5 DEF Popped
  <2>. QED BY <2>6 DEF IInv, Accounted
<1>2. ExecutedOnce
  <2>1. \A i, j \in DOMAIN executed : executed[i] = executed[j] => i = j
    BY DEF IInv, Accounted, NoneTwice
  <2>2. \A w \in Workers : hold[w] \in Range(executed) => queried[w]
    <3>1. NoQuery \notin Range(executed)
      BY DEF IInv, TypeOK, Range, DatabaseAssumption
    <3>. QED BY <3>1 DEF IInv, HandInv
  <2>3. \A v, w \in Workers : hold[v] = hold[w] /\ hold[v] # NoQuery => v = w
    BY DEF IInv, HandInv
  <2>. QED BY <2>1, <2>2, <2>3 DEF ExecutedOnce
<1>3. FlushCompletes
  BY DEF FlushCompletes, IInv, FlushInv, Accounted
<1>. QED BY <1>1, <1>2, <1>3 DEF IInv, QueriesAreSound

(* For any queries: every query that addTask() took and that left the list *)
(* is executed or in the hand of one thread, and never executed twice;     *)
(* nothing in the list is overtaken; when flush() is over, what it found   *)
(* is executed or in hand; no query waits for a sleeping database thread,  *)
(* and none is left when shutdown() is over.                               *)
THEOREM QueriesStaySound == ASSUME DatabaseAssumption PROVE Spec => []QueriesAreSound
<1>1. Init => IInv
  BY InitHolds
<1>2. IInv /\ [Next]_vars => IInv'
  BY NextKeeps
<1>3. IInv => QueriesAreSound
  BY InvariantSays
<1>. QED BY <1>1, <1>2, <1>3, PTL DEF Spec

-----------------------------------------------------------------------------
(* Persistence.                                                            *)

(* What a save is about, and the entries of a job. *)
What == Objects \cup {"account_storage"}
Saves == [what : What, version : 0 .. MaxVersion, tries : 1 .. 3, logout : BOOLEAN]

(* The versions of an object, the contents of a row, and the statements. *)
Versions == 1 .. MaxVersion
Contents == Gone .. MaxVersion
Stmts == UNION {[R -> Contents] : R \in SUBSET Rows}

TypesInv ==
    /\ mem \in [Objects -> 0 .. MaxVersion]
    /\ DOMAIN storage \subseteq Accounts /\ storage \in [DOMAIN storage -> 0 .. MaxVersion]
    /\ disk \in [Rows -> Contents] /\ view \in [Rows -> Contents]
    /\ open \in BOOLEAN /\ lock \in {"free", "dispatcher"}
    /\ step \in {"idle", "begun", "run"} /\ half \in BOOLEAN
    /\ acked \in [Objects -> 0 .. MaxVersion]
    /\ job \in Seq(Saves) /\ todo \in Seq(Stmts)

(* The houses are always in memory. *)
MemInv == \A o \in Houses : mem[o] > 0

(* A job is about each object once, at the version that is in memory. *)
JobInv ==
    /\ \A i, k \in DOMAIN job : job[i].what = job[k].what => i = k
    /\ \A i \in DOMAIN job :
          /\ job[i].logout => job[i].what \in Players
          /\ job[i].what \in Objects => /\ job[i].version \in Versions
                                         /\ mem[job[i].what] \in {0, job[i].version}

(* A transaction is open only during a save, its lock held while statements *)
(* run, and outside a transaction the connection sees what is committed.    *)
StepInv ==
    /\ step = "idle" => ~open /\ ~half
    /\ step # "idle" => job # <<>>
    /\ lock = "dispatcher" <=> step = "run"
    /\ ~open => view = disk
    /\ step = "begun" => view = disk
    /\ step # "idle" /\ ~open => half
    /\ clean

(* The rows a save may write, and statements that keep to them. *)
Mine(j) == IF j.what \in Objects THEN RowsOf(j.what) ELSE AccountRows
StatementOK(stmt, mine) ==
    /\ DOMAIN stmt \subseteq mine
    /\ \A r \in DOMAIN stmt : stmt[r] = 0 => r \in AccountRows

(* The statements still to run finish the work: each row has the version,   *)
(* or a later statement writes it.                                          *)
WrittenBy(r, todos, from) == \E k \in from .. Len(todos) : r \in DOMAIN todos[k]

Completes(todos, mine, v, table) ==
    /\ \A k \in 1 .. Len(todos) : \A r \in DOMAIN todos[k] :
          todos[k][r] = v \/ WrittenBy(r, todos, k + 1)
    /\ \A r \in mine : table[r] = v \/ WrittenBy(r, todos, 1)

RowInv ==
  step # "idle" =>
    /\ \A k \in 1 .. Len(todo) : StatementOK(todo[k], Mine(First))
    /\ \A r \in Rows \ Mine(First) : view[r] = disk[r]
    /\ ~half /\ First.what \in Objects => Completes(todo, Mine(First), First.version, view)

(* 0 is a value of account storage only. *)
ObjectRows == \A o \in Objects : \A r \in RowsOf(o) : disk[r] # 0 /\ view[r] # 0

(* All rows of the object hold version v, which is neither older than what  *)
(* was acknowledged nor newer than memory or what the job has yet to save.  *)
WholeAt(o, v) ==
    /\ acked[o] <= v
    /\ mem[o] > 0 => v <= mem[o]
    /\ \A i \in DOMAIN job : job[i].what = o => v <= job[i].version
    /\ \A r \in RowsOf(o) : disk[r] = v
WholeInv == \A o \in Objects : Disturbed(o) \/ \E v \in Versions : WholeAt(o, v)

(* The inductive invariant. *)
SavesInv == TypesInv /\ MemInv /\ JobInv /\ StepInv /\ RowInv /\ ObjectRows /\ WholeInv

\* Objects and rows: no two objects share a row.
LEMMA RowFacts ==
  ASSUME PersistenceAssumption
  PROVE  /\ "account_storage" \notin Objects /\ Houses \cap Players = {}
         /\ Players \subseteq Objects /\ Houses \subseteq Objects
         /\ AccountRows \subseteq Rows
         /\ \A o \in Objects : RowsOf(o) \subseteq Rows /\ RowsOf(o) \cap AccountRows = {}
         /\ \A o, q \in Objects : o # q => RowsOf(o) \cap RowsOf(q) = {}
         /\ \A o \in Objects : <<o, MainTable(o)>> \in RowsOf(o)
         /\ \A r \in Rows : r \in AccountRows \/ \E o \in Objects : r \in RowsOf(o)
<1>1. /\ "account_storage" \notin Objects /\ Houses \cap Players = {}
      /\ Players \subseteq Objects /\ Houses \subseteq Objects
  BY DEF PersistenceAssumption, Objects, Houses
<1>2. AccountRows \subseteq Rows
  BY DEF Rows
<1>3. ASSUME NEW o \in Objects
      PROVE  RowsOf(o) \subseteq Rows /\ RowsOf(o) \cap AccountRows = {}
  <2>1. RowsOf(o) \subseteq Rows
    BY DEF Rows
  <2>2. o # "account_storage"
    BY <1>1
  <2> QED  BY <2>1, <2>2 DEF RowsOf, AccountRows, AccountRow
<1>4. ASSUME NEW o \in Objects, NEW q \in Objects, o # q
      PROVE  RowsOf(o) \cap RowsOf(q) = {}
  BY <1>4 DEF RowsOf
<1>5. ASSUME NEW o \in Objects
      PROVE  <<o, MainTable(o)>> \in RowsOf(o)
  <2>1. MainTable(o) \in TablesOf(o)
    <3>1. CASE o \in Players
      BY <3>1 DEF MainTable, TablesOf
    <3>2. CASE o = "houseinfo"
      BY <3>2, <1>1 DEF MainTable, TablesOf, Houses
    <3>3. CASE o = "houseitems"
      BY <3>3, <1>1 DEF MainTable, TablesOf, Houses
    <3> QED  BY <3>1, <3>2, <3>3 DEF Objects, Houses
  <2> QED  BY <2>1 DEF RowsOf
<1>6. \A r \in Rows : r \in AccountRows \/ \E o \in Objects : r \in RowsOf(o)
  BY DEF Rows
<1> QED  BY <1>1, <1>2, <1>3, <1>4, <1>5, <1>6

\* The sequence of a finite set has its elements, each once.
LEMMA SetToSeqType ==
  ASSUME NEW S, IsFiniteSet(S)
  PROVE  /\ SetToSeq(S) \in [1 .. Cardinality(S) -> S] /\ IsInjective(SetToSeq(S))
         /\ Cardinality(S) \in Nat
         /\ SetToSeq(S) \in Seq(S) /\ Len(SetToSeq(S)) = Cardinality(S)
<1>1. /\ Cardinality(S) \in Nat
      /\ ExistsBijection(1 .. Cardinality(S), S)
  BY FS_CardinalityType
<1>2. PICK f \in Bijection(1 .. Cardinality(S), S) : TRUE
  BY <1>1 DEF ExistsBijection
<1>3. f \in [1 .. Cardinality(S) -> S] /\ IsInjective(f)
  BY <1>2 DEF Bijection, Injection, IsInjective, IsInjective
<1>4. SetToSeq(S) \in [1 .. Cardinality(S) -> S] /\ IsInjective(SetToSeq(S))
  BY <1>3, Zenon DEF SetToSeq
<1> QED  BY <1>1, <1>4

\* A statement is a function on some of the rows.
LEMMA StatementIsFunction ==
  ASSUME NEW R \in SUBSET Rows, NEW f \in [R -> Contents]
  PROVE  f \in Stmts
BY DEF Stmts

\* Every statement of a save writes rows of the saved object, and the save
\* leaves its version in every one of them.
LEMMA PlayerStatementsOK ==
  ASSUME PersistenceAssumption, NEW p \in Players, NEW v \in Versions
  PROVE  LET s == PlayerStatements(p, v)
         IN  /\ s \in Seq(Stmts)
             /\ \A k \in 1 .. Len(s) : StatementOK(s[k], RowsOf(p))
             /\ \A k \in 1 .. Len(s) : \A r \in DOMAIN s[k] :
                  s[k][r] = v \/ WrittenBy(r, s, k + 1)
             /\ \A r \in RowsOf(p) : WrittenBy(r, s, 1)
<1> DEFINE n == Len(PlayerTables)
           s == PlayerStatements(p, v)
<1>1. /\ n \in Nat /\ DOMAIN PlayerTables = 1 .. n
      /\ \A i \in 1 .. n : PlayerTables[i] \in Range(PlayerTables)
  BY DEF PersistenceAssumption, Range
<1>2. /\ \A t \in TablesOf(p) : <<p, t>> \in RowsOf(p)
      /\ TablesOf(p) = {"players"} \cup Range(PlayerTables)
      /\ RowsOf(p) \subseteq Rows
  <2>1. p \in Objects /\ p \notin Houses
    BY RowFacts
  <2>2. TablesOf(p) = {"players"} \cup Range(PlayerTables)
    BY <2>1 DEF TablesOf, Houses
  <2>3. RowsOf(p) \subseteq Rows
    BY <2>1, RowFacts
  <2> QED  BY <2>2, <2>3 DEF RowsOf
<1>3. v \in Contents /\ v # 0 /\ Gone \in Contents /\ Gone # 0
  BY DEF Versions, Contents, Gone, PersistenceAssumption
<1>4. ASSUME NEW i \in 1 .. 2 * n + 1
      PROVE  \E t \in TablesOf(p) : \E c \in {v, Gone} :
                /\ s[i] = Write(p, t, c)
                /\ i = 1 => t = "players" /\ c = v
                /\ i # 1 => t = PlayerTables[i \div 2] /\ c = (IF i % 2 = 0 THEN Gone ELSE v)
  <2>1. CASE i = 1
    BY <1>1, <1>2, <2>1 DEF PlayerStatements
  <2>2. CASE i # 1
    <3>1. i \div 2 \in 1 .. n
      BY <1>1, <2>2
    <3>2. PlayerTables[i \div 2] \in TablesOf(p)
      BY <1>1, <1>2, <3>1
    <3>3. s[i] = Write(p, PlayerTables[i \div 2], IF i % 2 = 0 THEN Gone ELSE v)
      BY <1>1, <2>2 DEF PlayerStatements
    <3> QED  BY <2>2, <3>2, <3>3
  <2> QED  BY <2>1, <2>2
<1>5. /\ s = [i \in 1 .. 2 * n + 1 |-> s[i]]
      /\ DOMAIN s = 1 .. 2 * n + 1
  BY DEF PlayerStatements
<1> HIDE DEF s, n
<1>6. \A i \in 1 .. 2 * n + 1 : StatementOK(s[i], RowsOf(p)) /\ s[i] \in Stmts
  <2> TAKE i \in 1 .. 2 * n + 1
  <2>1. PICK t \in TablesOf(p), c \in {v, Gone} : s[i] = Write(p, t, c)
    BY <1>4
  <2>2. s[i] \in [{<<p, t>>} -> Contents] /\ DOMAIN s[i] = {<<p, t>>} /\ s[i][<<p, t>>] # 0
    BY <2>1, <1>3 DEF Write
  <2>3. {<<p, t>>} \in SUBSET Rows /\ {<<p, t>>} \subseteq RowsOf(p)
    BY <1>2
  <2> QED  BY <2>2, <2>3, StatementIsFunction DEF StatementOK
<1>7. s \in Seq(Stmts) /\ Len(s) = 2 * n + 1
  BY <1>1, <1>5, <1>6
<1>8. ASSUME NEW k \in 1 .. Len(s), NEW r \in DOMAIN s[k], s[k][r] # v
      PROVE  WrittenBy(r, s, k + 1)
  <2>1. k \in 1 .. 2 * n + 1
    BY <1>7
  <2>2. PICK t \in TablesOf(p), c \in {v, Gone} :
           /\ s[k] = Write(p, t, c)
           /\ k = 1 => t = "players" /\ c = v
           /\ k # 1 => t = PlayerTables[k \div 2] /\ c = (IF k % 2 = 0 THEN Gone ELSE v)
    BY <1>4, <2>1
  <2>3. r = <<p, t>> /\ c # v
    BY <1>8, <2>2 DEF Write
  <2>4. k # 1 /\ k % 2 = 0 /\ t = PlayerTables[k \div 2]
    BY <2>2, <2>3
  <2>5. k + 1 \in 1 .. 2 * n + 1 /\ k + 1 # 1 /\ (k + 1) \div 2 = k \div 2
    BY <1>1, <2>1, <2>4
  <2>6. PICK u \in TablesOf(p), d \in {v, Gone} :
           s[k + 1] = Write(p, u, d) /\ u = PlayerTables[(k + 1) \div 2]
    BY <1>4, <2>5
  <2>7. r \in DOMAIN s[k + 1]
    BY <2>3, <2>4, <2>5, <2>6 DEF Write
  <2>8. k + 1 \in (k + 1) .. Len(s)
    BY <1>1, <1>7, <2>1, <2>5
  <2> QED  BY <2>7, <2>8 DEF WrittenBy
<1>9. ASSUME NEW r \in RowsOf(p)
      PROVE  WrittenBy(r, s, 1)
  <2>1. PICK t \in TablesOf(p) : r = <<p, t>>
    BY DEF RowsOf
  <2>2. CASE t = "players"
    <3>1. 1 \in 1 .. 2 * n + 1
      BY <1>1
    <3>2. PICK u \in TablesOf(p), c \in {v, Gone} : s[1] = Write(p, u, c) /\ u = "players"
      BY <1>4, <3>1
    <3>3. r \in DOMAIN s[1]
      BY <2>1, <2>2, <3>2 DEF Write
    <3> QED  BY <3>1, <3>3, <1>7 DEF WrittenBy
  <2>3. CASE t # "players"
    <3>1. PICK i \in 1 .. n : t = PlayerTables[i]
      BY <1>1, <1>2, <2>1, <2>3 DEF Range
    <3>2. 2 * i \in 1 .. 2 * n + 1 /\ 2 * i # 1 /\ (2 * i) \div 2 = i
      BY <1>1
    <3>3. PICK u \in TablesOf(p), c \in {v, Gone} :
             s[2 * i] = Write(p, u, c) /\ u = PlayerTables[(2 * i) \div 2]
      BY <1>4, <3>2
    <3>4. r \in DOMAIN s[2 * i]
      BY <2>1, <3>1, <3>2, <3>3 DEF Write
    <3> QED  BY <3>2, <3>4, <1>7 DEF WrittenBy
  <2> QED  BY <2>2, <2>3
<1> QED  BY <1>6, <1>7, <1>8, <1>9 DEF s

\* The same for the statements of the houses.
LEMMA HouseStatementsOK ==
  ASSUME PersistenceAssumption, NEW o \in Houses, NEW v \in Versions
  PROVE  LET s == IF o = "houseinfo" THEN HouseInfoStatements(v) ELSE HouseItemStatements(v)
         IN  /\ s \in Seq(Stmts)
             /\ \A k \in 1 .. Len(s) : StatementOK(s[k], RowsOf(o))
             /\ \A k \in 1 .. Len(s) : \A r \in DOMAIN s[k] :
                  s[k][r] = v \/ WrittenBy(r, s, k + 1)
             /\ \A r \in RowsOf(o) : WrittenBy(r, s, 1)
<1>1. /\ o \in Objects /\ o \notin Players /\ RowsOf(o) \subseteq Rows
  BY RowFacts
<1>2. v \in Contents /\ v # 0 /\ Gone \in Contents /\ Gone # 0
  BY DEF Versions, Contents, Gone, PersistenceAssumption
<1>3. ASSUME NEW r \in RowsOf(o), NEW c \in {v, Gone}, NEW t, r = <<o, t>>
      PROVE  Write(o, t, c) \in Stmts /\ StatementOK(Write(o, t, c), RowsOf(o))
  <2>1. /\ Write(o, t, c) \in [{r} -> Contents] /\ {r} \subseteq Rows
        /\ DOMAIN Write(o, t, c) = {r} /\ Write(o, t, c)[r] # 0
    BY <1>1, <1>2, <1>3 DEF Write
  <2> QED  BY <2>1, StatementIsFunction DEF StatementOK
<1>4. CASE o = "houseinfo"
  <2> DEFINE s == HouseInfoStatements(v)
  <2>1. RowsOf(o) = {<<o, "house_lists">>, <<o, "houses">>}
    BY <1>1, <1>4 DEF RowsOf, TablesOf
  <2>2. s = <<Write(o, "house_lists", Gone), Write(o, "houses", v), Write(o, "house_lists", v)>>
    BY <1>4 DEF HouseInfoStatements
  <2>3. Len(s) = 3 /\ s[1] = Write(o, "house_lists", Gone)
        /\ s[2] = Write(o, "houses", v) /\ s[3] = Write(o, "house_lists", v)
    BY <2>2
  <2> HIDE DEF s
  <2>4. \A k \in 1 .. 3 : s[k] \in Stmts /\ StatementOK(s[k], RowsOf(o))
    BY <1>3, <2>1, <2>3
  <2>5. s \in Seq(Stmts)
    BY <2>2, <2>3, <2>4
  <2>6. WrittenBy(<<o, "house_lists">>, s, 2) /\ WrittenBy(<<o, "house_lists">>, s, 1)
        /\ WrittenBy(<<o, "houses">>, s, 1)
    BY <2>3 DEF WrittenBy, Write
  <2>7. \A k \in 1 .. 3 : \A r \in DOMAIN s[k] : s[k][r] = v \/ WrittenBy(r, s, k + 1)
    <3>1. \A r \in DOMAIN s[1] : r = <<o, "house_lists">>
      BY <2>3 DEF Write
    <3>2. (\A r \in DOMAIN s[2] : s[2][r] = v) /\ (\A r \in DOMAIN s[3] : s[3][r] = v)
      BY <2>3 DEF Write
    <3> QED  BY <2>6, <3>1, <3>2
  <2> QED  BY <1>4, <2>1, <2>3, <2>4, <2>5, <2>6, <2>7 DEF s
<1>5. CASE o = "houseitems"
  <2> DEFINE s == HouseItemStatements(v)
  <2>1. RowsOf(o) = {<<o, "tile_store">>}
    BY <1>1, <1>5 DEF RowsOf, TablesOf
  <2>2. s = <<Write(o, "tile_store", Gone), Write(o, "tile_store", v)>>
    BY <1>5 DEF HouseItemStatements
  <2>3. Len(s) = 2 /\ s[1] = Write(o, "tile_store", Gone) /\ s[2] = Write(o, "tile_store", v)
    BY <2>2
  <2> HIDE DEF s
  <2>4. \A k \in 1 .. 2 : s[k] \in Stmts /\ StatementOK(s[k], RowsOf(o))
    BY <1>3, <2>1, <2>3
  <2>5. s \in Seq(Stmts)
    BY <2>2, <2>3, <2>4
  <2>6. WrittenBy(<<o, "tile_store">>, s, 2) /\ WrittenBy(<<o, "tile_store">>, s, 1)
    BY <2>3 DEF WrittenBy, Write
  <2>7. \A k \in 1 .. 2 : \A r \in DOMAIN s[k] : s[k][r] = v \/ WrittenBy(r, s, k + 1)
    BY <2>3, <2>6 DEF Write
  <2> QED  BY <1>5, <2>1, <2>3, <2>4, <2>5, <2>6, <2>7 DEF s
<1> QED  BY <1>4, <1>5 DEF Houses

\* saveAccountStorageValues() writes rows of accounts only.
LEMMA AccountStatementsOK ==
  ASSUME PersistenceAssumption, TypesInv, NEW written \in AccountsWritten(storage)
  PROVE  LET s == AccountStatements(storage, written)
         IN  s \in Seq(Stmts) /\ \A k \in 1 .. Len(s) : StatementOK(s[k], AccountRows)
<1> DEFINE accounts == SetToSeq(written)
           delete == [r \in AccountRows |-> Gone]
           insert(i) == [r \in {AccountRow(accounts[i])} |-> storage[accounts[i]]]
           inserts == [i \in DOMAIN accounts |-> insert(i)]
<1>1. written \subseteq DOMAIN storage /\ written \subseteq Accounts
  BY DEF AccountsWritten, TypesInv
<1>2. IsFiniteSet(written)
  BY <1>1, FS_Subset DEF PersistenceAssumption
<1>3. accounts \in Seq(written)
  BY <1>2, SetToSeqType
<1>4. AccountRows \subseteq Rows
  BY RowFacts
<1>5. delete \in Stmts /\ StatementOK(delete, AccountRows)
  <2>1. delete \in [AccountRows -> Contents]
    BY DEF Gone, Contents, PersistenceAssumption
  <2> QED  BY <2>1, <1>4, StatementIsFunction DEF StatementOK
<1>6. ASSUME NEW i \in DOMAIN accounts
      PROVE  insert(i) \in Stmts /\ StatementOK(insert(i), AccountRows)
  <2>1. accounts[i] \in written
    BY <1>3
  <2>2. AccountRow(accounts[i]) \in AccountRows
    BY <1>1, <2>1 DEF AccountRows
  <2>3. storage[accounts[i]] \in 0 .. MaxVersion /\ 0 .. MaxVersion \subseteq Contents
    BY <1>1, <2>1 DEF TypesInv, Contents, Gone, PersistenceAssumption
  <2>4. insert(i) \in [{AccountRow(accounts[i])} -> Contents]
    BY <2>3
  <2> QED  BY <2>2, <2>4, <1>4, StatementIsFunction DEF StatementOK
<1>7. AccountStatements(storage, written) = <<delete>> \o inserts
  BY DEF AccountStatements
<1> HIDE DEF insert, delete, accounts
<1>8. inserts \in Seq(Stmts) /\ \A i \in 1 .. Len(inserts) : inserts[i] = insert(i) /\ i \in DOMAIN accounts
  <2>1. Len(accounts) \in Nat /\ DOMAIN accounts = 1 .. Len(accounts)
    BY <1>3
  <2>2. inserts \in [1 .. Len(accounts) -> Stmts]
    BY <1>6, <2>1
  <2>3. inserts \in Seq(Stmts) /\ Len(inserts) = Len(accounts)
    BY <2>1, <2>2
  <2> QED  BY <2>1, <2>3
<1> HIDE DEF inserts
<1> DEFINE s == <<delete>> \o inserts
<1>9. s \in Seq(Stmts) /\ s[1] = delete /\ Len(s) = Len(inserts) + 1
      /\ \A k \in 2 .. Len(s) : s[k] = inserts[k - 1]
  BY <1>5, <1>8
<1> HIDE DEF s
<1>10. \A k \in 1 .. Len(s) : StatementOK(s[k], AccountRows)
  <2> TAKE k \in 1 .. Len(s)
  <2>1. CASE k = 1
    BY <1>5, <1>9, <2>1
  <2>2. CASE k # 1
    <3>1. k - 1 \in 1 .. Len(inserts) /\ s[k] = inserts[k - 1]
      BY <1>8, <1>9, <2>2
    <3> QED  BY <3>1, <1>6, <1>8
  <2> QED  BY <2>1, <2>2
<1> QED  BY <1>7, <1>9, <1>10 DEF s

\* Of any save.
LEMMA StatementsOK ==
  ASSUME PersistenceAssumption, TypesInv, NEW j \in Saves,
         j.what \in Objects => j.version \in Versions, NEW s \in Statements(j)
  PROVE  /\ s \in Seq(Stmts)
         /\ \A k \in 1 .. Len(s) : StatementOK(s[k], Mine(j))
         /\ j.what \in Objects =>
              /\ \A k \in 1 .. Len(s) : \A r \in DOMAIN s[k] :
                   s[k][r] = j.version \/ WrittenBy(r, s, k + 1)
              /\ \A r \in RowsOf(j.what) : WrittenBy(r, s, 1)
<1> USE RowFacts
<1>1. CASE j.what \in Players
  <2>1. j.what \in Objects /\ j.what \notin Houses
    BY <1>1
  <2>2. s = PlayerStatements(j.what, j.version)
    BY <1>1, <2>1 DEF Statements, Houses, Objects
  <2> QED  BY <1>1, <2>1, <2>2, PlayerStatementsOK DEF Mine
<1>2. CASE j.what = "houseinfo"
  <2>1. s = HouseInfoStatements(j.version) /\ j.what \in Objects /\ j.what \in Houses
    BY <1>2 DEF Statements, Houses
  <2> QED  BY <1>2, <2>1, HouseStatementsOK DEF Mine
<1>3. CASE j.what = "houseitems"
  <2>1. s = HouseItemStatements(j.version) /\ j.what \in Objects /\ j.what \in Houses
    BY <1>3 DEF Statements, Houses
  <2> QED  BY <1>3, <2>1, HouseStatementsOK DEF Mine
<1>4. CASE j.what = "account_storage"
  <2>1. j.what \notin Objects
    BY <1>4
  <2>2. PICK w \in AccountsWritten(storage) : s = AccountStatements(storage, w)
    BY <1>4, <2>1 DEF Statements, Objects, Houses
  <2> QED  BY <2>1, <2>2, AccountStatementsOK DEF Mine
<1> QED  BY <1>1, <1>2, <1>3, <1>4 DEF Saves, What, Objects, Houses

\* What NextSave() leaves of the job: nothing new, and after a save that
\* returned true nothing about the same object.
LEMMA NextSaveKeeps ==
  ASSUME PersistenceAssumption, TypesInv, MemInv, JobInv, job # <<>>,
         NEW ok \in BOOLEAN, NextSave(ok)
  PROVE  /\ mem' \in [Objects -> 0 .. MaxVersion] /\ acked' \in [Objects -> 0 .. MaxVersion]
         /\ job' \in Seq(Saves) /\ MemInv' /\ JobInv'
         /\ \A o \in Objects : mem'[o] \in {0, mem[o]} /\ (o # First.what => mem'[o] = mem[o])
         /\ \A o \in Objects : acked'[o] = IF ok /\ o = First.what THEN First.version ELSE acked[o]
         /\ \A i \in DOMAIN job' : \E k \in DOMAIN job :
               /\ job'[i].what = job[k].what /\ job'[i].version = job[k].version
               /\ ok => k # 1
<1> DEFINE over == ok \/ First.tries = 1
<1>1. /\ Len(job) \in Nat /\ Len(job) >= 1 /\ DOMAIN job = 1 .. Len(job)
      /\ First = job[1] /\ First \in Saves
      /\ Tail(job) \in Seq(Saves) /\ Len(Tail(job)) = Len(job) - 1
      /\ \A i \in 1 .. Len(Tail(job)) : Tail(job)[i] = job[i + 1]
      /\ \A i \in DOMAIN job : job[i] \in Saves
  <2>1. job \in Seq(Saves) /\ job # <<>>
    BY DEF TypesInv
  <2>2. Len(job) \in Nat /\ Len(job) >= 1 /\ DOMAIN job = 1 .. Len(job)
    BY <2>1
  <2>3. First = job[1] /\ First \in Saves
    BY <2>1 DEF First
  <2>4. /\ Tail(job) \in Seq(Saves) /\ Len(Tail(job)) = Len(job) - 1
        /\ \A i \in 1 .. Len(Tail(job)) : Tail(job)[i] = job[i + 1]
    BY <2>1
  <2> QED  BY <2>1, <2>2, <2>3, <2>4
<1>2. mem' = IF over /\ First.logout THEN [mem EXCEPT ![First.what] = 0] ELSE mem
  BY DEF NextSave
<1>3. First.logout => First.what \in Players
  BY <1>1 DEF JobInv
<1>4. \A o \in Objects : mem'[o] \in {0, mem[o]} /\ (o # First.what => mem'[o] = mem[o])
  BY <1>2 DEF TypesInv
<1>5. mem' \in [Objects -> 0 .. MaxVersion]
  <2>1. 0 \in 0 .. MaxVersion /\ mem \in [Objects -> 0 .. MaxVersion]
    BY DEF TypesInv, PersistenceAssumption
  <2> QED  BY <1>2, <2>1
<1>6. MemInv'
  <2> SUFFICES ASSUME NEW o \in Houses PROVE mem'[o] > 0
    BY DEF MemInv
  <2>1. o \in Objects /\ mem[o] > 0
    BY RowFacts DEF MemInv
  <2>2. mem'[o] = mem[o]
    BY <1>2, <1>3, <2>1, RowFacts DEF TypesInv
  <2> QED  BY <2>1, <2>2
<1>7. /\ acked' \in [Objects -> 0 .. MaxVersion]
      /\ \A o \in Objects : acked'[o] = IF ok /\ o = First.what THEN First.version ELSE acked[o]
  <2>1. acked' = IF ok /\ First.what \in Objects
                 THEN [acked EXCEPT ![First.what] = First.version] ELSE acked
    BY DEF NextSave
  <2>2. First.version \in 0 .. MaxVersion
    BY <1>1 DEF Saves
  <2> QED  BY <2>1, <2>2 DEF TypesInv
<1>8. /\ job' \in Seq(Saves)
      /\ \E d \in {0, 1} : /\ ok => d = 1
                           /\ over /\ First.logout => d = 1
                           /\ \A i \in DOMAIN job' :
                                /\ i \in Nat /\ i + d \in DOMAIN job
                                /\ job'[i].what = job[i + d].what
                                /\ job'[i].version = job[i + d].version
                                /\ job'[i].logout = job[i + d].logout
  <2>1. CASE ok \/ (First.tries <= 1 /\ First.what # "houseinfo")
    <3>0. ok \/ (~(First.tries > 1) /\ First.what # "houseinfo")
      BY <2>1, <1>1 DEF Saves
    <3>1. job' = Tail(job)
      <4>1. CASE ok
        BY <4>1 DEF NextSave
      <4>2. CASE ~ok
        BY <3>0, <4>2 DEF NextSave
      <4> QED  BY <4>1, <4>2
    <3>2. \A i \in DOMAIN job' : i \in Nat /\ i + 1 \in DOMAIN job /\ job'[i] = job[i + 1]
      BY <3>1, <1>1
    <3>3. job' \in Seq(Saves)
      BY <3>1, <1>1
    <3> QED  BY <3>2, <3>3
  <2>2. CASE ~ok /\ First.tries > 1
    <3> DEFINE again == [First EXCEPT !.tries = @ - 1]
    <3>1. job' = <<again>> \o Tail(job)
      BY <2>2 DEF NextSave
    <3>2. First.tries - 1 \in 1 .. 3
      BY <1>1, <2>2 DEF Saves
    <3>3. again \in Saves /\ again.what = First.what /\ again.version = First.version
          /\ again.logout = First.logout
      BY <1>1, <3>2 DEF Saves
    <3> HIDE DEF again
    <3>4. <<again>> \in Seq(Saves) /\ Len(<<again>>) = 1 /\ <<again>>[1] = again
      BY <3>3
    <3>5. job' \in Seq(Saves) /\ Len(job') = Len(job) /\ job'[1] = again
          /\ \A i \in 2 .. Len(job) : job'[i] = Tail(job)[i - 1]
      BY <3>1, <3>4, <1>1
    <3>6. DOMAIN job' = 1 .. Len(job)
      BY <3>5
    <3>7. \A i \in 2 .. Len(job) : job'[i] = job[i]
      <4> TAKE i \in 2 .. Len(job)
      <4>1. i - 1 \in 1 .. Len(Tail(job)) /\ (i - 1) + 1 = i
        BY <1>1
      <4>2. Tail(job)[i - 1] = job[(i - 1) + 1]
        BY <4>1, <1>1
      <4> QED  BY <3>5, <4>1, <4>2
    <3>8. \A i \in DOMAIN job' : /\ i \in Nat /\ i + 0 = i /\ i \in DOMAIN job
                                 /\ job'[i].what = job[i].what
                                 /\ job'[i].version = job[i].version
                                 /\ job'[i].logout = job[i].logout
      <4> TAKE i \in DOMAIN job'
      <4>1. i \in 1 .. Len(job)
        BY <3>6
      <4>2. CASE i = 1
        BY <4>1, <4>2, <3>5, <3>3, <1>1
      <4>3. CASE i # 1
        BY <4>1, <4>3, <3>7, <1>1
      <4> QED  BY <4>2, <4>3
    <3>9. ~over
      BY <1>1, <2>2 DEF Saves
    <3> QED  BY <3>5, <3>8, <3>9, <2>2
  <2>3. CASE ~ok /\ First.tries <= 1 /\ First.what = "houseinfo"
    <3>1. ~(First.tries > 1)
      BY <2>3, <1>1 DEF Saves
    <3>2. job' = <<>>
      BY <2>3, <3>1 DEF NextSave
    <3>3. job' \in Seq(Saves) /\ DOMAIN job' = {}
      BY <3>2
    <3> QED  BY <3>3
  <2>4. First.tries > 1 \/ First.tries <= 1
    BY <1>1 DEF Saves
  <2> QED  BY <2>1, <2>2, <2>3, <2>4
<1>9. PICK d \in {0, 1} : /\ ok => d = 1
                          /\ over /\ First.logout => d = 1
                          /\ \A i \in DOMAIN job' :
                                /\ i \in Nat /\ i + d \in DOMAIN job
                                /\ job'[i].what = job[i + d].what
                                /\ job'[i].version = job[i + d].version
                                /\ job'[i].logout = job[i + d].logout
  BY <1>8
<1>10. JobInv'
  <2>1. ASSUME NEW i \in DOMAIN job', NEW k \in DOMAIN job', job'[i].what = job'[k].what
        PROVE  i = k
    <3>1. i + d = k + d
      BY <1>9, <2>1 DEF JobInv
    <3> QED  BY <3>1, <1>9
  <2>2. ASSUME NEW i \in DOMAIN job'
        PROVE  /\ job'[i].logout => job'[i].what \in Players
               /\ job'[i].what \in Objects => /\ job'[i].version \in Versions
                                              /\ mem'[job'[i].what] \in {0, job'[i].version}
    BY <1>4, <1>9 DEF JobInv
  <2> QED  BY <2>1, <2>2 DEF JobInv
<1>11. \A i \in DOMAIN job' : \E k \in DOMAIN job :
               /\ job'[i].what = job[k].what /\ job'[i].version = job[k].version
               /\ ok => k # 1
  <2> TAKE i \in DOMAIN job'
  <2>1. i \in Nat /\ i >= 1
    BY <1>8
  <2>2. ok => i + d # 1
    BY <1>9, <2>1
  <2> QED  BY <1>9, <2>2
<1> QED  BY <1>4, <1>5, <1>6, <1>7, <1>8, <1>10, <1>11

\* A save that ends, well or badly, leaves no transaction behind; of its own
\* rows it has changed none, or all, or it is known to be torn.
LEMMA SaveEnds ==
  ASSUME PersistenceAssumption, SavesInv, job # <<>>, NEW ok \in BOOLEAN, NextSave(ok),
         view' = disk', open' = FALSE, lock' = "free",
         disk' \in [Rows -> Contents],
         \A o \in Objects : \A r \in RowsOf(o) : disk'[r] # 0,
         \A o \in Objects : o # First.what => \A r \in RowsOf(o) : disk'[r] = disk[r],
         ~half /\ First.what \in Objects =>
            \/ \A r \in RowsOf(First.what) : disk'[r] = First.version
            \/ ~ok /\ \A r \in RowsOf(First.what) : disk'[r] = disk[r]
  PROVE  SavesInv'
<1> USE DEF SavesInv
<1>1. /\ mem' \in [Objects -> 0 .. MaxVersion] /\ acked' \in [Objects -> 0 .. MaxVersion]
      /\ job' \in Seq(Saves) /\ MemInv' /\ JobInv'
      /\ \A o \in Objects : mem'[o] \in {0, mem[o]} /\ (o # First.what => mem'[o] = mem[o])
      /\ \A o \in Objects : acked'[o] = IF ok /\ o = First.what THEN First.version ELSE acked[o]
      /\ \A i \in DOMAIN job' : \E k \in DOMAIN job :
            /\ job'[i].what = job[k].what /\ job'[i].version = job[k].version
            /\ ok => k # 1
  BY NextSaveKeeps
<1>2. /\ step' = "idle" /\ todo' = <<>> /\ half' = FALSE /\ storage' = storage /\ clean' = clean
      /\ torn' = IF half THEN torn \cup {First.what}
                 ELSE IF ok THEN torn \ {First.what} ELSE torn
  BY DEF NextSave
<1>3. TypesInv'
  <2>1. DOMAIN storage' \subseteq Accounts /\ storage' \in [DOMAIN storage' -> 0 .. MaxVersion]
    BY <1>2 DEF TypesInv
  <2>2. todo' \in Seq(Stmts)
    BY <1>2
  <2>3. step' \in {"idle", "begun", "run"} /\ half' \in BOOLEAN /\ open' \in BOOLEAN
        /\ lock' \in {"free", "dispatcher"}
    BY <1>2
  <2>4. view' \in [Rows -> Contents]
    OBVIOUS
  <2> QED  BY <1>1, <2>1, <2>2, <2>3, <2>4 DEF TypesInv
<1>4. StepInv'
  BY <1>2 DEF StepInv
<1>5. RowInv'
  BY <1>2 DEF RowInv
<1>6. ObjectRows'
  BY DEF ObjectRows
<1>7. /\ 1 \in DOMAIN job /\ First = job[1]
      /\ First.what \in Objects => First.version \in Versions
                                  /\ mem[First.what] \in {0, First.version}
      /\ \A k \in DOMAIN job : job[k].what = First.what => k = 1
  <2>1. 1 \in DOMAIN job /\ First = job[1]
    BY DEF TypesInv, First
  <2> QED  BY <2>1 DEF JobInv
<1>8. WholeInv'
  <2> SUFFICES ASSUME NEW o \in Objects, ~Disturbed(o)'
               PROVE  \E v \in Versions : WholeAt(o, v)'
    BY DEF WholeInv
  <2>1. o \notin torn' /\ ~half'
    BY <1>2 DEF Disturbed
  <2>2. CASE o # First.what
    <3>1. o \notin torn
      BY <1>2, <2>1, <2>2
    <3>2. PICK v \in Versions : WholeAt(o, v)
      BY <2>2, <3>1 DEF WholeInv, Disturbed
    <3>3. mem'[o] = mem[o] /\ acked'[o] = acked[o]
      BY <1>1, <2>2
    <3>4. \A i \in DOMAIN job' : job'[i].what = o => v <= job'[i].version
      BY <1>1, <3>2 DEF WholeAt
    <3>5. \A r \in RowsOf(o) : disk'[r] = v
      BY <2>2, <3>2 DEF WholeAt
    <3>6. WholeAt(o, v)'
      BY <3>2, <3>3, <3>4, <3>5 DEF WholeAt
    <3> QED  BY <3>6
  <2>3. CASE o = First.what /\ ok
    <3> PICK v : v = First.version
      OBVIOUS
    <3>1. ~half
      BY <1>2, <2>1, <2>3
    <3>2. v \in Versions /\ mem[o] \in {0, v}
      BY <1>7, <2>3
    <3>3. mem'[o] \in {0, v} /\ acked'[o] = v
      BY <1>1, <2>3, <3>2
    <3>4. \A i \in DOMAIN job' : job'[i].what # o
      BY <1>1, <1>7, <2>3
    <3>5. \A r \in RowsOf(o) : disk'[r] = v
      BY <2>3, <3>1
    <3>6. WholeAt(o, v)'
      <4>1. acked'[o] <= v /\ (mem'[o] > 0 => v <= mem'[o])
        BY <3>2, <3>3 DEF Versions
      <4> QED  BY <3>4, <3>5, <4>1 DEF WholeAt
    <3> QED  BY <3>2, <3>6
  <2>4. CASE o = First.what /\ ~ok
    <3>1. ~half /\ o \notin torn
      BY <1>2, <2>1, <2>4
    <3>2. PICK v \in Versions : WholeAt(o, v)
      BY <3>1 DEF WholeInv, Disturbed
    <3>3. acked'[o] = acked[o] /\ mem'[o] \in {0, mem[o]}
      BY <1>1, <2>4
    <3>4. \A i \in DOMAIN job' : job'[i].what = o => job'[i].version = First.version
      BY <1>1, <1>7, <2>4
    <3>5. First.version \in Versions /\ mem[o] \in {0, First.version} /\ v <= First.version
      BY <1>7, <2>4, <3>2 DEF WholeAt
    <3>6. CASE \A r \in RowsOf(o) : disk'[r] = disk[r]
      <4>1. acked'[o] <= v /\ (mem'[o] > 0 => v <= mem'[o])
        BY <3>2, <3>3 DEF WholeAt, Versions
      <4>2. WholeAt(o, v)'
        BY <3>2, <3>4, <3>5, <3>6, <4>1 DEF WholeAt
      <4> QED  BY <4>2
    <3>7. CASE \A r \in RowsOf(o) : disk'[r] = First.version
      <4> PICK w : w = First.version
        OBVIOUS
      <4>1. acked[o] \in Nat /\ v \in Nat /\ w \in Nat /\ acked[o] <= v
        BY <3>2, <3>5 DEF WholeAt, TypesInv, Versions
      <4>2. acked'[o] <= w /\ (mem'[o] > 0 => w <= mem'[o])
        BY <3>3, <3>5, <4>1
      <4>3. w <= w
        BY <4>1
      <4>4. WholeAt(o, w)'
        BY <3>4, <3>7, <4>2, <4>3 DEF WholeAt
      <4> QED  BY <3>5, <4>4
    <3> QED  BY <2>4, <3>1, <3>6, <3>7
  <2> QED  BY <2>2, <2>3, <2>4
<1> QED  BY <1>1, <1>3, <1>4, <1>5, <1>6, <1>8

\* A statement in the tables: they keep their types, and rows it does not
\* write keep what they hold.
LEMMA WrittenTables ==
  ASSUME PersistenceAssumption, NEW stmt \in Stmts, NEW table \in [Rows -> Contents]
  PROVE  /\ WrittenTo(stmt, table) \in [Rows -> Contents]
         /\ \A r \in Rows : WrittenTo(stmt, table)[r] = IF r \in DOMAIN stmt THEN stmt[r] ELSE table[r]
<1>1. PICK R \in SUBSET Rows : stmt \in [R -> Contents]
  BY DEF Stmts
<1> QED  BY <1>1 DEF WrittenTo

\* The connection's steps.
LEMMA BeginKeeps ==
  ASSUME PersistenceAssumption, SavesInv, Begin
  PROVE  SavesInv'
<1> USE DEF SavesInv
<1>1. /\ open' = TRUE /\ view' = disk /\ step' = "begun" /\ todo' \in Statements(First)
      /\ mem' = mem /\ storage' = storage /\ disk' = disk /\ lock' = lock /\ job' = job
      /\ half' = half /\ torn' = torn /\ acked' = acked /\ clean' = clean
      /\ step = "idle" /\ job # <<>> /\ lock = "free" /\ ~half
  BY DEF Begin, StepInv
<1>2. First \in Saves /\ (First.what \in Objects => First.version \in Versions) /\ First' = First
  BY <1>1 DEF TypesInv, JobInv, First
<1>3. /\ todo' \in Seq(Stmts)
      /\ \A k \in 1 .. Len(todo') : StatementOK(todo'[k], Mine(First))
      /\ First.what \in Objects =>
           /\ \A k \in 1 .. Len(todo') : \A r \in DOMAIN todo'[k] :
                todo'[k][r] = First.version \/ WrittenBy(r, todo', k + 1)
           /\ \A r \in RowsOf(First.what) : WrittenBy(r, todo', 1)
  BY <1>1, <1>2, StatementsOK
<1>4. TypesInv'
  <2>1. view' \in [Rows -> Contents] /\ disk' \in [Rows -> Contents] /\ open' \in BOOLEAN
        /\ step' \in {"idle", "begun", "run"}
    BY <1>1 DEF TypesInv
  <2> QED  BY <1>1, <1>3, <2>1 DEF TypesInv
<1>5. MemInv' /\ JobInv' /\ StepInv' /\ ObjectRows'
  BY <1>1 DEF MemInv, JobInv, StepInv, ObjectRows
<1>6. RowInv'
  <2>1. First.what \in Objects => Completes(todo', Mine(First), First.version, view')
    BY <1>3 DEF Completes, Mine
  <2>2. \A r \in Rows \ Mine(First) : view'[r] = disk'[r]
    BY <1>1
  <2> QED  BY <1>2, <1>3, <2>1, <2>2 DEF RowInv
<1>7. WholeInv'
  BY <1>1, <1>2 DEF WholeInv, WholeAt, Disturbed
<1> QED  BY <1>4, <1>5, <1>6, <1>7

LEMMA LockKeeps ==
  ASSUME PersistenceAssumption, SavesInv, Lock
  PROVE  SavesInv'
<1> USE DEF SavesInv
<1>1. /\ step = "begun" /\ lock = "free" /\ lock' = "dispatcher" /\ step' = "run"
      /\ open' = open /\ view' = view /\ todo' = todo
      /\ mem' = mem /\ storage' = storage /\ disk' = disk /\ job' = job
      /\ half' = half /\ torn' = torn /\ acked' = acked /\ clean' = clean
  BY DEF Lock
<1>2. First' = First
  BY <1>1 DEF First
<1>3. TypesInv'
  BY <1>1 DEF TypesInv
<1>4. MemInv' /\ JobInv' /\ StepInv' /\ ObjectRows'
  BY <1>1 DEF MemInv, JobInv, StepInv, ObjectRows
<1>5. RowInv'
  BY <1>1, <1>2 DEF RowInv
<1>6. WholeInv'
  BY <1>1, <1>2 DEF WholeInv, WholeAt, Disturbed
<1> QED  BY <1>3, <1>4, <1>5, <1>6

LEMMA RunStatementKeeps ==
  ASSUME PersistenceAssumption, SavesInv, RunStatement
  PROVE  SavesInv'
<1> USE DEF SavesInv
<1> DEFINE stmt == Head(todo)
<1>1. /\ step = "run" /\ todo # <<>> /\ todo' = Tail(todo)
      /\ view' = WrittenTo(stmt, view)
      /\ disk' = IF open THEN disk ELSE WrittenTo(stmt, disk)
      /\ mem' = mem /\ storage' = storage /\ open' = open /\ lock' = lock /\ job' = job
      /\ step' = step /\ half' = half /\ torn' = torn /\ acked' = acked /\ clean' = clean
  BY DEF RunStatement, Execute
<1>2. /\ stmt \in Stmts /\ stmt = todo[1] /\ 1 \in 1 .. Len(todo)
      /\ todo' \in Seq(Stmts) /\ Len(todo') = Len(todo) - 1 /\ Len(todo) \in Nat
      /\ \A k \in 1 .. Len(todo') : k + 1 \in 1 .. Len(todo) /\ todo'[k] = todo[k + 1]
  <2>1. todo \in Seq(Stmts) /\ todo # <<>>
    BY <1>1 DEF TypesInv
  <2> QED  BY <1>1, <2>1
<1> HIDE DEF stmt
<1>3. First' = First /\ First \in Saves /\ job # <<>>
  BY <1>1 DEF First, TypesInv, StepInv
<1>4. StatementOK(stmt, Mine(First))
  BY <1>1, <1>2 DEF RowInv
<1>5. /\ view' \in [Rows -> Contents] /\ disk' \in [Rows -> Contents]
      /\ \A r \in Rows : view'[r] = IF r \in DOMAIN stmt THEN stmt[r] ELSE view[r]
      /\ \A r \in Rows : disk'[r] = IF r \in DOMAIN stmt /\ ~open THEN stmt[r] ELSE disk[r]
  <2>1. view \in [Rows -> Contents] /\ disk \in [Rows -> Contents] /\ open \in BOOLEAN
    BY DEF TypesInv
  <2>2. /\ WrittenTo(stmt, view) \in [Rows -> Contents]
        /\ \A r \in Rows : WrittenTo(stmt, view)[r] = IF r \in DOMAIN stmt THEN stmt[r] ELSE view[r]
    BY <1>2, <2>1, WrittenTables
  <2>3. /\ WrittenTo(stmt, disk) \in [Rows -> Contents]
        /\ \A r \in Rows : WrittenTo(stmt, disk)[r] = IF r \in DOMAIN stmt THEN stmt[r] ELSE disk[r]
    BY <1>2, <2>1, WrittenTables
  <2> QED  BY <1>1, <2>1, <2>2, <2>3
<1>6. TypesInv'
  <2>1. open' \in BOOLEAN /\ lock' \in {"free", "dispatcher"}
        /\ step' \in {"idle", "begun", "run"} /\ half' \in BOOLEAN
    BY <1>1 DEF TypesInv
  <2> QED  BY <1>1, <1>2, <1>5, <2>1 DEF TypesInv
<1>7. MemInv' /\ JobInv'
  BY <1>1 DEF MemInv, JobInv
<1>8. StepInv'
  <2>1. ~open => view' = disk'
    BY <1>1 DEF StepInv
  <2> QED  BY <1>1, <2>1 DEF StepInv
<1>9. ObjectRows'
  <2> SUFFICES ASSUME NEW o \in Objects, NEW r \in RowsOf(o)
               PROVE  disk'[r] # 0 /\ view'[r] # 0
    BY DEF ObjectRows
  <2>1. r \in Rows /\ r \notin AccountRows
    BY RowFacts
  <2>2. r \in DOMAIN stmt => stmt[r] # 0
    BY <1>4, <2>1 DEF StatementOK
  <2> QED  BY <1>5, <2>1, <2>2 DEF ObjectRows
<1>10. RowInv'
  <2>1. \A k \in 1 .. Len(todo') : StatementOK(todo'[k], Mine(First))
    BY <1>1, <1>2 DEF RowInv
  <2>2. ASSUME NEW r \in Rows \ Mine(First)
        PROVE  view'[r] = disk'[r]
    <3>1. r \notin DOMAIN stmt
      BY <1>4 DEF StatementOK
    <3>2. view[r] = disk[r]
      BY <1>1 DEF RowInv
    <3> QED  BY <1>5, <3>1, <3>2
  <2>3. ASSUME ~half, First.what \in Objects
        PROVE  Completes(todo', Mine(First), First.version, view')
    <3> DEFINE v == First.version
    <3>1. Completes(todo, Mine(First), v, view)
      BY <1>1, <2>3 DEF RowInv
    <3>3. ASSUME NEW k \in 1 .. Len(todo'), NEW r \in DOMAIN todo'[k], todo'[k][r] # v
          PROVE  WrittenBy(r, todo', k + 1)
      <4>1. k + 1 \in 1 .. Len(todo) /\ todo'[k] = todo[k + 1] /\ k \in Nat
        BY <1>2
      <4>2. WrittenBy(r, todo, (k + 1) + 1)
        BY <3>1, <3>3, <4>1 DEF Completes
      <4>3. PICK m \in (k + 1) + 1 .. Len(todo) : r \in DOMAIN todo[m]
        BY <4>2 DEF WrittenBy
      <4>4. m - 1 \in k + 1 .. Len(todo') /\ (m - 1) + 1 = m /\ m - 1 \in 1 .. Len(todo')
        BY <1>2, <4>1, <4>3
      <4>5. todo'[m - 1] = todo[m]
        BY <1>2, <4>4
      <4> QED  BY <4>3, <4>4, <4>5 DEF WrittenBy
    <3>4. ASSUME NEW r, WrittenBy(r, todo, 2)
          PROVE  WrittenBy(r, todo', 1)
      <4>1. PICK m \in 2 .. Len(todo) : r \in DOMAIN todo[m]
        BY <3>4 DEF WrittenBy
      <4>2. m - 1 \in 1 .. Len(todo') /\ (m - 1) + 1 = m
        BY <1>2, <4>1
      <4>3. todo'[m - 1] = todo[m]
        BY <1>2, <4>2
      <4> QED  BY <4>1, <4>2, <4>3 DEF WrittenBy
    <3>5. ASSUME NEW r \in Mine(First), view'[r] # v
          PROVE  WrittenBy(r, todo', 1)
      <4>1. r \in Rows
        BY RowFacts DEF Mine
      <4>2. CASE r \in DOMAIN stmt
        <5>1. stmt[r] # v
          BY <1>5, <3>5, <4>1, <4>2
        <5>2. WrittenBy(r, todo, 1 + 1)
          BY <1>2, <3>1, <4>2, <5>1 DEF Completes
        <5> QED  BY <3>4, <5>2
      <4>3. CASE r \notin DOMAIN stmt
        <5>1. view[r] # v
          BY <1>5, <3>5, <4>1, <4>3
        <5>2. WrittenBy(r, todo, 1)
          BY <3>1, <5>1 DEF Completes
        <5>3. PICK m \in 1 .. Len(todo) : r \in DOMAIN todo[m]
          BY <5>2 DEF WrittenBy
        <5>4. m # 1
          BY <1>2, <4>3, <5>3
        <5>5. WrittenBy(r, todo, 2)
          BY <1>2, <5>3, <5>4 DEF WrittenBy
        <5> QED  BY <3>4, <5>5
      <4> QED  BY <4>2, <4>3
    <3> QED  BY <3>3, <3>5 DEF Completes
  <2> QED  BY <1>1, <1>3, <2>1, <2>2, <2>3 DEF RowInv
<1>11. WholeInv'
  <2> SUFFICES ASSUME NEW o \in Objects, ~Disturbed(o)'
               PROVE  \E v \in Versions : WholeAt(o, v)'
    BY DEF WholeInv
  <2>1. ~Disturbed(o) /\ (o # First.what \/ ~half)
    BY <1>1, <1>3 DEF Disturbed
  <2>2. PICK v \in Versions : WholeAt(o, v)
    BY <2>1 DEF WholeInv
  <2>3. ASSUME NEW r \in RowsOf(o)
        PROVE  disk'[r] = disk[r]
    <3>1. r \in Rows
      BY RowFacts
    <3>2. CASE o # First.what
      <4>1. r \notin Mine(First)
        BY <3>2, RowFacts DEF Mine
      <4>2. r \notin DOMAIN stmt
        BY <1>4, <4>1 DEF StatementOK
      <4> QED  BY <1>5, <3>1, <4>2
    <3>3. CASE ~half
      <4>1. open
        BY <1>1, <3>3 DEF StepInv
      <4> QED  BY <1>1, <4>1
    <3> QED  BY <2>1, <3>2, <3>3
  <2>4. WholeAt(o, v)'
    BY <1>1, <2>2, <2>3 DEF WholeAt
  <2> QED  BY <2>4
<1> QED  BY <1>6, <1>7, <1>8, <1>9, <1>10, <1>11

LEMMA BeginFailsKeeps ==
  ASSUME PersistenceAssumption, SavesInv, BeginFails
  PROVE  SavesInv'
<1> USE DEF SavesInv
<1>1. /\ step = "idle" /\ job # <<>> /\ lock = "free" /\ NextSave(FALSE)
      /\ view' = view /\ disk' = disk /\ open' = open /\ lock' = lock
  BY DEF BeginFails, dbVars
<1>2. view' = disk' /\ open' = FALSE /\ lock' = "free"
  BY <1>1 DEF StepInv, TypesInv
<1>3. disk' \in [Rows -> Contents]
  BY <1>1 DEF TypesInv
<1>4. \A o \in Objects : \A r \in RowsOf(o) : disk'[r] # 0
  BY <1>1 DEF ObjectRows
<1> QED  BY <1>1, <1>2, <1>3, <1>4, SaveEnds

LEMMA StatementFailsKeeps ==
  ASSUME PersistenceAssumption, SavesInv, StatementFails
  PROVE  SavesInv'
<1> USE DEF SavesInv
<1>1. step = "run" /\ todo # <<>> /\ job # <<>>
  BY DEF StatementFails, StepInv
<1>2. CASE NextSave(FALSE) /\ Rollback
  <2>1. disk' = disk /\ view' = disk' /\ open' = FALSE /\ lock' = "free"
    BY <1>2 DEF Rollback, RolledBack
  <2>2. disk' \in [Rows -> Contents]
    BY <2>1 DEF TypesInv
  <2>3. \A o \in Objects : \A r \in RowsOf(o) : disk'[r] # 0
    BY <2>1 DEF ObjectRows
  <2> QED  BY <1>1, <1>2, <2>1, <2>2, <2>3, SaveEnds
<1>3. CASE /\ todo' = Tail(todo) /\ half' = TRUE
           /\ UNCHANGED <<mem, storage, job, step, torn, acked, clean, disk, view, open, lock>>
  <2>1. /\ todo' \in Seq(Stmts) /\ Len(todo') = Len(todo) - 1
        /\ \A k \in 1 .. Len(todo') : k + 1 \in 1 .. Len(todo) /\ todo'[k] = todo[k + 1]
    <3>1. todo \in Seq(Stmts) /\ todo # <<>>
      BY <1>1 DEF TypesInv
    <3> QED  BY <1>3, <3>1
  <2>2. First' = First
    BY <1>3 DEF First
  <2>3. TypesInv'
    BY <1>3, <2>1 DEF TypesInv
  <2>4. MemInv' /\ JobInv' /\ StepInv' /\ ObjectRows'
    BY <1>1, <1>3 DEF MemInv, JobInv, StepInv, ObjectRows
  <2>5. RowInv'
    <3>1. \A k \in 1 .. Len(todo') : StatementOK(todo'[k], Mine(First))
      BY <1>1, <2>1 DEF RowInv
    <3> QED  BY <1>1, <1>3, <2>2, <3>1 DEF RowInv
  <2>6. WholeInv'
    BY <1>3, <2>2 DEF WholeInv, WholeAt, Disturbed
  <2> QED  BY <2>3, <2>4, <2>5, <2>6
<1> QED  BY <1>2, <1>3 DEF StatementFails

LEMMA ConnectionLostKeeps ==
  ASSUME PersistenceAssumption, SavesInv, ConnectionLost
  PROVE  SavesInv'
<1> USE DEF SavesInv
<1>1. /\ step \in {"begun", "run"} /\ open' = FALSE /\ view' = disk /\ half' = TRUE
      /\ mem' = mem /\ storage' = storage /\ disk' = disk /\ lock' = lock /\ job' = job
      /\ step' = step /\ todo' = todo /\ torn' = torn /\ acked' = acked /\ clean' = clean
  BY DEF ConnectionLost
<1>2. First' = First
  BY <1>1 DEF First
<1>3. TypesInv'
  BY <1>1 DEF TypesInv
<1>4. MemInv' /\ JobInv' /\ StepInv' /\ ObjectRows'
  BY <1>1 DEF MemInv, JobInv, StepInv, ObjectRows
<1>5. RowInv'
  BY <1>1, <1>2 DEF RowInv
<1>6. WholeInv'
  BY <1>1, <1>2 DEF WholeInv, WholeAt, Disturbed
<1> QED  BY <1>3, <1>4, <1>5, <1>6

\* Once every statement of an undisturbed save has run, what the connection
\* sees of the object is the version it saves.
LEMMA AllIsWritten ==
  ASSUME PersistenceAssumption, SavesInv, step = "run", todo = <<>>
  PROVE  /\ \A o \in Objects : o # First.what => \A r \in RowsOf(o) : view[r] = disk[r]
         /\ ~half /\ First.what \in Objects =>
              \A r \in RowsOf(First.what) : view[r] = First.version
<1> USE DEF SavesInv
<1>1. ASSUME NEW o \in Objects, o # First.what, NEW r \in RowsOf(o)
      PROVE  view[r] = disk[r]
  <2>1. r \in Rows \ Mine(First)
    BY <1>1, RowFacts DEF Mine
  <2> QED  BY <2>1 DEF RowInv
<1>2. ASSUME ~half, First.what \in Objects, NEW r \in RowsOf(First.what)
      PROVE  view[r] = First.version
  <2>1. Completes(todo, Mine(First), First.version, view)
    BY <1>2 DEF RowInv
  <2>2. ~WrittenBy(r, todo, 1)
    BY DEF WrittenBy
  <2> QED  BY <1>2, <2>1, <2>2 DEF Completes, Mine
<1> QED  BY <1>1, <1>2

LEMMA CommitKeeps ==
  ASSUME PersistenceAssumption, SavesInv, Commit
  PROVE  SavesInv'
<1> USE DEF SavesInv
<1>1. /\ step = "run" /\ todo = <<>> /\ disk' = view /\ view' = view
      /\ open' = FALSE /\ lock' = "free" /\ NextSave(TRUE) /\ job # <<>>
  BY DEF Commit, StepInv
<1>2. disk' \in [Rows -> Contents]
  BY <1>1 DEF TypesInv
<1>3. \A o \in Objects : \A r \in RowsOf(o) : disk'[r] # 0
  BY <1>1 DEF ObjectRows
<1>4. /\ \A o \in Objects : o # First.what => \A r \in RowsOf(o) : disk'[r] = disk[r]
      /\ ~half /\ First.what \in Objects =>
            \A r \in RowsOf(First.what) : disk'[r] = First.version
  BY <1>1, AllIsWritten
<1> QED  BY <1>1, <1>2, <1>3, <1>4, SaveEnds

LEMMA CommitFailsKeeps ==
  ASSUME PersistenceAssumption, SavesInv, CommitFails
  PROVE  SavesInv'
<1> USE DEF SavesInv
<1>1. /\ step = "run" /\ todo = <<>> /\ disk' \in {disk, view} /\ view' = disk'
      /\ open' = FALSE /\ lock' = "free" /\ NextSave(FALSE) /\ job # <<>>
  BY DEF CommitFails, StepInv
<1>2. disk' \in [Rows -> Contents]
  BY <1>1 DEF TypesInv
<1>3. \A o \in Objects : \A r \in RowsOf(o) : disk'[r] # 0
  BY <1>1 DEF ObjectRows
<1>4. \A o \in Objects : o # First.what => \A r \in RowsOf(o) : disk'[r] = disk[r]
  BY <1>1, AllIsWritten
<1>5. ~half /\ First.what \in Objects =>
         \/ \A r \in RowsOf(First.what) : disk'[r] = First.version
         \/ \A r \in RowsOf(First.what) : disk'[r] = disk[r]
  BY <1>1, AllIsWritten
<1> QED  BY <1>1, <1>2, <1>3, <1>4, <1>5, SaveEnds

\* What is loaded is a version, and that of the rows if they agree.
LEMMA Loads ==
  ASSUME PersistenceAssumption, SavesInv, NEW o \in Objects
  PROVE  /\ Load(o) \in Versions
         /\ \A v \in Versions : (\A r \in RowsOf(o) : disk[r] = v) => Load(o) = v
<1> DEFINE r == <<o, MainTable(o)>>
<1>1. r \in RowsOf(o) /\ r \in Rows
  BY RowFacts
<1>2. disk[r] \in Contents /\ disk[r] # 0
  BY <1>1 DEF SavesInv, TypesInv, ObjectRows
<1>3. Load(o) = IF disk[r] = Gone THEN 1 ELSE disk[r]
  BY DEF Load
<1> HIDE DEF r
<1>4. Load(o) \in Versions
  BY <1>2, <1>3 DEF Contents, Versions, Gone, PersistenceAssumption
<1>5. ASSUME NEW v \in Versions, \A q \in RowsOf(o) : disk[q] = v
      PROVE  Load(o) = v
  <2>1. disk[r] = v /\ v # Gone
    BY <1>1, <1>5 DEF Versions, Gone, PersistenceAssumption
  <2> QED  BY <1>3, <2>1
<1> QED  BY <1>4, <1>5

\* Memory changes only between two tasks, and never falls behind the disk.
LEMMA MemoryKeeps ==
  ASSUME PersistenceAssumption, SavesInv, Ready, NEW o \in Objects, NEW n \in Versions,
         mem' = [mem EXCEPT ![o] = n],
         \A v \in Versions : WholeAt(o, v) => v <= n,
         UNCHANGED <<storage, disk, view, open, lock, job, step, todo, half, torn, acked, clean>>
  PROVE  SavesInv'
<1> USE DEF SavesInv
<1>1. /\ mem' \in [Objects -> 0 .. MaxVersion] /\ mem'[o] = n
      /\ \A q \in Objects : q # o => mem'[q] = mem[q]
  <2>1. n \in 0 .. MaxVersion
    BY DEF Versions
  <2> QED  BY <2>1 DEF TypesInv
<1>2. First' = First /\ job = <<>> /\ DOMAIN job = {}
  BY DEF First, Ready
<1>3. TypesInv'
  BY <1>1 DEF TypesInv
<1>4. MemInv'
  <2> SUFFICES ASSUME NEW h \in Houses PROVE mem'[h] > 0
    BY DEF MemInv
  <2>1. h \in Objects /\ mem[h] > 0
    BY RowFacts DEF MemInv
  <2> QED  BY <1>1, <2>1 DEF Versions
<1>5. JobInv'
  BY <1>2 DEF JobInv
<1>6. StepInv' /\ ObjectRows' /\ RowInv'
  BY <1>2 DEF StepInv, ObjectRows, RowInv
<1>7. WholeInv'
  <2> SUFFICES ASSUME NEW q \in Objects, ~Disturbed(q)'
               PROVE  \E v \in Versions : WholeAt(q, v)'
    BY DEF WholeInv
  <2>1. ~Disturbed(q)
    BY <1>2 DEF Disturbed
  <2>2. PICK v \in Versions : WholeAt(q, v)
    BY <2>1 DEF WholeInv
  <2>3. mem'[q] > 0 => v <= mem'[q]
    BY <1>1, <2>2 DEF WholeAt
  <2>4. WholeAt(q, v)'
    BY <2>2, <2>3 DEF WholeAt
  <2> QED  BY <2>4
<1> QED  BY <1>3, <1>4, <1>5, <1>6, <1>7

LEMMA LoginKeeps ==
  ASSUME PersistenceAssumption, SavesInv, NEW p \in Players, Login(p)
  PROVE  SavesInv'
<1>1. p \in Objects
  BY RowFacts
<1>2. /\ Load(p) \in Versions
      /\ \A v \in Versions : (\A r \in RowsOf(p) : disk[r] = v) => Load(p) = v
  BY <1>1, Loads
<1>3. \A v \in Versions : WholeAt(p, v) => v <= Load(p)
  BY <1>2 DEF WholeAt, Versions
<1>4. /\ Ready /\ mem' = [mem EXCEPT ![p] = Load(p)]
      /\ UNCHANGED <<storage, disk, view, open, lock, job, step, todo, half, torn, acked, clean>>
  BY DEF Login
<1> QED  BY <1>1, <1>2, <1>3, <1>4, MemoryKeeps

LEMMA ChangeKeeps ==
  ASSUME PersistenceAssumption, SavesInv, NEW o \in Objects, Change(o)
  PROVE  SavesInv'
<1>1. /\ Ready /\ mem[o] \in 1 .. MaxVersion - 1 /\ mem' = [mem EXCEPT ![o] = mem[o] + 1]
      /\ UNCHANGED <<storage, disk, view, open, lock, job, step, todo, half, torn, acked, clean>>
  BY DEF Change
<1>2. mem[o] + 1 \in Versions
  BY <1>1 DEF Versions, PersistenceAssumption
<1>3. \A v \in Versions : WholeAt(o, v) => v <= mem[o] + 1
  BY <1>1 DEF WholeAt, Versions
<1> QED  BY <1>1, <1>2, <1>3, MemoryKeeps

LEMMA SetAccountStorageValueKeeps ==
  ASSUME PersistenceAssumption, SavesInv, NEW a \in Accounts, SetAccountStorageValue(a)
  PROVE  SavesInv'
<1> USE DEF SavesInv
<1>1. PICK v \in 0 .. MaxVersion :
         storage' = [b \in DOMAIN storage \cup {a} |-> IF b = a THEN v ELSE storage[b]]
  BY DEF SetAccountStorageValue
<1>2. UNCHANGED <<mem, disk, view, open, lock, job, step, todo, half, torn, acked, clean>>
  BY DEF SetAccountStorageValue
<1>3. DOMAIN storage' \subseteq Accounts /\ storage' \in [DOMAIN storage' -> 0 .. MaxVersion]
  BY <1>1 DEF TypesInv
<1>4. First' = First
  BY <1>2 DEF First
<1>5. TypesInv'
  BY <1>2, <1>3 DEF TypesInv
<1>6. MemInv' /\ JobInv' /\ StepInv' /\ ObjectRows' /\ RowInv' /\ WholeInv'
  BY <1>2, <1>4 DEF MemInv, JobInv, StepInv, ObjectRows, RowInv, WholeInv, WholeAt, Disturbed
<1> QED  BY <1>5, <1>6

\* What is asked of the dispatcher: each object once, at its version in memory
\* or, for an offline player, at one more than what is loaded.
LEMMA AskKeeps ==
  ASSUME PersistenceAssumption, SavesInv, NEW saves \in Seq(Saves), Ask(saves),
         \A i, k \in DOMAIN saves : saves[i].what = saves[k].what => i = k,
         \A i \in DOMAIN saves :
            /\ saves[i].logout => saves[i].what \in Players
            /\ saves[i].what \in Objects =>
                 /\ saves[i].version \in Versions
                 /\ \/ mem[saves[i].what] = saves[i].version
                    \/ mem[saves[i].what] = 0 /\ saves[i].version = Load(saves[i].what) + 1
  PROVE  SavesInv'
<1> USE DEF SavesInv
<1>1. /\ Ready /\ job' = saves
      /\ UNCHANGED <<mem, storage, disk, view, open, lock, step, todo, half, torn, acked, clean>>
  BY DEF Ask
<1>2. step' = "idle" /\ step = "idle" /\ ~half' /\ ~half
  BY <1>1 DEF Ready, StepInv
<1>3. TypesInv'
  BY <1>1 DEF TypesInv
<1>4. MemInv' /\ StepInv' /\ ObjectRows' /\ RowInv'
  BY <1>1, <1>2 DEF MemInv, StepInv, ObjectRows, RowInv
<1>5. JobInv'
  BY <1>1 DEF JobInv
<1>6. WholeInv'
  <2> SUFFICES ASSUME NEW o \in Objects, ~Disturbed(o)'
               PROVE  \E v \in Versions : WholeAt(o, v)'
    BY DEF WholeInv
  <2>1. ~Disturbed(o)
    BY <1>1, <1>2 DEF Disturbed
  <2>2. PICK v \in Versions : WholeAt(o, v)
    BY <2>1 DEF WholeInv
  <2>3. ASSUME NEW i \in DOMAIN saves, saves[i].what = o
        PROVE  v <= saves[i].version
    <3>1. CASE mem[o] = saves[i].version
      <4>1. mem[o] > 0
        BY <2>3, <3>1 DEF Versions
      <4> QED  BY <2>2, <3>1, <4>1 DEF WholeAt
    <3>2. CASE mem[o] = 0 /\ saves[i].version = Load(o) + 1
      <4>1. Load(o) = v
        BY <2>2, Loads DEF WholeAt
      <4> QED  BY <3>2, <4>1 DEF Versions
    <3> QED  BY <2>3, <3>1, <3>2
  <2>4. WholeAt(o, v)'
    BY <1>1, <2>2, <2>3 DEF WholeAt
  <2> QED  BY <2>4
<1> QED  BY <1>3, <1>4, <1>5, <1>6

LEMMA LogoutKeeps ==
  ASSUME PersistenceAssumption, SavesInv, NEW p \in Players, Logout(p)
  PROVE  SavesInv'
<1> DEFINE e == Save(p, mem[p], 3, TRUE)
           saves == <<e>>
<1>1. mem[p] > 0 /\ Ask(saves) /\ p \in Objects
  BY RowFacts DEF Logout
<1>2. mem[p] \in Versions /\ mem[p] \in 0 .. MaxVersion
  BY <1>1 DEF SavesInv, TypesInv, Versions
<1>3. e \in Saves /\ e.what = p /\ e.version = mem[p]
  BY <1>1, <1>2 DEF Save, Saves, What
<1> HIDE DEF e
<1>4. saves \in Seq(Saves) /\ DOMAIN saves = {1} /\ saves[1] = e
  BY <1>3
<1> HIDE DEF saves
<1> QED  BY <1>1, <1>2, <1>3, <1>4, AskKeeps

LEMMA SaveOfflineKeeps ==
  ASSUME PersistenceAssumption, SavesInv, NEW p \in Players, SaveOffline(p)
  PROVE  SavesInv'
<1> DEFINE e == Save(p, Load(p) + 1, 1, FALSE)
           saves == <<e>>
<1>1. mem[p] = 0 /\ Load(p) < MaxVersion /\ Ask(saves) /\ p \in Objects
  BY RowFacts DEF SaveOffline
<1>2. Load(p) + 1 \in Versions /\ Load(p) + 1 \in 0 .. MaxVersion
  BY <1>1, Loads DEF Versions, PersistenceAssumption
<1>3. e \in Saves /\ e.what = p /\ e.version = Load(p) + 1 /\ ~e.logout
  BY <1>1, <1>2 DEF Save, Saves, What
<1> HIDE DEF e
<1>4. saves \in Seq(Saves) /\ DOMAIN saves = {1} /\ saves[1] = e
  BY <1>3
<1> HIDE DEF saves
<1> QED  BY <1>1, <1>2, <1>3, <1>4, AskKeeps

LEMMA SaveGameStateKeeps ==
  ASSUME PersistenceAssumption, SavesInv, SaveGameState
  PROVE  SavesInv'
<1> DEFINE accounts == Save("account_storage", 0, 1, FALSE)
           player(i) == Save(Online[i], mem[Online[i]], 1, FALSE)
           players == [i \in DOMAIN Online |-> player(i)]
           info == Save("houseinfo", mem["houseinfo"], 3, FALSE)
           items == Save("houseitems", mem["houseitems"], 3, FALSE)
           n == Len(Online)
           online == {p \in Players : mem[p] > 0}
           saves == <<accounts>> \o players \o <<info, items>>
<1>1. Ask(saves)
  BY DEF SaveGameState
<1>2. /\ Online \in Seq(online) /\ n \in Nat /\ IsInjective(Online)
      /\ DOMAIN Online = 1 .. n
  <2>1. IsFiniteSet(online)
    BY FS_Subset DEF PersistenceAssumption
  <2>2. Online = SetToSeq(online)
    BY DEF Online
  <2> QED  BY <2>1, <2>2, SetToSeqType
<1>3. /\ \A i \in 1 .. n : Online[i] \in Players /\ mem[Online[i]] > 0
      /\ \A i, k \in 1 .. n : Online[i] = Online[k] => i = k
  BY <1>2 DEF IsInjective
<1>4. \A o \in Objects : mem[o] > 0 => mem[o] \in Versions /\ mem[o] \in 0 .. MaxVersion
  BY DEF SavesInv, TypesInv, Versions
<1>5. /\ accounts \in Saves /\ accounts.what = "account_storage" /\ ~accounts.logout
  BY DEF Save, Saves, What, PersistenceAssumption
<1>6. \A i \in 1 .. n : /\ player(i) \in Saves /\ player(i).what = Online[i]
                        /\ player(i).version = mem[Online[i]] /\ ~player(i).logout
                        /\ mem[Online[i]] \in Versions
  <2> TAKE i \in 1 .. n
  <2>1. Online[i] \in Players /\ Online[i] \in Objects /\ mem[Online[i]] \in Versions
        /\ mem[Online[i]] \in 0 .. MaxVersion
    BY <1>3, <1>4, RowFacts
  <2> QED  BY <2>1 DEF Save, Saves, What
<1>7. /\ info \in Saves /\ info.what = "houseinfo" /\ info.version = mem["houseinfo"]
      /\ ~info.logout /\ mem["houseinfo"] \in Versions
      /\ items \in Saves /\ items.what = "houseitems" /\ items.version = mem["houseitems"]
      /\ ~items.logout /\ mem["houseitems"] \in Versions
  <2>1. "houseinfo" \in Houses /\ "houseitems" \in Houses
    BY DEF Houses
  <2>2. /\ "houseinfo" \in Objects /\ mem["houseinfo"] > 0
        /\ "houseitems" \in Objects /\ mem["houseitems"] > 0
    BY <2>1, RowFacts DEF SavesInv, MemInv
  <2>3. /\ mem["houseinfo"] \in Versions /\ mem["houseinfo"] \in 0 .. MaxVersion
        /\ mem["houseitems"] \in Versions /\ mem["houseitems"] \in 0 .. MaxVersion
    BY <1>4, <2>2
  <2> QED  BY <2>2, <2>3 DEF Save, Saves, What
<1> HIDE DEF accounts, info, items, player
<1>8. players \in Seq(Saves) /\ Len(players) = n /\ \A i \in 1 .. n : players[i] = player(i)
  <2>1. players \in [1 .. n -> Saves]
    BY <1>2, <1>6
  <2> QED  BY <1>2, <2>1
<1> HIDE DEF players, n
<1>9. /\ saves \in Seq(Saves) /\ Len(saves) = n + 3 /\ saves[1] = accounts
      /\ \A i \in 2 .. n + 1 : saves[i] = players[i - 1]
      /\ saves[n + 2] = info /\ saves[n + 3] = items
  <2> DEFINE front == <<accounts>> \o players
  <2>1. <<accounts>> \in Seq(Saves) /\ Len(<<accounts>>) = 1 /\ <<accounts>>[1] = accounts
    BY <1>5
  <2>2. /\ front \in Seq(Saves) /\ Len(front) = n + 1 /\ front[1] = accounts
        /\ \A i \in 2 .. n + 1 : front[i] = players[i - 1]
    BY <1>2, <1>8, <2>1
  <2> HIDE DEF front
  <2>3. /\ <<info, items>> \in Seq(Saves) /\ Len(<<info, items>>) = 2
        /\ <<info, items>>[1] = info /\ <<info, items>>[2] = items
    BY <1>7
  <2>4. saves = front \o <<info, items>>
    BY DEF front
  <2> HIDE DEF saves
  <2>5. saves \in Seq(Saves) /\ Len(saves) = n + 3
    <3>1. saves \in Seq(Saves)
      BY <2>2, <2>3, <2>4
    <3>2. Len(saves) = (n + 1) + 2
      BY <2>2, <2>3, <2>4
    <3> QED  BY <1>2, <3>1, <3>2
  <2>6. \A i \in 1 .. n + 1 : saves[i] = front[i]
    BY <1>2, <2>2, <2>3, <2>4
  <2>7. saves[n + 2] = info /\ saves[n + 3] = items
    BY <1>2, <2>2, <2>3, <2>4
  <2> QED  BY <1>2, <2>2, <2>5, <2>6, <2>7
<1>10. DOMAIN saves = 1 .. n + 3
  BY <1>9
<1> HIDE DEF saves
<1>11. ASSUME NEW i \in DOMAIN saves
       PROVE  \/ i = 1 /\ saves[i].what = "account_storage" /\ ~saves[i].logout
              \/ /\ i \in 2 .. n + 1 /\ i - 1 \in 1 .. n /\ saves[i].what = Online[i - 1]
                 /\ saves[i].version = mem[Online[i - 1]] /\ ~saves[i].logout
                 /\ saves[i].version \in Versions
              \/ /\ i = n + 2 /\ saves[i].what = "houseinfo" /\ ~saves[i].logout
                 /\ saves[i].version = mem["houseinfo"] /\ saves[i].version \in Versions
              \/ /\ i = n + 3 /\ saves[i].what = "houseitems" /\ ~saves[i].logout
                 /\ saves[i].version = mem["houseitems"] /\ saves[i].version \in Versions
  <2>1. i = 1 \/ i \in 2 .. n + 1 \/ i = n + 2 \/ i = n + 3
    BY <1>2, <1>10
  <2>2. CASE i = 1
    BY <2>2, <1>5, <1>9
  <2>3. CASE i \in 2 .. n + 1
    <3>1. i - 1 \in 1 .. n
      BY <1>2, <2>3
    <3>2. saves[i] = player(i - 1)
      BY <1>8, <1>9, <2>3, <3>1
    <3> QED  BY <1>6, <2>3, <3>1, <3>2
  <2>4. CASE i = n + 2
    BY <2>4, <1>7, <1>9
  <2>5. CASE i = n + 3
    BY <2>5, <1>7, <1>9
  <2> QED  BY <2>1, <2>2, <2>3, <2>4, <2>5
<1>12. /\ "account_storage" \notin Objects /\ "houseinfo" \notin Players
       /\ "houseitems" \notin Players /\ Players \subseteq Objects
  BY RowFacts DEF Houses
<1>13. ASSUME NEW i \in DOMAIN saves, NEW k \in DOMAIN saves, saves[i].what = saves[k].what
       PROVE  i = k
  <2>1. saves[i].what = "account_storage" => i = 1
    BY <1>3, <1>11, <1>12
  <2>2. saves[k].what = "account_storage" => k = 1
    BY <1>3, <1>11, <1>12
  <2>3. saves[i].what = "houseinfo" => i = n + 2
    BY <1>3, <1>11, <1>12
  <2>4. saves[k].what = "houseinfo" => k = n + 2
    BY <1>3, <1>11, <1>12
  <2>5. saves[i].what = "houseitems" => i = n + 3
    BY <1>3, <1>11, <1>12
  <2>6. saves[k].what = "houseitems" => k = n + 3
    BY <1>3, <1>11, <1>12
  <2>7. CASE saves[i].what \in {"account_storage", "houseinfo", "houseitems"}
    BY <1>13, <2>1, <2>2, <2>3, <2>4, <2>5, <2>6, <2>7
  <2>8. CASE saves[i].what \notin {"account_storage", "houseinfo", "houseitems"}
    <3>1. i \in 2 .. n + 1 /\ i - 1 \in 1 .. n /\ saves[i].what = Online[i - 1]
      BY <1>11, <2>8
    <3>2. k \in 2 .. n + 1 /\ k - 1 \in 1 .. n /\ saves[k].what = Online[k - 1]
      BY <1>11, <1>13, <2>8
    <3>3. i - 1 = k - 1
      BY <1>3, <1>13, <3>1, <3>2
    <3> QED  BY <3>1, <3>2, <3>3
  <2> QED  BY <2>7, <2>8
<1>14. ASSUME NEW i \in DOMAIN saves
       PROVE  /\ ~saves[i].logout
              /\ saves[i].what \in Objects => /\ saves[i].version \in Versions
                                               /\ mem[saves[i].what] = saves[i].version
  BY <1>11, <1>12
<1> QED  BY <1>1, <1>9, <1>13, <1>14, AskKeeps

LEMMA IsIpBannedKeeps ==
  ASSUME PersistenceAssumption, SavesInv, IsIpBanned
  PROVE  SavesInv'
<1> USE DEF SavesInv
<1>1. /\ lock = "free" /\ clean' = (clean /\ view = disk)
      /\ UNCHANGED <<mem, storage, disk, view, open, lock, job, step, todo, half, torn, acked>>
  BY DEF IsIpBanned
<1>2. step = "idle" \/ step = "begun"
  BY <1>1 DEF TypesInv, StepInv
<1>3. view = disk
  BY <1>2 DEF StepInv
<1>4. clean'
  BY <1>1, <1>3 DEF StepInv
<1>5. First' = First
  BY <1>1 DEF First
<1>6. TypesInv'
  BY <1>1 DEF TypesInv
<1>7. StepInv'
  BY <1>1, <1>4 DEF StepInv
<1>8. MemInv' /\ JobInv' /\ ObjectRows' /\ RowInv' /\ WholeInv'
  BY <1>1, <1>5 DEF MemInv, JobInv, ObjectRows, RowInv, WholeInv, WholeAt, Disturbed
<1> QED  BY <1>6, <1>7, <1>8

LEMMA CrashKeeps ==
  ASSUME PersistenceAssumption, SavesInv, Crash
  PROVE  SavesInv'
<1> USE DEF SavesInv
<1> DEFINE kept == {a \in Accounts : disk[AccountRow(a)] # Gone}
<1>1. /\ view' = disk /\ open' = FALSE /\ lock' = "free" /\ disk' = disk
      /\ job' = <<>> /\ step' = "idle" /\ todo' = <<>> /\ half' = FALSE
      /\ mem' = [o \in Objects |-> IF o \in Players THEN 0 ELSE Load(o)]
      /\ storage' = [a \in kept |-> disk[AccountRow(a)]]
      /\ torn' = IF half THEN torn \cup {First.what} ELSE torn
      /\ acked' = acked /\ clean' = clean
  BY DEF Crash
<1>2. \A o \in Objects : Load(o) \in Versions
  BY Loads
<1>3. DOMAIN storage' \subseteq Accounts /\ storage' \in [DOMAIN storage' -> 0 .. MaxVersion]
  <2>1. \A a \in kept : disk[AccountRow(a)] \in 0 .. MaxVersion
    <3> TAKE a \in kept
    <3>1. AccountRow(a) \in Rows
      BY RowFacts DEF AccountRows
    <3>2. disk[AccountRow(a)] \in Contents /\ disk[AccountRow(a)] # Gone
      BY <3>1 DEF TypesInv
    <3> QED  BY <3>2 DEF Contents, Gone, PersistenceAssumption
  <2> QED  BY <1>1, <2>1
<1>4. mem' \in [Objects -> 0 .. MaxVersion]
  <2>1. 0 \in 0 .. MaxVersion /\ Versions \subseteq 0 .. MaxVersion
    BY DEF PersistenceAssumption, Versions
  <2> QED  BY <1>1, <1>2, <2>1
<1>5. TypesInv'
  <2>1. job' \in Seq(Saves) /\ todo' \in Seq(Stmts)
    BY <1>1
  <2>2. view' \in [Rows -> Contents] /\ disk' \in [Rows -> Contents]
        /\ acked' \in [Objects -> 0 .. MaxVersion]
    BY <1>1 DEF TypesInv
  <2>3. step' \in {"idle", "begun", "run"} /\ half' \in BOOLEAN /\ open' \in BOOLEAN
        /\ lock' \in {"free", "dispatcher"}
    BY <1>1
  <2> QED  BY <1>3, <1>4, <2>1, <2>2, <2>3 DEF TypesInv
<1>6. MemInv'
  BY <1>1, <1>2, RowFacts DEF MemInv, Versions
<1>7. JobInv' /\ StepInv' /\ RowInv' /\ ObjectRows'
  BY <1>1 DEF JobInv, StepInv, RowInv, ObjectRows
<1>8. WholeInv'
  <2> SUFFICES ASSUME NEW o \in Objects, ~Disturbed(o)'
               PROVE  \E v \in Versions : WholeAt(o, v)'
    BY DEF WholeInv
  <2>1. ~Disturbed(o)
    BY <1>1 DEF Disturbed
  <2>2. PICK v \in Versions : WholeAt(o, v)
    BY <2>1 DEF WholeInv
  <2>3. Load(o) = v
    BY <2>2, Loads DEF WholeAt
  <2>4. mem'[o] > 0 => v <= mem'[o]
    BY <1>1, <2>3 DEF Versions
  <2>5. WholeAt(o, v)'
    BY <1>1, <2>2, <2>4 DEF WholeAt
  <2> QED  BY <2>5
<1> QED  BY <1>5, <1>6, <1>7, <1>8

\* Steps of nobody, the beginning, and what the invariant says.
LEMMA SavesStutter ==
  ASSUME SavesInv, UNCHANGED persistenceVars
  PROVE  SavesInv'
<1>1. UNCHANGED <<mem, storage, disk, view, open, lock, job, step, todo, half, torn, acked, clean>>
  BY DEF persistenceVars
<1>2. First' = First
  BY <1>1 DEF First
<1>3. TypesInv'
  BY <1>1 DEF SavesInv, TypesInv
<1> QED  BY <1>1, <1>2, <1>3
        DEF SavesInv, MemInv, JobInv, StepInv, ObjectRows, RowInv, WholeInv, WholeAt, Disturbed

LEMMA SavesBegin ==
  ASSUME PersistenceAssumption, PersistenceInit
  PROVE  SavesInv
<1> USE DEF PersistenceInit
<1>1. 1 \in Contents /\ 1 \in 0 .. MaxVersion /\ 0 \in 0 .. MaxVersion /\ 1 \in Versions
  BY DEF Contents, Versions, Gone, PersistenceAssumption
<1>2. TypesInv
  <2>1. mem \in [Objects -> 0 .. MaxVersion] /\ acked \in [Objects -> 0 .. MaxVersion]
    BY <1>1
  <2>2. DOMAIN storage \subseteq Accounts /\ storage \in [DOMAIN storage -> 0 .. MaxVersion]
    BY <1>1
  <2>3. disk \in [Rows -> Contents] /\ view \in [Rows -> Contents]
    BY <1>1
  <2>4. job \in Seq(Saves) /\ todo \in Seq(Stmts)
    OBVIOUS
  <2> QED  BY <2>1, <2>2, <2>3, <2>4 DEF TypesInv
<1>3. MemInv
  BY RowFacts DEF MemInv
<1>4. JobInv /\ StepInv /\ RowInv
  BY DEF JobInv, StepInv, RowInv
<1>5. \A o \in Objects : \A r \in RowsOf(o) : disk[r] = 1 /\ view[r] = 1
  BY RowFacts
<1>6. ObjectRows
  BY <1>5 DEF ObjectRows
<1>7. WholeInv
  <2> SUFFICES ASSUME NEW o \in Objects PROVE WholeAt(o, 1)
    BY <1>1 DEF WholeInv
  <2> QED  BY <1>5 DEF WholeAt
<1> QED  BY <1>2, <1>3, <1>4, <1>6, <1>7 DEF SavesInv

LEMMA SavesAgree ==
  ASSUME PersistenceAssumption, SavesInv
  PROVE  PersistenceAgrees
<1> USE DEF SavesInv
<1>1. PersistenceTypeOK
  BY DEF TypesInv, StepInv, PersistenceTypeOK, Contents
<1>2. ASSUME NEW o \in Objects, ~Disturbed(o)
      PROVE  Whole(o) /\ \A r \in RowsOf(o) : disk[r] >= acked[o]
  <2>1. PICK v \in Versions : WholeAt(o, v)
    BY <1>2 DEF WholeInv
  <2>2. acked[o] \in Int /\ acked[o] <= v
    BY <2>1 DEF WholeAt, TypesInv
  <2> QED  BY <2>1, <2>2 DEF WholeAt, Whole, Versions
<1>3. ConnectionIsClean
  BY DEF ConnectionIsClean, Ready, StepInv, TypesInv
<1> QED  BY <1>1, <1>2, <1>3 DEF PersistenceAgrees, SavesAreAtomic, SavedIsKept

\* For any characters, accounts, tables, versions and number of faults:
\* whatever statement fails, wherever the connection is lost, the commit is
\* lost or the process dies, and whenever the network thread reads, the rows of
\* a player or of the houses are those of one save, a save that returned true
\* stays on disk, the network thread sees no uncommitted row and a task leaves
\* neither transaction nor lock behind; the one exception is an object whose
\* save was interrupted by a reconnection or an unnoticed failure.
THEOREM SavesStayAtomic ==
  ASSUME PersistenceAssumption
  PROVE  PersistenceSpec => []PersistenceAgrees
<1>1. PersistenceInit => SavesInv
  BY SavesBegin
<1>2. SavesInv /\ [PersistenceNext]_persistenceVars => SavesInv'
  <2> SUFFICES ASSUME SavesInv, [PersistenceNext]_persistenceVars PROVE SavesInv'
    OBVIOUS
  <2>1. CASE Begin
    BY <2>1, BeginKeeps
  <2>2. CASE BeginFails
    BY <2>2, BeginFailsKeeps
  <2>3. CASE Lock
    BY <2>3, LockKeeps
  <2>4. CASE RunStatement
    BY <2>4, RunStatementKeeps
  <2>5. CASE StatementFails
    BY <2>5, StatementFailsKeeps
  <2>6. CASE ConnectionLost
    BY <2>6, ConnectionLostKeeps
  <2>7. CASE Commit
    BY <2>7, CommitKeeps
  <2>8. CASE CommitFails
    BY <2>8, CommitFailsKeeps
  <2>9. ASSUME NEW p \in Players, Login(p) \/ Logout(p) \/ SaveOffline(p)
        PROVE  SavesInv'
    BY <2>9, LoginKeeps, LogoutKeeps, SaveOfflineKeeps
  <2>10. ASSUME NEW o \in Objects, Change(o)
         PROVE  SavesInv'
    BY <2>10, ChangeKeeps
  <2>11. ASSUME NEW a \in Accounts, SetAccountStorageValue(a)
         PROVE  SavesInv'
    BY <2>11, SetAccountStorageValueKeeps
  <2>12. CASE SaveGameState
    BY <2>12, SaveGameStateKeeps
  <2>13. CASE IsIpBanned
    BY <2>13, IsIpBannedKeeps
  <2>14. CASE Crash
    BY <2>14, CrashKeeps
  <2>15. CASE UNCHANGED persistenceVars
    BY <2>15, SavesStutter
  <2> QED  BY <2>1, <2>2, <2>3, <2>4, <2>5, <2>6, <2>7, <2>8, <2>9, <2>10, <2>11,
              <2>12, <2>13, <2>14, <2>15 DEF PersistenceNext
<1>3. SavesInv => PersistenceAgrees
  BY SavesAgree
<1> QED  BY <1>1, <1>2, <1>3, PTL DEF PersistenceSpec

=============================================================================
