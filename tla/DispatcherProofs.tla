-------------------------- MODULE DispatcherProofs --------------------------
(***************************************************************************)
(* Proofs about the dispatcher thread, for any set of threads and tasks,   *)
(* about the scripts its tasks run, for any objects and timer events, and  *)
(* about the NPCs these scripts speak for, for any NPCs and players.       *)
(***************************************************************************)
EXTENDS Dispatcher, ScriptEngine, Npcs, SequenceTheorems, FiniteSetTheorems, WellFoundedInduction, TLAPS

(* Where threadMain() holds no batch, and where it is inside one.          *)
BatchInv ==
  /\ pc \in {"check", "lock", "waiting", "woken", "exit"} => tmpTaskList = <<>>
  /\ pc = "exec" => tmpTaskList # <<>>

(* Nothing is pushed after the task of Game::shutdown(): the threadState   *)
(* it was pushed in already makes addTask() refuse.                        *)
ClosedInv ==
  \A i \in DOMAIN accepted :
     accepted[i] = GameShutdown => threadState # "RUNNING" /\ i = Len(accepted)

IInv == TypeOK /\ BatchInv /\ FifoDelivery /\ NoLostWakeup /\ ClosedInv

-----------------------------------------------------------------------------
(* A push_back goes to the end of the whole queue. *)
LEMMA PushBack ==
  ASSUME NEW b \in Seq(Tasks), NEW l \in Seq(Tasks), NEW t \in Tasks
  PROVE  Append(b \o l, t) = b \o Append(l, t)
<1>1. /\ b \o l \in Seq(Tasks) /\ Append(l, t) \in Seq(Tasks) /\ <<t>> \in Seq(Tasks)
  BY ConcatProperties, AppendProperties
<1>2. Append(b \o l, t) = (b \o l) \o <<t>>
  BY <1>1, AppendIsConcat
<1>3. Append(l, t) = l \o <<t>>
  BY AppendIsConcat
<1> QED BY <1>1, <1>2, <1>3, ConcatAssociative

(* Deleting the head of the batch deletes the head of the whole queue. *)
LEMMA PopFront ==
  ASSUME NEW S, NEW b \in Seq(S), NEW l \in Seq(S), b # <<>>
  PROVE  /\ b \o l # <<>>
         /\ Head(b \o l) = Head(b)
         /\ Tail(b \o l) = Tail(b) \o l
<1>0. Len(b) \in Nat /\ Len(b) # 0 /\ Len(l) \in Nat
  BY EmptySeq, LenProperties
<1>1. /\ b \o l \in Seq(S)
      /\ Len(b \o l) = Len(b) + Len(l)
      /\ \A i \in 1 .. Len(b) + Len(l) : (b \o l)[i] = IF i <= Len(b) THEN b[i] ELSE l[i - Len(b)]
  BY ConcatProperties
<1>2. b \o l # <<>>
  BY <1>0, <1>1, EmptySeq
<1>3. Head(b \o l) = Head(b)
  BY <1>0, <1>1
<1>4. /\ Tail(b) \in Seq(S) /\ Len(Tail(b)) = Len(b) - 1
      /\ \A i \in 1 .. Len(Tail(b)) : Tail(b)[i] = b[i+1]
  BY HeadTailProperties
<1>5. /\ Tail(b \o l) \in Seq(S) /\ Len(Tail(b \o l)) = Len(b \o l) - 1
      /\ \A i \in 1 .. Len(Tail(b \o l)) : Tail(b \o l)[i] = (b \o l)[i+1]
  BY <1>1, <1>2, HeadTailProperties
<1>6. /\ Tail(b) \o l \in Seq(S)
      /\ Len(Tail(b) \o l) = Len(Tail(b)) + Len(l)
      /\ \A i \in 1 .. Len(Tail(b)) + Len(l) :
            (Tail(b) \o l)[i] = IF i <= Len(Tail(b)) THEN Tail(b)[i] ELSE l[i - Len(Tail(b))]
  BY <1>4, ConcatProperties
<1>7. Len(Tail(b \o l)) = Len(Tail(b) \o l)
  BY <1>0, <1>1, <1>4, <1>5, <1>6
<1>8. ASSUME NEW i \in 1 .. Len(Tail(b \o l))
      PROVE  Tail(b \o l)[i] = (Tail(b) \o l)[i]
  <2>1. i \in Nat /\ i >= 1 /\ i <= Len(b) + Len(l) - 1
    BY <1>0, <1>1, <1>5
  <2>2. Tail(b \o l)[i] = (b \o l)[i+1]
    BY <1>5
  <2>3. CASE i <= Len(b) - 1
    BY <2>1, <2>2, <2>3, <1>0, <1>1, <1>4, <1>6
  <2>4. CASE ~(i <= Len(b) - 1)
    <3>1. (b \o l)[i+1] = l[i + 1 - Len(b)]
      BY <2>1, <2>4, <1>0, <1>1
    <3>2. (Tail(b) \o l)[i] = l[i - (Len(b) - 1)]
      BY <2>1, <2>4, <1>0, <1>4, <1>6
    <3>3. i + 1 - Len(b) = i - (Len(b) - 1)
      BY <2>1, <1>0
    <3> QED BY <2>2, <3>1, <3>2, <3>3
  <2> QED BY <2>3, <2>4
<1>9. Tail(b \o l) = Tail(b) \o l
  BY <1>5, <1>6, <1>7, <1>8, SeqEqual
<1> QED BY <1>2, <1>3, <1>9

(* Moving the head of the batch behind what is finished keeps the order. *)
LEMMA MoveHead ==
  ASSUME NEW S, NEW f \in Seq(S), NEW b \in Seq(S), b # <<>>
  PROVE  Append(f, Head(b)) \o Tail(b) = f \o b
<1>1. Head(b) \in S /\ Tail(b) \in Seq(S) /\ <<Head(b)>> \in Seq(S)
  BY HeadTailProperties
<1>2. Append(f, Head(b)) = f \o <<Head(b)>>
  BY <1>1, AppendIsConcat
<1>3. <<Head(b)>> \o Tail(b) = b
  <2>1. SubSeq(b, 1, Len(b)) = << b[1] >> \o SubSeq(b, 2, Len(b))
    <3>1. Len(b) \in Nat /\ Len(b) # 0
      BY EmptySeq, LenProperties
    <3> QED BY <3>1, SubSeqRecursiveFirst
  <2> QED BY <2>1, SubSeqFull, TailIsSubSeq
<1> QED BY <1>1, <1>2, <1>3, ConcatAssociative

-----------------------------------------------------------------------------
LEMMA InitIInv == Init => IInv
<1> SUFFICES ASSUME Init PROVE IInv
  OBVIOUS
<1>1. TypeOK
  BY DEF Init, TypeOK
<1>2. FifoDelivery
  <2>1. <<>> \o <<>> = <<>>
    BY EmptySeq, ConcatEmptySeq
  <2> QED BY <2>1 DEF Init, FifoDelivery
<1> QED BY <1>1, <1>2 DEF Init, IInv, BatchInv, NoLostWakeup, ClosedInv

(* Pushing a task, by addTask() or shutdown(), keeps the queue in order.   *)
LEMMA PushKeepsOrder ==
  ASSUME IInv, NEW t \in Tasks,
         taskList' = Pushed(t), accepted' = Append(accepted, t),
         UNCHANGED <<tmpTaskList, finished>>
  PROVE  /\ FifoDelivery'
         /\ taskList' \in Seq(Tasks) /\ accepted' \in Seq(Tasks)
<1>1. /\ finished \in Seq(Tasks) /\ tmpTaskList \in Seq(Tasks)
      /\ taskList \in Seq(Tasks) /\ accepted \in Seq(Tasks)
  BY DEF IInv, TypeOK
<1>2. finished \o tmpTaskList \in Seq(Tasks)
  BY <1>1, ConcatProperties
<1>3. Append((finished \o tmpTaskList) \o taskList, t) = (finished \o tmpTaskList) \o Append(taskList, t)
  BY <1>1, <1>2, PushBack
<1>4. accepted = (finished \o tmpTaskList) \o taskList
  BY DEF IInv, FifoDelivery
<1>5. FifoDelivery'
  BY <1>3, <1>4 DEF FifoDelivery, Pushed
<1>6. taskList' \in Seq(Tasks) /\ accepted' \in Seq(Tasks)
  BY <1>1, AppendProperties DEF Pushed
<1> QED BY <1>5, <1>6

(* Deleting the head of the batch keeps the queue in order. *)
LEMMA DeleteKeepsOrder ==
  ASSUME IInv, DeleteHead, UNCHANGED accepted
  PROVE  /\ FifoDelivery'
         /\ tmpTaskList' \in Seq(Tasks) /\ finished' \in Seq(Tasks)
<1>1. /\ finished \in Seq(Tasks) /\ tmpTaskList \in Seq(Tasks)
      /\ taskList \in Seq(Tasks) /\ tmpTaskList # <<>>
  BY DEF IInv, TypeOK, DeleteHead
<1>2. Append(finished, Head(tmpTaskList)) \o Tail(tmpTaskList) = finished \o tmpTaskList
  BY <1>1, MoveHead
<1>3. FifoDelivery'
  BY <1>2 DEF IInv, FifoDelivery, DeleteHead
<1>4. tmpTaskList' \in Seq(Tasks) /\ finished' \in Seq(Tasks)
  BY <1>1, HeadTailProperties, AppendProperties DEF DeleteHead
<1> QED BY <1>3, <1>4

(* Pushing something else than the task of Game::shutdown() while RUNNING, *)
(* or that task, for the first time, later.                                *)
LEMMA PushKeepsClosed ==
  ASSUME IInv, NEW t \in Tasks, Fresh(t), accepted' = Append(accepted, t),
         UNCHANGED threadState,
         \/ threadState = "RUNNING" /\ t # GameShutdown
         \/ threadState = "CLOSING" /\ t = GameShutdown
  PROVE  ClosedInv'
<1>1. accepted \in Seq(Tasks)
  BY DEF IInv, TypeOK
<1>2. /\ Len(accepted) \in Nat
      /\ DOMAIN accepted = 1 .. Len(accepted)
      /\ accepted' \in Seq(Tasks)
      /\ Len(accepted') = Len(accepted) + 1
      /\ \A i \in 1 .. Len(accepted) : accepted'[i] = accepted[i]
      /\ accepted'[Len(accepted) + 1] = t
  BY <1>1, AppendProperties, LenProperties
<1>3. DOMAIN accepted' = 1 .. Len(accepted) + 1
  BY <1>2, LenProperties
<1>4. \A i \in 1 .. Len(accepted) : accepted[i] # GameShutdown
  <2>1. CASE threadState = "RUNNING"
    BY <2>1, <1>2 DEF IInv, ClosedInv
  <2>2. CASE t = GameShutdown
    BY <2>2, <1>2 DEF Fresh, Elems
  <2> QED BY <2>1, <2>2
<1> QED BY <1>2, <1>3, <1>4 DEF ClosedInv

LEMMA NextIInv == IInv /\ [Next]_vars => IInv'
<1> SUFFICES ASSUME IInv, [Next]_vars PROVE IInv'
  OBVIOUS
<1> USE DispatcherAssumption
<1> USE DEF vars, lists, history
<1>1. ASSUME NEW c \in Threads, NEW t \in Tasks, AddTask(c, t)
      PROVE  IInv'
  <2>1. CASE Accepts
    <3>1. /\ taskList' = Pushed(t) /\ accepted' = Append(accepted, t)
          /\ UNCHANGED <<tmpTaskList, finished, threadState, pc, expired, dropped>>
          /\ signalling' = IF DoSignal THEN signalling \cup {c} ELSE signalling
      BY <1>1, <2>1 DEF AddTask
    <3>2. FifoDelivery' /\ taskList' \in Seq(Tasks) /\ accepted' \in Seq(Tasks)
      BY <3>1, PushKeepsOrder
    <3>3. TypeOK'
      BY <3>1, <3>2 DEF IInv, TypeOK
    <3>4. BatchInv'
      BY <3>1 DEF IInv, BatchInv
    <3>5. NoLostWakeup'
      BY <3>1 DEF IInv, NoLostWakeup, DoSignal
    <3>6. ClosedInv'
      BY <3>1, <1>1, <2>1, PushKeepsClosed DEF AddTask, Terminators, Accepts
    <3> QED BY <3>2, <3>3, <3>4, <3>5, <3>6 DEF IInv
  <2>2. CASE ~Accepts
    <3>1. /\ dropped' = dropped \cup {t}
          /\ UNCHANGED <<lists, accepted, finished, threadState, pc, expired, signalling>>
      BY <1>1, <2>2 DEF AddTask
    <3> QED BY <3>1 DEF IInv, TypeOK, BatchInv, FifoDelivery, NoLostWakeup, ClosedInv
  <2> QED BY <2>1, <2>2
<1>2. ASSUME NEW c \in Threads, NEW t \in Tasks, Shutdown(c, t)
      PROVE  IInv'
  <2>1. /\ taskList' = Pushed(t) /\ accepted' = Append(accepted, t)
        /\ UNCHANGED <<tmpTaskList, finished, threadState, expired, dropped, signalling>>
        /\ pc' = Woken
    BY <1>2 DEF Shutdown
  <2>2. FifoDelivery' /\ taskList' \in Seq(Tasks) /\ accepted' \in Seq(Tasks)
    BY <2>1, PushKeepsOrder
  <2>3. TypeOK'
    BY <2>1, <2>2 DEF IInv, TypeOK, Woken
  <2>4. BatchInv'
    BY <2>1 DEF IInv, BatchInv, Woken
  <2>5. NoLostWakeup'
    BY <2>1 DEF NoLostWakeup, Woken
  <2>6. ClosedInv'
    BY <2>1, <1>2, PushKeepsClosed DEF Shutdown
  <2> QED BY <2>2, <2>3, <2>4, <2>5, <2>6 DEF IInv
<1>3. ASSUME NEW c \in Threads, NotifyOne(c)
      PROVE  IInv'
  BY <1>3 DEF NotifyOne, Woken, IInv, TypeOK, BatchInv, FifoDelivery, NoLostWakeup, ClosedInv
<1>4. ASSUME NEW t \in Tasks, Expire(t)
      PROVE  IInv'
  BY <1>4 DEF Expire, HasExpiration, IInv, TypeOK, BatchInv, FifoDelivery, NoLostWakeup, ClosedInv
<1>5. CASE Stop
  BY <1>5 DEF Stop, IInv, TypeOK, BatchInv, FifoDelivery, NoLostWakeup, ClosedInv
<1>6. CASE CheckState \/ Wait \/ SpuriousWakeup \/ BeginTask \/ EndBatch
  BY <1>6 DEF CheckState, Wait, SpuriousWakeup, BeginTask, EndBatch, Goto,
              IInv, TypeOK, BatchInv, FifoDelivery, NoLostWakeup, ClosedInv
<1>7. CASE Swap
  <2>1. /\ tmpTaskList = <<>> /\ taskList' = <<>> /\ tmpTaskList' = taskList
        /\ pc' = "next"
        /\ UNCHANGED <<threadState, signalling, expired, accepted, finished, dropped>>
    BY <1>7 DEF Swap, Goto, IInv, BatchInv
  <2>2. finished \in Seq(Tasks) /\ taskList \in Seq(Tasks)
    BY DEF IInv, TypeOK
  <2>3. finished \o taskList \in Seq(Tasks)
    BY <2>2, ConcatProperties
  <2>4. finished \o <<>> \o taskList = finished \o taskList \o <<>>
    BY <2>2, <2>3, ConcatEmptySeq
  <2>5. FifoDelivery'
    BY <2>1, <2>4 DEF IInv, FifoDelivery
  <2> QED BY <2>1, <2>2, <2>5 DEF IInv, TypeOK, BatchInv, NoLostWakeup, ClosedInv
<1>8. CASE SkipExpired \/ EndTask
  <2>1. /\ DeleteHead /\ pc' = "next"
        /\ UNCHANGED <<taskList, signalling, expired, accepted, dropped>>
        /\ threadState' \in {threadState, "TERMINATED"}
    BY <1>8 DEF SkipExpired, EndTask, Goto, DeleteHead, StateAfter
  <2>2. FifoDelivery' /\ tmpTaskList' \in Seq(Tasks) /\ finished' \in Seq(Tasks)
    BY <2>1, DeleteKeepsOrder
  <2> QED BY <2>1, <2>2 DEF IInv, TypeOK, BatchInv, NoLostWakeup, ClosedInv
<1>9. CASE UNCHANGED vars
  BY <1>9 DEF IInv, TypeOK, BatchInv, FifoDelivery, NoLostWakeup, ClosedInv
<1> QED BY <1>1, <1>2, <1>3, <1>4, <1>5, <1>6, <1>7, <1>8, <1>9 DEF Next, threadMain

(* The invariant of the dispatcher thread, from which the rest follows.    *)
THEOREM DispatcherInvariant == Spec => []IInv
<1> QED BY InitIInv, NextIInv, PTL DEF Spec

(* The fields of Dispatcher keep their types whatever the callers do.      *)
THEOREM DispatcherTypes == Spec => []TypeOK
<1>1. IInv => TypeOK
  BY DEF IInv
<1> QED BY <1>1, DispatcherInvariant, PTL

(* Tasks are deleted in the order they were pushed, none twice, none lost. *)
THEOREM DispatcherFifo == Spec => []FifoDelivery
<1>1. IInv => FifoDelivery
  BY DEF IInv
<1> QED BY <1>1, DispatcherInvariant, PTL

(* Signalling only on an empty list, after the unlock, loses no wakeup.    *)
THEOREM DispatcherWakeups == Spec => []NoLostWakeup
<1>1. IInv => NoLostWakeup
  BY DEF IInv
<1> QED BY <1>1, DispatcherInvariant, PTL

(* After stop() and Game::shutdown() no task is left in taskList.          *)
THEOREM DispatcherCleanShutdown == Spec => []CleanShutdown
<1>1. ASSUME IInv, pc = "exit", GameShutdown \in Elems(finished)
      PROVE  taskList = <<>>
  <2>1. PICK i \in DOMAIN finished : finished[i] = GameShutdown
    BY <1>1 DEF Elems
  <2>2. /\ finished \in Seq(Tasks) /\ taskList \in Seq(Tasks) /\ tmpTaskList = <<>>
    BY <1>1 DEF IInv, TypeOK, BatchInv
  <2>3. accepted = finished \o taskList
    <3>1. finished \o <<>> = finished
      BY <2>2, ConcatEmptySeq
    <3> QED BY <1>1, <2>2, <3>1 DEF IInv, FifoDelivery
  <2>4. /\ Len(finished) \in Nat /\ Len(taskList) \in Nat
        /\ DOMAIN finished = 1 .. Len(finished)
    BY <2>2, LenProperties
  <2>5. /\ Len(accepted) = Len(finished) + Len(taskList)
        /\ DOMAIN accepted = 1 .. Len(accepted)
        /\ accepted[i] = GameShutdown
    BY <2>1, <2>2, <2>3, <2>4, ConcatProperties, LenProperties
  <2>6. i = Len(accepted)
    BY <1>1, <2>1, <2>4, <2>5 DEF IInv, ClosedInv
  <2>7. Len(taskList) = 0
    BY <2>1, <2>4, <2>5, <2>6
  <2> QED BY <2>2, <2>7, EmptySeq
<1>2. IInv => CleanShutdown
  BY <1>1 DEF CleanShutdown
<1> QED BY <1>2, DispatcherInvariant, PTL

-----------------------------------------------------------------------------
(* Every step of the dispatcher is a step of the serial executor or none.  *)
LEMMA ExecutorStep == IInv /\ [Next]_vars => [Executor!Next]_(Executor!executorVars)
<1> SUFFICES ASSUME IInv, [Next]_vars
             PROVE  [Executor!Next]_(Executor!executorVars)
  OBVIOUS
<1> USE DEF vars, lists, history, Executor!executorVars
<1>0. taskList \in Seq(Tasks) /\ tmpTaskList \in Seq(Tasks)
  BY DEF IInv, TypeOK
<1>1. ASSUME NEW t \in Tasks, taskList' = Pushed(t),
             UNCHANGED <<tmpTaskList, finished>>, pc' = "exec" <=> pc = "exec"
      PROVE  Executor!Next
  <2>1. Append(tmpTaskList \o taskList, t) = tmpTaskList \o Append(taskList, t)
    BY <1>0, <1>1, PushBack
  <2> QED BY <1>1, <2>1 DEF Executor!Next, Executor!Accept, Pushed
<1>2. ASSUME DeleteHead, pc' # "exec"
      PROVE  Executor!Next
  <2>1. /\ tmpTaskList \o taskList # <<>>
        /\ Head(tmpTaskList \o taskList) = Head(tmpTaskList)
        /\ Tail(tmpTaskList \o taskList) = Tail(tmpTaskList) \o taskList
    BY <1>0, <1>2, PopFront DEF DeleteHead
  <2> QED BY <1>2, <2>1 DEF Executor!Next, Executor!Finish, DeleteHead
<1>3. ASSUME NEW c \in Threads, NEW t \in Tasks, AddTask(c, t) \/ Shutdown(c, t)
      PROVE  [Executor!Next]_(Executor!executorVars)
  <2>1. CASE taskList' = Pushed(t) /\ UNCHANGED <<tmpTaskList, finished>> /\ (pc' = "exec" <=> pc = "exec")
    BY <2>1, <1>1
  <2>2. CASE UNCHANGED <<lists, finished, pc>>
    BY <2>2
  <2> QED BY <1>3, <2>1, <2>2 DEF AddTask, Shutdown, Woken
<1>4. ASSUME NEW c \in Threads, NotifyOne(c)
      PROVE  UNCHANGED Executor!executorVars
  BY <1>4 DEF NotifyOne, Woken
<1>5. ASSUME NEW t \in Tasks, Expire(t)
      PROVE  UNCHANGED Executor!executorVars
  BY <1>5 DEF Expire
<1>6. CASE Stop \/ CheckState \/ Wait \/ SpuriousWakeup \/ EndBatch
  BY <1>6 DEF Stop, CheckState, Wait, SpuriousWakeup, EndBatch, Goto
<1>7. CASE Swap
  <2>1. /\ tmpTaskList = <<>> /\ taskList' = <<>> /\ tmpTaskList' = taskList
        /\ UNCHANGED finished /\ pc # "exec" /\ pc' # "exec"
    BY <1>7 DEF Swap, Goto, IInv, BatchInv
  <2>2. tmpTaskList \o taskList = tmpTaskList' \o taskList'
    BY <2>1, <1>0, ConcatEmptySeq
  <2> QED BY <2>1, <2>2
<1>8. CASE BeginTask
  <2>1. tmpTaskList \o taskList # <<>>
    BY <1>0, <1>8, PopFront DEF BeginTask
  <2> QED BY <1>8, <2>1 DEF BeginTask, Goto, Executor!Next, Executor!Start
<1>9. CASE SkipExpired \/ EndTask
  BY <1>9, <1>2 DEF SkipExpired, EndTask, Goto
<1>10. CASE UNCHANGED vars
  BY <1>10
<1> QED BY <1>3, <1>4, <1>5, <1>6, <1>7, <1>8, <1>9, <1>10 DEF Next, threadMain

(* The dispatcher implements the serial executor the game logic relies on. *)
THEOREM DispatcherRefinement == Spec => ImplementsSerialExecutor
<1>1. Init => Executor!Init
  <2>1. <<>> \o <<>> = <<>>
    BY EmptySeq, ConcatEmptySeq
  <2> QED BY <2>1 DEF Init, Executor!Init
<1> QED BY <1>1, ExecutorStep, DispatcherInvariant, PTL DEF Spec, ImplementsSerialExecutor, Executor!Spec

-----------------------------------------------------------------------------
(* ScriptEngine: the scripts that tasks of the dispatcher run.  A method   *)
(* of a script changes the top of the stack (Gets) and one or two objects  *)
(* (Does), and each object it touches stays counted.                       *)

EnvIds == 0 .. Envs - 1
EnvFrames == [env : EnvIds, vars : SUBSET Objs]

(* The types of the variables. *)
ScriptTypes ==
  /\ obj \in [Objs -> [at : Ats, refs : Int]] /\ release \in [Objs -> Nat]
  /\ frames \in Seq(EnvFrames) /\ index \in Int
  /\ temp \subseteq EnvIds \X Items /\ local \in [EnvIds -> SUBSET Items] /\ decay \subseteq Items
  /\ ids \in Nat /\ DOMAIN luaTimers \subseteq 0 .. ids - 1 /\ \A id \in DOMAIN luaTimers : luaTimers[id] \in Objs
  /\ due \subseteq 0 .. ids - 1 /\ off \subseteq 0 .. ids - 1 /\ ran \in Seq(0 .. ids - 1)
  /\ lastResultId \in Nat /\ results \subseteq 1 .. lastResultId

(* The script that is called last is on top of the stack, and the          *)
(* environments above it are clean.                                        *)
StackInv ==
  /\ index = Len(frames) - 1 /\ index < Envs /\ index <= MaxDepth
  /\ \A i \in DOMAIN frames : frames[i].env = i - 1
  /\ \A e \in EnvIds : e > index => local[e] = {}
  /\ \A t \in temp : t[1] <= index
  /\ frames = <<>> => results = {}

(* The references of an object at `at' with `refs' owners. *)
Counted(x, rel, decays) ==
  LET delayed == rel + (IF decays THEN 1 ELSE 0)
  IN  /\ x.at \in {"virtual", "world"} => x.refs = 1 + delayed
      /\ x.at \in {"removed", "dropped"} => x.refs = delayed /\ delayed > 0
      /\ x.at \in {"none", "freed"} => x.refs = 0 /\ delayed = 0

CountInv == \A o \in Objs : Counted(obj[o], release[o], o \in decay)

(* What a script holds is there; a virtual item is temporary, so that the  *)
(* end of the script finds it.                                             *)
There(x) == x.at \notin {"none", "freed"}
HoldInv == /\ \A o \in Objs : Holds(o) => There(obj[o])
           /\ \A o \in Objs : obj[o].at = "virtual" => \E t \in temp : t[2] = o

(* A timer event is waiting, has run or was stopped. *)
EventInv == /\ \A i, j \in DOMAIN ran : ran[i] = ran[j] => i = j
            /\ \A i \in DOMAIN ran : ran[i] \notin off /\ ran[i] \notin DOMAIN luaTimers
            /\ off \cap DOMAIN luaTimers = {}

ScriptInv == ScriptTypes /\ StackInv /\ CountInv /\ HoldInv /\ EventInv

-----------------------------------------------------------------------------
(* What a method of a script does to the stack: the script that runs may   *)
(* get hold of the objects W, in its variables, its uids and its temporary *)
(* items.                                                                  *)
IsTop(f, W) ==
  /\ f \in Seq(EnvFrames) /\ Len(f) = Len(frames)
  /\ \A i \in DOMAIN frames : f[i].env = frames[i].env /\ f[i].vars \subseteq frames[i].vars \cup W
IsLocal(l, W) ==
  /\ l \in [EnvIds -> SUBSET Items]
  /\ \A e \in EnvIds : l[e] \subseteq local[e] \cup W /\ (e > index => l[e] = local[e])
IsTemp(ts, W) ==
  /\ ts \subseteq EnvIds \X Items
  /\ \A t \in ts : t \in temp \/ (t[1] = index /\ t[2] \in W)

Gets(W) == /\ IsTop(frames', W) /\ IsLocal(local', W) /\ IsTemp(temp', W)
           /\ UNCHANGED <<index, luaTimers, due, ids, ran, off>>

(* And what it does to the objects. *)
Does(W) ==
  /\ obj' \in [Objs -> [at : Ats, refs : Int]] /\ release' \in [Objs -> Nat] /\ decay' \subseteq Items
  /\ \A o \in Objs : Counted(obj'[o], release'[o], o \in decay')
  /\ \A o \in Objs : o \in W \/ There(obj[o]) => There(obj'[o])
  /\ \A o \in Objs : obj'[o].at = "virtual" => \E t \in temp' : t[2] = o

LEMMA MethodKeeps ==
  ASSUME ScriptInv, NEW W \in SUBSET Objs, Running, Gets(W), Does(W),
         lastResultId' \in Nat, results' \subseteq 1 .. lastResultId'
  PROVE  ScriptInv'
<1>1. /\ index = Len(frames) - 1 /\ index < Envs /\ index <= MaxDepth
      /\ \A i \in DOMAIN frames : frames[i].env = i - 1
      /\ \A e \in EnvIds : e > index => local[e] = {}
      /\ \A t \in temp : t[1] <= index
      /\ frames # <<>> /\ Len(frames) \in Nat /\ Len(frames) > 0 /\ index \in Int
      /\ DOMAIN frames = 1 .. Len(frames)
  BY DEF ScriptInv, StackInv, Running, ScriptTypes
<1>2. /\ frames' \in Seq(EnvFrames) /\ Len(frames') = Len(frames) /\ DOMAIN frames' = DOMAIN frames
      /\ \A i \in DOMAIN frames : frames'[i].env = frames[i].env /\ frames'[i].vars \subseteq frames[i].vars \cup W
      /\ index' = index
  BY <1>1 DEF Gets, IsTop, IsLocal, IsTemp
<1>3. ScriptTypes'
  BY <1>2 DEF ScriptInv, ScriptTypes, Gets, Does, IsTop, IsLocal, IsTemp
<1>4. StackInv'
  <2>1. \A e \in EnvIds : e > index => local'[e] = {}
    BY <1>1 DEF Gets, IsTop, IsLocal, IsTemp
  <2>2. \A t \in temp' : t[1] <= index
    BY <1>1 DEF Gets, IsTop, IsLocal, IsTemp
  <2>3. frames' # <<>>
    BY <1>1, <1>2
  <2>. QED BY <1>1, <1>2, <2>1, <2>2, <2>3 DEF StackInv
<1>5. CountInv'
  BY DEF Does, CountInv
<1>6. HoldInv'
  <2>1. ASSUME NEW o \in Objs, Holds(o)' PROVE Holds(o) \/ o \in W
    <3>1. CASE \E t \in temp' : t[2] = o
      BY <3>1 DEF Gets, IsTemp, Holds
    <3>2. CASE \E i \in DOMAIN frames' : o \in frames'[i].vars \cup local'[frames'[i].env]
      <4>1. PICK i \in DOMAIN frames : o \in frames'[i].vars \cup local'[frames[i].env]
        BY <1>2, <3>2
      <4>a. frames[i] \in EnvFrames
        BY DEF ScriptInv, ScriptTypes
      <4>2. frames'[i].vars \subseteq frames[i].vars \cup W /\ frames[i].env \in EnvIds
        BY <1>2, <4>1, <4>a DEF EnvFrames
      <4>3. local'[frames[i].env] \subseteq local[frames[i].env] \cup W
        BY <4>2 DEF Gets, IsTop, IsLocal, IsTemp
      <4>. QED BY <4>1, <4>2, <4>3 DEF Holds
    <3>. QED BY <2>1, <3>1, <3>2 DEF Holds
  <2>2. \A o \in Objs : Holds(o) => There(obj[o])
    BY DEF ScriptInv, HoldInv
  <2>3. \A o \in Objs : Holds(o)' => There(obj'[o])
    BY <2>1, <2>2 DEF Does
  <2>. QED BY <2>3 DEF HoldInv, Does, There
<1>7. EventInv'
  BY DEF ScriptInv, EventInv, Gets
<1>. QED BY <1>3, <1>4, <1>5, <1>6, <1>7 DEF ScriptInv

(* The environment and the variables of the script that runs. *)
LEMMA TopMeans ==
  ASSUME ScriptInv, Running
  PROVE  /\ Len(frames) \in DOMAIN frames /\ Top \in EnvFrames
         /\ Top.env = index /\ index \in EnvIds /\ Top.vars \subseteq Objs
         /\ \A u \in Top.vars \cup local[Top.env] : There(obj[u])
<1>1. /\ frames \in Seq(EnvFrames) /\ frames # <<>> /\ index = Len(frames) - 1
      /\ \A i \in DOMAIN frames : frames[i].env = i - 1
  BY DEF ScriptInv, ScriptTypes, StackInv, Running
<1>2. Len(frames) \in DOMAIN frames /\ Top \in EnvFrames /\ Top.env = index
  BY <1>1 DEF Top
<1>3. index \in EnvIds /\ Top.vars \subseteq Objs
  BY <1>2 DEF EnvFrames
<1>4. \A u \in Top.vars \cup local[Top.env] : Holds(u) /\ u \in Objs
  BY <1>2, <1>3 DEF Holds, Top, ScriptInv, ScriptTypes, Objs
<1>. QED BY <1>2, <1>3, <1>4 DEF ScriptInv, HoldInv

LEMMA TopChanges ==
  ASSUME ScriptInv, Running, NEW W \in SUBSET Objs, NEW V \in SUBSET Objs, V \subseteq Top.vars \cup W,
         NEW f, f = [frames EXCEPT ![Len(frames)].vars = V]
  PROVE  IsTop(f, W)
<1>1. frames \in Seq(EnvFrames) /\ Len(frames) \in DOMAIN frames
  BY TopMeans DEF ScriptInv, ScriptTypes
<1>. DEFINE t == [Top EXCEPT !.vars = V]
<1>2. t \in EnvFrames /\ t.env = Top.env /\ t.vars = V
  BY TopMeans DEF EnvFrames
<1>3. f = [frames EXCEPT ![Len(frames)] = t]
  BY <1>1 DEF Top
<1>. HIDE DEF t
<1>4. f \in Seq(EnvFrames) /\ Len(f) = Len(frames) /\ \A i \in DOMAIN frames : f[i] = IF i = Len(frames) THEN t ELSE frames[i]
  BY <1>1, <1>2, <1>3
<1>. QED BY <1>1, <1>2, <1>4 DEF IsTop, Top

LEMMA PushGets ==
  ASSUME ScriptInv, Running, NEW o \in Objs
  PROVE  IsTop(Push(o), {o})
<1>1. Push(o) = [frames EXCEPT ![Len(frames)].vars = Top.vars \cup {o}]
  BY DEF Push, Top
<1>2. Top.vars \cup {o} \in SUBSET Objs
  BY TopMeans
<1>. QED BY <1>1, <1>2, TopChanges

LEMMA SwapGets ==
  ASSUME ScriptInv, Running, NEW o, NEW new \in SUBSET Objs
  PROVE  IsTop(SwapUserdata(o, new), new)
<1>1. SwapUserdata(o, new) = [frames EXCEPT ![Len(frames)].vars = (Top.vars \ {o}) \cup new]
  BY DEF SwapUserdata, Top
<1>2. (Top.vars \ {o}) \cup new \in SUBSET Objs
  BY TopMeans
<1>. QED BY <1>1, <1>2, TopChanges

LEMMA MoreGets ==
  ASSUME NEW W, NEW V, W \subseteq V, NEW f, NEW ts, IsTop(f, W), IsTemp(ts, W)
  PROVE  IsTop(f, V) /\ IsTemp(ts, V)
<1>1. IsTop(f, V)
  BY DEF IsTop
<1>2. IsTemp(ts, V)
  BY DEF IsTemp
<1>. QED BY <1>1, <1>2

LEMMA StackStays ==
  ASSUME ScriptInv, NEW W PROVE IsTop(frames, W)
BY DEF IsTop, ScriptInv, ScriptTypes

LEMMA LocalGets ==
  ASSUME ScriptInv, Running, NEW W, NEW X \in SUBSET Items, X \subseteq local[Top.env] \cup W
  PROVE  IsLocal([local EXCEPT ![Top.env] = X], W) /\ IsLocal(local, W)
<1>1. Top.env = index /\ index \in EnvIds /\ local \in [EnvIds -> SUBSET Items]
  BY TopMeans DEF ScriptInv, ScriptTypes
<1>2. \A e \in EnvIds : e > index => e # index
  BY <1>1 DEF EnvIds
<1>. QED BY <1>1, <1>2 DEF IsLocal

LEMMA LocalStays ==
  ASSUME ScriptInv, NEW W PROVE IsLocal(local, W) /\ IsTemp(temp, W)
BY DEF ScriptInv, ScriptTypes, IsLocal, IsTemp

LEMMA TempGets ==
  ASSUME ScriptInv, Running, NEW W, NEW u, NEW o \in Items, o \in W
  PROVE  /\ IsTemp(RemoveTempItem(u), W) /\ IsTemp(AddTempItem(o), W)
         /\ IsTemp(RemoveTempItem(u) \cup {<<Top.env, o>>}, W)
BY TopMeans DEF ScriptInv, ScriptTypes, IsTemp, RemoveTempItem, AddTempItem

LEMMA TempLoses ==
  ASSUME ScriptInv, NEW W, NEW u
  PROVE  IsTemp(RemoveTempItem(u), W)
BY DEF ScriptInv, ScriptTypes, IsTemp, RemoveTempItem

(* What the invariant says of an object. *)
IsObject(o) == /\ obj[o] \in [at : Ats, refs : Int] /\ release[o] \in Nat
               /\ Counted(obj[o], release[o], o \in decay)
               /\ Holds(o) => There(obj[o])
               /\ obj[o].at = "virtual" => \E t \in temp : t[2] = o

LEMMA ObjectMeans ==
  ASSUME ScriptInv
  PROVE  /\ \A o \in Objs : IsObject(o)
         /\ obj \in [Objs -> [at : Ats, refs : Int]] /\ release \in [Objs -> Nat] /\ decay \subseteq Items
         /\ Items \subseteq Objs /\ Creatures \subseteq Objs
BY DEF ScriptInv, ScriptTypes, CountInv, HoldInv, IsObject, Objs

(* Who is in the script's variables is held. *)
LEMMA InScriptIsThere ==
  ASSUME ScriptInv, NEW u, InScript(u)
  PROVE  u \in Objs /\ There(obj[u]) /\ Running
BY TopMeans DEF InScript

(* Methods that leave the objects alone. *)
LEMMA LeavesObjects ==
  ASSUME ScriptInv, NEW W \in SUBSET Objs, \A o \in W : There(obj[o]),
         UNCHANGED <<obj, release, decay, temp>>
  PROVE  Does(W)
BY ObjectMeans DEF Does, IsObject

LEMMA LookupKeeps ==
  ASSUME ScriptInv, \/ PushUserdata \/ GetUniqueId \/ ItemByUID
  PROVE  ScriptInv'
<1>0. results' = results /\ lastResultId' = lastResultId /\ lastResultId' \in Nat /\ results' \subseteq 1 .. lastResultId'
  BY DEF ScriptInv, ScriptTypes, PushUserdata, GetUniqueId, ItemByUID
<1>1. ASSUME NEW o \in Objs, Running, There(obj[o]), frames' = Push(o),
             UNCHANGED <<obj, index, temp, local, release, decay, luaTimers, due, ids, ran, off>>
      PROVE  ScriptInv'
  <2>1. Gets({o})
    BY <1>1, PushGets, LocalStays DEF Gets
  <2>2. Does({o})
    BY <1>1, LeavesObjects
  <2>. QED BY <1>0, <1>1, <2>1, <2>2, MethodKeeps
<1>2. CASE PushUserdata
  BY <1>1, <1>2 DEF PushUserdata, There
<1>3. CASE ItemByUID
  <2>1. PICK o \in Items : /\ Running /\ o \in local[Top.env] /\ frames' = Push(o)
                           /\ UNCHANGED <<obj, index, temp, local, release, decay, luaTimers, due, ids, ran, off>>
    BY <1>3 DEF ItemByUID
  <2>2. o \in Objs /\ There(obj[o])
    BY <2>1, TopMeans DEF Objs
  <2>. QED BY <1>1, <2>1, <2>2
<1>4. CASE GetUniqueId
  <2>1. PICK u \in Items : /\ InScript(u) /\ local' = [local EXCEPT ![Top.env] = @ \cup {u}]
                           /\ UNCHANGED <<obj, index, frames, temp, release, decay, luaTimers, due, ids, ran, off>>
    BY <1>4 DEF GetUniqueId
  <2>2. u \in Objs /\ There(obj[u]) /\ Running
    BY <2>1, InScriptIsThere
  <2>3. local[Top.env] \in SUBSET Items
    BY <2>2, TopMeans DEF ScriptInv, ScriptTypes
  <2>4. IsLocal(local', {u})
    BY <2>1, <2>2, <2>3, LocalGets
  <2>5. Gets({u})
    BY <2>1, <2>4, StackStays, LocalStays DEF Gets
  <2>6. Does({u})
    BY <2>1, <2>2, LeavesObjects
  <2>. QED BY <1>0, <2>2, <2>5, <2>6, MethodKeeps
<1>. QED BY <1>2, <1>3, <1>4

(* A new item. *)
LEMMA UnmadeMeans ==
  ASSUME ScriptInv, NEW o, Unmade(o)
  PROVE  /\ o \in Items /\ o \in Objs /\ obj[o].at = "none" /\ release[o] = 0 /\ o \notin decay /\ ~There(obj[o])
BY ObjectMeans DEF Unmade, IsObject, Counted, There

(* What becomes of one object.                                             *)
Fate(o, W) == /\ Counted(obj'[o], release'[o], o \in decay')
              /\ o \in W \/ There(obj[o]) => There(obj'[o])
              /\ obj'[o].at = "virtual" => \E t \in temp' : t[2] = o

LEMMA FateOfOthers ==
  ASSUME ScriptInv, NEW W, NEW o \in Objs, obj'[o] = obj[o], release'[o] = release[o],
         o \in decay' <=> o \in decay, \A t \in temp : t[2] = o => t \in temp', o \notin W \/ There(obj[o])
  PROVE  Fate(o, W)
<1>1. IsObject(o)
  BY ObjectMeans
<1>2. Counted(obj'[o], release'[o], o \in decay')
  BY <1>1 DEF IsObject, Counted
<1>. QED BY <1>1, <1>2 DEF Fate, IsObject

LEMMA FatesMakeDoes ==
  ASSUME NEW W, obj' \in [Objs -> [at : Ats, refs : Int]], release' \in [Objs -> Nat], decay' \subseteq Items,
         \A o \in Objs : Fate(o, W)
  PROVE  Does(W)
BY DEF Does, Fate

(* One object changes, its releases, its decay and its temporary items; a  *)
(* new one comes, if it does, as a temporary item or to the world.         *)
Becomes(u, x, r, W) ==
  /\ (\A o \in W \ {u} : There(obj[o])) /\ x \in [at : Ats, refs : Int] /\ r \in Nat
  /\ obj' = [obj EXCEPT ![u] = x] /\ release' = [release EXCEPT ![u] = r] /\ decay' \subseteq Items
  /\ \A o \in Objs \ {u} : o \in decay' <=> o \in decay
  /\ \A t \in temp : t[2] # u => t \in temp'
  /\ Counted(x, r, u \in decay')
  /\ u \in W \/ There(obj[u]) => There(x)
  /\ x.at = "virtual" => \E t \in temp' : t[2] = u

LEMMA OneChanges ==
  ASSUME ScriptInv, NEW u \in Objs, NEW W, NEW x, NEW r, Becomes(u, x, r, W)
  PROVE  Does(W)
<1>1. /\ obj' \in [Objs -> [at : Ats, refs : Int]] /\ release' \in [Objs -> Nat]
      /\ obj'[u] = x /\ release'[u] = r
      /\ \A o \in Objs \ {u} : obj'[o] = obj[o] /\ release'[o] = release[o]
  BY ObjectMeans DEF Becomes
<1>2. Fate(u, W)
  BY <1>1 DEF Fate, Becomes
<1>3. ASSUME NEW o \in Objs \ {u} PROVE Fate(o, W)
  BY <1>1, FateOfOthers DEF Becomes
<1>. QED BY <1>1, <1>2, <1>3, FatesMakeDoes DEF Becomes

LEMMA CreateKeeps ==
  ASSUME ScriptInv, GameCreateItem \/ AddItem
  PROVE  ScriptInv'
<1>0. results' = results /\ lastResultId' = lastResultId /\ lastResultId' \in Nat /\ results' \subseteq 1 .. lastResultId'
  BY DEF ScriptInv, ScriptTypes, GameCreateItem, AddItem
<1>1. CASE GameCreateItem
  <2>1. PICK o \in Items : /\ Running /\ Unmade(o)
                           /\ obj' = CreateAt(o, "virtual") /\ temp' = AddTempItem(o) /\ frames' = Push(o)
                           /\ UNCHANGED <<index, local, release, decay, luaTimers, due, ids, ran, off>>
    BY <1>1 DEF GameCreateItem
  <2>2. o \in Objs /\ release[o] = 0 /\ o \notin decay
    BY <2>1, UnmadeMeans
  <2>3. Gets({o})
    BY <2>1, <2>2, PushGets, LocalStays, TempGets DEF Gets
  <2>4. Does({o})
    <3>. DEFINE x == [at |-> "virtual", refs |-> 1]
    <3>1. x \in [at : Ats, refs : Int] /\ Counted(x, 0, o \in decay') /\ There(x)
      BY <2>1, <2>2 DEF Counted, There, Ats
    <3>2. obj' = [obj EXCEPT ![o] = x] /\ release' = [release EXCEPT ![o] = 0] /\ decay' \subseteq Items
      BY <2>1, <2>2, ObjectMeans DEF CreateAt
    <3>3. <<Top.env, o>> \in temp' /\ temp \subseteq temp'
      BY <2>1 DEF AddTempItem
    <3>4. \E t \in temp' : t[2] = o
      BY <3>3
    <3>. HIDE DEF x
    <3>5. Becomes(o, x, 0, {o})
      BY <2>1, <2>2, <3>1, <3>2, <3>3, <3>4 DEF Becomes
    <3>. QED BY <2>2, <3>5, OneChanges
  <2>. QED BY <1>0, <2>1, <2>2, <2>3, <2>4, MethodKeeps
<1>2. CASE AddItem
  <2>1. PICK o \in Items :
          /\ Running /\ Unmade(o)
          /\ \/ obj' = CreateAt(o, "world") /\ frames' = Push(o) /\ release' = release
             \/ obj' = CreateAt(o, "removed") /\ frames' = Push(o) /\ release' = ReleaseThing(release, o)
             \/ obj' = [CreateAt(o, "freed") EXCEPT ![o].refs = 0] /\ frames' = frames /\ release' = release
          /\ UNCHANGED <<index, temp, local, decay, luaTimers, due, ids, ran, off>>
    BY <1>2 DEF AddItem
  <2>2. o \in Objs /\ release[o] = 0 /\ o \notin decay /\ ~There(obj[o]) /\ obj[o].at = "none"
    BY <2>1, UnmadeMeans
  <2>3. CASE /\ frames' = Push(o)
             /\ \/ obj' = CreateAt(o, "world") /\ release' = release
                \/ obj' = CreateAt(o, "removed") /\ release' = ReleaseThing(release, o)
    <3>1. Gets({o})
      BY <2>1, <2>2, <2>3, PushGets, LocalStays DEF Gets
    <3>2. Does({o})
      BY <2>1, <2>2, <2>3, ObjectMeans DEF Does, IsObject, CreateAt, ReleaseThing, Counted, There, Ats
    <3>. QED BY <1>0, <2>1, <2>2, <3>1, <3>2, MethodKeeps
  <2>4. CASE obj' = [CreateAt(o, "freed") EXCEPT ![o].refs = 0] /\ frames' = frames /\ release' = release
    <3>1. Gets({})
      BY <2>1, <2>4, StackStays, LocalStays DEF Gets
    <3>2. obj' = [obj EXCEPT ![o] = [at |-> "freed", refs |-> 0]]
      BY <2>2, <2>4, ObjectMeans DEF CreateAt
    <3>3. Does({})
      <4>. DEFINE x == [at |-> "freed", refs |-> 0]
      <4>1. x \in [at : Ats, refs : Int] /\ Counted(x, 0, o \in decay') /\ x.at # "virtual"
        BY <2>1, <2>2 DEF Counted, Ats
      <4>2. release' = [release EXCEPT ![o] = 0] /\ decay' \subseteq Items
        BY <2>1, <2>2, <2>4, ObjectMeans
      <4>3. obj' = [obj EXCEPT ![o] = x]
        BY <3>2
      <4>. HIDE DEF x
      <4>4. Becomes(o, x, 0, {})
        BY <2>1, <2>2, <4>1, <4>2, <4>3 DEF Becomes
      <4>. QED BY <2>2, <4>4, OneChanges
    <3>. QED BY <1>0, <2>1, <3>1, <3>3, MethodKeeps
  <2>. QED BY <2>1, <2>3, <2>4
<1>. QED BY <1>1, <1>2

(* A thing leaves the world, or a temporary item goes to it.               *)
Removed(u) == [obj[u] EXCEPT !.at = "removed"]
Placed(u) == [obj[u] EXCEPT !.at = "world"]

LEMMA MovedCounted ==
  ASSUME ScriptInv, NEW u \in Objs, obj[u].at \in {"virtual", "world"}
  PROVE  /\ Removed(u) \in [at : Ats, refs : Int] /\ Counted(Removed(u), release[u] + 1, u \in decay)
         /\ Removed(u).at = "removed" /\ There(Removed(u))
         /\ Placed(u) \in [at : Ats, refs : Int] /\ Counted(Placed(u), release[u], u \in decay)
         /\ Placed(u).at = "world" /\ There(Placed(u))
         /\ release[u] \in Nat /\ release[u] + 1 \in Nat
<1>1. /\ obj[u] \in [at : Ats, refs : Int] /\ release[u] \in Nat
      /\ obj[u].refs = 1 + release[u] + (IF u \in decay THEN 1 ELSE 0)
  BY ObjectMeans DEF IsObject, Counted
<1>2. /\ Removed(u) = [at |-> "removed", refs |-> obj[u].refs] /\ Placed(u) = [at |-> "world", refs |-> obj[u].refs]
  BY <1>1 DEF Removed, Placed
<1>. QED BY <1>1, <1>2 DEF Counted, There, Ats

LEMMA RemovalDoes ==
  ASSUME ScriptInv, NEW u \in Objs, obj[u].at \in {"virtual", "world"}, NEW W, \A o \in W : There(obj[o]),
         obj' = [obj EXCEPT ![u].at = "removed"], release' = ReleaseThing(release, u),
         temp' = RemoveTempItem(u), decay' = decay
  PROVE  Does(W)
<1>1. obj' = [obj EXCEPT ![u] = Removed(u)] /\ release' = [release EXCEPT ![u] = release[u] + 1]
  BY DEF Removed, ReleaseThing
<1>2. (\A o \in W \ {u} : There(obj[o])) /\ (u \in W \/ There(obj[u]) => There(Removed(u))) /\ Removed(u).at # "virtual"
  BY MovedCounted
<1>3. (\A t \in temp : t[2] # u => t \in temp') /\ decay' \subseteq Items
  BY ObjectMeans DEF RemoveTempItem
<1>4. Becomes(u, Removed(u), release[u] + 1, W)
  BY <1>1, <1>2, <1>3, MovedCounted DEF Becomes
<1>. QED BY <1>4, OneChanges

LEMMA VirtualDoes ==
  ASSUME ScriptInv, NEW u \in Items, obj[u].at = "virtual", NEW kept, kept \in {temp, RemoveTempItem(u)},
         AddVirtual(u, kept), decay' = decay
  PROVE  Does({}) /\ IsTemp(temp', {}) /\ frames' = frames
<1>0. u \in Objs /\ decay' \subseteq Items
  BY ObjectMeans
<1>1. CASE obj' = [obj EXCEPT ![u].at = "world"] /\ temp' = kept /\ UNCHANGED <<release, frames>>
  <2>1. obj' = [obj EXCEPT ![u] = Placed(u)] /\ release' = [release EXCEPT ![u] = release[u]]
    BY <1>0, <1>1, ObjectMeans DEF Placed
  <2>2. \A t \in temp : t[2] # u => t \in temp'
    BY <1>1 DEF RemoveTempItem
  <2>3. Becomes(u, Placed(u), release[u], {})
    BY <1>0, <2>1, <2>2, MovedCounted DEF Becomes
  <2>. QED BY <1>0, <1>1, <2>3, OneChanges, LocalStays, TempLoses
<1>2. CASE /\ obj' = [obj EXCEPT ![u].at = "removed"] /\ temp' = RemoveTempItem(u)
           /\ release' = ReleaseThing(release, u) /\ UNCHANGED frames
  BY <1>0, <1>2, RemovalDoes, TempLoses
<1>3. CASE UNCHANGED <<obj, temp, release, frames>>
  BY <1>3, LeavesObjects, LocalStays
<1>. QED BY <1>1, <1>2, <1>3 DEF AddVirtual

LEMMA MoveKeeps ==
  ASSUME ScriptInv, AddItemEx \/ MoveTo \/ RemoveThing
  PROVE  ScriptInv'
<1>0. /\ results' = results /\ lastResultId' = lastResultId /\ lastResultId' \in Nat /\ results' \subseteq 1 .. lastResultId'
      /\ UNCHANGED <<index, local, luaTimers, due, ids, ran, off>> /\ decay' = decay
  BY DEF ScriptInv, ScriptTypes, AddItemEx, MoveTo, RemoveThing
<1>1. ASSUME NEW u \in Items, InScript(u), obj[u].at = "virtual", NEW kept, kept \in {temp, RemoveTempItem(u)},
             AddVirtual(u, kept)
      PROVE  ScriptInv'
  <2>1. Does({}) /\ IsTemp(temp', {}) /\ frames' = frames
    BY <1>0, <1>1, VirtualDoes
  <2>2. Gets({})
    BY <1>0, <2>1, StackStays, LocalStays DEF Gets
  <2>. QED BY <1>0, <1>1, <2>1, <2>2, MethodKeeps, InScriptIsThere
<1>2. CASE AddItemEx
  BY <1>1, <1>2 DEF AddItemEx
<1>3. CASE MoveTo
  <2>1. PICK u \in Items :
          /\ InScript(u)
          /\ \/ obj[u].at = "virtual" /\ AddVirtual(u, temp)
             \/ /\ obj[u].at = "world"
                /\ \E new \in {o \in Items \ {u} : obj[o].at = "world"} : frames' = SwapUserdata(u, {new})
                /\ obj' = [obj EXCEPT ![u].at = "removed"] /\ temp' = RemoveTempItem(u)
                /\ release' = ReleaseThing(release, u)
    BY <1>3 DEF MoveTo
  <2>2. CASE obj[u].at = "virtual" /\ AddVirtual(u, temp)
    BY <1>1, <2>1, <2>2
  <2>3. CASE /\ obj[u].at = "world"
             /\ \E new \in {o \in Items \ {u} : obj[o].at = "world"} : frames' = SwapUserdata(u, {new})
             /\ obj' = [obj EXCEPT ![u].at = "removed"] /\ temp' = RemoveTempItem(u)
             /\ release' = ReleaseThing(release, u)
    <3>1. PICK new \in Items : obj[new].at = "world" /\ frames' = SwapUserdata(u, {new})
      BY <2>3
    <3>2. {new} \in SUBSET Objs /\ (\A o \in {new} : There(obj[o])) /\ Running /\ u \in Objs
      BY <2>1, <3>1, InScriptIsThere DEF There, Objs
    <3>3. IsTop(frames', {new})
      BY <3>1, <3>2, SwapGets
    <3>4. Gets({new})
      BY <1>0, <2>3, <3>3, LocalStays, TempLoses DEF Gets
    <3>5. Does({new})
      BY <1>0, <2>3, <3>2, RemovalDoes
    <3>. QED BY <1>0, <3>2, <3>4, <3>5, MethodKeeps
  <2>. QED BY <2>1, <2>2, <2>3
<1>4. CASE RemoveThing
  <2>1. PICK u \in Objs :
          /\ InScript(u) /\ obj[u].at = "world" /\ obj' = [obj EXCEPT ![u].at = "removed"]
          /\ release' = ReleaseThing(release, u) /\ temp' = RemoveTempItem(u)
          /\ frames' \in {frames} \cup {SwapUserdata(c, {}) : c \in {u} \cap Creatures}
    BY <1>4 DEF RemoveThing
  <2>2. Running
    BY <2>1, InScriptIsThere
  <2>3. IsTop(frames', {})
    BY <2>1, <2>2, SwapGets, StackStays
  <2>4. Gets({})
    BY <1>0, <2>1, <2>3, LocalStays, TempLoses DEF Gets
  <2>5. Does({})
    BY <1>0, <2>1, RemovalDoes
  <2>. QED BY <1>0, <2>2, <2>4, <2>5, MethodKeeps
<1>. QED BY <1>2, <1>3, <1>4

(* clone(), split(), transform(): a new item for one of the script.        *)
NewItem(u) == [at |-> "virtual", refs |-> IF u \in Lasting THEN 2 ELSE 1]
Decaying(u, o) == IF u \in Lasting THEN decay \cup {o} ELSE decay

LEMMA NewCounted ==
  ASSUME ScriptInv, NEW u, NEW o, Unmade(o), (o \in Lasting <=> u \in Lasting), decay' = Decaying(u, o)
  PROVE  /\ NewItem(u) \in [at : Ats, refs : Int] /\ Counted(NewItem(u), 0, o \in decay') /\ There(NewItem(u))
         /\ NewItem(u).at = "virtual" /\ decay' \subseteq Items /\ \A p \in Objs \ {o} : p \in decay' <=> p \in decay
<1>1. o \in Items /\ o \notin decay /\ decay \subseteq Items
  BY UnmadeMeans, ObjectMeans
<1>2. o \in decay' <=> u \in Lasting
  BY <1>1 DEF Decaying
<1>3. decay' \subseteq Items /\ \A p \in Objs \ {o} : p \in decay' <=> p \in decay
  BY <1>1 DEF Decaying
<1>4. Counted(NewItem(u), 0, o \in decay')
  BY <1>2 DEF Counted, NewItem
<1>. QED BY <1>3, <1>4 DEF NewItem, There, Ats

LEMMA CloneDoes ==
  ASSUME ScriptInv, NEW u, NEW o, Unmade(o), (o \in Lasting <=> u \in Lasting), CloneOf(u, o), release' = release
  PROVE  Does({o}) /\ (Running => IsTemp(temp', {o}))
<1>1. o \in Items /\ o \in Objs /\ release[o] = 0 /\ decay' = Decaying(u, o) /\ temp' = AddTempItem(o)
  BY UnmadeMeans DEF CloneOf, Decaying
<1>2. obj' = [obj EXCEPT ![o] = NewItem(u)] /\ release' = [release EXCEPT ![o] = 0]
  <2>. DEFINE r == IF u \in Lasting THEN 2 ELSE 1
             made == CreateAt(o, "virtual")
  <2>1. obj' = [made EXCEPT ![o].refs = r]
    BY DEF CloneOf
  <2>2. made = [obj EXCEPT ![o] = [at |-> "virtual", refs |-> 1]]
    BY DEF CreateAt
  <2>. HIDE DEF r, made
  <2>3. obj' = [obj EXCEPT ![o] = [at |-> "virtual", refs |-> r]]
    <3>1. obj \in [Objs -> [at : Ats, refs : Int]] /\ o \in Objs /\ "virtual" \in Ats
      BY <1>1, ObjectMeans DEF Ats
    <3>2. made[o] = [at |-> "virtual", refs |-> 1] /\ DOMAIN made = Objs /\ \A p \in Objs \ {o} : made[p] = obj[p]
      BY <2>2, <3>1
    <3>3. obj' = [p \in Objs |-> IF p = o THEN [at |-> "virtual", refs |-> r] ELSE obj[p]]
      <4>1. obj' = [made EXCEPT ![o] = [made[o] EXCEPT !.refs = r]]
        BY <2>1
      <4>2. [made[o] EXCEPT !.refs = r] = [at |-> "virtual", refs |-> r]
        BY <3>2
      <4>3. made = [p \in Objs |-> IF p = o THEN [at |-> "virtual", refs |-> 1] ELSE obj[p]]
        BY <2>2, <3>1
      <4>. QED BY <4>1, <4>2, <4>3
    <3>. QED BY <3>1, <3>3
  <2>4. release' = [release EXCEPT ![o] = 0]
    BY <1>1, ObjectMeans
  <2>. QED BY <2>3, <2>4 DEF NewItem, r
<1>3. <<Top.env, o>> \in temp' /\ temp \subseteq temp'
  BY <1>1 DEF AddTempItem
<1>4. \E t \in temp' : t[2] = o
  BY <1>3
<1>5. Becomes(o, NewItem(u), 0, {o})
  BY <1>1, <1>2, <1>3, <1>4, NewCounted DEF Becomes
<1>. QED BY <1>1, <1>5, OneChanges, TempGets

(* An item is removed and a new one stands for it.                         *)
Replaces(u, o, y) ==
  /\ u # o /\ obj[u].at \in {"virtual", "world"} /\ y \in [at : Ats, refs : Int] /\ There(y)
  /\ Counted(y, release[o], o \in decay') /\ (y.at = "virtual" => \E t \in temp' : t[2] = o)
  /\ obj' = [obj EXCEPT ![u] = Removed(u), ![o] = y] /\ release' = ReleaseThing(release, u) /\ decay' \subseteq Items
  /\ (\A p \in Objs \ {o} : p \in decay' <=> p \in decay) /\ \A t \in temp : t[2] # u => t \in temp'

LEMMA ReplacementDoes ==
  ASSUME ScriptInv, NEW u \in Objs, NEW o \in Objs, NEW y, Replaces(u, o, y)
  PROVE  Does({o})
<1>. USE DEF Replaces
<1>1. /\ obj' \in [Objs -> [at : Ats, refs : Int]] /\ obj'[u] = Removed(u) /\ obj'[o] = y
      /\ \A p \in Objs \ {u, o} : obj'[p] = obj[p]
  BY ObjectMeans, MovedCounted
<1>2. /\ release' \in [Objs -> Nat] /\ release'[u] = release[u] + 1
      /\ \A p \in Objs \ {u} : release'[p] = release[p]
  BY ObjectMeans DEF ReleaseThing
<1>3. u \in decay' <=> u \in decay
  OBVIOUS
<1>4. Counted(Removed(u), release[u] + 1, u \in decay')
  BY <1>3, MovedCounted
<1>5. Fate(u, {o})
  BY <1>1, <1>2, <1>4, MovedCounted DEF Fate
<1>6. Fate(o, {o})
  BY <1>1, <1>2 DEF Fate
<1>7. ASSUME NEW p \in Objs \ {u, o} PROVE Fate(p, {o})
  BY <1>1, <1>2, FateOfOthers
<1>. QED BY <1>1, <1>2, <1>5, <1>6, <1>7, FatesMakeDoes, ZenonT(60)

LEMMA CopyKeeps ==
  ASSUME ScriptInv, Clone \/ Split \/ Transform
  PROVE  ScriptInv'
<1>0. /\ results' = results /\ lastResultId' = lastResultId /\ lastResultId' \in Nat /\ results' \subseteq 1 .. lastResultId'
      /\ UNCHANGED <<index, luaTimers, due, ids, ran, off>>
  BY DEF ScriptInv, ScriptTypes, Clone, Split, Transform
<1>1. ASSUME NEW u \in Items, InScript(u), NEW o \in Items, Unmade(o)
      PROVE  /\ {o} \in SUBSET Objs /\ o \in Objs /\ u \in Objs /\ u # o /\ Running /\ There(obj[u])
             /\ IsTop(Push(o), {o}) /\ IsTop(SwapUserdata(u, {o}), {o}) /\ release[o] = 0 /\ o \notin decay
             /\ local[Top.env] \in SUBSET Items
  <2>1. u \in Objs /\ There(obj[u]) /\ Running /\ o \in Objs /\ ~There(obj[o]) /\ release[o] = 0 /\ o \notin decay
    BY <1>1, InScriptIsThere, UnmadeMeans
  <2>2. IsTop(Push(o), {o}) /\ IsTop(SwapUserdata(u, {o}), {o})
    BY <2>1, PushGets, SwapGets
  <2>3. local[Top.env] \in SUBSET Items
    BY <2>1, TopMeans DEF ScriptInv, ScriptTypes
  <2>. QED BY <2>1, <2>2, <2>3
<1>2. ASSUME NEW u \in Items, NEW o \in Items, InScript(u), Unmade(o), (o \in Lasting <=> u \in Lasting),
             CloneOf(u, o), frames' = Push(o), release' = release,
             local' \in {local, [local EXCEPT ![Top.env] = @ \cup {u}]}
      PROVE  ScriptInv'
  <2>1. Does({o}) /\ IsTemp(temp', {o})
    BY <1>1, <1>2, CloneDoes
  <2>2. {u, o} \in SUBSET Objs /\ Running /\ There(obj[u])
    BY <1>1, <1>2
  <2>3. Does({u, o})
    BY <2>1, <2>2 DEF Does
  <2>4. IsTop(frames', {u, o}) /\ IsTemp(temp', {u, o})
    <3>1. IsTop(frames', {o}) /\ {o} \subseteq {u, o}
      BY <1>1, <1>2
    <3>. QED BY <2>1, <3>1, MoreGets
  <2>5. IsLocal(local', {u, o})
    <3>1. CASE local' = local
      BY <3>1, LocalStays
    <3>2. CASE local' = [local EXCEPT ![Top.env] = @ \cup {u}]
      <4>1. local[Top.env] \cup {u} \in SUBSET Items /\ local[Top.env] \cup {u} \subseteq local[Top.env] \cup {u, o}
        BY <1>1, <1>2
      <4>. QED BY <2>2, <3>2, <4>1, LocalGets
    <3>. QED BY <1>2, <3>1, <3>2
  <2>6. Gets({u, o})
    BY <1>0, <2>4, <2>5 DEF Gets
  <2>. QED BY <1>0, <2>2, <2>3, <2>6, MethodKeeps
<1>3. ASSUME NEW u \in Items, NEW o \in Items, InScript(u), Unmade(o), Does({o}), IsTemp(temp', {o}),
             frames' = SwapUserdata(u, {o}),
             local' \in {[local EXCEPT ![Top.env] = @ \ {u}], [local EXCEPT ![Top.env] = (@ \ {u}) \cup {o}]}
      PROVE  ScriptInv'
  <2>1. IsLocal(local', {o})
    <3>. DEFINE X == local[Top.env] \ {u}
               Y == X \cup {o}
    <3>1. X \in SUBSET Items /\ Y \in SUBSET Items /\ X \subseteq local[Top.env] \cup {o} /\ Y \subseteq local[Top.env] \cup {o} /\ Running
      BY <1>1, <1>3
    <3>2. local' = [local EXCEPT ![Top.env] = X] \/ local' = [local EXCEPT ![Top.env] = Y]
      BY <1>3
    <3>. HIDE DEF X, Y
    <3>3. CASE local' = [local EXCEPT ![Top.env] = X]
      BY <3>1, <3>3, LocalGets
    <3>4. CASE local' = [local EXCEPT ![Top.env] = Y]
      BY <3>1, <3>4, LocalGets
    <3>. QED BY <3>2, <3>3, <3>4
  <2>2. Gets({o})
    BY <1>0, <1>1, <1>3, <2>1 DEF Gets
  <2>. QED BY <1>0, <1>1, <1>3, <2>2, MethodKeeps
<1>4. CASE Clone
  BY <1>2, <1>4 DEF Clone
<1>5. CASE Split
  <2>1. PICK u \in Items, o \in Items :
          /\ InScript(u) /\ Unmade(o) /\ (o \in Lasting <=> u \in Lasting)
          /\ \/ CloneOf(u, o) /\ frames' = Push(o) /\ local' = [local EXCEPT ![Top.env] = @ \cup {u}]
                /\ release' = release
             \/ /\ obj[u].at = "world"
                /\ decay' = Decaying(u, o)
                /\ obj' = [obj EXCEPT ![u].at = "removed", ![o] = NewItem(u)]
                /\ temp' = RemoveTempItem(u) \cup {<<Top.env, o>>}
                /\ local' = [local EXCEPT ![Top.env] = @ \ {u}]
                /\ frames' = SwapUserdata(u, {o}) /\ release' = ReleaseThing(release, u)
    BY <1>5 DEF Split, Decaying, NewItem
  <2>2. CASE /\ obj[u].at = "world"
             /\ decay' = Decaying(u, o)
             /\ obj' = [obj EXCEPT ![u].at = "removed", ![o] = NewItem(u)]
             /\ temp' = RemoveTempItem(u) \cup {<<Top.env, o>>}
             /\ local' = [local EXCEPT ![Top.env] = @ \ {u}]
             /\ frames' = SwapUserdata(u, {o}) /\ release' = ReleaseThing(release, u)
    <3>1. obj' = [obj EXCEPT ![u] = Removed(u), ![o] = NewItem(u)]
      BY <2>2 DEF Removed
    <3>2. u \in Objs /\ o \in Objs /\ u # o /\ release[o] = 0 /\ Running
      BY <1>1, <2>1
    <3>3. /\ NewItem(u) \in [at : Ats, refs : Int] /\ Counted(NewItem(u), release[o], o \in decay') /\ There(NewItem(u))
          /\ decay' \subseteq Items /\ \A p \in Objs \ {o} : p \in decay' <=> p \in decay
      BY <2>1, <2>2, <3>2, NewCounted
    <3>4. <<Top.env, o>> \in temp' /\ (\A t \in temp : t[2] # u => t \in temp')
      BY <2>2 DEF RemoveTempItem
    <3>5. \E t \in temp' : t[2] = o
      BY <3>4
    <3>6. Does({o})
      <4>1. Replaces(u, o, NewItem(u))
        BY <2>2, <3>1, <3>2, <3>3, <3>4, <3>5 DEF Replaces
      <4>. QED BY <3>2, <4>1, ReplacementDoes
    <3>7. IsTemp(temp', {o})
      BY <2>2, <3>2, TempGets
    <3>. QED BY <1>3, <2>1, <2>2, <3>6, <3>7
  <2>. QED BY <1>2, <2>1, <2>2
<1>6. CASE Transform
  <2>1. PICK u \in Items :
          /\ InScript(u) /\ decay' = decay
          /\ \/ local' = [local EXCEPT ![Top.env] = @ \cup {u}] /\ UNCHANGED <<obj, frames, temp, release>>
             \/ \E o \in Items :
                  /\ obj[u].at = "world" /\ Unmade(o)
                  /\ obj' = [CreateAt(o, "world") EXCEPT ![u].at = "removed"]
                  /\ local' = [local EXCEPT ![Top.env] = (@ \ {u}) \cup {o}]
                  /\ temp' = RemoveTempItem(u)
                  /\ frames' = SwapUserdata(u, {o}) /\ release' = ReleaseThing(release, u)
    BY <1>6 DEF Transform
  <2>2. CASE local' = [local EXCEPT ![Top.env] = @ \cup {u}] /\ UNCHANGED <<obj, frames, temp, release>>
    <3>1. u \in Objs /\ There(obj[u]) /\ Running
      BY <2>1, InScriptIsThere
    <3>2. local[Top.env] \in SUBSET Items
      BY <3>1, TopMeans DEF ScriptInv, ScriptTypes
    <3>3. IsLocal(local', {u})
      BY <2>2, <3>1, <3>2, LocalGets
    <3>4. Gets({u})
      BY <1>0, <2>2, <3>3, StackStays, LocalStays DEF Gets
    <3>5. Does({u})
      BY <2>1, <2>2, <3>1, LeavesObjects
    <3>. QED BY <1>0, <3>1, <3>4, <3>5, MethodKeeps
  <2>3. ASSUME NEW o \in Items, obj[u].at = "world", Unmade(o),
               obj' = [CreateAt(o, "world") EXCEPT ![u].at = "removed"],
               local' = [local EXCEPT ![Top.env] = (@ \ {u}) \cup {o}],
               temp' = RemoveTempItem(u), frames' = SwapUserdata(u, {o}), release' = ReleaseThing(release, u)
        PROVE  ScriptInv'
    <3>. DEFINE y == [at |-> "world", refs |-> 1]
    <3>1. u \in Objs /\ o \in Objs /\ u # o /\ release[o] = 0 /\ Running /\ o \notin decay
      BY <1>1, <2>1, <2>3
    <3>2. y \in [at : Ats, refs : Int] /\ Counted(y, release[o], o \in decay') /\ There(y) /\ y.at # "virtual"
      BY <2>1, <3>1 DEF Counted, There, Ats
    <3>3. obj' = [[obj EXCEPT ![o] = y] EXCEPT ![u].at = "removed"]
      BY <2>3 DEF CreateAt
    <3>. HIDE DEF y
    <3>4. obj' = [obj EXCEPT ![u] = Removed(u), ![o] = y]
      BY <3>1, <3>3, ObjectMeans DEF Removed
    <3>5. (\A t \in temp : t[2] # u => t \in temp') /\ decay' \subseteq Items /\ \A p \in Objs \ {o} : p \in decay' <=> p \in decay
      BY <2>1, <2>3, ObjectMeans DEF RemoveTempItem
    <3>6. Does({o})
      <4>1. Replaces(u, o, y)
        BY <2>3, <3>1, <3>2, <3>4, <3>5 DEF Replaces
      <4>. QED BY <3>1, <4>1, ReplacementDoes
    <3>7. IsTemp(temp', {o})
      BY <2>3, TempLoses
    <3>. QED BY <1>3, <2>1, <2>3, <3>6, <3>7
  <2>. QED BY <2>1, <2>2, <2>3
<1>. QED BY <1>4, <1>5, <1>6

(* Query results and timer events.                                         *)
LEMMA EventsKeep ==
  ASSUME ScriptInv, StoreQuery \/ ResultFree \/ LuaAddEvent \/ LuaStopEvent \/ EventIsDue
  PROVE  ScriptInv'
<1>1. CASE StoreQuery
  <2>1. Gets({}) /\ Does({}) /\ Running
    BY <1>1, StackStays, LocalStays, LeavesObjects DEF StoreQuery, Gets
  <2>2. lastResultId' \in Nat /\ results' \subseteq 1 .. lastResultId'
    BY <1>1 DEF StoreQuery, ScriptInv, ScriptTypes
  <2>. QED BY <2>1, <2>2, MethodKeeps
<1>2. CASE ResultFree
  <2>1. Gets({}) /\ Does({}) /\ Running
    BY <1>2, StackStays, LocalStays, LeavesObjects DEF ResultFree, Gets
  <2>2. lastResultId' \in Nat /\ results' \subseteq 1 .. lastResultId'
    BY <1>2 DEF ResultFree, ScriptInv, ScriptTypes
  <2>. QED BY <2>1, <2>2, MethodKeeps
<1>3. CASE LuaAddEvent
  <2>1. PICK u \in Objs :
          /\ InScript(u) /\ ids' = ids + 1
          /\ luaTimers' = [id \in DOMAIN luaTimers \cup {ids} |-> IF id = ids THEN u ELSE luaTimers[id]]
          /\ local' = IF u \in Items /\ obj[u].at # "removed" THEN [local EXCEPT ![Top.env] = @ \cup {u}] ELSE local
          /\ UNCHANGED <<obj, index, frames, temp, release, decay, due, ran, off, results, lastResultId>>
    BY <1>3 DEF LuaAddEvent
  <2>2. u \in Objs /\ There(obj[u]) /\ Running
    BY <2>1, InScriptIsThere
  <2>3. IsLocal(local', {u})
    <3>1. CASE local' = local
      BY <3>1, LocalStays
    <3>2. CASE u \in Items /\ local' = [local EXCEPT ![Top.env] = @ \cup {u}]
      <4>1. local[Top.env] \cup {u} \in SUBSET Items /\ local[Top.env] \cup {u} \subseteq local[Top.env] \cup {u}
        BY <2>2, <3>2, TopMeans DEF ScriptInv, ScriptTypes
      <4>. QED BY <2>2, <3>2, <4>1, LocalGets
    <3>. QED BY <2>1, <3>1, <3>2
  <2>4. ScriptTypes'
    BY <2>1, <2>3 DEF ScriptInv, ScriptTypes, IsLocal
  <2>5. StackInv'
    BY <2>1, <2>3 DEF ScriptInv, StackInv, IsLocal
  <2>6. CountInv'
    BY <2>1 DEF ScriptInv, CountInv
  <2>7. HoldInv'
    <3>1. ASSUME NEW o \in Objs, Holds(o)' PROVE Holds(o) \/ o = u
      <4>1. CASE \E i \in DOMAIN frames : o \in frames[i].vars \cup local'[frames[i].env]
        <5>1. PICK i \in DOMAIN frames : o \in frames[i].vars \cup local'[frames[i].env]
          BY <4>1
        <5>2. frames[i] \in EnvFrames
          BY DEF ScriptInv, ScriptTypes
        <5>3. local'[frames[i].env] \subseteq local[frames[i].env] \cup {u}
          BY <2>3, <5>2 DEF EnvFrames, IsLocal
        <5>. QED BY <5>1, <5>3 DEF Holds
      <4>2. CASE \E t \in temp : t[2] = o
        BY <4>2 DEF Holds
      <4>. QED BY <2>1, <3>1, <4>1, <4>2 DEF Holds
    <3>. QED BY <2>1, <2>2, <3>1 DEF ScriptInv, HoldInv
  <2>8. EventInv'
    <3>1. ids \notin off /\ \A i \in DOMAIN ran : ran[i] # ids
      BY DEF ScriptInv, ScriptTypes
    <3>2. DOMAIN luaTimers' = DOMAIN luaTimers \cup {ids}
      BY <2>1
    <3>. QED BY <2>1, <3>1, <3>2 DEF ScriptInv, EventInv
  <2>. QED BY <2>4, <2>5, <2>6, <2>7, <2>8 DEF ScriptInv
<1>4. CASE LuaStopEvent \/ EventIsDue
  <2>1. UNCHANGED <<obj, index, frames, temp, local, release, decay, ids, ran, results, lastResultId>>
    BY <1>4 DEF LuaStopEvent, EventIsDue
  <2>2. StackInv' /\ CountInv' /\ HoldInv'
    BY <2>1 DEF ScriptInv, StackInv, CountInv, HoldInv, Holds
  <2>3. ScriptTypes'
    BY <1>4, <2>1 DEF LuaStopEvent, EventIsDue, Without, ScriptInv, ScriptTypes
  <2>4. EventInv'
    BY <1>4, <2>1 DEF LuaStopEvent, EventIsDue, Without, ScriptInv, ScriptTypes, EventInv
  <2>. QED BY <2>2, <2>3, <2>4 DEF ScriptInv
<1>. QED BY <1>1, <1>2, <1>3, <1>4

(* A script is called: its environment is clean.                           *)
LEMMA ReserveKeeps ==
  ASSUME ScriptInv, NEW held \in SUBSET Objs, \A o \in held : There(obj[o]), index + 1 < Envs, index + 1 <= MaxDepth,
         ReserveScriptEnv(held), UNCHANGED <<obj, temp, local, release, decay, results, lastResultId>>,
         ScriptAssumption
  PROVE  /\ index' \in Int /\ frames' \in Seq(EnvFrames) /\ StackInv' /\ CountInv' /\ HoldInv'
<1>1. /\ index = Len(frames) - 1 /\ frames \in Seq(EnvFrames) /\ Len(frames) \in Nat /\ index + 1 \in EnvIds
  <2>1. index = Len(frames) - 1 /\ frames \in Seq(EnvFrames) /\ Len(frames) \in Nat
    BY DEF ScriptInv, ScriptTypes, StackInv
  <2>. QED BY <2>1 DEF EnvIds, ScriptAssumption
<1>. DEFINE f == [env |-> index + 1, vars |-> held]
<1>2. f \in EnvFrames /\ index' = index + 1 /\ frames' = Append(frames, f)
  BY <1>1 DEF EnvFrames, ReserveScriptEnv
<1>3. f.env = index + 1 /\ f.vars = held
  OBVIOUS
<1>. HIDE DEF f
<1>4. /\ frames' \in Seq(EnvFrames) /\ Len(frames') = Len(frames) + 1 /\ frames'[Len(frames) + 1] = f
      /\ \A i \in DOMAIN frames : frames'[i] = frames[i]
      /\ DOMAIN frames' = DOMAIN frames \cup {Len(frames) + 1}
  BY <1>1, <1>2
<1>5. StackInv'
  <2>1. \A i \in DOMAIN frames' : frames'[i].env = i - 1
    BY <1>1, <1>3, <1>4 DEF ScriptInv, StackInv
  <2>2. \A e \in EnvIds : e > index' => local'[e] = {}
    BY <1>1, <1>2 DEF ScriptInv, StackInv, EnvIds
  <2>3. \A t \in temp' : t[1] <= index'
    <3>1. \A t \in temp : t[1] \in EnvIds /\ t[1] <= index
      BY DEF ScriptInv, ScriptTypes, StackInv
    <3>. QED BY <1>1, <1>2, <3>1 DEF EnvIds
  <2>4. index' = Len(frames') - 1 /\ index' < Envs /\ index' <= MaxDepth /\ frames' # <<>>
    BY <1>1, <1>2, <1>4
  <2>. QED BY <2>1, <2>2, <2>3, <2>4 DEF StackInv
<1>6. HoldInv'
  <2>1. local[index + 1] = {}
    BY <1>1 DEF ScriptInv, StackInv
  <2>2. ASSUME NEW o \in Objs, Holds(o)' PROVE Holds(o) \/ o \in held
    <3>1. CASE \E i \in DOMAIN frames' : o \in frames'[i].vars \cup local'[frames'[i].env]
      <4>1. PICK i \in DOMAIN frames' : o \in frames'[i].vars \cup local[frames'[i].env]
        BY <3>1
      <4>2. CASE i \in DOMAIN frames
        BY <1>4, <4>1, <4>2 DEF Holds
      <4>3. CASE i = Len(frames) + 1
        BY <1>3, <1>4, <2>1, <4>1, <4>3
      <4>. QED BY <1>4, <4>2, <4>3
    <3>2. CASE \E t \in temp' : t[2] = o
      BY <3>2 DEF Holds
    <3>. QED BY <2>2, <3>1, <3>2 DEF Holds
  <2>. QED BY <2>2 DEF ScriptInv, HoldInv
<1>. QED BY <1>1, <1>2, <1>4, <1>5, <1>6 DEF ScriptInv, CountInv

LEMMA CallKeeps ==
  ASSUME ScriptInv, ScriptAssumption, ScriptsAreShallow, CallScript \/ ExecuteTimerEvent
  PROVE  ScriptInv'
<1>0. /\ UNCHANGED <<obj, temp, local, release, decay, results, lastResultId, off, ids>>
      /\ MaxDepth \in Nat /\ Envs \in Nat \ {0} /\ index \in Int /\ MaxDepth <= Envs
  BY DEF CallScript, ExecuteTimerEvent, ScriptAssumption, ScriptsAreShallow, ScriptInv, ScriptTypes
<1>1. CASE CallScript
  <2>1. UNCHANGED <<luaTimers, due, ran>> /\ ReserveScriptEnv({}) /\ index + 1 < Envs /\ index + 1 <= MaxDepth
    BY <1>0, <1>1 DEF CallScript
  <2>2. /\ index' \in Int /\ frames' \in Seq(EnvFrames) /\ StackInv' /\ CountInv' /\ HoldInv'
    BY <1>0, <2>1, ReserveKeeps
  <2>3. ScriptTypes' /\ EventInv'
    BY <1>0, <2>1, <2>2 DEF ScriptInv, ScriptTypes, EventInv
  <2>. QED BY <2>2, <2>3 DEF ScriptInv
<1>2. CASE ExecuteTimerEvent
  <2>1. PICK id \in due :
          /\ frames = <<>> /\ due' = due \ {id}
          /\ IF id \in DOMAIN luaTimers
             THEN /\ luaTimers' = Without(luaTimers, id) /\ ran' = Append(ran, id)
                  /\ ReserveScriptEnv(ConvertUnsafe(luaTimers[id]))
             ELSE UNCHANGED <<luaTimers, ran, index, frames>>
    BY <1>2 DEF ExecuteTimerEvent
  <2>2. CASE id \in DOMAIN luaTimers
    <3>1. /\ ConvertUnsafe(luaTimers[id]) \in SUBSET Objs /\ \A o \in ConvertUnsafe(luaTimers[id]) : There(obj[o])
      BY DEF ConvertUnsafe, There, Objs
    <3>2. index = -1
      BY <2>1 DEF ScriptInv, StackInv
    <3>3. /\ index' \in Int /\ frames' \in Seq(EnvFrames) /\ StackInv' /\ CountInv' /\ HoldInv'
      BY <1>0, <2>1, <2>2, <3>1, <3>2, ReserveKeeps
    <3>4. /\ DOMAIN luaTimers' = DOMAIN luaTimers \ {id} /\ \A i \in DOMAIN luaTimers' : luaTimers'[i] = luaTimers[i]
      BY <2>1, <2>2 DEF Without
    <3>5. /\ ran \in Seq(0 .. ids - 1) /\ id \in 0 .. ids - 1 /\ Len(ran) \in Nat
      BY <2>1 DEF ScriptInv, ScriptTypes
    <3>6. /\ ran' \in Seq(0 .. ids - 1) /\ DOMAIN ran' = DOMAIN ran \cup {Len(ran) + 1} /\ ran'[Len(ran) + 1] = id
          /\ \A i \in DOMAIN ran : ran'[i] = ran[i]
      <4>. DEFINE S == 0 .. ids - 1
      <4>1. ran \in Seq(S) /\ id \in S /\ ran' = Append(ran, id) /\ DOMAIN ran = 1 .. Len(ran)
        BY <2>1, <2>2, <3>5
      <4>. HIDE DEF S
      <4>2. ran' \in Seq(S) /\ Len(ran') = Len(ran) + 1 /\ ran'[Len(ran) + 1] = id /\ \A i \in DOMAIN ran : ran'[i] = ran[i]
        BY <4>1
      <4>3. DOMAIN ran' = DOMAIN ran \cup {Len(ran) + 1}
        BY <3>5, <4>1, <4>2
      <4>. QED BY <4>2, <4>3 DEF S
    <3>7. ScriptTypes'
      BY <1>0, <2>1, <3>3, <3>4, <3>6 DEF ScriptInv, ScriptTypes
    <3>8. EventInv'
      <4>1. \A i \in DOMAIN ran : ran[i] # id
        BY <2>2 DEF ScriptInv, EventInv
      <4>2. id \notin off
        BY <2>2 DEF ScriptInv, EventInv
      <4>. QED BY <1>0, <3>4, <3>6, <4>1, <4>2 DEF ScriptInv, EventInv
    <3>. QED BY <3>3, <3>7, <3>8 DEF ScriptInv
  <2>3. CASE id \notin DOMAIN luaTimers
    <3>1. UNCHANGED <<luaTimers, ran, index, frames>>
      BY <2>1, <2>3
    <3>2. StackInv' /\ CountInv' /\ HoldInv' /\ EventInv'
      BY <1>0, <3>1 DEF ScriptInv, StackInv, CountInv, HoldInv, Holds, EventInv
    <3>3. ScriptTypes'
      BY <1>0, <2>1, <3>1 DEF ScriptInv, ScriptTypes
    <3>. QED BY <3>2, <3>3 DEF ScriptInv
  <2>. QED BY <2>2, <2>3
<1>. QED BY <1>1, <1>2

(* The script is over: what is temporary is released.                      *)
LEMMA EndKeeps ==
  ASSUME ScriptInv, ScriptAssumption, EndScript
  PROVE  ScriptInv'
<1>1. /\ index = Len(frames) - 1 /\ frames \in Seq(EnvFrames) /\ Len(frames) \in Nat /\ Len(frames) > 0
      /\ index \in EnvIds /\ index < Envs /\ index \in Int /\ DOMAIN frames = 1 .. Len(frames)
      /\ local \in [EnvIds -> SUBSET Items]
  <2>1. /\ index = Len(frames) - 1 /\ frames \in Seq(EnvFrames) /\ Len(frames) \in Nat /\ Len(frames) > 0 /\ index < Envs
        /\ local \in [EnvIds -> SUBSET Items] /\ DOMAIN frames = 1 .. Len(frames)
    BY DEF EndScript, ScriptInv, ScriptTypes, StackInv
  <2>. QED BY <2>1 DEF EnvIds, ScriptAssumption
<1>. DEFINE gone == {o \in Items : <<index, o>> \in temp /\ StillVirtual(o)}
<1>2. /\ obj' = [o \in Objs |-> [obj[o] EXCEPT !.at = IF o \in gone /\ @ = "virtual" THEN "dropped" ELSE @]]
      /\ release' = [o \in Objs |-> IF o \in gone THEN release[o] + 1 ELSE release[o]]
      /\ temp' = {t \in temp : t[1] # index}
      /\ local' = [local EXCEPT ![index] = {}]
      /\ results' = {} /\ index' = index - 1 /\ frames' = Front(frames)
      /\ UNCHANGED <<decay, luaTimers, due, ids, ran, off, lastResultId>>
  BY <1>1 DEF EndScript, ResetEnv
<1>3. \A o \in gone : o \in Objs /\ obj[o].at = "virtual"
  BY ObjectMeans DEF StillVirtual
<1>4. \A t \in temp : t[2] \in Items /\ t = <<t[1], t[2]>>
  BY DEF ScriptInv, ScriptTypes
<1>5. \A o \in Items : <<index, o>> \in temp /\ obj[o].at = "virtual" => o \in gone
  BY DEF StillVirtual
<1>. HIDE DEF gone
<1>6. ASSUME NEW o \in gone
      PROVE  /\ obj'[o] = [at |-> "dropped", refs |-> obj[o].refs] /\ release'[o] = release[o] + 1
  <2>1. o \in Objs /\ obj[o].at = "virtual" /\ obj[o] \in [at : Ats, refs : Int]
    BY <1>3, ObjectMeans
  <2>. QED BY <1>2, <2>1
<1>7. ASSUME NEW o \in Objs \ gone PROVE obj'[o] = obj[o] /\ release'[o] = release[o]
  <2>1. obj[o] \in [at : Ats, refs : Int]
    BY ObjectMeans
  <2>. QED BY <1>2, <2>1
<1>8. \A o \in Objs : /\ obj'[o] \in [at : Ats, refs : Int] /\ release'[o] \in Nat
                      /\ Counted(obj'[o], release'[o], o \in decay')
                      /\ (There(obj[o]) => There(obj'[o]))
                      /\ (obj'[o].at = "virtual" => obj[o].at = "virtual" /\ o \notin gone)
  <2>1. ASSUME NEW o \in gone
        PROVE  /\ obj'[o] \in [at : Ats, refs : Int] /\ release'[o] \in Nat /\ obj'[o].at = "dropped"
               /\ Counted(obj'[o], release'[o], o \in decay') /\ There(obj'[o])
    <3>1. /\ obj[o] \in [at : Ats, refs : Int] /\ release[o] \in Nat /\ obj[o].at = "virtual"
          /\ Counted(obj[o], release[o], o \in decay) /\ decay' = decay
      BY <1>2, <1>3, ObjectMeans DEF IsObject
    <3>2. obj[o].refs = 1 + release[o] + (IF o \in decay THEN 1 ELSE 0)
      BY <3>1 DEF Counted
    <3>3. obj'[o].at = "dropped" /\ obj'[o].refs = obj[o].refs /\ release'[o] = release[o] + 1 /\ obj[o].refs \in Int
      <4>1. obj'[o] = [at |-> "dropped", refs |-> obj[o].refs] /\ release'[o] = release[o] + 1
        BY <1>6
      <4>2. obj[o].refs \in Int
        BY <3>1
      <4>. QED BY <4>1, <4>2
    <3>4. Counted(obj'[o], release'[o], o \in decay')
      BY <3>1, <3>2, <3>3 DEF Counted
    <3>5. obj'[o] = [at |-> "dropped", refs |-> obj[o].refs]
      BY <1>6
    <3>6. obj'[o] \in [at : Ats, refs : Int] /\ There(obj'[o])
      BY <3>3, <3>5 DEF There, Ats
    <3>. QED BY <3>1, <3>3, <3>4, <3>6
  <2>2. ASSUME NEW o \in Objs \ gone
        PROVE  /\ obj'[o] \in [at : Ats, refs : Int] /\ release'[o] \in Nat
               /\ Counted(obj'[o], release'[o], o \in decay')
    BY <1>2, <1>7, ObjectMeans DEF IsObject
  <2>. QED BY <1>7, <2>1, <2>2
<1>9. frames' \in Seq(EnvFrames) /\ Len(frames') = Len(frames) - 1 /\ \A i \in DOMAIN frames' : i \in DOMAIN frames /\ frames'[i] = frames[i]
  BY <1>1, <1>2 DEF Front
<1>10. StackInv'
  <2>1. \A i \in DOMAIN frames' : frames'[i].env = i - 1
    BY <1>9 DEF ScriptInv, StackInv
  <2>2. \A e \in EnvIds : e > index' => local'[e] = {}
    BY <1>1, <1>2 DEF ScriptInv, StackInv, EnvIds
  <2>3. \A t \in temp' : t[1] <= index'
    <3>1. \A t \in temp' : t[1] \in EnvIds /\ t[1] <= index /\ t[1] # index
      BY <1>2 DEF ScriptInv, ScriptTypes, StackInv
    <3>. QED BY <1>1, <1>2, <3>1 DEF EnvIds
  <2>4. MaxDepth >= index' /\ index' < Envs
    BY <1>1, <1>2 DEF ScriptInv, StackInv, ScriptAssumption
  <2>. QED BY <1>1, <1>2, <1>9, <2>1, <2>2, <2>3, <2>4 DEF StackInv
<1>11. HoldInv'
  <2>1. ASSUME NEW o \in Objs, Holds(o)' PROVE Holds(o)
    <3>1. CASE \E i \in DOMAIN frames' : o \in frames'[i].vars \cup local'[frames'[i].env]
      <4>1. PICK i \in DOMAIN frames : o \in frames[i].vars \cup local'[frames[i].env]
        BY <1>9, <3>1
      <4>2. frames[i].env \in EnvIds
        <5>1. frames[i] \in EnvFrames
          BY <1>1
        <5>. QED BY <5>1 DEF EnvFrames
      <4>3. local'[frames[i].env] \subseteq local[frames[i].env]
        BY <1>1, <1>2, <4>2
      <4>. QED BY <4>1, <4>3 DEF Holds
    <3>2. CASE \E t \in temp' : t[2] = o
      BY <1>2, <3>2 DEF Holds
    <3>. QED BY <2>1, <3>1, <3>2 DEF Holds
  <2>2. ASSUME NEW o \in Objs, obj'[o].at = "virtual" PROVE \E t \in temp' : t[2] = o
    <3>1. obj[o].at = "virtual" /\ o \notin gone
      BY <1>8, <2>2
    <3>2. PICK t \in temp : t[2] = o
      BY <3>1 DEF ScriptInv, HoldInv
    <3>3. t[1] # index
      BY <1>4, <1>5, <3>1, <3>2
    <3>. QED BY <1>2, <3>2, <3>3
  <2>. QED BY <1>8, <2>1, <2>2 DEF ScriptInv, HoldInv
<1>12. CountInv'
  BY <1>8 DEF CountInv
<1>13. EventInv'
  BY <1>2 DEF ScriptInv, EventInv
<1>14. ScriptTypes'
  <2>1. obj' \in [Objs -> [at : Ats, refs : Int]] /\ release' \in [Objs -> Nat]
    BY <1>2, <1>8
  <2>2. temp' \subseteq EnvIds \X Items /\ local' \in [EnvIds -> SUBSET Items] /\ results' \subseteq 1 .. lastResultId'
    BY <1>1, <1>2 DEF ScriptInv, ScriptTypes
  <2>. QED BY <1>1, <1>2, <1>9, <2>1, <2>2 DEF ScriptInv, ScriptTypes
<1>. QED BY <1>10, <1>11, <1>12, <1>13, <1>14 DEF ScriptInv

(* Memory: what has no owner any more is freed, and nothing else.          *)
LEMMA CleanupCounts ==
  ASSUME ScriptInv, Cleanup, decay' = decay, NEW o \in Objs
  PROVE  /\ obj'[o] \in [at : Ats, refs : Int] /\ release'[o] \in Nat
         /\ Counted(obj'[o], release'[o], o \in decay')
         /\ (obj[o].at \in {"virtual", "world"} => There(obj'[o]))
         /\ (obj'[o].at = "virtual" => obj[o].at = "virtual")
<1>. DEFINE left == obj[o].refs - release[o]
<1>1. /\ obj'[o] = IF release[o] = 0 THEN obj[o] ELSE [at |-> IF left <= 0 THEN "freed" ELSE obj[o].at, refs |-> left]
      /\ release'[o] = 0
  BY DEF Cleanup
<1>2. /\ obj[o] \in [at : Ats, refs : Int] /\ release[o] \in Nat /\ Counted(obj[o], release[o], o \in decay)
  BY ObjectMeans DEF IsObject
<1>3. CASE release[o] = 0
  BY <1>1, <1>2, <1>3 DEF There
<1>4. CASE release[o] # 0 /\ left > 0
  <2>1. obj'[o] = [at |-> obj[o].at, refs |-> left] /\ left \in Int
    BY <1>1, <1>2, <1>4
  <2>2. left = obj[o].refs - release[o]
    OBVIOUS
  <2>. HIDE DEF left
  <2>3. Counted(obj'[o], 0, o \in decay')
    BY <1>2, <1>4, <2>1, <2>2 DEF Counted
  <2>. QED BY <1>1, <1>2, <2>1, <2>3 DEF There
<1>5. CASE release[o] # 0 /\ left <= 0
  <2>1. obj'[o] = [at |-> "freed", refs |-> left] /\ left \in Int
    BY <1>1, <1>2, <1>5
  <2>2. left = obj[o].refs - release[o]
    OBVIOUS
  <2>. HIDE DEF left
  <2>3. left = 0 /\ o \notin decay /\ obj[o].at \in {"removed", "dropped"}
    BY <1>2, <1>5, <2>2 DEF Counted, Ats
  <2>. QED BY <1>1, <2>1, <2>3 DEF Counted, There, Ats
<1>6. left \in Int
  BY <1>2
<1>. QED BY <1>3, <1>4, <1>5, <1>6

LEMMA CleanupKeeps ==
  ASSUME ScriptInv, ScriptAssumption, CleanupTask \/ StartWalk
  PROVE  ScriptInv'
<1>1. Cleanup /\ UNCHANGED <<index, frames, temp, local, decay, luaTimers, due, ids, ran, off, results, lastResultId>>
  BY DEF CleanupTask, StartWalk
<1>2. ASSUME NEW o \in Objs, Holds(o) PROVE obj[o].at \in {"virtual", "world"}
  <2>1. CASE StartWalk
    BY <1>2, <2>1 DEF StartWalk, HoldsNothingRemoved
  <2>2. CASE CleanupTask
    <3>1. frames = <<>> /\ index = -1
      BY <2>2 DEF CleanupTask, ScriptInv, StackInv
    <3>2. temp = {}
      <4>1. \A t \in temp : t[1] \in EnvIds /\ t[1] <= -1
        BY <3>1 DEF ScriptInv, ScriptTypes, StackInv
      <4>. QED BY <4>1 DEF EnvIds
    <3>. QED BY <1>2, <3>1, <3>2 DEF Holds
  <2>. QED BY <2>1, <2>2
<1>3. CountInv' /\ HoldInv'
  <2>1. \A o \in Objs : Counted(obj'[o], release'[o], o \in decay')
    BY <1>1, CleanupCounts
  <2>2. \A o \in Objs : (Holds(o)' <=> Holds(o))
    BY <1>1 DEF Holds
  <2>3. \A o \in Objs : Holds(o)' => There(obj'[o])
    BY <1>1, <1>2, <2>2, CleanupCounts
  <2>4. \A o \in Objs : obj'[o].at = "virtual" => \E t \in temp' : t[2] = o
    BY <1>1, CleanupCounts DEF ScriptInv, HoldInv
  <2>. QED BY <2>1, <2>3, <2>4 DEF CountInv, HoldInv
<1>4. ScriptTypes'
  <2>1. obj' \in [Objs -> [at : Ats, refs : Int]] /\ release' \in [Objs -> Nat]
    <3>1. DOMAIN obj' = Objs /\ DOMAIN release' = Objs /\ obj' = [o \in Objs |-> obj'[o]] /\ release' = [o \in Objs |-> release'[o]]
      BY <1>1 DEF Cleanup
    <3>. QED BY <1>1, <3>1, CleanupCounts
  <2>. QED BY <1>1, <2>1 DEF ScriptInv, ScriptTypes
<1>5. StackInv' /\ EventInv'
  BY <1>1 DEF ScriptInv, StackInv, EventInv
<1>. QED BY <1>3, <1>4, <1>5 DEF ScriptInv

LEMMA DecayKeeps ==
  ASSUME ScriptInv, ScriptAssumption, CheckDecay
  PROVE  ScriptInv'
<1>1. PICK o \in decay :
        /\ frames = <<>> /\ decay' = decay \ {o}
        /\ IF obj[o].at = "world"
           THEN /\ obj' = [obj EXCEPT ![o].at = "removed"]
                /\ release' = [release EXCEPT ![o] = @ + 2]
           ELSE release' = ReleaseThing(release, o) /\ obj' = obj
        /\ UNCHANGED <<index, frames, temp, local, luaTimers, due, ids, ran, off, results, lastResultId>>
  BY DEF CheckDecay
<1>2. o \in Objs /\ obj[o] \in [at : Ats, refs : Int] /\ release[o] \in Nat /\ Counted(obj[o], release[o], TRUE)
  BY <1>1, ObjectMeans DEF IsObject
<1>3. There(obj[o])
  BY <1>2 DEF Counted, There
<1>4. Does({})
  <2>1. CASE obj[o].at = "world"
    <3>1. obj' = [obj EXCEPT ![o] = Removed(o)] /\ release' = [release EXCEPT ![o] = release[o] + 2]
      BY <1>1, <2>1 DEF Removed
    <3>2. Removed(o) = [at |-> "removed", refs |-> obj[o].refs]
      BY <1>2 DEF Removed
    <3>3. Counted(Removed(o), release[o] + 2, o \in decay')
      BY <1>1, <1>2, <2>1, <3>2 DEF Counted
    <3>4. Becomes(o, Removed(o), release[o] + 2, {})
      BY <1>1, <1>2, <3>1, <3>2, <3>3, ObjectMeans DEF Becomes, There, Ats
    <3>. QED BY <1>2, <3>4, OneChanges
  <2>2. CASE obj[o].at # "world"
    <3>1. obj' = [obj EXCEPT ![o] = obj[o]] /\ release' = [release EXCEPT ![o] = release[o] + 1]
      BY <1>1, <2>2, ObjectMeans DEF ReleaseThing
    <3>3. Counted(obj[o], release[o] + 1, o \in decay')
      BY <1>1, <1>2, <2>2 DEF Counted
    <3>5. obj[o].at = "virtual" => \E t \in temp' : t[2] = o
      BY <1>1, <1>2 DEF ScriptInv, HoldInv
    <3>4. Becomes(o, obj[o], release[o] + 1, {})
      BY <1>1, <1>2, <3>1, <3>3, <3>5, ObjectMeans DEF Becomes
    <3>. QED BY <1>2, <3>4, OneChanges
  <2>. QED BY <2>1, <2>2
<1>5. CountInv' /\ HoldInv'
  <2>1. \A p \in Objs : (Holds(p)' <=> Holds(p))
    BY <1>1 DEF Holds
  <2>2. \A p \in Objs : Holds(p)' => There(obj'[p])
    BY <1>4, <2>1 DEF ScriptInv, HoldInv, Does
  <2>. QED BY <1>4, <2>2 DEF Does, CountInv, HoldInv
<1>6. ScriptTypes' /\ StackInv' /\ EventInv'
  BY <1>1, <1>4 DEF Does, ScriptInv, ScriptTypes, StackInv, EventInv
<1>. QED BY <1>5, <1>6 DEF ScriptInv

LEMMA ScriptInvInit == ASSUME ScriptAssumption, ScriptInit PROVE ScriptInv
<1>. USE DEF ScriptInit
<1>1. ScriptTypes
  BY DEF ScriptTypes, Ats, EnvIds
<1>2. StackInv
  BY DEF StackInv, EnvIds, ScriptAssumption
<1>3. CountInv
  BY DEF CountInv, Counted
<1>4. HoldInv
  BY DEF HoldInv, Holds, There
<1>5. EventInv
  BY DEF EventInv
<1>. QED BY <1>1, <1>2, <1>3, <1>4, <1>5 DEF ScriptInv

LEMMA ScriptInvNext ==
  ASSUME ScriptAssumption, ScriptsAreShallow, ScriptInv, [ScriptNext]_scriptVars
  PROVE  ScriptInv'
<1>1. CASE UNCHANGED scriptVars
  BY <1>1 DEF scriptVars, ScriptInv, ScriptTypes, StackInv, CountInv, HoldInv, Holds, EventInv
<1>2. CASE PushUserdata \/ GetUniqueId \/ ItemByUID
  BY <1>2, LookupKeeps
<1>3. CASE GameCreateItem \/ AddItem
  BY <1>3, CreateKeeps
<1>4. CASE AddItemEx \/ MoveTo \/ RemoveThing
  BY <1>4, MoveKeeps
<1>5. CASE Clone \/ Split \/ Transform
  BY <1>5, CopyKeeps
<1>6. CASE StoreQuery \/ ResultFree \/ LuaAddEvent \/ LuaStopEvent \/ EventIsDue
  BY <1>6, EventsKeep
<1>7. CASE CallScript \/ ExecuteTimerEvent
  BY <1>7, CallKeeps
<1>8. CASE EndScript
  BY <1>8, EndKeeps
<1>9. CASE CleanupTask \/ StartWalk
  BY <1>9, CleanupKeeps
<1>10. CASE CheckDecay
  BY <1>10, DecayKeeps
<1>. QED BY <1>1, <1>2, <1>3, <1>4, <1>5, <1>6, <1>7, <1>8, <1>9, <1>10 DEF ScriptNext

LEMMA ScriptInvMeans == ASSUME ScriptAssumption, ScriptInv PROVE ScriptsAgree
<1>0. \A o \in Objs : IsObject(o)
  BY ObjectMeans
<1>1. ScriptTypeOK
  <2>1. \A o \in Objs : obj[o].at \in Ats /\ obj[o].refs \in Int /\ release[o] \in Nat
    BY <1>0 DEF IsObject
  <2>2. index \in -1 .. MaxDepth
    BY DEF ScriptInv, ScriptTypes, StackInv, ScriptAssumption
  <2>3. \A i \in DOMAIN frames : frames[i].vars \subseteq Objs
    <3>1. \A i \in DOMAIN frames : frames[i] \in EnvFrames
      BY DEF ScriptInv, ScriptTypes
    <3>. QED BY <3>1 DEF EnvFrames
  <2>4. /\ temp \subseteq (0 .. Envs - 1) \X Items /\ decay \subseteq Items
        /\ due \subseteq 0 .. ids /\ results \subseteq 1 .. lastResultId
    BY DEF ScriptInv, ScriptTypes, EnvIds
  <2>. QED BY <2>1, <2>2, <2>3, <2>4 DEF ScriptTypeOK
<1>2. PointersAreAlive
  <2>1. \A o \in Items : o \in decay => obj[o].at # "freed"
    BY <1>0 DEF IsObject, Counted, Objs
  <2>2. \A o \in Objs : Holds(o) => obj[o].at # "freed"
    BY <1>0 DEF IsObject, There
  <2>. QED BY <2>1, <2>2 DEF PointersAreAlive, ItemReadable, CreatureReadable, Objs
<1>3. ReferencesAreCounted
  BY DEF ScriptInv, CountInv, Counted, ReferencesAreCounted
<1>4. ScriptsLeaveNothing
  <2>1. SUFFICES ASSUME frames = <<>>
                 PROVE  /\ temp = {} /\ results = {} /\ index = -1 /\ \A e \in DOMAIN local : local[e] = {}
                        /\ \A o \in Items : obj[o].at # "virtual"
    BY DEF ScriptsLeaveNothing
  <2>2. index = -1 /\ results = {}
    BY <2>1 DEF ScriptInv, StackInv
  <2>3. temp = {}
    <3>1. \A t \in temp : t[1] \in EnvIds /\ t[1] <= -1
      BY <2>2 DEF ScriptInv, ScriptTypes, StackInv
    <3>. QED BY <3>1 DEF EnvIds
  <2>4. \A e \in DOMAIN local : local[e] = {}
    BY <2>2 DEF ScriptInv, ScriptTypes, StackInv, EnvIds
  <2>5. \A o \in Items : obj[o].at # "virtual"
    BY <2>3 DEF ScriptInv, HoldInv, Objs
  <2>. QED BY <2>2, <2>3, <2>4, <2>5
<1>5. TimersRunOnce
  BY DEF ScriptInv, EventInv, TimersRunOnce
<1>. QED BY <1>1, <1>2, <1>3, <1>4, <1>5 DEF ScriptsAgree

(* Nothing that a running script holds is freed, every reference counter   *)
(* counts the owners, scripts leave nothing behind, and a timer event runs *)
(* at most once and never after stopEvent() (luascript.cpp, Game::cleanup),*)
(* while scripts are nested no deeper than there are environments.         *)
THEOREM ScriptsStaySound ==
  ASSUME ScriptAssumption, ScriptsAreShallow
  PROVE  ScriptSpec => []ScriptsAgree
<1>1. ScriptInit => ScriptInv
  BY ScriptInvInit
<1>2. ScriptInv /\ [ScriptNext]_scriptVars => ScriptInv'
  BY ScriptInvNext
<1>3. ScriptInv => ScriptsAgree
  BY ScriptInvMeans
<1>. QED BY <1>1, <1>2, <1>3, PTL DEF ScriptSpec

-----------------------------------------------------------------------------
(* The NPCs and their shops (npc.cpp).                                     *)

(* What an NPC, a player and the world of the NPCs may be. *)
NpcStates == [there : BOOLEAN, handler : BOOLEAN, idle : BOOLEAN, spectators : SUBSET Customers,
              focus : BOOLEAN, shop : SUBSET Customers, pos : 0 .. StreetEnd]
ClientStates == [online : BOOLEAN, pos : 0 .. StreetEnd, owner : Npcs \cup {NoNpc},
                 buy : (1 .. MaxRefs) \cup {NoRef}, sell : (1 .. MaxRefs) \cup {NoRef}, items : BOOLEAN]
NpcWorlds == [npc : [Npcs -> NpcStates], client : [Customers -> ClientStates],
           refs : SUBSET (1 .. MaxRefs), faults : SUBSET {"dead", "twice", "crash"}]

(* A world is its four parts. *)
LEMMA NpcWorldParts ==
  ASSUME NEW w \in NpcWorlds
  PROVE  /\ w.npc \in [Npcs -> NpcStates] /\ w.client \in [Customers -> ClientStates]
         /\ w.refs \in SUBSET (1 .. MaxRefs) /\ w.faults \in SUBSET {"dead", "twice", "crash"}
         /\ w = [npc |-> w.npc, client |-> w.client, refs |-> w.refs, faults |-> w.faults]
  BY DEF NpcWorlds

(* removeShopPlayer() takes the player from one shop and changes nothing   *)
(* else.                                                                   *)
LEMMA RemoveShopPlayerDoes ==
  ASSUME NEW w \in NpcWorlds, NEW n \in Npcs, NEW p \in Customers
  PROVE  LET v == RemoveShopPlayer(w, n, p) IN
         /\ v \in NpcWorlds /\ v.client = w.client /\ v.refs = w.refs /\ v.faults = w.faults
         /\ v.npc = [w.npc EXCEPT ![n] = [w.npc[n] EXCEPT !.shop = w.npc[n].shop \ {p}]]
  BY ZenonT(60) DEF RemoveShopPlayer, NpcWorlds, NpcStates

(* What setShopOwner() leaves. *)
Owns(v, w, p, n, buy, sell) ==
  /\ v \in NpcWorlds /\ v.npc = w.npc /\ v.refs = w.refs /\ v.faults = w.faults
  /\ v.client = [w.client EXCEPT ![p] = [w.client[p] EXCEPT !.owner = n, !.buy = buy, !.sell = sell]]

(* setShopOwner() changes the player only. *)
LEMMA SetShopOwnerDoes ==
  ASSUME NEW w \in NpcWorlds, NEW p \in Customers, NEW n \in Npcs \cup {NoNpc},
         NEW buy \in (1 .. MaxRefs) \cup {NoRef}, NEW sell \in (1 .. MaxRefs) \cup {NoRef}
  PROVE  Owns(SetShopOwner(w, p, n, buy, sell), w, p, n, buy, sell)
  BY ZenonT(60) DEF SetShopOwner, NpcWorlds, ClientStates, Owns

(* luaL_unref() of a reference in use, or of none, is no fault. *)
LEMMA UnrefDoes ==
  ASSUME NEW w \in NpcWorlds, NEW r \in (1 .. MaxRefs) \cup {NoRef}, r # NoRef => r \in w.refs
  PROVE  LET v == Unref(w, r) IN
         /\ v \in NpcWorlds /\ v.npc = w.npc /\ v.client = w.client /\ v.faults = w.faults
         /\ v.refs = w.refs \ {r}
<1>1. NoRef \notin 1 .. MaxRefs
  BY DEF NoRef
<1>. QED BY <1>1 DEF Unref, NpcWorlds

(* The references of a player's window; a player without a window; an NPC  *)
(* with fewer customers.                                                   *)
Held(c) == {c.buy, c.sell} \ {NoRef}
Shut(c, i) == [c EXCEPT !.owner = NoNpc, !.buy = NoRef, !.sell = NoRef, !.items = i]
NpcWithout(s, P) == [s EXCEPT !.shop = s.shop \ P]

(* CustomersAgree and RefsAreOwned, with what they need from one step to   *)
(* the next: a player without a shop holds no reference, and the two       *)
(* references of a window differ.                                          *)
ShopsAgree(w) ==
  /\ w.faults = {}
  /\ \A n \in Npcs, p \in Customers : p \in w.npc[n].shop <=> w.client[p].owner = n
  /\ \A n \in Npcs, p \in Customers :
        w.client[p].owner = n => w.npc[n].there /\ w.npc[n].handler /\ w.client[p].online
  /\ \A p \in Customers : w.client[p].owner = NoNpc => w.client[p].buy = NoRef /\ w.client[p].sell = NoRef
  /\ \A p \in Customers : w.client[p].buy # NoRef => w.client[p].buy # w.client[p].sell
  /\ \A p, q \in Customers : p # q => Held(w.client[p]) \cap Held(w.client[q]) = {}
  /\ \A p \in Customers : Held(w.client[p]) \subseteq w.refs
  /\ \A r \in w.refs : \E p \in Customers : r \in Held(w.client[p])

(* What Player::closeShopWindow() leaves. *)
Shuts(v, w, p, i) ==
  /\ v \in NpcWorlds /\ v.faults = {}
  /\ v.client = [w.client EXCEPT ![p] = Shut(w.client[p], i)]
  /\ v.refs = w.refs \ Held(w.client[p])
  /\ v.npc = [n \in Npcs |-> NpcWithout(w.npc[n], {p})]

(* closeShopWindow() releases the references of the window, and the        *)
(* player is a customer of nobody.                                         *)
LEMMA CloseShopWindowDoes ==
  ASSUME NpcsAssumption, NEW w \in NpcWorlds, ShopsAgree(w), NEW p \in Customers
  PROVE  Shuts(CloseShopWindow(w, p), w, p, FALSE)
<1>. DEFINE c == w.client[p]
<1>1. c \in ClientStates /\ w.npc \in [Npcs -> NpcStates] /\ w.client \in [Customers -> ClientStates] /\ NoNpc \notin Npcs
  BY NpcWorldParts DEF NpcsAssumption
<1>2. CASE c.owner = NoNpc
  <2>1. c.buy = NoRef /\ c.sell = NoRef /\ Held(c) = {} /\ \A n \in Npcs : p \notin w.npc[n].shop
    BY <1>1, <1>2 DEF ShopsAgree, Held
  <2>2. \A n \in Npcs : NpcWithout(w.npc[n], {p}) = w.npc[n]
    BY <1>1, <2>1, ZenonT(60) DEF NpcWithout, NpcStates
  <2>3. [n \in Npcs |-> NpcWithout(w.npc[n], {p})] = w.npc
    BY <1>1, <2>2
  <2>4. Shut(c, FALSE) = [c EXCEPT !.items = FALSE]
    BY <1>1, <1>2, <2>1 DEF Shut, ClientStates
  <2>5. CloseShopWindow(w, p) = [w EXCEPT !.client[p].items = FALSE]
    BY <1>2 DEF CloseShopWindow
  <2>6. [w EXCEPT !.client[p].items = FALSE].client = [w.client EXCEPT ![p] = Shut(c, FALSE)]
    BY <2>4, NpcWorldParts DEF NpcWorlds
  <2>7. /\ [w EXCEPT !.client[p].items = FALSE].npc = w.npc /\ [w EXCEPT !.client[p].items = FALSE].refs = w.refs
        /\ [w EXCEPT !.client[p].items = FALSE].faults = w.faults /\ [w EXCEPT !.client[p].items = FALSE] \in NpcWorlds
    BY ZenonT(60) DEF NpcWorlds, ClientStates
  <2>. QED BY <2>1, <2>3, <2>5, <2>6, <2>7 DEF Shuts, ShopsAgree
<1>3. CASE c.owner # NoNpc
  <2>. DEFINE n == c.owner
              w1 == SetShopOwner(w, p, NoNpc, NoRef, NoRef)
              w2 == Unref(w1, c.buy)
              w3 == Unref(w2, c.sell)
              w4 == RemoveShopPlayer(w3, n, p)
  <2>1. n \in Npcs /\ c.buy \in (1 .. MaxRefs) \cup {NoRef} /\ c.sell \in (1 .. MaxRefs) \cup {NoRef}
    BY <1>1, <1>3 DEF ClientStates
  <2>2. /\ w1 \in NpcWorlds /\ w1.npc = w.npc /\ w1.refs = w.refs /\ w1.faults = w.faults
        /\ w1.client = [w.client EXCEPT ![p] = [w.client[p] EXCEPT !.owner = NoNpc, !.buy = NoRef, !.sell = NoRef]]
    <3>1. NoNpc \in Npcs \cup {NoNpc} /\ NoRef \in (1 .. MaxRefs) \cup {NoRef}
      OBVIOUS
    <3>2. Owns(w1, w, p, NoNpc, NoRef, NoRef)
      BY <3>1, SetShopOwnerDoes
    <3>. QED BY <3>2 DEF Owns
  <2>3. Held(c) \subseteq w.refs /\ (c.buy # NoRef => c.buy # c.sell) /\ w.npc[n].handler /\ w.faults = {}
    BY <2>1 DEF ShopsAgree
  <2>. HIDE DEF w1
  <2>4. /\ w2 \in NpcWorlds /\ w2.npc = w.npc /\ w2.client = w1.client /\ w2.faults = {}
        /\ w2.refs = w.refs \ {c.buy}
    BY <2>1, <2>2, <2>3, UnrefDoes DEF Held
  <2>. HIDE DEF w2
  <2>5. /\ w3 \in NpcWorlds /\ w3.npc = w.npc /\ w3.client = w1.client /\ w3.faults = {}
        /\ w3.refs = (w.refs \ {c.buy}) \ {c.sell}
    BY <2>1, <2>2, <2>3, <2>4, UnrefDoes DEF Held
  <2>. HIDE DEF w3
  <2>6. /\ w4 \in NpcWorlds /\ w4.client = w1.client /\ w4.faults = {} /\ w4.refs = (w.refs \ {c.buy}) \ {c.sell}
        /\ w4.npc = [w.npc EXCEPT ![n] = [w.npc[n] EXCEPT !.shop = w.npc[n].shop \ {p}]]
    BY <2>1, <2>5, RemoveShopPlayerDoes
  <2>7. OnPlayerEndTrade(w1, n, p, c.buy, c.sell) = w4
    BY <2>2, <2>3 DEF OnPlayerEndTrade, w2, w3
  <2>. HIDE DEF w4
  <2>8. CloseShopWindow(w, p) = [w4 EXCEPT !.client[p].items = FALSE]
    BY <1>3, <2>7 DEF CloseShopWindow, w1
  <2>. DEFINE v == [w4 EXCEPT !.client[p].items = FALSE]
  <2>9. /\ v.npc = w4.npc /\ v.refs = w4.refs /\ v.faults = w4.faults /\ v \in NpcWorlds
        /\ v.client = [w4.client EXCEPT ![p] = [w4.client[p] EXCEPT !.items = FALSE]]
    <3>1. v.npc = w4.npc /\ v.refs = w4.refs /\ v.faults = w4.faults
      BY <2>6 DEF NpcWorlds
    <3>2. v.client = [w4.client EXCEPT ![p] = [w4.client[p] EXCEPT !.items = FALSE]]
      BY <2>6 DEF NpcWorlds
    <3>3. v \in NpcWorlds
      <4>1. [w4.client[p] EXCEPT !.items = FALSE] \in ClientStates
        <5>1. w4.client[p] \in ClientStates
          BY <2>6, NpcWorldParts
        <5>. QED BY <5>1 DEF ClientStates
      <4>2. [w4.client EXCEPT ![p] = [w4.client[p] EXCEPT !.items = FALSE]] \in [Customers -> ClientStates]
        BY <2>6, <4>1, NpcWorldParts
      <4>. QED BY <2>6, <4>2 DEF NpcWorlds
    <3>. QED BY <3>1, <3>2, <3>3
  <2>. HIDE DEF v
  <2>10. v.client = [w.client EXCEPT ![p] = Shut(w.client[p], FALSE)]
    <3>1. [[c EXCEPT !.owner = NoNpc, !.buy = NoRef, !.sell = NoRef] EXCEPT !.items = FALSE] = Shut(c, FALSE)
      BY <1>1 DEF Shut, ClientStates
    <3>2. w1.client[p] = [c EXCEPT !.owner = NoNpc, !.buy = NoRef, !.sell = NoRef]
      BY <1>1, <2>2
    <3>3. v.client[p] = Shut(c, FALSE)
      <4>1. w4.client[p] = [c EXCEPT !.owner = NoNpc, !.buy = NoRef, !.sell = NoRef]
        BY <2>6, <3>2
      <4>2. v.client[p] = [w4.client[p] EXCEPT !.items = FALSE]
        BY <2>6, <2>9, NpcWorldParts
      <4>. QED BY <3>1, <4>1, <4>2
    <3>4. \A q \in Customers : q # p => v.client[q] = w.client[q]
      BY <2>2, <2>6, <2>9, NpcWorldParts
    <3>5. v.client \in [Customers -> ClientStates]
      BY <2>9, NpcWorldParts
    <3>. QED BY <1>1, <3>3, <3>4, <3>5
  <2>11. NoRef \notin w.refs
    BY NpcWorldParts DEF NoRef
  <2>12. v.refs = w.refs \ Held(c)
    BY <2>6, <2>9, <2>11 DEF Held
  <2>13. \A m \in Npcs : m # n => p \notin w.npc[m].shop
    BY <2>1 DEF ShopsAgree
  <2>14. ASSUME NEW m \in Npcs PROVE w4.npc[m] = NpcWithout(w.npc[m], {p})
    <3>1. w.npc[m] \in NpcStates
      BY <1>1
    <3>2. CASE m = n
      BY <1>1, <2>1, <2>6, <3>2 DEF NpcWithout
    <3>3. CASE m # n
      <4>1. w4.npc[m] = w.npc[m] /\ p \notin w.npc[m].shop
        BY <1>1, <2>1, <2>6, <2>13, <3>3
      <4>2. NpcWithout(w.npc[m], {p}) = w.npc[m]
        BY <3>1, <4>1 DEF NpcWithout, NpcStates
      <4>. QED BY <4>1, <4>2
    <3>. QED BY <3>2, <3>3
  <2>15. w4.npc = [m \in Npcs |-> NpcWithout(w.npc[m], {p})]
    BY <2>6, <2>14, NpcWorldParts
  <2>. QED BY <2>6, <2>8, <2>9, <2>10, <2>12, <2>15 DEF Shuts, v
<1>. QED BY <1>2, <1>3

(* The same, player by player and NPC by NPC. *)
AfterShut(v, w, p) ==
  /\ ShopsAgree(v)
  /\ \A q \in Customers : q # p => v.client[q] = w.client[q]
  /\ v.client[p].owner = NoNpc
  /\ v.client[p].online = w.client[p].online /\ v.client[p].pos = w.client[p].pos
  /\ \A n \in Npcs : v.npc[n] = NpcWithout(w.npc[n], {p})

(* A window that is closed leaves shops and references in agreement. *)
LEMMA ShutAgrees ==
  ASSUME NpcsAssumption, NEW w \in NpcWorlds, ShopsAgree(w), NEW p \in Customers, NEW v, NEW i \in BOOLEAN,
         Shuts(v, w, p, i)
  PROVE  AfterShut(v, w, p)
<1>1. \A q \in Customers : w.client[q] \in ClientStates /\ v.client[q] = IF q = p THEN Shut(w.client[p], i) ELSE w.client[q]
  BY NpcWorldParts DEF Shuts
<1>2. /\ v.client[p].owner = NoNpc /\ v.client[p].buy = NoRef /\ v.client[p].sell = NoRef
      /\ v.client[p].online = w.client[p].online /\ v.client[p].pos = w.client[p].pos
  BY <1>1 DEF Shut, ClientStates
<1>3. Held(v.client[p]) = {} /\ \A q \in Customers : q # p => v.client[q] = w.client[q]
  BY <1>1, <1>2 DEF Held
<1>4. \A n \in Npcs : /\ v.npc[n] = NpcWithout(w.npc[n], {p}) /\ v.npc[n].shop = w.npc[n].shop \ {p}
                      /\ v.npc[n].there = w.npc[n].there /\ v.npc[n].handler = w.npc[n].handler
  BY NpcWorldParts DEF Shuts, NpcWithout, NpcStates
<1>5. v.refs = w.refs \ Held(w.client[p]) /\ v.faults = {}
  BY DEF Shuts
<1>6. NoNpc \notin Npcs
  BY DEF NpcsAssumption
<1>7. \A n \in Npcs, q \in Customers : q \in v.npc[n].shop <=> v.client[q].owner = n
  BY <1>2, <1>3, <1>4, <1>6 DEF ShopsAgree
<1>8. \A n \in Npcs, q \in Customers :
        v.client[q].owner = n => v.npc[n].there /\ v.npc[n].handler /\ v.client[q].online
  BY <1>2, <1>3, <1>4, <1>6 DEF ShopsAgree
<1>9. \A q \in Customers : v.client[q].owner = NoNpc => v.client[q].buy = NoRef /\ v.client[q].sell = NoRef
  BY <1>2, <1>3 DEF ShopsAgree
<1>10. \A q \in Customers : v.client[q].buy # NoRef => v.client[q].buy # v.client[q].sell
  BY <1>2, <1>3 DEF ShopsAgree
<1>11. \A q, r \in Customers : q # r => Held(v.client[q]) \cap Held(v.client[r]) = {}
  BY <1>3 DEF ShopsAgree
<1>12. \A q \in Customers : Held(v.client[q]) \subseteq v.refs
  BY <1>3, <1>5 DEF ShopsAgree
<1>13. \A r \in v.refs : \E q \in Customers : r \in Held(v.client[q])
  <2>. TAKE r \in v.refs
  <2>1. PICK q \in Customers : r \in Held(w.client[q])
    BY <1>5 DEF ShopsAgree
  <2>2. q # p
    BY <1>5, <2>1
  <2>. QED BY <1>3, <2>1, <2>2
<1>14. ShopsAgree(v)
  BY <1>5, <1>7, <1>8, <1>9, <1>10, <1>11, <1>12, <1>13 DEF ShopsAgree
<1>. QED BY <1>2, <1>3, <1>4, <1>14 DEF AfterShut

(* What closing windows leaves: nobody moves, comes or goes, and the       *)
(* windows of D are closed.                                                *)
Closes(v, w, D) ==
  /\ v \in NpcWorlds /\ ShopsAgree(v)
  /\ \A n \in Npcs : v.npc[n].shop \subseteq w.npc[n].shop /\ v.npc[n] = [w.npc[n] EXCEPT !.shop = v.npc[n].shop]
  /\ \A p \in Customers : v.client[p].online = w.client[p].online /\ v.client[p].pos = w.client[p].pos
  /\ \A d \in D : d[2] \notin v.npc[d[1]].shop

(* closeShopWindow() closes the window of this player. *)
LEMMA CloseShopWindowCloses ==
  ASSUME NpcsAssumption, NEW w \in NpcWorlds, ShopsAgree(w), NEW p \in Customers
  PROVE  Closes(CloseShopWindow(w, p), w, Npcs \X {p})
<1>. DEFINE v == CloseShopWindow(w, p)
<1>1. Shuts(v, w, p, FALSE)
  BY CloseShopWindowDoes
<1>. HIDE DEF v
<1>2. v \in NpcWorlds
  BY <1>1 DEF Shuts
<1>3. /\ ShopsAgree(v)
      /\ \A q \in Customers : q # p => v.client[q] = w.client[q]
      /\ v.client[p].online = w.client[p].online /\ v.client[p].pos = w.client[p].pos
      /\ \A m \in Npcs : v.npc[m] = NpcWithout(w.npc[m], {p})
  <2>1. AfterShut(v, w, p)
    BY <1>1, ShutAgrees
  <2>. QED BY <2>1 DEF AfterShut
<1>4. \A m \in Npcs : w.npc[m] \in NpcStates
  BY NpcWorldParts
<1>5. ASSUME NEW m \in Npcs
      PROVE v.npc[m].shop = w.npc[m].shop \ {p} /\ v.npc[m] = [w.npc[m] EXCEPT !.shop = v.npc[m].shop]
  <2>1. v.npc[m] = [w.npc[m] EXCEPT !.shop = w.npc[m].shop \ {p}]
    BY <1>3 DEF NpcWithout
  <2>2. v.npc[m].shop = w.npc[m].shop \ {p}
    BY <1>4, <2>1 DEF NpcStates
  <2>. QED BY <2>1, <2>2
<1>6. \A q \in Customers : v.client[q].online = w.client[q].online /\ v.client[q].pos = w.client[q].pos
  BY <1>3
<1>7. \A d \in Npcs \X {p} : d[2] \notin v.npc[d[1]].shop
  <2>1. \A n \in Npcs : p \notin v.npc[n].shop
    BY <1>5
  <2>2. \A d \in Npcs \X {p} : d[1] \in Npcs /\ d[2] = p
    OBVIOUS
  <2>. QED BY <2>1, <2>2
<1>8. Closes(v, w, Npcs \X {p})
  BY <1>2, <1>3, <1>5, <1>6, <1>7 DEF Closes
<1>. QED BY <1>8 DEF v

(* So does a turn of the loop of Npc::closeAllShopWindows(). *)
LEMMA CloseWindowCloses ==
  ASSUME NpcsAssumption, NEW w \in NpcWorlds, ShopsAgree(w), NEW p \in Customers, NEW n \in Npcs
  PROVE  Closes(CloseWindow(w, n, p), w, {<<n, p>>})
<1>1. CASE w.client[p].owner # NoNpc
  <2>1. Closes(CloseShopWindow(w, p), w, Npcs \X {p})
    BY CloseShopWindowCloses
  <2>2. \A d \in {<<n, p>>} : d \in Npcs \X {p}
    OBVIOUS
  <2>3. Closes(CloseShopWindow(w, p), w, {<<n, p>>})
    BY <2>1, <2>2 DEF Closes
  <2>. QED BY <1>1, <2>3 DEF CloseWindow
<1>2. CASE w.client[p].owner = NoNpc
  <2>. DEFINE v == RemoveShopPlayer(w, n, p)
  <2>1. /\ v \in NpcWorlds /\ v.client = w.client /\ v.refs = w.refs /\ v.faults = w.faults
        /\ v.npc = [w.npc EXCEPT ![n] = [w.npc[n] EXCEPT !.shop = w.npc[n].shop \ {p}]]
    BY RemoveShopPlayerDoes
  <2>. HIDE DEF v
  <2>2. p \notin w.npc[n].shop /\ w.npc[n] \in NpcStates
    BY <1>2, NpcWorldParts DEF ShopsAgree, NpcsAssumption
  <2>3. [w.npc[n] EXCEPT !.shop = w.npc[n].shop \ {p}] = w.npc[n]
    BY <2>2 DEF NpcStates
  <2>4. v.npc = w.npc
    BY <2>1, <2>3, NpcWorldParts
  <2>5. v = w
    BY <2>1, <2>4, NpcWorldParts
  <2>6. \A m \in Npcs : w.npc[m] \in NpcStates
    BY NpcWorldParts
  <2>7. \A m \in Npcs : w.npc[m] = [w.npc[m] EXCEPT !.shop = w.npc[m].shop]
    BY <2>6 DEF NpcStates
  <2>8. Closes(w, w, {<<n, p>>})
    BY <2>2, <2>7 DEF Closes
  <2>. QED BY <1>2, <2>5, <2>8 DEF CloseWindow, v
<1>. QED BY <1>1, <1>2

(* One closing after the other is a closing of both. *)
LEMMA ClosesOn ==
  ASSUME NEW u, NEW v, NEW w \in NpcWorlds, NEW D, NEW E, NEW F, Closes(u, v, D), Closes(v, w, E),
         \A d \in F : d \in Npcs \X Customers /\ (d \in D \/ d \in E)
  PROVE  Closes(u, w, F)
<1>1. \A n \in Npcs : /\ u.npc[n].shop \subseteq v.npc[n].shop /\ v.npc[n].shop \subseteq w.npc[n].shop
                      /\ v.npc[n] = [w.npc[n] EXCEPT !.shop = v.npc[n].shop]
                      /\ u.npc[n] = [v.npc[n] EXCEPT !.shop = u.npc[n].shop] /\ w.npc[n] \in NpcStates
  BY NpcWorldParts, ZenonT(60) DEF Closes
<1>2. \A n \in Npcs : u.npc[n] = [w.npc[n] EXCEPT !.shop = u.npc[n].shop]
  BY <1>1, ZenonT(60) DEF NpcStates
<1>3. \A d \in F : d[1] \in Npcs /\ d[2] \notin u.npc[d[1]].shop
  BY <1>1 DEF Closes
<1>. QED BY <1>1, <1>2, <1>3, ZenonT(60) DEF Closes

(* The loop of closeAllShopWindows() as a function of the windows it has   *)
(* closed.                                                                 *)
OpenWindows(w, ns) == {c \in ns \X Customers : c[2] \in w.npc[c[1]].shop}
AnyOf(cs) == CHOOSE d \in cs : TRUE
IsClosing(f, w, D) ==
  f = [cs \in D |-> IF cs = {} THEN w ELSE CloseWindow(f[cs \ {AnyOf(cs)}], AnyOf(cs)[1], AnyOf(cs)[2])]
UpTo(S, n) == {T \in SUBSET S : Cardinality(T) <= n}

(* A set of numbers with 0 and every successor is Nat. *)
LEMMA SetInduction ==
  ASSUME NEW G, G \subseteq Nat, 0 \in G, \A n \in Nat : n \in G => n + 1 \in G
  PROVE  G = Nat
<1>. DEFINE B == Nat \ G
            R == OpToRel(<, Nat)
<1>. SUFFICES ASSUME B # {} PROVE FALSE
  OBVIOUS
<1>1. IsWellFoundedOn(R, Nat)
  BY NatLessThanWellFounded
<1>2. \A x, y \in Nat : <<x, y>> \in R <=> x < y
  BY DEF OpToRel
<1>. HIDE DEF R
<1>3. PICK n \in B : \A m \in B : ~(<<m, n>> \in R)
  BY <1>1, WFMin
<1>4. n # 0 /\ n - 1 \in Nat /\ n - 1 < n
  BY <1>3
<1>5. n - 1 \in G
  BY <1>2, <1>3, <1>4
<1>. QED BY <1>3, <1>4, <1>5

(* A finite set without the element that is chosen from it is smaller. *)
LEMMA OneLess ==
  ASSUME NEW S, IsFiniteSet(S), NEW n \in Nat, NEW T \in UpTo(S, n + 1), T # {}
  PROVE  AnyOf(T) \in T /\ T \ {AnyOf(T)} \in UpTo(S, n) /\ IsFiniteSet(T)
<1>1. AnyOf(T) \in T
  BY DEF AnyOf
<1>2. T \subseteq S /\ Cardinality(T) <= n + 1
  BY DEF UpTo
<1>3. IsFiniteSet(T)
  BY <1>2, FS_Subset
<1>4. Cardinality(T) \in Nat
  BY <1>3, FS_CardinalityType
<1>5. Cardinality(T \ {AnyOf(T)}) = Cardinality(T) - 1
  BY <1>1, <1>3, FS_RemoveElement
<1>6. Cardinality(T \ {AnyOf(T)}) <= n
  BY <1>2, <1>4, <1>5
<1>. QED BY <1>1, <1>2, <1>3, <1>6 DEF UpTo

(* The function that the loop is defined by exists. *)
LEMMA ClosingExists ==
  ASSUME NEW S, IsFiniteSet(S), NEW w, NEW k \in Nat
  PROVE  \E f : IsClosing(f, w, UpTo(S, k))
<1>. DEFINE G == {n \in Nat : \E f : IsClosing(f, w, UpTo(S, n))}
<1>1. 0 \in G
  <2>1. \A T \in UpTo(S, 0) : T = {}
    <3>. TAKE T \in UpTo(S, 0)
    <3>1. IsFiniteSet(T) /\ Cardinality(T) <= 0
      BY FS_Subset DEF UpTo
    <3>2. Cardinality(T) \in Nat
      BY <3>1, FS_CardinalityType
    <3>3. Cardinality(T) = 0
      BY <3>1, <3>2
    <3>. QED BY <3>1, <3>3, FS_EmptySet
  <2>2. IsClosing([T \in UpTo(S, 0) |-> w], w, UpTo(S, 0))
    BY <2>1 DEF IsClosing
  <2>. QED BY <2>2
<1>2. ASSUME NEW n \in Nat, n \in G PROVE n + 1 \in G
  <2>1. PICK f : IsClosing(f, w, UpTo(S, n))
    BY <1>2
  <2>. DEFINE D == UpTo(S, n)
              E == UpTo(S, n + 1)
              Then(T) == CloseWindow(f[T \ {AnyOf(T)}], AnyOf(T)[1], AnyOf(T)[2])
              g == [T \in E |-> IF T = {} THEN w ELSE Then(T)]
  <2>2. D \subseteq E
    <3>1. \A T \in D : IsFiniteSet(T) /\ Cardinality(T) <= n /\ T \in SUBSET S
      BY FS_Subset DEF UpTo
    <3>2. \A T \in D : Cardinality(T) \in Nat
      BY <3>1, FS_CardinalityType
    <3>3. \A T \in D : Cardinality(T) <= n + 1
      BY <3>1, <3>2
    <3>. QED BY <3>1, <3>3 DEF UpTo
  <2>3. \A T \in D : f[T] = IF T = {} THEN w ELSE Then(T)
    BY <2>1 DEF IsClosing
  <2>4. \A T \in D : g[T] = f[T]
    BY <2>2, <2>3
  <2>5. \A T \in E : T # {} => T \ {AnyOf(T)} \in D
    BY OneLess
  <2>6. \A T \in E : g[T] = IF T = {} THEN w ELSE CloseWindow(g[T \ {AnyOf(T)}], AnyOf(T)[1], AnyOf(T)[2])
    BY <2>4, <2>5
  <2>7. g = [T \in E |-> g[T]]
    OBVIOUS
  <2>8. IsClosing(g, w, E)
    <3>. HIDE DEF g, E, D
    <3>. QED BY <2>6, <2>7 DEF IsClosing
  <2>. QED BY <2>8
<1>3. G = Nat
  <2>. HIDE DEF G
  <2>1. G \subseteq Nat
    BY DEF G
  <2>. QED BY <1>1, <1>2, <2>1, SetInduction
<1>. QED BY <1>3

(* closeAllShopWindows() closes every window of these NPCs and breaks      *)
(* nothing.                                                                *)
LEMMA AllShopsCloses ==
  ASSUME NpcsAssumption, NEW w \in NpcWorlds, ShopsAgree(w), NEW ns \in SUBSET Npcs
  PROVE  Closes(CloseAllShopWindows(w, ns), w, OpenWindows(w, ns))
<1>. DEFINE S == OpenWindows(w, ns)
            N == Cardinality(S)
            f == CHOOSE g : IsClosing(g, w, SUBSET S)
<1>1. IsFiniteSet(S) /\ S \subseteq Npcs \X Customers
  <2>1. IsFiniteSet(Npcs \X Customers)
    BY FS_Product DEF NpcsAssumption
  <2>2. S \subseteq Npcs \X Customers
    BY DEF OpenWindows
  <2>. QED BY <2>1, <2>2, FS_Subset
<1>. HIDE DEF S
<1>2. N \in Nat
  BY <1>1, FS_CardinalityType
<1>3. UpTo(S, N) = SUBSET S
  <2>1. \A T \in SUBSET S : Cardinality(T) <= N
    BY <1>1, FS_Subset
  <2>. QED BY <2>1 DEF UpTo
<1>4. IsClosing(f, w, SUBSET S)
  <2>1. \E g : IsClosing(g, w, SUBSET S)
    <3>1. PICK g : IsClosing(g, w, UpTo(S, N))
      BY <1>1, <1>2, ClosingExists
    <3>. QED BY <1>3, <3>1
  <2>. QED BY <2>1
<1>5. CloseAllShopWindows(w, ns) = f[S]
  BY DEF CloseAllShopWindows, IsClosing, AnyOf, S, OpenWindows
<1>. HIDE DEF f, N
<1>6. \A T \in SUBSET S : f[T] = IF T = {} THEN w ELSE CloseWindow(f[T \ {AnyOf(T)}], AnyOf(T)[1], AnyOf(T)[2])
  BY <1>4 DEF IsClosing
<1>. DEFINE G == {n \in Nat : \A T \in UpTo(S, n) : Closes(f[T], w, T)}
<1>7. Closes(w, w, {})
  <2>1. \A m \in Npcs : w.npc[m] \in NpcStates
    BY NpcWorldParts
  <2>2. \A m \in Npcs : w.npc[m] = [w.npc[m] EXCEPT !.shop = w.npc[m].shop]
    BY <2>1 DEF NpcStates
  <2>. QED BY <2>2 DEF Closes
<1>8. 0 \in G
  <2>1. \A T \in UpTo(S, 0) : T = {}
    <3>. TAKE T \in UpTo(S, 0)
    <3>1. IsFiniteSet(T) /\ Cardinality(T) <= 0
      BY <1>1, FS_Subset DEF UpTo
    <3>2. Cardinality(T) \in Nat
      BY <3>1, FS_CardinalityType
    <3>3. Cardinality(T) = 0
      BY <3>1, <3>2
    <3>. QED BY <3>1, <3>3, FS_EmptySet
  <2>2. f[{}] = w
    BY <1>6
  <2>. QED BY <1>7, <2>1, <2>2
<1>9. ASSUME NEW n \in Nat, n \in G PROVE n + 1 \in G
  <2>. SUFFICES ASSUME NEW T \in UpTo(S, n + 1) PROVE Closes(f[T], w, T)
    OBVIOUS
  <2>1. T \in SUBSET S
    BY DEF UpTo
  <2>2. CASE T = {}
    BY <1>6, <1>7, <2>1, <2>2
  <2>3. CASE T # {}
    <3>. DEFINE c == AnyOf(T)
                v == f[T \ {c}]
    <3>1. c \in T /\ T \ {c} \in UpTo(S, n)
      BY <1>1, <2>3, OneLess
    <3>2. Closes(v, w, T \ {c})
      BY <1>9, <3>1
    <3>3. c \in Npcs \X Customers /\ c = <<c[1], c[2]>> /\ c[1] \in Npcs /\ c[2] \in Customers
      BY <1>1, <2>1, <3>1
    <3>4. f[T] = CloseWindow(v, c[1], c[2])
      BY <1>6, <2>1, <2>3
    <3>. HIDE DEF c, v
    <3>5. v \in NpcWorlds /\ ShopsAgree(v)
      BY <3>2 DEF Closes
    <3>6. Closes(CloseWindow(v, c[1], c[2]), v, {<<c[1], c[2]>>})
      BY <3>3, <3>5, CloseWindowCloses
    <3>7. \A d \in T : d \in Npcs \X Customers /\ (d \in {<<c[1], c[2]>>} \/ d \in T \ {c})
      BY <1>1, <2>1, <3>3
    <3>. QED BY <3>2, <3>4, <3>6, <3>7, ClosesOn
  <2>. QED BY <2>2, <2>3
<1>10. G = Nat
  <2>. HIDE DEF G
  <2>1. G \subseteq Nat
    BY DEF G
  <2>. QED BY <1>8, <1>9, <2>1, SetInduction
<1>11. S \in UpTo(S, N)
  BY <1>3
<1>. QED BY <1>2, <1>5, <1>10, <1>11 DEF S

(* SeenIsAwake from one step to the next: such an NPC is idle exactly if   *)
(* it has no spectators, and these are players in the game who are near    *)
(* enough for it to be told when they move or leave.                       *)
Seen(w) == \A n \in Npcs : w.npc[n].there /\ WalkRadius[n] = 0 =>
  /\ w.npc[n].idle <=> w.npc[n].spectators = {}
  /\ \A p \in w.npc[n].spectators : w.client[p].online /\ Near(w.client[p].pos, w.npc[n].pos, Hearing)
  /\ \A p \in Customers : w.client[p].online /\ Near(w.client[p].pos, w.npc[n].pos, View) => p \in w.npc[n].spectators

(* The inductive invariant of the NPCs. *)
NpcInv == World \in NpcWorlds /\ ShopsAgree(World) /\ Seen(World)

(* A step to a world leads to this world. *)
LEMMA WorldAfter ==
  ASSUME NEW w \in NpcWorlds, Become(w)
  PROVE  World' = w
  BY NpcWorldParts DEF Become, World

(* Closing windows does not change what an NPC sees. *)
LEMMA SeenKept ==
  ASSUME NEW w \in NpcWorlds, Seen(w), NEW v, NEW D, Closes(v, w, D)
  PROVE  Seen(v)
<1>1. \A n \in Npcs : w.npc[n] \in NpcStates /\ v.npc[n] = [w.npc[n] EXCEPT !.shop = v.npc[n].shop]
  BY NpcWorldParts DEF Closes
<1>2. \A n \in Npcs : /\ v.npc[n].there = w.npc[n].there /\ v.npc[n].idle = w.npc[n].idle
                      /\ v.npc[n].spectators = w.npc[n].spectators /\ v.npc[n].pos = w.npc[n].pos
                      /\ w.npc[n].spectators \subseteq Customers
  BY <1>1 DEF NpcStates
<1>3. \A p \in Customers : v.client[p].online = w.client[p].online /\ v.client[p].pos = w.client[p].pos
  BY DEF Closes
<1>. QED BY <1>2, <1>3 DEF Seen

(* What being told of a player does not change in an NPC. *)
Look(k, m) == /\ k \in NpcStates /\ k.there = m.there /\ k.handler = m.handler /\ k.shop = m.shop /\ k.pos = m.pos

(* What it does change. *)
Views(k, m, S) == Look(k, m) /\ k.spectators = S /\ (k.idle <=> S = {})

(* An NPC that is told of a player is idle exactly if nobody is left. *)
LEMMA SpectatorsDo ==
  ASSUME NEW m \in NpcStates, NEW S \in SUBSET Customers
  PROVE  Views(SetIdle([m EXCEPT !.spectators = S]), m, S)
<1>. DEFINE a == [m EXCEPT !.spectators = S]
<1>1. /\ a \in NpcStates /\ a.spectators = S /\ a.there = m.there /\ a.handler = m.handler
      /\ a.shop = m.shop /\ a.pos = m.pos
  BY DEF NpcStates
<1>. HIDE DEF a
<1>2. SetIdle(a) = [a EXCEPT !.idle = S = {}]
  BY <1>1 DEF SetIdle
<1>3. Views([a EXCEPT !.idle = S = {}], m, S)
  BY <1>1 DEF Views, Look, NpcStates
<1>. QED BY <1>2, <1>3 DEF a

(* A step of players that touches no shop. *)
Outlook(v, w) ==
  /\ v.refs = w.refs /\ v.faults = w.faults
  /\ \A n \in Npcs : Look(v.npc[n], w.npc[n])
  /\ \A q \in Customers : /\ v.client[q].owner = w.client[q].owner
                          /\ v.client[q].buy = w.client[q].buy /\ v.client[q].sell = w.client[q].sell
                          /\ w.client[q].owner # NoNpc => v.client[q].online

(* Such a step leaves shops and references in agreement. *)
LEMMA OutlookAgrees ==
  ASSUME NpcsAssumption, NEW w, ShopsAgree(w), NEW v, Outlook(v, w)
  PROVE  ShopsAgree(v)
<1>1. \A q \in Customers : Held(v.client[q]) = Held(w.client[q])
  BY DEF Held, Outlook
<1>2. NoNpc \notin Npcs
  BY DEF NpcsAssumption
<1>3. v.faults = {} /\ v.refs = w.refs
  BY DEF Outlook, ShopsAgree
<1>4. \A n \in Npcs : v.npc[n].there = w.npc[n].there /\ v.npc[n].handler = w.npc[n].handler /\ v.npc[n].shop = w.npc[n].shop
  BY DEF Outlook, Look
<1>5. \A q \in Customers : /\ v.client[q].owner = w.client[q].owner
                           /\ v.client[q].buy = w.client[q].buy /\ v.client[q].sell = w.client[q].sell
                           /\ w.client[q].owner # NoNpc => v.client[q].online
  BY DEF Outlook
<1>. QED BY <1>1, <1>2, <1>3, <1>4, <1>5 DEF ShopsAgree

(* A login: who sees the NPC is near enough to be noticed. *)
LEMMA LoginKeeps ==
  ASSUME NpcsAssumption, NpcInv, PlayerLogin
  PROVE  NpcInv'
<1>1. PICK p \in Customers, pos \in 0 .. StreetEnd :
        /\ ~client[p].online
        /\ client' = [client EXCEPT ![p].online = TRUE, ![p].pos = pos]
        /\ npc' = [n \in Npcs |-> PlayerAppears(npc[n], p, pos)]
        /\ refs' = refs /\ npcFaults' = npcFaults
  BY DEF PlayerLogin
<1>2. /\ npc \in [Npcs -> NpcStates] /\ client \in [Customers -> ClientStates]
      /\ refs \in SUBSET (1 .. MaxRefs) /\ npcFaults \in SUBSET {"dead", "twice", "crash"}
  BY DEF NpcInv, NpcWorlds, World
<1>3. \A q \in Customers : client'[q] = IF q = p THEN [client[p] EXCEPT !.online = TRUE, !.pos = pos] ELSE client[q]
  BY <1>1, <1>2 DEF ClientStates
<1>4. /\ client' \in [Customers -> ClientStates]
      /\ \A q \in Customers : /\ client'[q].owner = client[q].owner
                              /\ client'[q].buy = client[q].buy /\ client'[q].sell = client[q].sell
                              /\ q # p => client'[q] = client[q]
      /\ client'[p].online /\ client'[p].pos = pos
  <2>1. [client[p] EXCEPT !.online = TRUE, !.pos = pos] \in ClientStates
    BY <1>2 DEF ClientStates
  <2>2. \A q \in Customers : client'[q] \in ClientStates
    BY <1>2, <1>3, <2>1
  <2>3. client' \in [Customers -> ClientStates]
    BY <1>1, <1>2, <2>2
  <2>4. client'[p].online /\ client'[p].pos = pos
    BY <1>2, <1>3 DEF ClientStates
  <2>5. client'[p].owner = client[p].owner /\ client'[p].buy = client[p].buy /\ client'[p].sell = client[p].sell
    BY <1>2, <1>3 DEF ClientStates
  <2>6. \A q \in Customers : q # p => client'[q] = client[q]
    BY <1>3
  <2>. QED BY <2>3, <2>4, <2>5, <2>6
<1>5. \A n \in Npcs : npc[n] \in NpcStates
  BY <1>2
<1>. DEFINE told(n) == npc[n].there /\ Near(npc[n].pos, pos, Hearing)
<1>6. \A n \in Npcs : told(n) => Views(npc'[n], npc[n], npc[n].spectators \cup {p})
  <2>. SUFFICES ASSUME NEW n \in Npcs, told(n) PROVE Views(npc'[n], npc[n], npc[n].spectators \cup {p})
    OBVIOUS
  <2>1. npc'[n] = SetIdle([npc[n] EXCEPT !.spectators = npc[n].spectators \cup {p}])
    BY <1>1 DEF PlayerAppears
  <2>2. npc[n].spectators \cup {p} \in SUBSET Customers
    BY <1>5 DEF NpcStates
  <2>. QED BY <1>5, <2>1, <2>2, SpectatorsDo
<1>7. \A n \in Npcs : ~told(n) => npc'[n] = npc[n]
  BY <1>1 DEF PlayerAppears
<1>. HIDE DEF told
<1>8. \A n \in Npcs : Look(npc'[n], npc[n])
  BY <1>5, <1>6, <1>7 DEF Views, Look
<1>9. npc' \in [Npcs -> NpcStates]
  BY <1>1, <1>8 DEF Look
<1>10. World' \in NpcWorlds
  BY <1>1, <1>2, <1>4, <1>9 DEF World, NpcWorlds
<1>12. ShopsAgree(World')
  <2>1. \A q \in Customers : client[q].owner # NoNpc => client'[q].online
    BY <1>2, <1>4 DEF NpcInv, ShopsAgree, World, ClientStates
  <2>2. Outlook(World', World)
    BY <2>1, <1>1, <1>4, <1>8 DEF World, Outlook
  <2>. QED BY <2>2, OutlookAgrees DEF NpcInv
<1>13. Seen(World')
  <2>. SUFFICES ASSUME NEW n \in Npcs, npc'[n].there, WalkRadius[n] = 0
                PROVE  /\ npc'[n].idle <=> npc'[n].spectators = {}
                       /\ \A q \in npc'[n].spectators : client'[q].online /\ Near(client'[q].pos, npc'[n].pos, Hearing)
                       /\ \A q \in Customers : client'[q].online /\ Near(client'[q].pos, npc'[n].pos, View) => q \in npc'[n].spectators
    BY DEF Seen, World
  <2>1. /\ npc[n].idle <=> npc[n].spectators = {}
        /\ \A q \in npc[n].spectators : client[q].online /\ Near(client[q].pos, npc[n].pos, Hearing)
        /\ \A q \in Customers : client[q].online /\ Near(client[q].pos, npc[n].pos, View) => q \in npc[n].spectators
        /\ npc[n].there /\ npc'[n].pos = npc[n].pos
    BY <1>8 DEF NpcInv, Seen, World, Look
  <2>2. npc[n].pos \in 0 .. StreetEnd /\ npc[n].spectators \subseteq Customers
    BY <1>5 DEF NpcStates
  <2>3. p \notin npc[n].spectators
    BY <1>1, <2>1
  <2>4. CASE told(n)
    <3>1. npc'[n].spectators = npc[n].spectators \cup {p} /\ (npc'[n].idle <=> npc[n].spectators \cup {p} = {})
      BY <1>6, <2>4 DEF Views
    <3>2. Near(pos, npc[n].pos, Hearing)
      BY <2>4, <2>2 DEF told, Near, NpcsAssumption
    <3>. QED BY <3>1, <3>2, <2>1, <2>2, <1>4
  <2>5. CASE ~told(n)
    <3>1. npc'[n] = npc[n]
      BY <1>7, <2>5
    <3>2. ~Near(pos, npc[n].pos, View)
      BY <2>1, <2>2, <2>5 DEF told, Near, NpcsAssumption
    <3>. QED BY <3>1, <3>2, <2>1, <2>2, <2>3, <1>4
  <2>. QED BY <2>4, <2>5
<1>. QED BY <1>10, <1>12, <1>13 DEF NpcInv

(* A logout: the shop is closed first, then the NPCs around forget the     *)
(* player.                                                                 *)
LEMMA LogoutKeeps ==
  ASSUME NpcsAssumption, NpcInv, PlayerLogout
  PROVE  NpcInv'
<1>1. PICK p \in Customers :
        /\ client[p].online
        /\ LET w == CloseShopWindow(World, p)
           IN  Become([w EXCEPT !.client[p].online = FALSE,
                                !.npc = [n \in Npcs |-> PlayerDisappears(w.npc[n], p, client[p].pos)]])
  BY DEF PlayerLogout
<1>. DEFINE w == CloseShopWindow(World, p)
            at == client[p].pos
<1>2. World \in NpcWorlds /\ ShopsAgree(World) /\ Seen(World)
  BY DEF NpcInv
<1>3. Shuts(w, World, p, FALSE)
  BY <1>2, CloseShopWindowDoes
<1>4. Closes(w, World, Npcs \X {p})
  BY <1>2, CloseShopWindowCloses
<1>5. npc' = [n \in Npcs |-> PlayerDisappears(w.npc[n], p, at)] /\ refs' = w.refs /\ npcFaults' = w.faults
  BY <1>1, <1>3 DEF Become, Shuts, NpcWorlds
<1>6. client' = [w.client EXCEPT ![p].online = FALSE]
  BY <1>1, <1>3 DEF Become, Shuts, NpcWorlds
<1>. HIDE DEF w
<1>7. AfterShut(w, World, p) /\ Seen(w) /\ w \in NpcWorlds /\ ShopsAgree(w)
  <2>1. AfterShut(w, World, p)
    BY <1>2, <1>3, ShutAgrees
  <2>2. Seen(w)
    BY <1>2, <1>4, SeenKept
  <2>. QED BY <1>4, <2>1, <2>2 DEF Closes
<1>8. w.npc \in [Npcs -> NpcStates] /\ w.client \in [Customers -> ClientStates]
  BY <1>7, NpcWorldParts
<1>9. w.client[p].owner = NoNpc /\ w.client[p].pos = at
  BY <1>7 DEF AfterShut, World
<1>10. \A q \in Customers : client'[q] = IF q = p THEN [w.client[p] EXCEPT !.online = FALSE] ELSE w.client[q]
  BY <1>6, <1>8
<1>11. /\ client' \in [Customers -> ClientStates]
       /\ \A q \in Customers : q # p => client'[q] = w.client[q]
       /\ client'[p].owner = w.client[p].owner /\ client'[p].buy = w.client[p].buy /\ client'[p].sell = w.client[p].sell
       /\ ~client'[p].online /\ client'[p].pos = at
  <2>1. [w.client[p] EXCEPT !.online = FALSE] \in ClientStates
    BY <1>8 DEF ClientStates
  <2>2. \A q \in Customers : client'[q] \in ClientStates
    BY <1>8, <1>10, <2>1
  <2>3. client' \in [Customers -> ClientStates]
    BY <1>6, <1>8, <2>2
  <2>4. ~client'[p].online /\ client'[p].pos = at
    BY <1>8, <1>9, <1>10 DEF ClientStates
  <2>5. client'[p].owner = w.client[p].owner /\ client'[p].buy = w.client[p].buy /\ client'[p].sell = w.client[p].sell
    BY <1>8, <1>10 DEF ClientStates
  <2>6. \A q \in Customers : q # p => client'[q] = w.client[q]
    BY <1>10
  <2>. QED BY <2>3, <2>4, <2>5, <2>6
<1>. DEFINE told(n) == w.npc[n].there /\ Near(w.npc[n].pos, at, Hearing)
<1>12. \A n \in Npcs : told(n) => Views(npc'[n], w.npc[n], w.npc[n].spectators \ {p})
  <2>. SUFFICES ASSUME NEW n \in Npcs, told(n) PROVE Views(npc'[n], w.npc[n], w.npc[n].spectators \ {p})
    OBVIOUS
  <2>1. npc'[n] = SetIdle([w.npc[n] EXCEPT !.spectators = w.npc[n].spectators \ {p}])
    BY <1>5 DEF PlayerDisappears
  <2>2. w.npc[n].spectators \ {p} \in SUBSET Customers /\ w.npc[n] \in NpcStates
    BY <1>8 DEF NpcStates
  <2>. QED BY <2>1, <2>2, SpectatorsDo
<1>13. \A n \in Npcs : ~told(n) => npc'[n] = w.npc[n]
  BY <1>5 DEF PlayerDisappears
<1>. HIDE DEF told
<1>14. \A n \in Npcs : Look(npc'[n], w.npc[n])
  BY <1>8, <1>12, <1>13 DEF Views, Look
<1>15. npc' \in [Npcs -> NpcStates]
  BY <1>5, <1>14 DEF Look
<1>16. World' \in NpcWorlds
  BY <1>5, <1>7, <1>11, <1>15 DEF World, NpcWorlds
<1>17. ShopsAgree(World')
  <2>1. \A q \in Customers : w.client[q].owner # NoNpc => w.client[q].online
    BY <1>7, <1>8 DEF ShopsAgree, ClientStates
  <2>2. Outlook(World', w)
    BY <2>1, <1>5, <1>9, <1>11, <1>14 DEF World, Outlook
  <2>. QED BY <1>7, <2>2, OutlookAgrees
<1>18. Seen(World')
  <2>. SUFFICES ASSUME NEW n \in Npcs, npc'[n].there, WalkRadius[n] = 0
                PROVE  /\ npc'[n].idle <=> npc'[n].spectators = {}
                       /\ \A q \in npc'[n].spectators : client'[q].online /\ Near(client'[q].pos, npc'[n].pos, Hearing)
                       /\ \A q \in Customers : client'[q].online /\ Near(client'[q].pos, npc'[n].pos, View) => q \in npc'[n].spectators
    BY DEF Seen, World
  <2>1. /\ w.npc[n].idle <=> w.npc[n].spectators = {}
        /\ \A q \in w.npc[n].spectators : w.client[q].online /\ Near(w.client[q].pos, w.npc[n].pos, Hearing)
        /\ \A q \in Customers : w.client[q].online /\ Near(w.client[q].pos, w.npc[n].pos, View) => q \in w.npc[n].spectators
        /\ w.npc[n].there /\ npc'[n].pos = w.npc[n].pos
    BY <1>7, <1>14 DEF Seen, Look
  <2>2. w.npc[n].pos \in 0 .. StreetEnd /\ w.npc[n].spectators \subseteq Customers /\ at \in 0 .. StreetEnd
    BY <1>8, <1>9 DEF NpcStates, ClientStates
  <2>3. CASE told(n)
    <3>1. npc'[n].spectators = w.npc[n].spectators \ {p} /\ (npc'[n].idle <=> w.npc[n].spectators \ {p} = {})
      BY <1>12, <2>3 DEF Views
    <3>. QED BY <3>1, <2>1, <2>2, <1>11
  <2>4. CASE ~told(n)
    <3>1. npc'[n] = w.npc[n]
      BY <1>13, <2>4
    <3>2. p \notin w.npc[n].spectators
      BY <2>1, <2>2, <2>4, <1>9 DEF told, Near, NpcsAssumption
    <3>. QED BY <3>1, <3>2, <2>1, <2>2, <1>11
  <2>. QED BY <2>3, <2>4
<1>. QED BY <1>16, <1>17, <1>18 DEF NpcInv

(* A move: an NPC hears of it from the old place or from the new one. *)
LEMMA PlayerMoveKeeps ==
  ASSUME NpcsAssumption, NpcInv, PlayerMove
  PROVE  NpcInv'
<1>1. PICK p \in Customers, pos \in 0 .. StreetEnd :
        /\ client[p].online /\ pos # client[p].pos /\ Near(pos, client[p].pos, 1)
        /\ client' = [client EXCEPT ![p].pos = pos]
        /\ npc' = [n \in Npcs |-> PlayerMoves(npc[n], p, client[p].pos, pos)]
        /\ refs' = refs /\ npcFaults' = npcFaults
  BY DEF PlayerMove
<1>. DEFINE old == client[p].pos
<1>2. /\ npc \in [Npcs -> NpcStates] /\ client \in [Customers -> ClientStates]
      /\ refs \in SUBSET (1 .. MaxRefs) /\ npcFaults \in SUBSET {"dead", "twice", "crash"}
  BY DEF NpcInv, NpcWorlds, World
<1>3. \A q \in Customers : client'[q] = IF q = p THEN [client[p] EXCEPT !.pos = pos] ELSE client[q]
  BY <1>1, <1>2
<1>4. /\ client' \in [Customers -> ClientStates]
      /\ \A q \in Customers : q # p => client'[q] = client[q]
      /\ client'[p].owner = client[p].owner /\ client'[p].buy = client[p].buy /\ client'[p].sell = client[p].sell
      /\ client'[p].online /\ client'[p].pos = pos
  <2>1. [client[p] EXCEPT !.pos = pos] \in ClientStates
    BY <1>2 DEF ClientStates
  <2>2. \A q \in Customers : client'[q] \in ClientStates
    BY <1>2, <1>3, <2>1
  <2>3. client' \in [Customers -> ClientStates]
    BY <1>1, <1>2, <2>2
  <2>4. client'[p].online /\ client'[p].pos = pos
    BY <1>1, <1>2, <1>3 DEF ClientStates
  <2>5. client'[p].owner = client[p].owner /\ client'[p].buy = client[p].buy /\ client'[p].sell = client[p].sell
    BY <1>2, <1>3 DEF ClientStates
  <2>6. \A q \in Customers : q # p => client'[q] = client[q]
    BY <1>3
  <2>. QED BY <2>3, <2>4, <2>5, <2>6
<1>5. \A n \in Npcs : npc[n] \in NpcStates
  BY <1>2
<1>. DEFINE told(n) == npc[n].there /\ (Near(npc[n].pos, old, Hearing) \/ Near(npc[n].pos, pos, Hearing))
            sees(n) == IF Near(npc[n].pos, pos, View) THEN npc[n].spectators \cup {p} ELSE npc[n].spectators \ {p}
<1>6. \A n \in Npcs : told(n) => Views(npc'[n], npc[n], sees(n))
  <2>. SUFFICES ASSUME NEW n \in Npcs, told(n) PROVE Views(npc'[n], npc[n], sees(n))
    OBVIOUS
  <2>1. npc'[n] = SetIdle([npc[n] EXCEPT !.spectators = sees(n)])
    BY <1>1 DEF PlayerMoves
  <2>2. sees(n) \in SUBSET Customers
    BY <1>5 DEF NpcStates
  <2>. HIDE DEF sees
  <2>. QED BY <1>5, <2>1, <2>2, SpectatorsDo
<1>7. \A n \in Npcs : ~told(n) => npc'[n] = npc[n]
  BY <1>1 DEF PlayerMoves
<1>. HIDE DEF told, sees
<1>8. \A n \in Npcs : Look(npc'[n], npc[n])
  BY <1>5, <1>6, <1>7 DEF Views, Look
<1>9. npc' \in [Npcs -> NpcStates]
  BY <1>1, <1>8 DEF Look
<1>10. World' \in NpcWorlds
  BY <1>1, <1>2, <1>4, <1>9 DEF World, NpcWorlds
<1>11. ShopsAgree(World')
  <2>1. \A q \in Customers : client[q].owner # NoNpc => client[q].online
    BY <1>2 DEF NpcInv, ShopsAgree, World, ClientStates
  <2>2. Outlook(World', World)
    BY <2>1, <1>1, <1>4, <1>8 DEF World, Outlook
  <2>. QED BY <2>2, OutlookAgrees DEF NpcInv
<1>12. Seen(World')
  <2>. SUFFICES ASSUME NEW n \in Npcs, npc'[n].there, WalkRadius[n] = 0
                PROVE  /\ npc'[n].idle <=> npc'[n].spectators = {}
                       /\ \A q \in npc'[n].spectators : client'[q].online /\ Near(client'[q].pos, npc'[n].pos, Hearing)
                       /\ \A q \in Customers : client'[q].online /\ Near(client'[q].pos, npc'[n].pos, View) => q \in npc'[n].spectators
    BY DEF Seen, World
  <2>1. /\ npc[n].idle <=> npc[n].spectators = {}
        /\ \A q \in npc[n].spectators : client[q].online /\ Near(client[q].pos, npc[n].pos, Hearing)
        /\ \A q \in Customers : client[q].online /\ Near(client[q].pos, npc[n].pos, View) => q \in npc[n].spectators
        /\ npc[n].there /\ npc'[n].pos = npc[n].pos
    BY <1>8 DEF NpcInv, Seen, World, Look
  <2>2. npc[n].pos \in 0 .. StreetEnd /\ npc[n].spectators \subseteq Customers /\ old \in 0 .. StreetEnd
    BY <1>2, <1>5 DEF NpcStates, ClientStates
  <2>3. Near(npc[n].pos, pos, View) => Near(npc[n].pos, pos, Hearing) /\ Near(pos, npc[n].pos, View) /\ Near(pos, npc[n].pos, Hearing)
    BY <2>2 DEF Near, NpcsAssumption
  <2>4. (Near(pos, npc[n].pos, View) => Near(npc[n].pos, pos, View)) /\ (Near(old, npc[n].pos, Hearing) => Near(npc[n].pos, old, Hearing))
    BY <2>2 DEF Near, NpcsAssumption
  <2>5. CASE told(n)
    <3>1. npc'[n].spectators = sees(n) /\ (npc'[n].idle <=> sees(n) = {})
      BY <1>6, <2>5 DEF Views
    <3>2. CASE Near(npc[n].pos, pos, View)
      <4>1. sees(n) = npc[n].spectators \cup {p}
        BY <3>2 DEF sees
      <4>. QED BY <3>1, <3>2, <4>1, <2>1, <2>2, <2>3, <1>4
    <3>3. CASE ~Near(npc[n].pos, pos, View)
      <4>1. sees(n) = npc[n].spectators \ {p}
        BY <3>3 DEF sees
      <4>. QED BY <3>1, <3>3, <4>1, <2>1, <2>2, <2>4, <1>4
    <3>. QED BY <3>2, <3>3
  <2>6. CASE ~told(n)
    <3>1. npc'[n] = npc[n]
      BY <1>7, <2>6
    <3>2. ~Near(npc[n].pos, old, Hearing) /\ ~Near(npc[n].pos, pos, Hearing)
      BY <2>1, <2>6 DEF told
    <3>3. p \notin npc[n].spectators /\ ~Near(pos, npc[n].pos, View)
      BY <3>2, <2>1, <2>3, <2>4
    <3>. QED BY <3>1, <3>3, <2>1, <2>2, <1>4
  <2>. QED BY <2>5, <2>6
<1>. QED BY <1>10, <1>11, <1>12 DEF NpcInv

(* The client closes the window. *)
LEMMA CloseShopKeeps ==
  ASSUME NpcsAssumption, NpcInv, PlayerCloseShop
  PROVE  NpcInv'
<1>1. PICK p \in Customers : Become(CloseShopWindow(World, p))
  BY DEF PlayerCloseShop
<1>2. Closes(CloseShopWindow(World, p), World, Npcs \X {p})
  BY CloseShopWindowCloses DEF NpcInv
<1>. DEFINE v == CloseShopWindow(World, p)
<1>. HIDE DEF v
<1>3. v \in NpcWorlds /\ ShopsAgree(v) /\ Become(v)
  BY <1>1, <1>2 DEF Closes, v
<1>4. Seen(v)
  BY <1>2, SeenKept DEF NpcInv, v
<1>5. World' = v
  BY <1>3, WorldAfter
<1>. QED BY <1>3, <1>4, <1>5 DEF NpcInv

(* A script closes the window of its NPC. *)
LEMMA LuaCloseKeeps ==
  ASSUME NpcsAssumption, NpcInv, LuaCloseShopWindow
  PROVE  NpcInv'
<1>1. PICK n \in Npcs, p \in Customers :
        /\ client[p].owner = n
        /\ LET released == Unref(Unref(World, client[p].buy), client[p].sell)
           IN  Become(RemoveShopPlayer(SetShopOwner(released, p, NoNpc, NoRef, NoRef), n, p))
  BY DEF LuaCloseShopWindow
<1>. DEFINE c == client[p]
            w1 == Unref(World, c.buy)
            w2 == Unref(w1, c.sell)
            w3 == SetShopOwner(w2, p, NoNpc, NoRef, NoRef)
            v == RemoveShopPlayer(w3, n, p)
<1>2. World \in NpcWorlds /\ ShopsAgree(World) /\ Seen(World) /\ World.client = client /\ World.npc = npc
  BY DEF NpcInv, World
<1>3. c \in ClientStates /\ client \in [Customers -> ClientStates] /\ npc \in [Npcs -> NpcStates]
  BY <1>2, NpcWorldParts
<1>4. c.buy \in (1 .. MaxRefs) \cup {NoRef} /\ c.sell \in (1 .. MaxRefs) \cup {NoRef}
  BY <1>3 DEF ClientStates
<1>5. Held(c) \subseteq World.refs /\ (c.buy # NoRef => c.buy # c.sell) /\ World.faults = {}
  BY <1>2 DEF ShopsAgree
<1>6. /\ w1 \in NpcWorlds /\ w1.npc = npc /\ w1.client = client /\ w1.faults = {}
      /\ w1.refs = World.refs \ {c.buy}
  BY <1>2, <1>4, <1>5, UnrefDoes DEF Held
<1>. HIDE DEF w1
<1>7. /\ w2 \in NpcWorlds /\ w2.npc = npc /\ w2.client = client /\ w2.faults = {}
      /\ w2.refs = (World.refs \ {c.buy}) \ {c.sell}
  <2>1. c.sell # NoRef => c.sell \in w1.refs
    BY <1>5, <1>6 DEF Held
  <2>. HIDE DEF w2, c
  <2>2. w2 = Unref(w1, c.sell)
    BY DEF w2
  <2>. QED BY <1>4, <1>6, <2>1, <2>2, UnrefDoes, ZenonT(60)
<1>. HIDE DEF w2
<1>8. Owns(w3, w2, p, NoNpc, NoRef, NoRef)
  <2>1. NoNpc \in Npcs \cup {NoNpc} /\ NoRef \in (1 .. MaxRefs) \cup {NoRef}
    OBVIOUS
  <2>. QED BY <1>7, <2>1, SetShopOwnerDoes
<1>. HIDE DEF w3
<1>9. /\ v \in NpcWorlds /\ v.client = w3.client /\ v.faults = {} /\ v.refs = (World.refs \ {c.buy}) \ {c.sell}
      /\ v.npc = [npc EXCEPT ![n] = [npc[n] EXCEPT !.shop = npc[n].shop \ {p}]]
  BY <1>7, <1>8, RemoveShopPlayerDoes DEF Owns
<1>10. Become(v)
  BY <1>1 DEF v, w3, w2, w1
<1>. HIDE DEF v
<1>11. World' = v
  BY <1>9, <1>10, WorldAfter
<1>12. v.client = [client EXCEPT ![p] = Shut(client[p], c.items)]
  <2>1. [c EXCEPT !.owner = NoNpc, !.buy = NoRef, !.sell = NoRef] = Shut(c, c.items)
    BY <1>3 DEF Shut, ClientStates
  <2>. QED BY <1>7, <1>8, <1>9, <2>1 DEF Owns
<1>13. NoRef \notin World.refs
  BY <1>2, NpcWorldParts DEF NoRef
<1>14. v.refs = World.refs \ Held(c)
  BY <1>9, <1>13 DEF Held
<1>15. ASSUME NEW m \in Npcs PROVE v.npc[m] = NpcWithout(npc[m], {p})
  <2>1. npc[m] \in NpcStates
    BY <1>3
  <2>2. CASE m = n
    BY <1>3, <1>9, <2>2 DEF NpcWithout
  <2>3. CASE m # n
    <3>1. v.npc[m] = npc[m] /\ p \notin npc[m].shop
      BY <1>1, <1>2, <1>3, <1>9, <2>3 DEF ShopsAgree
    <3>2. NpcWithout(npc[m], {p}) = npc[m]
      BY <2>1, <3>1 DEF NpcWithout, NpcStates
    <3>. QED BY <3>1, <3>2
  <2>. QED BY <2>2, <2>3
<1>16. v.npc = [m \in Npcs |-> NpcWithout(npc[m], {p})]
  BY <1>9, <1>15, NpcWorldParts
<1>17. Shuts(v, World, p, c.items) /\ c.items \in BOOLEAN
  BY <1>2, <1>3, <1>9, <1>12, <1>14, <1>16 DEF Shuts, ClientStates
<1>18. AfterShut(v, World, p)
  BY <1>2, <1>17, ShutAgrees
<1>19. Closes(v, World, {})
  <2>1. \A m \in Npcs : v.npc[m] = [World.npc[m] EXCEPT !.shop = World.npc[m].shop \ {p}]
    BY <1>18 DEF AfterShut, NpcWithout
  <2>2. \A m \in Npcs : World.npc[m] \in NpcStates
    BY <1>2, <1>3
  <2>3. \A m \in Npcs : v.npc[m].shop = World.npc[m].shop \ {p}
    BY <2>1, <2>2 DEF NpcStates
  <2>4. \A q \in Customers : v.client[q].online = World.client[q].online /\ v.client[q].pos = World.client[q].pos
    BY <1>18 DEF AfterShut
  <2>. QED BY <1>9, <1>18, <2>1, <2>3, <2>4 DEF Closes, AfterShut
<1>20. Seen(v)
  BY <1>2, <1>19, SeenKept
<1>. QED BY <1>9, <1>11, <1>18, <1>20 DEF NpcInv, AfterShut

(* A purchase or a sale runs a callback that is in use. *)
LEMMA TradesKeeps ==
  ASSUME NpcsAssumption, NpcInv, PlayerTrades
  PROVE  NpcInv'
<1>1. PICK p \in Customers, buys \in BOOLEAN :
        LET ref == IF buys THEN client[p].buy ELSE client[p].sell
        IN  /\ ref # NoRef
            /\ npcFaults' = IF ref \in refs THEN npcFaults ELSE npcFaults \cup {"dead"}
            /\ UNCHANGED <<npc, client, refs, npcReloads>>
  BY DEF PlayerTrades
<1>2. Held(client[p]) \subseteq refs
  BY DEF NpcInv, ShopsAgree, World
<1>3. npcFaults' = npcFaults
  BY <1>1, <1>2 DEF Held
<1>4. World' = World
  BY <1>1, <1>3 DEF World
<1>. QED BY <1>4 DEF NpcInv

(* An NPC that walks is not one that SeenIsAwake is about. *)
LEMMA WalksKeeps ==
  ASSUME NpcsAssumption, NpcInv, NpcWalks
  PROVE  NpcInv'
<1>1. PICK n \in Npcs, pos \in 0 .. StreetEnd :
        /\ CanWalkTo(n, pos) /\ npc' = [npc EXCEPT ![n].pos = pos]
        /\ client' = client /\ refs' = refs /\ npcFaults' = npcFaults
  BY DEF NpcWalks
<1>2. /\ npc \in [Npcs -> NpcStates] /\ client \in [Customers -> ClientStates]
      /\ refs \in SUBSET (1 .. MaxRefs) /\ npcFaults \in SUBSET {"dead", "twice", "crash"}
  BY DEF NpcInv, NpcWorlds, World
<1>. DEFINE k == [npc[n] EXCEPT !.pos = pos]
<1>3. /\ k \in NpcStates /\ k.there = npc[n].there /\ k.handler = npc[n].handler /\ k.shop = npc[n].shop
  BY <1>2 DEF NpcStates
<1>4. \A m \in Npcs : npc'[m] = IF m = n THEN k ELSE npc[m]
  BY <1>1, <1>2
<1>. HIDE DEF k
<1>5. npc' \in [Npcs -> NpcStates]
  BY <1>1, <1>2, <1>3, <1>4
<1>6. World' \in NpcWorlds
  BY <1>1, <1>2, <1>5 DEF World, NpcWorlds
<1>7. ShopsAgree(World')
  BY <1>1, <1>3, <1>4 DEF NpcInv, ShopsAgree, World
<1>8. Seen(World')
  <2>1. WalkRadius[n] # 0
    BY <1>1 DEF CanWalkTo
  <2>. QED BY <1>1, <1>4, <2>1 DEF NpcInv, Seen, World
<1>. QED BY <1>6, <1>7, <1>8 DEF NpcInv

(* Whom an NPC attends to changes nothing here. *)
LEMMA FocusKeeps ==
  ASSUME NpcsAssumption, NpcInv, SetCreatureFocus
  PROVE  NpcInv'
<1>1. PICK n \in Npcs :
        /\ npc' = [npc EXCEPT ![n].focus = ~npc[n].focus]
        /\ client' = client /\ refs' = refs /\ npcFaults' = npcFaults
  BY DEF SetCreatureFocus
<1>2. /\ npc \in [Npcs -> NpcStates] /\ client \in [Customers -> ClientStates]
      /\ refs \in SUBSET (1 .. MaxRefs) /\ npcFaults \in SUBSET {"dead", "twice", "crash"}
  BY DEF NpcInv, NpcWorlds, World
<1>. DEFINE k == [npc[n] EXCEPT !.focus = ~npc[n].focus]
<1>3. /\ k \in NpcStates /\ k.there = npc[n].there /\ k.handler = npc[n].handler /\ k.shop = npc[n].shop
      /\ k.pos = npc[n].pos /\ k.idle = npc[n].idle /\ k.spectators = npc[n].spectators
  BY <1>2 DEF NpcStates
<1>4. \A m \in Npcs : npc'[m] = IF m = n THEN k ELSE npc[m]
  BY <1>1, <1>2
<1>. HIDE DEF k
<1>5. npc' \in [Npcs -> NpcStates]
  BY <1>1, <1>2, <1>3, <1>4
<1>6. World' \in NpcWorlds
  BY <1>1, <1>2, <1>5 DEF World, NpcWorlds
<1>7. ShopsAgree(World')
  BY <1>1, <1>3, <1>4 DEF NpcInv, ShopsAgree, World
<1>8. Seen(World')
  BY <1>1, <1>3, <1>4 DEF NpcInv, Seen, World
<1>. QED BY <1>6, <1>7, <1>8 DEF NpcInv

(* An NPC that is loaded anew hears who is near, and is awake if anybody is. *)
(* An NPC that is loaded anew: it has no customers and knows who is near. *)
NewNpc(k, m, there, pos) ==
  /\ k \in NpcStates /\ k.there = there /\ k.shop = {} /\ k.pos = pos /\ k.spectators = PlayersNear(pos)
  /\ k.idle <=> PlayersNear(pos) = {}

(* What loading and appearing leave. *)
LEMMA AppearDoes ==
  ASSUME NEW m \in NpcStates, NEW file, m.shop = {}
  PROVE  NewNpc(Appear(m, file), m, m.there, m.pos)
<1>. DEFINE S == PlayersNear(m.pos)
            a == [m EXCEPT !.handler = file = "good", !.spectators = S]
<1>1. S \in SUBSET Customers
  BY DEF PlayersNear
<1>. HIDE DEF S
<1>2. a \in NpcStates /\ a.spectators = S /\ a.there = m.there /\ a.shop = {} /\ a.pos = m.pos
  BY <1>1 DEF NpcStates
<1>. HIDE DEF a
<1>3. Appear(m, file) = [a EXCEPT !.idle = S = {}]
  BY <1>2 DEF Appear, SetIdle, a, S
<1>4. NewNpc([a EXCEPT !.idle = S = {}], m, m.there, m.pos)
  BY <1>2 DEF NewNpc, NpcStates, S
<1>. QED BY <1>3, <1>4

(* SeenIsAwake of one NPC. *)
Awake(k) ==
  /\ k.idle <=> k.spectators = {}
  /\ \A q \in k.spectators : client[q].online /\ Near(client[q].pos, k.pos, Hearing)
  /\ \A q \in Customers : client[q].online /\ Near(client[q].pos, k.pos, View) => q \in k.spectators

(* An NPC that is loaded anew sees who sees it. *)
LEMMA NewNpcSees ==
  ASSUME NpcsAssumption, client \in [Customers -> ClientStates], NEW k, NEW m, NEW there, NEW pos \in 0 .. StreetEnd,
         NewNpc(k, m, there, pos)
  PROVE  Awake(k)
<1>1. \A q \in Customers : client[q].pos \in 0 .. StreetEnd
  BY DEF ClientStates
<1>2. \A q \in Customers : Near(client[q].pos, pos, View) => Near(client[q].pos, pos, Hearing)
  BY <1>1 DEF Near, NpcsAssumption
<1>. QED BY <1>2 DEF Awake, NewNpc, PlayersNear

(* An NPC is placed on the map. *)
LEMMA CreateNpcKeeps ==
  ASSUME NpcsAssumption, NpcInv, CreateNpc
  PROVE  NpcInv'
<1>1. PICK n \in Npcs :
        /\ ~npc[n].there
        /\ npc' = [npc EXCEPT ![n] = Appear([Reset(npc[n]) EXCEPT !.there = TRUE, !.pos = Home[n]], "good")]
        /\ client' = client /\ refs' = refs /\ npcFaults' = npcFaults
  BY DEF CreateNpc
<1>2. /\ npc \in [Npcs -> NpcStates] /\ client \in [Customers -> ClientStates]
      /\ refs \in SUBSET (1 .. MaxRefs) /\ npcFaults \in SUBSET {"dead", "twice", "crash"}
  BY DEF NpcInv, NpcWorlds, World
<1>. DEFINE m == [Reset(npc[n]) EXCEPT !.there = TRUE, !.pos = Home[n]]
            k == Appear(m, "good")
<1>3. m \in NpcStates /\ m.shop = {} /\ m.there = TRUE /\ m.pos = Home[n] /\ Home[n] \in 0 .. StreetEnd
  <2>1. Reset(npc[n]) \in NpcStates /\ Reset(npc[n]).shop = {}
    BY <1>2 DEF Reset, NpcStates
  <2>2. Home[n] \in 0 .. StreetEnd
    BY DEF NpcsAssumption
  <2>. QED BY <2>1, <2>2 DEF NpcStates
<1>. HIDE DEF m
<1>4. NewNpc(k, m, TRUE, Home[n])
  BY <1>3, AppearDoes
<1>5. npc' = [npc EXCEPT ![n] = k]
  BY <1>1 DEF m
<1>. HIDE DEF k
<1>6. \A l \in Npcs : npc'[l] = IF l = n THEN k ELSE npc[l]
  BY <1>2, <1>5
<1>7. npc' \in [Npcs -> NpcStates]
  BY <1>2, <1>4, <1>5 DEF NewNpc
<1>8. World' \in NpcWorlds
  BY <1>1, <1>2, <1>7 DEF World, NpcWorlds
<1>9. \A q \in Customers : client[q].owner # n
  BY <1>1 DEF NpcInv, ShopsAgree, World
<1>10. ShopsAgree(World')
  <2>1. k.shop = {}
    BY <1>4 DEF NewNpc
  <2>. QED BY <1>1, <1>6, <1>9, <2>1 DEF NpcInv, ShopsAgree, World
<1>11. Seen(World')
  <2>1. Awake(k)
    BY <1>2, <1>3, <1>4, NewNpcSees
  <2>. QED BY <1>1, <1>6, <2>1 DEF NpcInv, Seen, World, Awake
<1>. QED BY <1>8, <1>10, <1>11 DEF NpcInv

(* luaL_ref() gives a reference that is not in use. *)
LEMMA FreeRefIsFree ==
  ASSUME NEW w, w.refs \subseteq 1 .. MaxRefs, w.refs # 1 .. MaxRefs, MaxRefs \in Nat
  PROVE  FreeRef(w) \in (1 .. MaxRefs) \ w.refs
<1>. DEFINE B == (1 .. MaxRefs) \ w.refs
            R == OpToRel(<, Nat)
<1>1. IsWellFoundedOn(R, Nat)
  BY NatLessThanWellFounded
<1>2. \A x, y \in Nat : <<x, y>> \in R <=> x < y
  BY DEF OpToRel
<1>. HIDE DEF R
<1>3. B # {} /\ B \subseteq Nat
  <2>1. 1 .. MaxRefs \subseteq Nat
    OBVIOUS
  <2>2. \E x : x \in 1 .. MaxRefs /\ x \notin w.refs
    <3>. DEFINE I == 1 .. MaxRefs
    <3>1. w.refs \subseteq I /\ w.refs # I
      OBVIOUS
    <3>. HIDE DEF I
    <3>2. \E x : x \in I /\ x \notin w.refs
      BY <3>1
    <3>. QED BY <3>2 DEF I
  <2>. QED BY <2>1, <2>2
<1>. HIDE DEF B
<1>4. PICK r \in B : \A q \in B : ~(<<q, r>> \in R)
  BY <1>1, <1>3, WFMin
<1>5. \A q \in B : r <= q
  <2>. TAKE q \in B
  <2>1. ~(<<q, r>> \in R) /\ q \in Nat /\ r \in Nat
    BY <1>3, <1>4
  <2>2. ~(q < r)
    BY <1>2, <2>1
  <2>. QED BY <2>1, <2>2
<1>. QED BY <1>4, <1>5 DEF FreeRef, B

(* What TakeRefs leaves. *)
Takes(t, w) ==
  /\ t.w \in NpcWorlds /\ t.w.npc = w.npc /\ t.w.client = w.client /\ t.w.faults = w.faults
  /\ t.buy \in (1 .. MaxRefs) \cup {NoRef} /\ t.sell \in (1 .. MaxRefs) \cup {NoRef}
  /\ t.w.refs = w.refs \cup ({t.buy, t.sell} \ {NoRef})
  /\ t.buy \notin w.refs /\ t.sell \notin w.refs /\ (t.buy # NoRef => t.buy # t.sell)

(* The references are finitely many. *)
LEMMA RefsBound ==
  ASSUME NpcsAssumption
  PROVE  /\ MaxRefs \in Nat /\ NoRef \notin 1 .. MaxRefs
         /\ IsFiniteSet(1 .. MaxRefs) /\ Cardinality(1 .. MaxRefs) = MaxRefs
<1>1. MaxRefs \in Nat /\ MaxRefs # 0
  BY DEF NpcsAssumption
<1>2. NoRef \notin 1 .. MaxRefs
  BY DEF NoRef
<1>3. 1 \in Int /\ MaxRefs \in Int /\ ~(1 > MaxRefs) /\ MaxRefs - 1 + 1 = MaxRefs
  BY <1>1
<1>4. IsFiniteSet(1 .. MaxRefs) /\ Cardinality(1 .. MaxRefs) = IF 1 > MaxRefs THEN 0 ELSE MaxRefs - 1 + 1
  BY <1>3, FS_Interval
<1>. QED BY <1>1, <1>2, <1>3, <1>4

(* With room for two, one may be taken. *)
LEMMA RoomForTwo ==
  ASSUME NEW x \in Nat, NEW y \in Nat, x + 2 <= y
  PROVE  x # y /\ x + 1 # y
  OBVIOUS

(* The references of a new window are two, one or none, and were not in    *)
(* use.                                                                    *)
LEMMA TakeRefsDoes ==
  ASSUME NpcsAssumption, NEW w \in NpcWorlds, Cardinality(w.refs) + 2 <= MaxRefs, NEW args \in {"both", "buy", "buy, nil"}
  PROVE  Takes(TakeRefs(w, args), w)
<1>. DEFINE N == 1 .. MaxRefs
            sell == FreeRef(w)
            v == [w EXCEPT !.refs = w.refs \cup {sell}]
            buy == FreeRef(v)
            u == [v EXCEPT !.refs = v.refs \cup {buy}]
<1>1. MaxRefs \in Nat /\ NoRef \notin N /\ IsFiniteSet(N) /\ Cardinality(N) = MaxRefs
  BY RefsBound
<1>. HIDE DEF N
<1>2. w.refs \subseteq N /\ IsFiniteSet(w.refs) /\ Cardinality(w.refs) \in Nat
  <2>1. w.refs \subseteq N
    BY NpcWorldParts DEF N
  <2>2. IsFiniteSet(w.refs)
    BY <1>1, <2>1, FS_Subset
  <2>. QED BY <2>1, <2>2, FS_CardinalityType
<1>3. Cardinality(w.refs) # MaxRefs /\ Cardinality(w.refs) + 1 # MaxRefs /\ w.refs # N
  <2>. DEFINE x == Cardinality(w.refs)
  <2>1. x \in Nat /\ x + 2 <= MaxRefs /\ MaxRefs \in Nat
    BY <1>1, <1>2
  <2>. HIDE DEF x
  <2>2. x # MaxRefs /\ x + 1 # MaxRefs
    BY <2>1, RoomForTwo
  <2>. QED BY <1>1, <2>2 DEF x
<1>4. sell \in N \ w.refs
  BY <1>1, <1>2, <1>3, FreeRefIsFree DEF N
<1>. HIDE DEF sell
<1>5. /\ v \in NpcWorlds /\ v.npc = w.npc /\ v.client = w.client /\ v.faults = w.faults
      /\ v.refs = w.refs \cup {sell}
  BY <1>4 DEF NpcWorlds, N
<1>. HIDE DEF v
<1>6. Cardinality(v.refs) = Cardinality(w.refs) + 1
  BY <1>2, <1>4, <1>5, FS_AddElement
<1>7. v.refs # N
  BY <1>1, <1>3, <1>6
<1>8. buy \in N \ v.refs
  <2>1. v.refs \subseteq N
    BY <1>2, <1>4, <1>5
  <2>. QED BY <1>1, <1>7, <2>1, FreeRefIsFree DEF N
<1>. HIDE DEF buy
<1>9. /\ u \in NpcWorlds /\ u.npc = w.npc /\ u.client = w.client /\ u.faults = w.faults
      /\ u.refs = w.refs \cup {sell, buy}
  BY <1>5, <1>8 DEF NpcWorlds, N
<1>. HIDE DEF u
<1>10. CASE args = "both"
  <2>1. TakeRefs(w, args) = [w |-> u, buy |-> buy, sell |-> sell]
    BY <1>10 DEF TakeRefs, u, buy, v, sell
  <2>2. Takes([w |-> u, buy |-> buy, sell |-> sell], w)
    BY <1>1, <1>4, <1>5, <1>8, <1>9 DEF Takes, N
  <2>. QED BY <2>1, <2>2
<1>11. CASE args = "buy"
  <2>1. TakeRefs(w, args) = [w |-> v, buy |-> sell, sell |-> NoRef]
    BY <1>11 DEF TakeRefs, v, sell
  <2>2. Takes([w |-> v, buy |-> sell, sell |-> NoRef], w)
    BY <1>1, <1>2, <1>4, <1>5 DEF Takes, N
  <2>. QED BY <2>1, <2>2
<1>12. CASE args = "buy, nil"
  <2>1. TakeRefs(w, args) = [w |-> w, buy |-> NoRef, sell |-> NoRef]
    BY <1>12 DEF TakeRefs
  <2>2. Takes([w |-> w, buy |-> NoRef, sell |-> NoRef], w)
    BY <1>1, <1>2 DEF Takes, N
  <2>. QED BY <2>1, <2>2
<1>. QED BY <1>10, <1>11, <1>12

(* A script opens a window; one that is open is closed first. *)
LEMMA OpenKeeps ==
  ASSUME NpcsAssumption, NpcInv, OpenShopWindow
  PROVE  NpcInv'
<1>1. PICK n \in Npcs, p \in Customers, args \in {"both", "buy", "buy, nil"} :
        /\ npc[n].there /\ npc[n].handler /\ client[p].online
        /\ LET closed == CloseShopWindow(World, p)
               took == TakeRefs(closed, args)
               added == [AddShopPlayer(took.w, n, p) EXCEPT !.client[p].items = TRUE]
           IN  Cardinality(closed.refs) + 2 <= MaxRefs /\ Become(SetShopOwner(added, p, n, took.buy, took.sell))
        /\ UNCHANGED npcReloads
  BY DEF OpenShopWindow
<1>. DEFINE w == CloseShopWindow(World, p)
            t == TakeRefs(w, args)
            d == AddShopPlayer(t.w, n, p)
            a == [d EXCEPT !.client[p].items = TRUE]
            v == SetShopOwner(a, p, n, t.buy, t.sell)
<1>2. World \in NpcWorlds /\ ShopsAgree(World) /\ Seen(World) /\ World.client = client /\ World.npc = npc
  BY DEF NpcInv, World
<1>3. Shuts(w, World, p, FALSE) /\ Closes(w, World, Npcs \X {p})
  BY <1>2, CloseShopWindowDoes, CloseShopWindowCloses
<1>4. Become(v) /\ Cardinality(w.refs) + 2 <= MaxRefs
  BY <1>1
<1>. HIDE DEF w
<1>5. AfterShut(w, World, p) /\ Seen(w) /\ w \in NpcWorlds /\ ShopsAgree(w)
  <2>1. AfterShut(w, World, p)
    BY <1>2, <1>3, ShutAgrees
  <2>2. Seen(w)
    BY <1>2, <1>3, SeenKept
  <2>. QED BY <1>3, <2>1, <2>2 DEF Closes
<1>6. Takes(t, w)
  BY <1>4, <1>5, TakeRefsDoes
<1>. HIDE DEF t
<1>. DEFINE k == [w.npc[n] EXCEPT !.shop = w.npc[n].shop \cup {p}]
            c == [w.client[p] EXCEPT !.items = TRUE]
<1>7. t.w \in NpcWorlds /\ t.w.npc = w.npc /\ t.w.client = w.client /\ t.w.faults = {}
  BY <1>3, <1>6 DEF Takes, Shuts
<1>8. w.npc \in [Npcs -> NpcStates] /\ w.client \in [Customers -> ClientStates]
  BY <1>5, NpcWorldParts
<1>9. /\ d \in NpcWorlds /\ d.npc = [w.npc EXCEPT ![n] = k] /\ d.client = w.client /\ d.refs = t.w.refs /\ d.faults = {}
  <2>. DEFINE u == t.w
              an == [u.npc EXCEPT ![n].shop = u.npc[n].shop \cup {p}]
  <2>1. /\ u.npc \in [Npcs -> NpcStates] /\ u.client \in [Customers -> ClientStates] /\ u.refs \in SUBSET (1 .. MaxRefs)
        /\ u.faults \in SUBSET {"dead", "twice", "crash"}
        /\ u = [npc |-> u.npc, client |-> u.client, refs |-> u.refs, faults |-> u.faults]
    BY <1>7, NpcWorldParts
  <2>2. d = [u EXCEPT !.npc = an]
    BY <2>1 DEF AddShopPlayer
  <2>3. an = [w.npc EXCEPT ![n] = k]
    BY <1>7, <1>8
  <2>4. k \in NpcStates
    BY <1>8 DEF NpcStates
  <2>5. an \in [Npcs -> NpcStates]
    <3>. HIDE DEF k, an
    <3>. QED BY <1>8, <2>3, <2>4
  <2>. HIDE DEF d, an, k, u
  <2>6. d = [npc |-> an, client |-> u.client, refs |-> u.refs, faults |-> u.faults]
    BY <2>1, <2>2
  <2>7. d \in NpcWorlds
    BY <2>1, <2>5, <2>6 DEF NpcWorlds
  <2>8. d.npc = an /\ d.client = u.client /\ d.refs = u.refs /\ d.faults = u.faults
    BY <2>6
  <2>. QED BY <1>7, <2>3, <2>7, <2>8 DEF u
<1>. HIDE DEF d
<1>10. a.client = [w.client EXCEPT ![p] = c]
  BY <1>9 DEF NpcWorlds
<1>11. a.npc = d.npc /\ a.refs = t.w.refs /\ a.faults = {}
  BY <1>9 DEF NpcWorlds
<1>14. a \in NpcWorlds
  <2>1. c \in ClientStates
    BY <1>8 DEF ClientStates
  <2>2. [d.client EXCEPT ![p] = c] \in [Customers -> ClientStates]
    BY <1>8, <1>9, <2>1
  <2>3. a.client \in [Customers -> ClientStates]
    BY <1>9, <1>10, <2>2
  <2>4. DOMAIN a = DOMAIN d
    OBVIOUS
  <2>. HIDE DEF c
  <2>5. a = [d EXCEPT !.client = a.client]
    BY <1>9 DEF NpcWorlds
  <2>. HIDE DEF a
  <2>. QED BY <1>9, <2>3, <2>5 DEF NpcWorlds
<1>12. /\ k \in NpcStates /\ k.shop = w.npc[n].shop \cup {p} /\ k.there = w.npc[n].there /\ k.handler = w.npc[n].handler
       /\ k.pos = w.npc[n].pos /\ k.idle = w.npc[n].idle /\ k.spectators = w.npc[n].spectators
  BY <1>8 DEF NpcStates
<1>13. c \in ClientStates /\ c.online = w.client[p].online /\ c.pos = w.client[p].pos
  BY <1>8 DEF ClientStates
<1>. HIDE DEF a, k, c
<1>15. Owns(v, a, p, n, t.buy, t.sell)
  <2>1. n \in Npcs \cup {NoNpc} /\ t.buy \in (1 .. MaxRefs) \cup {NoRef} /\ t.sell \in (1 .. MaxRefs) \cup {NoRef}
    BY <1>6 DEF Takes
  <2>. QED BY <1>14, <2>1, SetShopOwnerDoes
<1>. HIDE DEF v
<1>16. World' = v /\ v \in NpcWorlds
  BY <1>4, <1>15, WorldAfter DEF Owns
<1>. DEFINE b == [c EXCEPT !.owner = n, !.buy = t.buy, !.sell = t.sell]
<1>17. v.npc = a.npc /\ v.refs = w.refs \cup ({t.buy, t.sell} \ {NoRef}) /\ v.faults = {} /\ v.client = [w.client EXCEPT ![p] = b]
  <2>1. a.client[p] = c
    BY <1>8, <1>10
  <2>. QED BY <1>6, <1>8, <1>10, <1>11, <1>15, <2>1 DEF Owns, Takes
<1>18. b.owner = n /\ b.buy = t.buy /\ b.sell = t.sell /\ b.online = w.client[p].online /\ b.pos = w.client[p].pos
  BY <1>13 DEF ClientStates
<1>. HIDE DEF b
<1>19. \A q \in Customers : v.client[q] = IF q = p THEN b ELSE w.client[q]
  BY <1>8, <1>17
<1>20. \A m \in Npcs : v.npc[m] = IF m = n THEN k ELSE w.npc[m]
  BY <1>8, <1>9, <1>11, <1>17, ZenonT(60)
<1>21. w.client[p].owner = NoNpc /\ NoNpc \notin Npcs /\ w.client[p].online /\ w.npc[n].there /\ w.npc[n].handler
  <2>1. w.npc[n] = NpcWithout(npc[n], {p})
    BY <1>2, <1>5 DEF AfterShut
  <2>2. npc[n] \in NpcStates
    BY <1>2, NpcWorldParts
  <2>3. w.npc[n].there /\ w.npc[n].handler
    BY <1>1, <2>1, <2>2 DEF NpcWithout, NpcStates
  <2>. QED BY <1>1, <1>2, <1>5, <2>3 DEF AfterShut, NpcsAssumption
<1>22. Held(b) = {t.buy, t.sell} \ {NoRef} /\ Held(b) \cap w.refs = {}
  BY <1>6, <1>18 DEF Held, Takes
<1>23. ShopsAgree(v)
  <2>1. \A q \in Customers : q # p => Held(v.client[q]) \subseteq w.refs
    BY <1>5, <1>19 DEF ShopsAgree
  <2>0. ASSUME NEW m \in Npcs, NEW q \in Customers
        PROVE /\ q \in v.npc[m].shop <=> v.client[q].owner = m
              /\ v.client[q].owner = m => v.npc[m].there /\ v.npc[m].handler /\ v.client[q].online
    <3>1. /\ q \in w.npc[m].shop <=> w.client[q].owner = m
          /\ w.client[q].owner = m => w.npc[m].there /\ w.npc[m].handler /\ w.client[q].online
      BY <1>5 DEF ShopsAgree
    <3>2. /\ v.npc[m].there = w.npc[m].there /\ v.npc[m].handler = w.npc[m].handler
          /\ v.npc[m].shop = IF m = n THEN w.npc[m].shop \cup {p} ELSE w.npc[m].shop
      BY <1>12, <1>20
    <3>3. CASE q = p
      BY <1>18, <1>19, <1>21, <3>1, <3>2, <3>3
    <3>4. CASE q # p
      BY <1>19, <3>1, <3>2, <3>4
    <3>. QED BY <3>3, <3>4
  <2>2. \A m \in Npcs, q \in Customers : q \in v.npc[m].shop <=> v.client[q].owner = m
    BY <2>0
  <2>3. \A m \in Npcs, q \in Customers :
          v.client[q].owner = m => v.npc[m].there /\ v.npc[m].handler /\ v.client[q].online
    BY <2>0
  <2>4. \A q \in Customers : v.client[q].owner = NoNpc => v.client[q].buy = NoRef /\ v.client[q].sell = NoRef
    BY <1>5, <1>18, <1>19, <1>21, ZenonT(60) DEF ShopsAgree
  <2>5. \A q \in Customers : v.client[q].buy # NoRef => v.client[q].buy # v.client[q].sell
    <3>1. t.buy # NoRef => t.buy # t.sell
      BY <1>6 DEF Takes
    <3>2. \A q \in Customers : w.client[q].buy # NoRef => w.client[q].buy # w.client[q].sell
      BY <1>5 DEF ShopsAgree
    <3>. QED BY <1>18, <1>19, <3>1, <3>2
  <2>6. \A q, r \in Customers : q # r => Held(v.client[q]) \cap Held(v.client[r]) = {}
    <3>. SUFFICES ASSUME NEW q \in Customers, NEW r \in Customers, q # r PROVE Held(v.client[q]) \cap Held(v.client[r]) = {}
      OBVIOUS
    <3>1. CASE q = p
      <4>1. Held(v.client[q]) = Held(b) /\ Held(v.client[r]) \subseteq w.refs
        BY <1>19, <2>1, <3>1
      <4>. QED BY <1>22, <4>1
    <3>2. CASE r = p
      <4>1. Held(v.client[r]) = Held(b) /\ Held(v.client[q]) \subseteq w.refs
        BY <1>19, <2>1, <3>2
      <4>. QED BY <1>22, <4>1
    <3>3. CASE q # p /\ r # p
      BY <1>5, <1>19, <3>3 DEF ShopsAgree
    <3>. QED BY <3>1, <3>2, <3>3
  <2>7. \A q \in Customers : Held(v.client[q]) \subseteq v.refs
    BY <1>17, <1>19, <1>22, <2>1
  <2>8. \A r \in v.refs : \E q \in Customers : r \in Held(v.client[q])
    <3>. TAKE r \in v.refs
    <3>1. CASE r \in Held(b)
      BY <1>19, <3>1
    <3>2. CASE r \notin Held(b)
      <4>1. r \in w.refs
        BY <1>17, <1>22, <3>2
      <4>2. PICK q \in Customers : r \in Held(w.client[q])
        BY <1>5, <4>1 DEF ShopsAgree
      <4>3. q # p
        BY <1>5, <1>21, <4>2, ZenonT(60) DEF ShopsAgree, Held
      <4>. QED BY <1>19, <4>2, <4>3
    <3>. QED BY <3>1, <3>2
  <2>. QED BY <1>17, <2>2, <2>3, <2>4, <2>5, <2>6, <2>7, <2>8 DEF ShopsAgree
<1>24. Seen(v)
  <2>1. \A m \in Npcs : /\ v.npc[m].there = w.npc[m].there /\ v.npc[m].idle = w.npc[m].idle
                        /\ v.npc[m].spectators = w.npc[m].spectators /\ v.npc[m].pos = w.npc[m].pos
                        /\ w.npc[m].spectators \subseteq Customers
    BY <1>8, <1>12, <1>20 DEF NpcStates
  <2>2. \A q \in Customers : v.client[q].online = w.client[q].online /\ v.client[q].pos = w.client[q].pos
    BY <1>18, <1>19
  <2>. QED BY <1>5, <2>1, <2>2 DEF Seen
<1>. QED BY <1>16, <1>23, <1>24 DEF NpcInv

(* An NPC leaves the map after its windows were closed. *)
LEMMA RemoveKeeps ==
  ASSUME NpcsAssumption, NpcInv, RemoveNpc
  PROVE  NpcInv'
<1>1. PICK n \in Npcs : LET w == CloseAllShopWindows(World, {n}) IN Become([w EXCEPT !.npc[n].there = FALSE])
  BY DEF RemoveNpc
<1>. DEFINE w == CloseAllShopWindows(World, {n})
            v == [w EXCEPT !.npc[n].there = FALSE]
            k == [w.npc[n] EXCEPT !.there = FALSE]
<1>2. World \in NpcWorlds /\ ShopsAgree(World) /\ Seen(World)
  BY DEF NpcInv
<1>3. Closes(w, World, OpenWindows(World, {n}))
  BY <1>2, AllShopsCloses
<1>4. Become(v)
  BY <1>1
<1>. HIDE DEF w
<1>5. w \in NpcWorlds /\ ShopsAgree(w) /\ Seen(w)
  BY <1>2, <1>3, SeenKept DEF Closes
<1>6. w.npc \in [Npcs -> NpcStates] /\ w.client \in [Customers -> ClientStates]
  BY <1>5, NpcWorldParts
<1>7. w.npc[n].shop = {}
  <2>1. \A p \in Customers : p \in World.npc[n].shop => <<n, p>> \in OpenWindows(World, {n})
    BY DEF OpenWindows
  <2>2. \A p \in Customers : <<n, p>> \in OpenWindows(World, {n}) => p \notin w.npc[n].shop
    BY <1>3 DEF Closes
  <2>3. w.npc[n].shop \subseteq World.npc[n].shop /\ w.npc[n].shop \subseteq Customers
    BY <1>3, <1>6 DEF Closes, NpcStates
  <2>. QED BY <2>1, <2>2, <2>3
<1>8. v.npc = [w.npc EXCEPT ![n] = k]
  BY <1>5 DEF NpcWorlds
<1>9. v.client = w.client /\ v.refs = w.refs /\ v.faults = w.faults
  BY <1>5 DEF NpcWorlds
<1>10. k \in NpcStates /\ k.shop = {} /\ ~k.there
  BY <1>6, <1>7 DEF NpcStates
<1>12. v \in NpcWorlds
  <2>1. v = [w EXCEPT !.npc = v.npc]
    BY <1>5 DEF NpcWorlds
  <2>. HIDE DEF v, k
  <2>2. v.npc \in [Npcs -> NpcStates]
    BY <1>6, <1>8, <1>10
  <2>. QED BY <1>5, <2>1, <2>2 DEF NpcWorlds
<1>. HIDE DEF v, k
<1>11. \A m \in Npcs : v.npc[m] = IF m = n THEN k ELSE w.npc[m]
  BY <1>6, <1>8, <1>10
<1>13. World' = v
  BY <1>4, <1>12, WorldAfter
<1>14. \A p \in Customers : w.client[p].owner # n
  BY <1>5, <1>7 DEF ShopsAgree
<1>15. ShopsAgree(v)
  BY <1>5, <1>9, <1>10, <1>11, <1>14 DEF ShopsAgree
<1>16. Seen(v)
  BY <1>5, <1>9, <1>10, <1>11 DEF Seen
<1>. QED BY <1>12, <1>13, <1>15, <1>16 DEF NpcInv

(* /reload npcs closes every window before the first NPC loses its         *)
(* script.                                                                 *)
LEMMA ReloadKeeps ==
  ASSUME NpcsAssumption, NpcInv, Reload
  PROVE  NpcInv'
<1>. DEFINE ns == {n \in Npcs : npc[n].there}
            w == CloseAllShopWindows(World, ns)
<1>1. PICK file \in [Npcs -> {"good", "broken"}] :
        Become([w EXCEPT !.npc = [n \in Npcs |-> IF w.npc[n].there THEN Appear(Reset(w.npc[n]), file[n]) ELSE w.npc[n]]])
  BY DEF Reload
<1>2. World \in NpcWorlds /\ ShopsAgree(World) /\ Seen(World) /\ World.npc = npc /\ World.client = client
  BY DEF NpcInv, World
<1>3. Closes(w, World, OpenWindows(World, ns))
  BY <1>2, AllShopsCloses
<1>. DEFINE anew(n) == IF w.npc[n].there THEN Appear(Reset(w.npc[n]), file[n]) ELSE w.npc[n]
<1>. HIDE DEF w
<1>4. w \in NpcWorlds /\ ShopsAgree(w) /\ Seen(w)
  BY <1>2, <1>3, SeenKept DEF Closes
<1>5. w.npc \in [Npcs -> NpcStates] /\ w.client \in [Customers -> ClientStates] /\ client \in [Customers -> ClientStates]
  BY <1>2, <1>4, NpcWorldParts
<1>6. npc' = [n \in Npcs |-> anew(n)] /\ client' = w.client /\ refs' = w.refs /\ npcFaults' = w.faults
  BY <1>1, <1>4 DEF Become, NpcWorlds
<1>7. ASSUME NEW n \in Npcs PROVE w.npc[n].shop = {}
  <2>0. npc[n] \in NpcStates /\ w.npc[n] \in NpcStates
    BY <1>2, <1>5, NpcWorldParts
  <2>1. w.npc[n].shop \subseteq npc[n].shop /\ w.npc[n].shop \subseteq Customers
    BY <1>2, <1>3, <2>0 DEF Closes, NpcStates
  <2>2. CASE npc[n].there
    <3>1. \A p \in Customers : p \in npc[n].shop => <<n, p>> \in OpenWindows(World, ns)
      BY <1>2, <2>2 DEF OpenWindows
    <3>2. \A p \in Customers : <<n, p>> \in OpenWindows(World, ns) => p \notin w.npc[n].shop
      BY <1>3 DEF Closes
    <3>. QED BY <2>1, <3>1, <3>2
  <2>3. CASE ~npc[n].there
    <3>1. \A p \in Customers : p \notin npc[n].shop
      BY <1>2, <2>3 DEF ShopsAgree
    <3>. QED BY <2>1, <3>1
  <2>. QED BY <2>2, <2>3
<1>8. \A p \in Customers : w.client[p].owner \notin Npcs
  BY <1>4, <1>7 DEF ShopsAgree
<1>9. ASSUME NEW n \in Npcs, w.npc[n].there
      PROVE  NewNpc(npc'[n], Reset(w.npc[n]), TRUE, w.npc[n].pos)
  <2>1. /\ Reset(w.npc[n]) \in NpcStates /\ Reset(w.npc[n]).shop = {} /\ Reset(w.npc[n]).there = TRUE
        /\ Reset(w.npc[n]).pos = w.npc[n].pos
    BY <1>5, <1>9 DEF Reset, NpcStates
  <2>2. npc'[n] = Appear(Reset(w.npc[n]), file[n])
    BY <1>6, <1>9
  <2>3. NewNpc(Appear(Reset(w.npc[n]), file[n]), Reset(w.npc[n]), Reset(w.npc[n]).there, Reset(w.npc[n]).pos)
    BY <2>1, AppearDoes
  <2>. QED BY <2>1, <2>2, <2>3
<1>10. \A n \in Npcs : ~w.npc[n].there => npc'[n] = w.npc[n]
  BY <1>6
<1>11. \A n \in Npcs : npc'[n] \in NpcStates /\ npc'[n].shop = {}
  BY <1>5, <1>7, <1>9, <1>10 DEF NewNpc
<1>12. npc' \in [Npcs -> NpcStates]
  BY <1>6, <1>11
<1>13. World' \in NpcWorlds
  BY <1>4, <1>6, <1>12, NpcWorldParts DEF World, NpcWorlds
<1>14. ShopsAgree(World')
  <2>1. World'.npc = npc' /\ World'.client = w.client /\ World'.refs = w.refs /\ World'.faults = {}
    BY <1>4, <1>6 DEF World, ShopsAgree
  <2>. DEFINE v == World'
  <2>. HIDE DEF v
  <2>2. \A n \in Npcs : v.npc[n].shop = {}
    BY <1>11, <2>1 DEF v
  <2>3. v.client = w.client /\ v.refs = w.refs /\ v.faults = {}
    BY <2>1 DEF v
  <2>4. \A n \in Npcs, p \in Customers : w.client[p].owner # n
    BY <1>8
  <2>5. ShopsAgree(v)
    BY <1>4, <2>2, <2>3, <2>4 DEF ShopsAgree
  <2>. QED BY <2>5 DEF v
<1>15. Seen(World')
  <2>. SUFFICES ASSUME NEW n \in Npcs, npc'[n].there, WalkRadius[n] = 0
                PROVE  /\ npc'[n].idle <=> npc'[n].spectators = {}
                       /\ \A q \in npc'[n].spectators : client'[q].online /\ Near(client'[q].pos, npc'[n].pos, Hearing)
                       /\ \A q \in Customers : client'[q].online /\ Near(client'[q].pos, npc'[n].pos, View) => q \in npc'[n].spectators
    BY DEF Seen, World
  <2>1. \A q \in Customers : client'[q].online = client[q].online /\ client'[q].pos = client[q].pos
    BY <1>2, <1>3, <1>6 DEF Closes
  <2>2. w.npc[n].there
    BY <1>10
  <2>3. w.npc[n].pos \in 0 .. StreetEnd /\ npc'[n] \in NpcStates
    BY <1>5, <1>11 DEF NpcStates
  <2>4. NewNpc(npc'[n], Reset(w.npc[n]), TRUE, w.npc[n].pos)
    BY <1>9, <2>2
  <2>. DEFINE k == npc'[n]
  <2>. HIDE DEF k
  <2>5. Awake(k)
    BY <1>5, <2>3, <2>4, NewNpcSees DEF k
  <2>6. npc'[n].spectators \subseteq Customers
    BY <2>3 DEF NpcStates
  <2>. QED BY <2>1, <2>5, <2>6 DEF Awake, k
<1>. QED BY <1>13, <1>14, <1>15 DEF NpcInv

(* At the start nobody is in the game and no window is open. *)
LEMMA NpcInitHolds ==
  ASSUME NpcsAssumption, NpcInit
  PROVE  NpcInv
<1>1. World \in NpcWorlds
  BY DEF NpcInit, NpcsAssumption, World, NpcWorlds, NpcStates, ClientStates
<1>2. ShopsAgree(World)
  BY DEF NpcInit, NpcsAssumption, World, ShopsAgree, Held
<1>3. Seen(World)
  BY DEF NpcInit, World, Seen
<1>. QED BY <1>1, <1>2, <1>3 DEF NpcInv

(* The inductive invariant implies what is stated of NPCs. *)
LEMMA NpcInvImplies ==
  ASSUME NpcsAssumption, NpcInv
  PROVE  NpcsAgree
<1>1. World \in NpcWorlds /\ ShopsAgree(World) /\ Seen(World)
  BY DEF NpcInv
<1>2. /\ npc \in [Npcs -> NpcStates] /\ client \in [Customers -> ClientStates]
      /\ refs \in SUBSET (1 .. MaxRefs)
  BY <1>1 DEF NpcWorlds, World
<1>3. NpcTypeOK
  BY <1>2 DEF NpcTypeOK, NpcStates, ClientStates
<1>4. CustomersAgree
  BY <1>1 DEF CustomersAgree, ShopsAgree, World
<1>5. RefsAreOwned
  <2>1. refs = UNION {Held(client[p]) : p \in Customers}
    BY <1>1 DEF ShopsAgree, World
  <2>. QED BY <1>1, <2>1 DEF RefsAreOwned, ShopsAgree, World, Held
<1>6. SeenIsAwake
  BY <1>1 DEF SeenIsAwake, Seen, World
<1>. QED BY <1>3, <1>4, <1>5, <1>6 DEF NpcsAgree

(* Customers and shop windows agree, every reference into the script       *)
(* engine is held by one window and released once, and an NPC that         *)
(* somebody sees is awake (npc.cpp, player.cpp), for any players, NPCs,    *)
(* places and walk radii: through trades, logouts in the middle of one,    *)
(* removals and /reload npcs with files that cannot be read.               *)
THEOREM NpcsStayInAgreement ==
  ASSUME NpcsAssumption
  PROVE  NpcSpec => []NpcsAgree
<1>1. NpcInit => NpcInv
  BY NpcInitHolds
<1>2. NpcInv /\ [NpcNext]_npcVars => NpcInv'
  <2>. SUFFICES ASSUME NpcInv, [NpcNext]_npcVars PROVE NpcInv'
    OBVIOUS
  <2>1. CASE UNCHANGED npcVars
    <3>1. World' = World
      BY <2>1 DEF npcVars, World
    <3>. QED BY <3>1 DEF NpcInv
  <2>. QED BY <2>1, OpenKeeps, LuaCloseKeeps, CloseShopKeeps, TradesKeeps, LoginKeeps, LogoutKeeps, PlayerMoveKeeps,
              WalksKeeps, FocusKeeps, CreateNpcKeeps, RemoveKeeps, ReloadKeeps DEF NpcNext
<1>3. NpcInv => NpcsAgree
  BY NpcInvImplies
<1>. QED BY <1>1, <1>2, <1>3, PTL DEF NpcSpec
=============================================================================
