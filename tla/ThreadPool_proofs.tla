-------------------------- MODULE ThreadPool_proofs --------------------------
(***************************************************************************)
(* Proofs about ThreadPool, for any number of workers and of tasks.        *)
(***************************************************************************)
EXTENDS ThreadPool, FiniteSetTheorems, SequenceTheorems, TLAPS

(***************************************************************************)
(* An element appended to the end of the second of two sequences is        *)
(* appended to the end of both (what enqueue does to accepted).            *)
(***************************************************************************)
LEMMA AppendToConcat ==
  ASSUME NEW S, NEW a \in Seq(S), NEW b \in Seq(S), NEW c \in Seq(S), NEW e \in S,
         c = a \o b
  PROVE  Append(c, e) = a \o Append(b, e)
<1> DEFINE l == Append(c, e)
           r == a \o Append(b, e)
<1>1. a \o b \in Seq(S) /\ Append(b, e) \in Seq(S)
  BY ConcatProperties
<1>2. l \in Seq(S) /\ r \in Seq(S)
  BY <1>1, ConcatProperties
<1>3. Len(a) \in Nat /\ Len(b) \in Nat
  BY LenProperties
<1>4. Len(l) = Len(a) + Len(b) + 1 /\ Len(r) = Len(a) + Len(b) + 1
  BY <1>1, <1>3, ConcatProperties
<1>5. ASSUME NEW i \in 1..Len(l) PROVE l[i] = r[i]
  <2>1. CASE i <= Len(a) + Len(b)
    BY <2>1, <1>1, <1>3, <1>4, ConcatProperties
  <2>2. CASE i = Len(a) + Len(b) + 1
    BY <2>2, <1>1, <1>3, <1>4, ConcatProperties
  <2> QED
    BY <2>1, <2>2, <1>3, <1>4
<1> QED
  BY <1>2, <1>4, <1>5, SeqEqual

(***************************************************************************)
(* The head of the second sequence may move to the end of the first (what  *)
(* a worker does to started and tasks).                                    *)
(***************************************************************************)
LEMMA HeadToConcat ==
  ASSUME NEW S, NEW a \in Seq(S), NEW b \in Seq(S), b # <<>>
  PROVE  Append(a, Head(b)) \o Tail(b) = a \o b
<1> DEFINE l == Append(a, Head(b)) \o Tail(b)
           r == a \o b
<1>1. Head(b) \in S /\ Tail(b) \in Seq(S) /\ Append(a, Head(b)) \in Seq(S)
  BY HeadTailProperties
<1>2. l \in Seq(S) /\ r \in Seq(S)
  BY <1>1, ConcatProperties
<1>3. Len(a) \in Nat /\ Len(b) \in Nat \ {0} /\ Len(Tail(b)) = Len(b) - 1
  BY LenProperties, EmptySeq, HeadTailProperties
<1>4. Len(l) = Len(a) + Len(b) /\ Len(r) = Len(a) + Len(b)
  BY <1>1, <1>3, ConcatProperties
<1>5. ASSUME NEW i \in 1..Len(l) PROVE l[i] = r[i]
  <2>1. CASE i <= Len(a)
    BY <2>1, <1>1, <1>3, <1>4, ConcatProperties
  <2>2. CASE i = Len(a) + 1
    BY <2>2, <1>1, <1>3, <1>4, ConcatProperties
  <2>3. CASE i > Len(a) + 1
    <3>1. i - (Len(a) + 1) \in 1..Len(Tail(b))
      BY <2>3, <1>3, <1>4
    <3>2. l[i] = Tail(b)[i - (Len(a) + 1)]
      BY <2>3, <1>1, <1>3, <1>4, ConcatProperties
    <3>3. Tail(b)[i - (Len(a) + 1)] = b[i - Len(a)]
      BY <3>1, <1>3, HeadTailProperties
    <3>4. r[i] = b[i - Len(a)]
      BY <2>3, <1>3, <1>4, ConcatProperties
    <3> QED
      BY <3>2, <3>3, <3>4
  <2> QED
    BY <2>1, <2>2, <2>3, <1>3, <1>4
<1> QED
  BY <1>2, <1>4, <1>5, SeqEqual

(***************************************************************************)
(* The sets that NoLostWakeup counts are finite, now and after a step.     *)
(***************************************************************************)
LEMMA CountedFinite ==
  /\ IsFiniteSet(Ready) /\ Cardinality(Ready) \in Nat
  /\ IsFiniteSet(Notifying) /\ Cardinality(Notifying) \in Nat
<1>1. Ready \in SUBSET Worker /\ Notifying \in SUBSET Task
  BY DEF Ready, Notifying
<1> QED
  BY <1>1, PoolAssumption, FS_Subset, FS_CardinalityType

\* What is left of QueueInv when the counting is put aside.
BaseInv ==
  /\ TypeOK
  /\ accepted = started \o tasks
  /\ StopIsDestructor
  /\ ExitedWhenDrained
  /\ IdleHasNoTask

(***************************************************************************)
(* The critical sections of enqueue keep the queue in order; a pool that   *)
(* is not stopped has no worker that has left.                             *)
(***************************************************************************)
LEMMA CallerBase ==
  ASSUME BaseInv, NEW t \in Task, CallerStep(t)
  PROVE  BaseInv'
<1> USE DEF BaseInv
<1>1. CASE Enqueue(t)
  <2>1. accepted' = started' \o tasks'
    <3>1. tasks \in Seq(Task) /\ started \in Seq(Task) /\ accepted \in Seq(Task)
      BY DEF TypeOK
    <3>2. Append(accepted, t) = started \o Append(tasks, t)
      BY <3>1, AppendToConcat
    <3> QED
      BY <1>1, <3>2 DEF Enqueue
  <2>2. TypeOK'
    BY <1>1 DEF Enqueue, TypeOK
  <2> QED
    BY <1>1, <2>1, <2>2
       DEF Enqueue, TypeOK, StopIsDestructor, ExitedWhenDrained, IdleHasNoTask, Waiting
<1>2. CASE EnqueueThrows(t)
  BY <1>2 DEF EnqueueThrows, TypeOK, StopIsDestructor, ExitedWhenDrained, IdleHasNoTask, Waiting
<1>3. CASE NotifyOne(t)
  <2>1. TypeOK'
    BY <1>3 DEF NotifyOne, TypeOK, Waiting
  <2>2. StopIsDestructor'
    BY <1>3 DEF NotifyOne, TypeOK, StopIsDestructor, Waiting
  <2> QED
    BY <1>3, <2>1, <2>2 DEF NotifyOne, TypeOK, ExitedWhenDrained, IdleHasNoTask, Waiting
<1> QED
  BY <1>1, <1>2, <1>3 DEF CallerStep

(***************************************************************************)
(* A worker takes from the head of the queue, and leaves only when there   *)
(* is nothing to take.                                                     *)
(***************************************************************************)
LEMMA WorkerBase ==
  ASSUME BaseInv, NEW w \in Worker, WorkerStep(w) \/ WakeSpuriously(w)
  PROVE  BaseInv'
<1> USE DEF BaseInv
<1>1. CASE Take(w)
  <2>1. Head(tasks) \in Task /\ Tail(tasks) \in Seq(Task)
    BY <1>1, HeadTailProperties DEF Take, TypeOK
  <2>2. accepted' = started' \o tasks'
    BY <1>1, HeadToConcat DEF Take, TypeOK
  <2>3. TypeOK'
    BY <1>1, <2>1 DEF Take, TypeOK
  <2> QED
    BY <1>1, <2>2, <2>3
       DEF Take, TypeOK, StopIsDestructor, ExitedWhenDrained, IdleHasNoTask, Waiting
<1>2. CASE Sleep(w)
  BY <1>2 DEF Sleep, TypeOK, StopIsDestructor, ExitedWhenDrained, IdleHasNoTask, Waiting
<1>3. CASE Exit(w)
  BY <1>3 DEF Exit, TypeOK, StopIsDestructor, ExitedWhenDrained, IdleHasNoTask, Waiting
<1>4. CASE Finish(w)
  BY <1>4 DEF Finish, TypeOK, StopIsDestructor, ExitedWhenDrained, IdleHasNoTask, Waiting
<1>5. CASE WakeSpuriously(w)
  BY <1>5 DEF WakeSpuriously, TypeOK, StopIsDestructor, ExitedWhenDrained, IdleHasNoTask, Waiting
<1> QED
  BY <1>1, <1>2, <1>3, <1>4, <1>5 DEF WorkerStep

LEMMA DestructorBase ==
  ASSUME BaseInv, Stop \/ DestructorStep
  PROVE  BaseInv'
<1> USE DEF BaseInv
<1>1. CASE Stop
  BY <1>1 DEF Stop, TypeOK, StopIsDestructor, ExitedWhenDrained, IdleHasNoTask, Waiting
<1>2. CASE NotifyAll
  BY <1>2 DEF NotifyAll, TypeOK, StopIsDestructor, ExitedWhenDrained, IdleHasNoTask, Waiting
<1>3. CASE Destroyed
  BY <1>3 DEF Destroyed, TypeOK, StopIsDestructor, ExitedWhenDrained, IdleHasNoTask, Waiting
<1> QED
  BY <1>1, <1>2, <1>3 DEF DestructorStep

(***************************************************************************)
(* A task that is queued brings a caller that will notify; the caller's    *)
(* notification brings a worker that will look.                            *)
(***************************************************************************)
LEMMA CallerWakes ==
  ASSUME TypeOK, NoLostWakeup, NEW t \in Task, CallerStep(t)
  PROVE  NoLostWakeup'
<1>1. Len(tasks) \in Nat
  BY LenProperties DEF TypeOK
<1>2. CASE Enqueue(t)
  <2>1. Notifying' = Notifying \cup {t} /\ t \notin Notifying
    BY <1>2 DEF Enqueue, Notifying, TypeOK
  <2>2. Cardinality(Notifying') = Cardinality(Notifying) + 1
    BY <2>1, CountedFinite, FS_AddElement
  <2>3. Len(tasks') = Len(tasks) + 1
    BY <1>2 DEF Enqueue, TypeOK
  <2>4. Ready' = Ready /\ Waiting' = Waiting
    BY <1>2 DEF Enqueue, Ready, Waiting
  <2> QED
    BY <1>1, <2>2, <2>3, <2>4, CountedFinite DEF NoLostWakeup
<1>3. CASE EnqueueThrows(t)
  <2>1. Notifying' = Notifying /\ Ready' = Ready /\ Waiting' = Waiting /\ tasks' = tasks
    BY <1>3 DEF EnqueueThrows, Notifying, Ready, Waiting, TypeOK
  <2> QED
    BY <2>1 DEF NoLostWakeup
<1>4. CASE NotifyOne(t)
  <2>1. Notifying' = Notifying \ {t} /\ t \in Notifying /\ tasks' = tasks
    BY <1>4 DEF NotifyOne, Notifying, TypeOK
  <2>2. Cardinality(Notifying') = Cardinality(Notifying) - 1
    BY <2>1, CountedFinite, FS_RemoveElement
  <2>3. CASE Waiting = {}
    BY <1>4, <2>3 DEF NotifyOne, NoLostWakeup, Waiting
  <2>4. ASSUME NEW w \in Waiting, worker' = [worker EXCEPT ![w] = "ready"]
        PROVE  NoLostWakeup'
    <3>1. Ready' = Ready \cup {w} /\ w \notin Ready /\ Waiting # {}
      BY <2>4 DEF Ready, Waiting, TypeOK
    <3>2. Cardinality(Ready') = Cardinality(Ready) + 1
      BY <3>1, CountedFinite, FS_AddElement
    <3> QED
      BY <1>1, <2>1, <2>2, <3>1, <3>2, CountedFinite DEF NoLostWakeup
  <2> QED
    BY <1>4, <2>3, <2>4 DEF NotifyOne
<1> QED
  BY <1>2, <1>3, <1>4 DEF CallerStep

(***************************************************************************)
(* A worker that stops being ready takes a task with it or finds none.     *)
(***************************************************************************)
LEMMA WorkerWakes ==
  ASSUME TypeOK, NoLostWakeup, NEW w \in Worker, WorkerStep(w) \/ WakeSpuriously(w)
  PROVE  NoLostWakeup'
<1>1. Len(tasks) \in Nat
  BY LenProperties DEF TypeOK
<1>2. Notifying' = Notifying
  BY DEF WorkerStep, Take, Sleep, Exit, Finish, WakeSpuriously, Notifying
<1>3. CASE Take(w)
  <2>1. Ready' = Ready \ {w} /\ w \in Ready /\ Waiting' = Waiting
    BY <1>3 DEF Take, Ready, Waiting, TypeOK
  <2>2. Cardinality(Ready') = Cardinality(Ready) - 1
    BY <2>1, CountedFinite, FS_RemoveElement
  <2>3. Len(tasks') = Len(tasks) - 1
    BY <1>3, HeadTailProperties DEF Take, TypeOK
  <2> QED
    BY <1>1, <1>2, <2>1, <2>2, <2>3, CountedFinite DEF NoLostWakeup
<1>4. CASE Sleep(w) \/ Exit(w)
  <2>1. Len(tasks') = 0
    BY <1>4 DEF Sleep, Exit
  <2>2. Ready' \in SUBSET Worker
    BY DEF Ready
  <2>3. Cardinality(Ready') \in Nat
    BY <2>2, PoolAssumption, FS_Subset, FS_CardinalityType
  <2> QED
    BY <1>2, <2>1, <2>3, CountedFinite DEF NoLostWakeup
<1>5. CASE Finish(w) \/ WakeSpuriously(w)
  <2>1. Ready' = Ready \cup {w} /\ w \notin Ready /\ tasks' = tasks
    BY <1>5 DEF Finish, WakeSpuriously, Ready, TypeOK
  <2>2. Waiting' \subseteq Waiting
    BY <1>5 DEF Finish, WakeSpuriously, Waiting, TypeOK
  <2>3. Cardinality(Ready') = Cardinality(Ready) + 1
    BY <2>1, CountedFinite, FS_AddElement
  <2> QED
    BY <1>1, <1>2, <2>1, <2>2, <2>3, CountedFinite DEF NoLostWakeup
<1> QED
  BY <1>3, <1>4, <1>5 DEF WorkerStep

(***************************************************************************)
(* The destructor wakes everybody.                                         *)
(***************************************************************************)
LEMMA DestructorWakes ==
  ASSUME TypeOK, NoLostWakeup, Stop \/ DestructorStep
  PROVE  NoLostWakeup'
<1>1. CASE Stop \/ Destroyed
  <2>1. Ready' = Ready /\ Waiting' = Waiting /\ Notifying' = Notifying /\ tasks' = tasks
    BY <1>1 DEF Stop, Destroyed, Ready, Waiting, Notifying
  <2> QED
    BY <2>1 DEF NoLostWakeup
<1>2. CASE NotifyAll
  <2>1. Waiting' = {}
    BY <1>2 DEF NotifyAll, Waiting
  <2> QED
    BY <2>1 DEF NoLostWakeup
<1> QED
  BY <1>1, <1>2 DEF DestructorStep

(***************************************************************************)
(* ThreadPool.h:49-65 and 89-98: tasks start in the order in which they    *)
(* were accepted, and no notification is lost, for any number of workers   *)
(* and callers.                                                            *)
(***************************************************************************)
THEOREM QueueInvCorrect == Spec => []QueueInv
<1>1. Init => QueueInv
  <2> SUFFICES ASSUME Init PROVE QueueInv
    OBVIOUS
  <2>1. TypeOK
    BY EmptySeq DEF Init, TypeOK
  <2>2. accepted = started \o tasks
    BY <2>1, ConcatEmptySeq DEF Init, TypeOK
  <2>3. Waiting = {}
    BY DEF Init, Waiting
  <2> QED
    BY <2>1, <2>2, <2>3
       DEF Init, QueueInv, StopIsDestructor, ExitedWhenDrained, IdleHasNoTask, NoLostWakeup
<1>2. QueueInv /\ [Next]_vars => QueueInv'
  <2> SUFFICES ASSUME QueueInv, [Next]_vars PROVE QueueInv'
    OBVIOUS
  <2>1. BaseInv /\ NoLostWakeup
    BY DEF QueueInv, BaseInv
  <2>2. ASSUME NEW t \in Task, CallerStep(t) PROVE BaseInv' /\ NoLostWakeup'
    BY <2>1, <2>2, CallerBase, CallerWakes DEF BaseInv
  <2>3. ASSUME NEW w \in Worker, WorkerStep(w) \/ WakeSpuriously(w)
        PROVE  BaseInv' /\ NoLostWakeup'
    BY <2>1, <2>3, WorkerBase, WorkerWakes DEF BaseInv
  <2>4. ASSUME Stop \/ DestructorStep PROVE BaseInv' /\ NoLostWakeup'
    BY <2>1, <2>4, DestructorBase, DestructorWakes DEF BaseInv
  <2>5. ASSUME UNCHANGED vars PROVE BaseInv' /\ NoLostWakeup'
    BY <2>1, <2>5 DEF vars, BaseInv, TypeOK, StopIsDestructor, ExitedWhenDrained,
         IdleHasNoTask, NoLostWakeup, Waiting, Ready, Notifying
  <2>6. BaseInv' /\ NoLostWakeup'
    BY <2>2, <2>3, <2>4, <2>5 DEF Next, Terminated
  <2> QED
    BY <2>6 DEF QueueInv, BaseInv
<1> QED
  BY <1>1, <1>2, PTL DEF Spec

(***************************************************************************)
(* ThreadPool.h:102: when the destructor has joined its threads, of which  *)
(* there is at least one, every accepted task has been started and none    *)
(* is running.                                                             *)
(***************************************************************************)
THEOREM NothingLeftBehindCorrect == Spec => []NothingLeftBehind
<1>1. QueueInv => NothingLeftBehind
  <2> SUFFICES ASSUME QueueInv, destructor = "destroyed", Worker # {}
               PROVE  accepted = started /\ \A w \in Worker : running[w] = NoTask
    BY DEF NothingLeftBehind
  <2>1. \A w \in Worker : worker[w] = "exited"
    BY DEF QueueInv, StopIsDestructor
  <2>2. tasks = <<>>
    BY <2>1 DEF QueueInv, ExitedWhenDrained
  <2>3. accepted = started
    BY <2>2, ConcatEmptySeq DEF QueueInv, TypeOK
  <2> QED
    BY <2>1, <2>3 DEF QueueInv, IdleHasNoTask
<1> QED
  BY <1>1, QueueInvCorrect, PTL
=============================================================================
