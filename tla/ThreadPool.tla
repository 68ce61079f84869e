----------------------------- MODULE ThreadPool -----------------------------
(***************************************************************************)
(* global::ThreadPool (frame/ThreadPool.h): workers that take tasks from a *)
(* queue under queue_mutex and sleep on a condition variable, callers that *)
(* enqueue, and the destructor that stops the pool and joins the workers.  *)
(*                                                                         *)
(* A step is one critical section, one notification or the end of a task.  *)
(* The notifications are sent after the mutex is released, so anything may *)
(* happen between the two.  A task stands for the call of enqueue that     *)
(* submits it: caller[t] says where that call stands.                      *)
(***************************************************************************)
EXTENDS Integers, Sequences, FiniteSets

CONSTANTS Worker,   \* the threads the constructor launched; may be empty
          Task,     \* the calls of enqueue
          NoTask

ASSUME PoolAssumption ==
  /\ IsFiniteSet(Worker)
  /\ IsFiniteSet(Task)
  /\ NoTask \notin Task

VARIABLES
  tasks,        \* the queue
  stop,
  worker,       \* ready (about to lock), waiting, running, exited
  running,      \* the local task of each worker
  caller,       \* none, notify (unlocked, notify_one not called), returned, threw
  destructor,   \* none, notify (unlocked, notify_all not called), join, destroyed
  accepted,     \* tasks in the order they were queued (history)
  started       \* tasks in the order they were taken (history)

vars == <<tasks, stop, worker, running, caller, destructor, accepted, started>>

Init ==
  /\ tasks = <<>>
  /\ stop = FALSE
  /\ worker = [w \in Worker |-> "ready"]
  /\ running = [w \in Worker |-> NoTask]
  /\ caller = [t \in Task |-> "none"]
  /\ destructor = "none"
  /\ accepted = <<>>
  /\ started = <<>>

Waiting == {w \in Worker : worker[w] = "waiting"}

-----------------------------------------------------------------------------
\* enqueue on a pool that is not stopped, up to the release of the mutex.
Enqueue(t) ==
  /\ caller[t] = "none"
  /\ destructor # "destroyed"
  /\ ~stop
  /\ tasks' = Append(tasks, t)
  /\ accepted' = Append(accepted, t)
  /\ caller' = [caller EXCEPT ![t] = "notify"]
  /\ UNCHANGED <<stop, worker, running, destructor, started>>

\* enqueue on a pool that is being destroyed throws.
EnqueueThrows(t) ==
  /\ caller[t] = "none"
  /\ destructor # "destroyed"
  /\ stop
  /\ caller' = [caller EXCEPT ![t] = "threw"]
  /\ UNCHANGED <<tasks, stop, worker, running, destructor, accepted, started>>

\* condition.notify_one: one of the sleepers, if there is one, wakes up.
NotifyOne(t) ==
  /\ caller[t] = "notify"
  /\ caller' = [caller EXCEPT ![t] = "returned"]
  /\ IF Waiting = {}
       THEN UNCHANGED worker
       ELSE \E w \in Waiting : worker' = [worker EXCEPT ![w] = "ready"]
  /\ UNCHANGED <<tasks, stop, running, destructor, accepted, started>>

\* The predicate holds and there is a task: it leaves the queue with the worker.
Take(w) ==
  /\ worker[w] = "ready"
  /\ tasks # <<>>
  /\ running' = [running EXCEPT ![w] = Head(tasks)]
  /\ tasks' = Tail(tasks)
  /\ started' = Append(started, Head(tasks))
  /\ worker' = [worker EXCEPT ![w] = "running"]
  /\ UNCHANGED <<stop, caller, destructor, accepted>>

\* Mutant of Sleep: condition.wait without its predicate.
SleepBlindly(w) ==
  /\ worker[w] = "ready"
  /\ worker' = [worker EXCEPT ![w] = "waiting"]
  /\ UNCHANGED <<tasks, stop, running, caller, destructor, accepted, started>>

\* The predicate does not hold: the mutex is released and the worker sleeps, in one.
Sleep(w) ==
  /\ worker[w] = "ready"
  /\ ~stop
  /\ tasks = <<>>
  /\ worker' = [worker EXCEPT ![w] = "waiting"]
  /\ UNCHANGED <<tasks, stop, running, caller, destructor, accepted, started>>

\* A condition variable may wake up for no reason.
WakeSpuriously(w) ==
  /\ worker[w] = "waiting"
  /\ worker' = [worker EXCEPT ![w] = "ready"]
  /\ UNCHANGED <<tasks, stop, running, caller, destructor, accepted, started>>

\* Mutant of Exit: a stopped pool is left whatever is still queued.
ExitAtOnce(w) ==
  /\ worker[w] = "ready"
  /\ stop
  /\ worker' = [worker EXCEPT ![w] = "exited"]
  /\ UNCHANGED <<tasks, stop, running, caller, destructor, accepted, started>>

Exit(w) ==
  /\ worker[w] = "ready"
  /\ stop
  /\ tasks = <<>>
  /\ worker' = [worker EXCEPT ![w] = "exited"]
  /\ UNCHANGED <<tasks, stop, running, caller, destructor, accepted, started>>

\* task() is over; whatever it threw is in its future.
Finish(w) ==
  /\ worker[w] = "running"
  /\ worker' = [worker EXCEPT ![w] = "ready"]
  /\ running' = [running EXCEPT ![w] = NoTask]
  /\ UNCHANGED <<tasks, stop, caller, destructor, accepted, started>>

\* ~ThreadPool, up to the release of the mutex.
Stop ==
  /\ destructor = "none"
  /\ stop' = TRUE
  /\ destructor' = "notify"
  /\ UNCHANGED <<tasks, worker, running, caller, accepted, started>>

\* Mutant of NotifyAll: the destructor wakes one worker.
NotifyAllOne ==
  /\ destructor = "notify"
  /\ destructor' = "join"
  /\ IF Waiting = {}
       THEN UNCHANGED worker
       ELSE \E w \in Waiting : worker' = [worker EXCEPT ![w] = "ready"]
  /\ UNCHANGED <<tasks, stop, running, caller, accepted, started>>

NotifyAll ==
  /\ destructor = "notify"
  /\ destructor' = "join"
  /\ worker' = [w \in Worker |-> IF w \in Waiting THEN "ready" ELSE worker[w]]
  /\ UNCHANGED <<tasks, stop, running, caller, accepted, started>>

\* Every worker has been joined.
Destroyed ==
  /\ destructor = "join"
  /\ \A w \in Worker : worker[w] = "exited"
  /\ destructor' = "destroyed"
  /\ UNCHANGED <<tasks, stop, worker, running, caller, accepted, started>>

CallerStep(t) == Enqueue(t) \/ EnqueueThrows(t) \/ NotifyOne(t)

WorkerStep(w) == Take(w) \/ Sleep(w) \/ Exit(w) \/ Finish(w)

DestructorStep == NotifyAll \/ Destroyed

\* The pool is gone and its callers are.
Terminated ==
  /\ destructor = "destroyed"
  /\ \A t \in Task : caller[t] # "notify"
  /\ UNCHANGED vars

Next ==
  \/ \E t \in Task : CallerStep(t)
  \/ \E w \in Worker : WorkerStep(w) \/ WakeSpuriously(w)
  \/ Stop
  \/ DestructorStep
  \/ Terminated

Spec == Init /\ [][Next]_vars

(***************************************************************************)
(* The threads are scheduled and every task returns.  Nobody is obliged to *)
(* enqueue or to destroy the pool, and no wakeup is spurious by right.     *)
(***************************************************************************)
FairSpec ==
  /\ Spec
  /\ \A t \in Task : WF_vars(NotifyOne(t))
  /\ \A w \in Worker : WF_vars(WorkerStep(w))
  /\ WF_vars(DestructorStep)

-----------------------------------------------------------------------------
TypeOK ==
  /\ tasks \in Seq(Task)
  /\ stop \in BOOLEAN
  /\ worker \in [Worker -> {"ready", "waiting", "running", "exited"}]
  /\ running \in [Worker -> Task \cup {NoTask}]
  /\ caller \in [Task -> {"none", "notify", "returned", "threw"}]
  /\ destructor \in {"none", "notify", "join", "destroyed"}
  /\ accepted \in Seq(Task)
  /\ started \in Seq(Task)

\* Threads that will look at the queue before they sleep.
Ready == {w \in Worker : worker[w] = "ready"}

Notifying == {t \in Task : caller[t] = "notify"}

StopIsDestructor ==
  /\ stop <=> destructor # "none"
  /\ destructor \in {"join", "destroyed"} => Waiting = {}
  /\ destructor = "destroyed" => \A w \in Worker : worker[w] = "exited"

\* A worker leaves only a stopped pool with an empty queue, to which nothing is added.
ExitedWhenDrained == (\E w \in Worker : worker[w] = "exited") => stop /\ tasks = <<>>

\* Only a worker inside task() has one.
IdleHasNoTask == \A w \in Worker : worker[w] # "running" => running[w] = NoTask

(***************************************************************************)
(* No notification is lost although notify_one is called after the mutex   *)
(* is released: while a worker sleeps, every queued task has a thread on   *)
(* its way to it, either a caller about to notify or a worker about to     *)
(* look.                                                                   *)
(***************************************************************************)
NoLostWakeup == Waiting # {} => Len(tasks) <= Cardinality(Notifying) + Cardinality(Ready)

(***************************************************************************)
(* ThreadPool.h:49-65 and 89-98: tasks start in the order enqueue accepted *)
(* them, each once, and no worker sleeps while there is a task nobody is   *)
(* going to take.                                                          *)
(***************************************************************************)
QueueInv ==
  /\ TypeOK
  /\ accepted = started \o tasks
  /\ StopIsDestructor
  /\ ExitedWhenDrained
  /\ IdleHasNoTask
  /\ NoLostWakeup

(***************************************************************************)
(* ThreadPool.h:102, "the destructor joins all threads": when it is over,  *)
(* every task whose enqueue did not throw has been started, and none is    *)
(* still running, provided the pool had a thread at all.                   *)
(***************************************************************************)
NothingLeftBehind ==
  destructor = "destroyed" /\ Worker # {} =>
    /\ accepted = started
    /\ \A w \in Worker : running[w] = NoTask

(***************************************************************************)
(* Every future becomes ready, and a destructor that has begun ends: the   *)
(* workers drain the queue before they leave, and all of them leave.       *)
(***************************************************************************)
Drains ==
  /\ \A t \in Task :
       caller[t] = "notify" ~>
         (\E i \in DOMAIN started : started[i] = t) /\ (\A w \in Worker : running[w] # t)
  /\ destructor = "notify" ~> destructor = "destroyed"
=============================================================================
