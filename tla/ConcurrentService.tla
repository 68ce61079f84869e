------------------------- MODULE ConcurrentService -------------------------
(***************************************************************************)
(* A node that splits its work into slices, one bthread each               *)
(* (service/base/concurrent_service.cpp).  The slice whose fetch_sub       *)
(* brings count_cnd to zero merges the results and notifies the outputs.   *)
(* Slices start and end while do_service is still spawning the others.     *)
(***************************************************************************)
EXTENDS Integers, FiniteSets

CONSTANTS MinSlices, MaxSlices,  \* what prepare_sub_requests may return
          SpawnMayFail           \* whether bthread_start_background may fail

ASSUME SliceAssumption ==
  /\ MinSlices \in Nat /\ MaxSlices \in Nat
  /\ MinSlices <= MaxSlices
  /\ SpawnMayFail \in BOOLEAN

VARIABLES
  do_service,   \* where do_service stands: prepare, spawn, returned
  slice_num,
  count_cnd,    \* the atomic counter shared by the slices
  next_slice,   \* i of do_service's loop
  pc,           \* the slices: none, spawned, processed, merge, notify, done, lost
  merges,       \* calls of merge (history)
  outputs       \* calls of run_output_nodes_if_ready (history)

vars == <<do_service, slice_num, count_cnd, next_slice, pc, merges, outputs>>

Slice == 0..(MaxSlices - 1)

\* The slices of this request.
Slices == {s \in Slice : s < slice_num}

Init ==
  /\ do_service = "prepare"
  /\ slice_num = 0 /\ count_cnd = 0 /\ next_slice = 0
  /\ pc = [s \in Slice |-> "none"]
  /\ merges = 0 /\ outputs = 0

-----------------------------------------------------------------------------
\* Mutant of Prepare: do_service is thought to count down too.
PrepareOneLess ==
  /\ do_service = "prepare"
  /\ do_service' = "spawn"
  /\ \E k \in MinSlices..MaxSlices : slice_num' = k /\ count_cnd' = k - 1
  /\ UNCHANGED <<next_slice, pc, merges, outputs>>

\* prepare_sub_requests, and the counter made from its answer.
Prepare ==
  /\ do_service = "prepare"
  /\ do_service' = "spawn"
  /\ \E k \in MinSlices..MaxSlices : slice_num' = k /\ count_cnd' = k
  /\ UNCHANGED <<next_slice, pc, merges, outputs>>

SpawnOutcomes == IF SpawnMayFail THEN {"spawned", "lost"} ELSE {"spawned"}

\* One turn of the loop; the result of bthread_start_background is ignored.
SpawnSlice ==
  /\ do_service = "spawn"
  /\ next_slice < slice_num
  /\ \E o \in SpawnOutcomes : pc' = [pc EXCEPT ![next_slice] = o]
  /\ next_slice' = next_slice + 1
  /\ UNCHANGED <<do_service, slice_num, count_cnd, merges, outputs>>

Return ==
  /\ do_service = "spawn"
  /\ next_slice = slice_num
  /\ do_service' = "returned"
  /\ UNCHANGED <<slice_num, count_cnd, next_slice, pc, merges, outputs>>

\* this->process(context, s)
Process(s) ==
  /\ pc[s] = "spawned"
  /\ pc' = [pc EXCEPT ![s] = "processed"]
  /\ UNCHANGED <<do_service, slice_num, count_cnd, next_slice, merges, outputs>>

\* Mutants of AfterCountDown: every slice merges; fetch_sub is taken to return the
\* new value.
AfterCountDownAll(old) == IF old >= 1 THEN "merge" ELSE "done"
AfterCountDownNever(old) == IF old = 0 THEN "merge" ELSE "done"

\* What follows the fetch_sub of a counter that held old.
AfterCountDown(old) == IF old = 1 THEN "merge" ELSE "done"

CountDown(s) ==
  /\ pc[s] = "processed"
  /\ pc' = [pc EXCEPT ![s] = AfterCountDown(count_cnd)]
  /\ count_cnd' = count_cnd - 1
  /\ UNCHANGED <<do_service, slice_num, next_slice, merges, outputs>>

Merge(s) ==
  /\ pc[s] = "merge"
  /\ pc' = [pc EXCEPT ![s] = "notify"]
  /\ merges' = merges + 1
  /\ UNCHANGED <<do_service, slice_num, count_cnd, next_slice, outputs>>

\* this->run_output_nodes_if_ready(context)
Notify(s) ==
  /\ pc[s] = "notify"
  /\ pc' = [pc EXCEPT ![s] = "done"]
  /\ outputs' = outputs + 1
  /\ UNCHANGED <<do_service, slice_num, count_cnd, next_slice, merges>>

SliceStep(s) == Process(s) \/ CountDown(s) \/ Merge(s) \/ Notify(s)

DoService == Prepare \/ SpawnSlice \/ Return

Terminated ==
  /\ do_service = "returned"
  /\ \A s \in Slices : pc[s] \in {"done", "lost"}
  /\ UNCHANGED vars

Next == DoService \/ (\E s \in Slice : SliceStep(s)) \/ Terminated

Spec == Init /\ [][Next]_vars

\* Every started bthread runs, the one inside do_service included.
FairSpec ==
  /\ Spec
  /\ WF_vars(DoService)
  /\ \A s \in Slice : WF_vars(SliceStep(s))

-----------------------------------------------------------------------------
TypeOK ==
  /\ do_service \in {"prepare", "spawn", "returned"}
  /\ slice_num \in 0..MaxSlices
  /\ count_cnd \in Int
  /\ next_slice \in 0..slice_num
  /\ pc \in [Slice -> {"none", "spawned", "processed", "merge", "notify", "done", "lost"}]
  /\ merges \in Nat /\ outputs \in Nat

\* Slices that have not counted down yet, those not spawned yet included.
Uncounted == {s \in Slices : pc[s] \in {"none", "spawned", "processed", "lost"}}

(***************************************************************************)
(* The counter is the number of slices that have not counted down, from    *)
(* before the first slice is spawned; the merge happens once, by the slice *)
(* that found the counter at 1, and the outputs follow it.                 *)
(***************************************************************************)
MergingInv ==
  /\ do_service = "prepare" => slice_num = 0
  /\ count_cnd = Cardinality(Uncounted)
  /\ \A s \in Slice : next_slice <= s => pc[s] = "none"
  /\ \A s \in Slice : pc[s] \in {"merge", "notify"} =>
       /\ count_cnd = 0
       /\ merges = (IF pc[s] = "notify" THEN 1 ELSE 0) /\ outputs = 0
       /\ \A t \in Slice : pc[t] \in {"merge", "notify"} => s = t
  /\ merges <= 1 /\ outputs <= merges
  /\ merges > 0 => slice_num > 0 /\ count_cnd = 0
  /\ slice_num > 0 /\ count_cnd = 0 =>
       outputs = 1 \/ \E s \in Slices : pc[s] \in {"merge", "notify"}

(***************************************************************************)
(* The same with the types of the variables, which makes it inductive.     *)
(***************************************************************************)
SliceInv == TypeOK /\ MergingInv

(***************************************************************************)
(* merge reads what the slices wrote: it starts when every slice of the    *)
(* request, spawned or not yet, has been processed, and it runs once.      *)
(***************************************************************************)
MergeOnceAfterAll ==
  /\ merges <= 1
  /\ (merges > 0 \/ \E s \in Slice : pc[s] = "merge") => Uncounted = {}

Io == INSTANCE IoNode WITH
        returned <- do_service = "returned",
        complete <- merges > 0 /\ Uncounted = {}

(***************************************************************************)
(* The node keeps the contract of an io node: its outputs are notified at  *)
(* most once, and only when every slice has been processed and the merge   *)
(* is over, whether or not do_service has returned.                        *)
(***************************************************************************)
ImplementsIoNode == Io!Spec

(***************************************************************************)
(* graph.cpp:20, "io nodes call run_output_nodes_if_ready themselves":     *)
(* once every slice that started has run, the outputs have been notified,  *)
(* unless a slice was lost or there was none; then nobody ever does.       *)
(***************************************************************************)
NotifiesUnlessLost ==
  <>(\/ outputs = 1
     \/ do_service = "returned" /\ (Slices = {} \/ \E s \in Slices : pc[s] = "lost"))
=============================================================================
