---------------------- MODULE ConcurrentService_proofs ----------------------
(***************************************************************************)
(* Proofs about ConcurrentService, for any number of slices and any        *)
(* failures of bthread_start_background.                                   *)
(***************************************************************************)
EXTENDS ConcurrentService, FiniteSetTheorems, TLAPS

(***************************************************************************)
(* The slices that have not counted down are finitely many.                *)
(***************************************************************************)
LEMMA UncountedFinite ==
  /\ IsFiniteSet(Uncounted)
  /\ Cardinality(Uncounted) \in Nat
  /\ Cardinality(Uncounted) = 0 <=> Uncounted = {}
<1>1. IsFiniteSet(Slice)
  BY FS_Interval, SliceAssumption DEF Slice
<1>2. Uncounted \subseteq Slice
  BY DEF Uncounted, Slices
<1> QED
  BY <1>1, <1>2, FS_Subset, FS_CardinalityType, FS_EmptySet

(***************************************************************************)
(* prepare_sub_requests answers k: the counter starts at the number of     *)
(* slices, none of which exists yet.                                       *)
(***************************************************************************)
LEMMA PrepareInv == SliceInv /\ Prepare => SliceInv'
<1> SUFFICES ASSUME SliceInv, Prepare PROVE SliceInv'
  OBVIOUS
<1> USE DEF SliceInv
<1>1. PICK k \in MinSlices..MaxSlices : slice_num' = k /\ count_cnd' = k
  BY DEF Prepare
<1>2. k \in Nat /\ k <= MaxSlices /\ do_service' = "spawn" /\ next_slice' = 0
  BY <1>1, SliceAssumption DEF Prepare, TypeOK, MergingInv
<1>3. \A s \in Slice : pc[s] = "none" /\ pc'[s] = "none"
  BY <1>2, SliceAssumption DEF Prepare, MergingInv, Slice, TypeOK
<1>4. merges = 0 /\ outputs = 0 /\ merges' = 0 /\ outputs' = 0
  BY DEF Prepare, MergingInv, TypeOK
<1>5. Uncounted' = 0..(k - 1)
  BY <1>1, <1>2, <1>3, SliceAssumption DEF Uncounted, Slices, Slice
<1>6. Cardinality(Uncounted') = k
  <2>1. CASE k = 0
    <3>1. Uncounted' = {}
      BY <1>5, <2>1
    <3> QED
      BY <2>1, <3>1, FS_EmptySet
  <2>2. CASE k # 0
    BY <1>2, <1>5, <2>2, FS_Interval
  <2> QED
    BY <2>1, <2>2
<1>7. TypeOK'
  BY <1>1, <1>2, SliceAssumption DEF Prepare, TypeOK
<1>8. k = 0 \/ count_cnd' # 0
  BY <1>1, <1>2
<1> QED
  BY <1>1, <1>2, <1>3, <1>4, <1>6, <1>7, <1>8 DEF MergingInv

(***************************************************************************)
(* The rest of do_service touches neither the counter nor a slice that has *)
(* been born.                                                              *)
(***************************************************************************)
LEMMA SpawnInv == SliceInv /\ (SpawnSlice \/ Return) => SliceInv'
<1> USE DEF SliceInv
<1>1. ASSUME SliceInv, SpawnSlice PROVE SliceInv'
  <2>1. /\ next_slice \in Slice /\ next_slice < slice_num
        /\ next_slice' = next_slice + 1
        /\ pc[next_slice] = "none"
        /\ pc'[next_slice] \in {"spawned", "lost"}
        /\ \A s \in Slice \ {next_slice} : pc'[s] = pc[s]
        /\ UNCHANGED <<do_service, slice_num, count_cnd, merges, outputs>>
    BY <1>1, SliceAssumption DEF SpawnSlice, SpawnOutcomes, TypeOK, MergingInv, Slice
  <2>2. TypeOK'
    <3>1. pc' \in [Slice -> {"none", "spawned", "processed", "merge", "notify", "done", "lost"}]
      BY <1>1, <2>1 DEF SpawnSlice, SpawnOutcomes, TypeOK
    <3> QED
      BY <1>1, <2>1, <3>1 DEF TypeOK
  <2>3. Uncounted' = Uncounted
    BY <2>1 DEF Uncounted, Slices
  <2>4. \A s \in Slice : next_slice' <= s => pc'[s] = "none"
    BY <1>1, <2>1 DEF TypeOK, MergingInv, Slice
  <2>5. \A s \in Slice : pc'[s] \in {"merge", "notify"} <=> pc[s] \in {"merge", "notify"}
    BY <2>1
  <2>6. \A s \in Slice : pc'[s] = "notify" <=> pc[s] = "notify"
    BY <2>1
  <2>7. Slices' = Slices
    BY <2>1 DEF Slices
  <2> QED
    BY <1>1, <2>1, <2>2, <2>3, <2>4, <2>5, <2>6, <2>7 DEF MergingInv, Slices
<1>2. ASSUME SliceInv, Return PROVE SliceInv'
  BY <1>2 DEF Return, TypeOK, MergingInv, Uncounted, Slices
<1> QED
  BY <1>1, <1>2

(***************************************************************************)
(* A slice that counts down leaves Uncounted; the one that finds 1 finds   *)
(* itself to be the only one left, and nobody has merged before it.        *)
(***************************************************************************)
LEMMA CountDownInv ==
  ASSUME SliceInv, NEW s \in Slice, CountDown(s)
  PROVE  SliceInv'
<1> USE DEF SliceInv
<1>1. /\ s \in Slices /\ next_slice > s /\ pc[s] = "processed"
      /\ pc'[s] = AfterCountDown(count_cnd)
      /\ \A t \in Slice \ {s} : pc'[t] = pc[t]
      /\ count_cnd' = count_cnd - 1
      /\ UNCHANGED <<do_service, slice_num, next_slice, merges, outputs>>
  <2>1. next_slice > s
    BY SliceAssumption DEF CountDown, MergingInv, TypeOK, Slice
  <2>2. s < slice_num
    BY <2>1, SliceAssumption DEF TypeOK, Slice
  <2> QED
    BY <2>1, <2>2 DEF CountDown, TypeOK, Slices
<1>2. s \in Uncounted /\ Uncounted' = Uncounted \ {s}
  BY <1>1 DEF Uncounted, Slices, AfterCountDown
<1>3. /\ Cardinality(Uncounted') = Cardinality(Uncounted) - 1
      /\ count_cnd' = Cardinality(Uncounted')
      /\ count_cnd' \in Nat /\ count_cnd \in Nat
  BY <1>1, <1>2, UncountedFinite, FS_RemoveElement, FS_CardinalityType DEF MergingInv
<1>4. count_cnd # 0
  BY <1>2, UncountedFinite DEF MergingInv
<1>5. /\ \A t \in Slice : pc[t] \notin {"merge", "notify"}
      /\ merges = 0 /\ outputs = 0
  BY <1>4 DEF MergingInv, TypeOK
<1>6. TypeOK'
  <2>1. pc' \in [Slice -> {"none", "spawned", "processed", "merge", "notify", "done", "lost"}]
    BY DEF CountDown, AfterCountDown, TypeOK
  <2> QED
    BY <1>1, <1>3, <2>1 DEF TypeOK
<1>7. count_cnd' = 0 <=> pc'[s] = "merge"
  BY <1>1, <1>3 DEF AfterCountDown
<1>8. pc'[s] \in {"merge", "done"}
  BY <1>1 DEF AfterCountDown
<1>9. \A t \in Slice : pc'[t] \in {"merge", "notify"} => t = s /\ pc'[s] = "merge"
  BY <1>1, <1>5, <1>8
<1>10. \A t \in Slice : next_slice' <= t => pc'[t] = "none"
  BY <1>1, SliceAssumption DEF MergingInv, Slice, TypeOK
<1>11. Slices' = Slices
  BY <1>1 DEF Slices
<1>12. /\ do_service' = "prepare" => slice_num' = 0
       /\ count_cnd' = Cardinality(Uncounted)'
       /\ merges' <= 1 /\ outputs' <= merges'
       /\ merges' > 0 => slice_num' > 0 /\ count_cnd' = 0
  BY <1>1, <1>3, <1>5 DEF MergingInv
<1>13. \A t \in Slice : pc'[t] \in {"merge", "notify"} =>
         /\ count_cnd' = 0
         /\ merges' = (IF pc'[t] = "notify" THEN 1 ELSE 0) /\ outputs' = 0
         /\ \A u \in Slice : pc'[u] \in {"merge", "notify"} => t = u
  BY <1>1, <1>5, <1>7, <1>9
<1>14. slice_num' > 0 /\ count_cnd' = 0 =>
         outputs' = 1 \/ \E t \in Slices' : pc'[t] \in {"merge", "notify"}
  BY <1>1, <1>7, <1>11
<1> QED
  BY <1>6, <1>10, <1>12, <1>13, <1>14 DEF MergingInv

(***************************************************************************)
(* Processing, merging and notifying leave the counter alone.              *)
(***************************************************************************)
LEMMA SliceWorkInv ==
  ASSUME SliceInv, NEW s \in Slice, Process(s) \/ Merge(s) \/ Notify(s)
  PROVE  SliceInv'
<1> USE DEF SliceInv
<1>1. /\ \A t \in Slice \ {s} : pc'[t] = pc[t]
      /\ pc[s] \in {"spawned", "merge", "notify"}
      /\ pc[s] = "spawned" => pc'[s] = "processed"
      /\ pc[s] = "merge" => pc'[s] = "notify"
      /\ pc[s] = "notify" => pc'[s] = "done"
      /\ UNCHANGED <<do_service, slice_num, count_cnd, next_slice>>
      /\ merges' = IF pc[s] = "merge" THEN merges + 1 ELSE merges
      /\ outputs' = IF pc[s] = "notify" THEN outputs + 1 ELSE outputs
  BY DEF Process, Merge, Notify, TypeOK
<1>2. s \in Slices /\ Slices' = Slices
  <2>1. next_slice > s
    BY <1>1, SliceAssumption DEF MergingInv, TypeOK, Slice
  <2>2. s < slice_num
    BY <2>1, SliceAssumption DEF TypeOK, Slice
  <2> QED
    BY <1>1, <2>2 DEF Slices
<1>3. Uncounted' = Uncounted
  <2>1. \A t \in Slice : pc'[t] \in {"none", "spawned", "processed", "lost"}
                     <=> pc[t] \in {"none", "spawned", "processed", "lost"}
    BY <1>1
  <2> QED
    BY <1>2, <2>1 DEF Uncounted, Slices
<1>4. TypeOK'
  <2>1. pc' \in [Slice -> {"none", "spawned", "processed", "merge", "notify", "done", "lost"}]
    BY DEF Process, Merge, Notify, TypeOK
  <2> QED
    BY <1>1, <2>1 DEF TypeOK
<1>5. \A t \in Slice : next_slice' <= t => pc'[t] = "none"
  BY <1>1, SliceAssumption DEF MergingInv, Slice, TypeOK
<1>6. CASE pc[s] = "spawned"
  <2>1. /\ \A t \in Slice : pc'[t] \in {"merge", "notify"} <=> pc[t] \in {"merge", "notify"}
        /\ \A t \in Slice : pc'[t] = "notify" <=> pc[t] = "notify"
        /\ UNCHANGED <<merges, outputs>>
    BY <1>1, <1>6
  <2> QED
    BY <1>1, <1>2, <1>3, <1>4, <1>5, <2>1 DEF MergingInv, Slices
<1>7. CASE pc[s] = "merge"
  <2>1. /\ count_cnd = 0 /\ merges = 0 /\ outputs = 0 /\ slice_num > 0
        /\ merges' = 1 /\ outputs' = 0
        /\ pc'[s] = "notify"
        /\ \A t \in Slice \ {s} : pc'[t] \notin {"merge", "notify"}
    BY <1>1, <1>2, <1>7 DEF MergingInv, Slices, TypeOK, Slice
  <2> QED
    BY <1>1, <1>2, <1>3, <1>4, <1>5, <2>1 DEF MergingInv
<1>8. CASE pc[s] = "notify"
  <2>1. /\ count_cnd = 0 /\ merges = 1 /\ outputs = 0 /\ slice_num > 0
        /\ merges' = 1 /\ outputs' = 1
        /\ pc'[s] = "done"
        /\ \A t \in Slice \ {s} : pc'[t] \notin {"merge", "notify"}
    BY <1>1, <1>2, <1>8 DEF MergingInv, Slices, TypeOK, Slice
  <2> QED
    BY <1>1, <1>2, <1>3, <1>4, <1>5, <2>1 DEF MergingInv
<1> QED
  BY <1>1, <1>6, <1>7, <1>8

(***************************************************************************)
(* The counter of ConcurrentService counts the slices that have not        *)
(* counted down, and the merge and the notification of the outputs happen  *)
(* once, after the last of them.                                           *)
(***************************************************************************)
THEOREM SliceInvCorrect == Spec => []SliceInv
<1>1. Init => SliceInv
  <2> SUFFICES ASSUME Init PROVE SliceInv
    OBVIOUS
  <2>1. Uncounted = {}
    BY DEF Init, Uncounted, Slices, Slice
  <2>2. Cardinality(Uncounted) = 0
    BY <2>1, FS_EmptySet
  <2> QED
    BY <2>2, SliceAssumption DEF Init, SliceInv, TypeOK, MergingInv
<1>2. SliceInv /\ [Next]_vars => SliceInv'
  <2> SUFFICES ASSUME SliceInv, [Next]_vars PROVE SliceInv'
    OBVIOUS
  <2>1. CASE DoService
    BY <2>1, PrepareInv, SpawnInv DEF DoService
  <2>2. ASSUME NEW s \in Slice, SliceStep(s) PROVE SliceInv'
    BY <2>2, CountDownInv, SliceWorkInv DEF SliceStep
  <2>3. CASE UNCHANGED vars
    BY <2>3 DEF vars, SliceInv, TypeOK, MergingInv, Uncounted, Slices
  <2> QED
    BY <2>1, <2>2, <2>3 DEF Next, Terminated
<1> QED
  BY <1>1, <1>2, PTL DEF Spec

(***************************************************************************)
(* merge runs once, and starts when every slice has been processed.        *)
(***************************************************************************)
THEOREM MergeOnceAfterAllCorrect == Spec => []MergeOnceAfterAll
<1>1. SliceInv => MergeOnceAfterAll
  BY UncountedFinite DEF SliceInv, MergingInv, MergeOnceAfterAll
<1> QED
  BY <1>1, SliceInvCorrect, PTL

(***************************************************************************)
(* The contract of an io node is kept for every number of slices: Merge    *)
(* completes the node's service context, Notify is the abstract            *)
(* notification, Return the abstract return, and every other step is       *)
(* invisible to Node::run.                                                 *)
(***************************************************************************)
THEOREM ImplementsIoNodeCorrect == Spec => ImplementsIoNode
<1>1. Init => Io!Init
  BY DEF Init, Io!Init
<1>2. SliceInv /\ SliceInv' /\ [Next]_vars => [Io!Next]_(Io!ioVars)
  <2> SUFFICES ASSUME SliceInv, SliceInv', [Next]_vars
               PROVE  [Io!Next]_(Io!ioVars)
    OBVIOUS
  <2>1. /\ (merges > 0 /\ Uncounted = {}) <=> merges > 0
        /\ (merges' > 0 /\ Uncounted' = {}) <=> merges' > 0
    <3>1. IsFiniteSet(Uncounted) /\ IsFiniteSet(Uncounted')
      <4>1. IsFiniteSet(Slice) /\ Uncounted' \subseteq Slice
        BY FS_Interval, SliceAssumption DEF Slice, Uncounted, Slices
      <4> QED
        BY <4>1, UncountedFinite, FS_Subset
    <3>2. /\ merges > 0 => Cardinality(Uncounted) = 0
          /\ merges' > 0 => Cardinality(Uncounted') = 0
      BY DEF SliceInv, MergingInv
    <3> QED
      BY <3>1, <3>2, FS_EmptySet
  <2>2. merges \in Nat /\ outputs \in Nat
    BY DEF SliceInv, TypeOK
  <2>3. CASE Return
    BY <2>1, <2>3 DEF Return, Io!Return, Io!Next, Io!ioVars
  <2>4. CASE Prepare \/ SpawnSlice
    BY <2>1, <2>4 DEF Prepare, SpawnSlice, Io!ioVars
  <2>5. ASSUME NEW s \in Slice, SliceStep(s) PROVE [Io!Next]_(Io!ioVars)
    <3>1. CASE Notify(s)
      <4>1. outputs = 0 /\ outputs' = 1 /\ merges = 1 /\ UNCHANGED <<do_service, merges>>
        BY <3>1 DEF Notify, SliceInv, MergingInv
      <4> QED
        BY <2>1, <4>1 DEF Io!Notify, Io!Next
    <3>2. CASE Merge(s)
      <4>1. merges = 0 /\ merges' = 1 /\ UNCHANGED <<do_service, outputs>>
        BY <3>2 DEF Merge, SliceInv, MergingInv
      <4> QED
        BY <2>1, <4>1 DEF Io!Complete, Io!Next
    <3>3. CASE Process(s) \/ CountDown(s)
      BY <2>1, <3>3 DEF Process, CountDown, Io!ioVars
    <3> QED
      BY <2>5, <3>1, <3>2, <3>3 DEF SliceStep
  <2>6. CASE UNCHANGED vars
    BY <2>1, <2>6 DEF vars, Io!ioVars
  <2> QED
    BY <2>3, <2>4, <2>5, <2>6 DEF Next, DoService, Terminated
<1> QED
  BY <1>1, <1>2, SliceInvCorrect, PTL DEF Spec, ImplementsIoNode, Io!Spec
=============================================================================
