-------------------------- MODULE GraphRun_proofs --------------------------
(***************************************************************************)
(* Proofs about GraphRun, for every set of nodes, every accepted graph and *)
(* every choice of io nodes and failing spawns.                            *)
(***************************************************************************)
EXTENDS GraphRun, FiniteSetTheorems, TLAPS

(***************************************************************************)
(* Only nodes are parents, so the edges still to be delivered to a node    *)
(* (counted by node_input_num_map) are finitely many.                      *)
(***************************************************************************)
LEMMA UndeliveredFinite ==
  ASSUME TypeOK, NEW n \in Node
  PROVE  /\ Undelivered(n) \subseteq Node
         /\ IsFiniteSet(Undelivered(n))
         /\ Cardinality(Undelivered(n)) \in Nat
         /\ Cardinality(Undelivered(n)) = 0 <=> Undelivered(n) = {}
<1>1. Undelivered(n) \subseteq Node
  BY DEF Undelivered, Parents, TypeOK, WellFormed
<1>2. IsFiniteSet(Undelivered(n))
  BY <1>1, NodeAssumption, FS_Subset
<1> QED
  BY <1>1, <1>2, FS_CardinalityType, FS_EmptySet

(***************************************************************************)
(* A step that leaves alone which of n's edges are delivered leaves alone  *)
(* what n is waiting for.                                                  *)
(***************************************************************************)
LEMMA UndeliveredSame ==
  ASSUME TypeOK, out_nodes' = out_nodes, NEW n \in Node,
         \A p \in Parents(out_nodes, n) : Delivered(p, n)' <=> Delivered(p, n)
  PROVE  Undelivered(n)' = Undelivered(n)
  BY DEF Undelivered, Parents

(***************************************************************************)
(* One iteration of run_output_nodes_if_ready's loop in node m delivers    *)
(* the edge from m to c, the output the loop is at, and nothing else.      *)
(***************************************************************************)
LEMMA DeliverOne ==
  ASSUME TypeOK, NEW m \in Node, NEW c \in Node,
         pc[m] = "notify", MoreOutputs(m), c = out_nodes[m][next_output[m]],
         out_nodes' = out_nodes, pc'[m] = "notify",
         next_output' = [next_output EXCEPT ![m] = @ + 1],
         \A p \in Node : pc'[p] = pc[p]
           \/ (pc[p] \notin {"notify", "done"} /\ pc'[p] \notin {"notify", "done"})
  PROVE  /\ c # Root
         /\ m \in Undelivered(c)
         /\ Undelivered(c)' = Undelivered(c) \ {m}
         /\ \A n \in Node \ {c} : Undelivered(n)' = Undelivered(n)
<1>1. /\ out_nodes \in [Node -> Seq(Node)]
      /\ next_output \in [Node -> Nat \ {0}]
      /\ next_output[m] \in DOMAIN out_nodes[m]
      /\ next_output'[m] = next_output[m] + 1
  <2>1. /\ out_nodes \in [Node -> Seq(Node)]
        /\ next_output \in [Node -> Nat \ {0}]
    BY DEF TypeOK, WellFormed
  <2> QED
    BY <2>1 DEF MoreOutputs
<1>2. m \in Parents(out_nodes, c)
  BY <1>1 DEF Parents, Children
<1>3. c # Root
  BY <1>2, NodeAssumption DEF TypeOK, WellFormed
<1>4. ~Delivered(m, c)
  <2>1. \A j \in DOMAIN out_nodes[m] : out_nodes[m][j] = c => j = next_output[m]
    BY <1>1 DEF TypeOK, WellFormed, NoParallelEdges
  <2> QED
    BY <2>1, <1>1 DEF Delivered
<1>5. Delivered(m, c)'
  BY <1>1 DEF Delivered
<1>6. ASSUME NEW n \in Node, NEW p \in Node, n # c \/ p # m
      PROVE  Delivered(p, n)' <=> Delivered(p, n)
  <2>1. CASE p # m
    <3>1. next_output'[p] = next_output[p]
      BY <1>1, <2>1
    <3> QED
      BY <3>1 DEF Delivered
  <2>2. CASE p = m
    <3>1. \A j \in DOMAIN out_nodes[m] :
            out_nodes[m][j] = n => (j < next_output[m] + 1 <=> j < next_output[m])
      BY <1>1, <1>6, <2>2
    <3> QED
      BY <1>1, <2>2, <3>1 DEF Delivered
  <2> QED
    BY <2>1, <2>2
<1>7. \A n \in Node : Parents(out_nodes, n) \subseteq Node
  BY <1>1 DEF Parents
<1>8. m \in Undelivered(c) /\ Undelivered(c)' = Undelivered(c) \ {m}
  BY <1>2, <1>4, <1>5, <1>6, <1>7 DEF Undelivered, Parents
<1>9. \A n \in Node \ {c} : Undelivered(n)' = Undelivered(n)
  BY <1>6, <1>7 DEF Undelivered, Parents
<1> QED
  BY <1>3, <1>8, <1>9

-----------------------------------------------------------------------------
(***************************************************************************)
(* Before Graph::run: nothing started, nothing delivered.                  *)
(***************************************************************************)
LEMMA InitReadiness == Init => ReadinessInv
<1> SUFFICES ASSUME Init PROVE ReadinessInv
  OBVIOUS
<1>1. TypeOK
  BY NodeAssumption, GraphsAssumption DEF Init, TypeOK
<1>2. CountersExact /\ DeliveredIsStarted
  BY NodeAssumption DEF Init, CountersExact, DeliveredIsStarted
<1>3. StartedWhenDelivered
  BY NodeAssumption DEF Init, StartedWhenDelivered, Held
<1>4. HeldByOneThread
  BY DEF Init, HeldByOneThread
<1>5. RunsCountsStarts
  BY DEF Init, RunsCountsStarts
<1> QED
  BY <1>1, <1>2, <1>3, <1>4, <1>5 DEF ReadinessInv

(***************************************************************************)
(* Graph::run sets every counter to the in-degree while nothing has been   *)
(* delivered, and starts the one node that has no inputs.                  *)
(***************************************************************************)
LEMMA RunGraphReadiness == ReadinessInv /\ RunGraph => ReadinessInv'
<1> SUFFICES ASSUME ReadinessInv, RunGraph PROVE ReadinessInv'
  OBVIOUS
<1> USE DEF ReadinessInv
<1>1. \A n \in Node : pc[n] = "idle" /\ ~Held(n)
  BY DEF RunGraph, StartedWhenDelivered
<1>2. \A n \in Node : pc'[n] = IF n = Root THEN "run" ELSE "idle"
  BY <1>1 DEF RunGraph, TypeOK
<1>3. \A n \in Node : last_ready_node[n] \notin Node
  BY <1>1 DEF Held
<1>4. TypeOK'
  <2>1. node_input_num_map' \in [Node -> Int]
    <3>1. \A n \in Node : IsFiniteSet(Parents(out_nodes, n))
      BY NodeAssumption, FS_Subset DEF Parents, TypeOK, WellFormed
    <3> QED
      BY <3>1, FS_CardinalityType DEF RunGraph, InputNum
  <2>2. /\ pc' \in [Node -> {"idle", "spawned", "run", "wait", "notify", "done", "lost"}]
        /\ runs' \in [Node -> Nat]
    BY NodeAssumption DEF RunGraph, TypeOK
  <2> QED
    BY <2>1, <2>2 DEF RunGraph, TypeOK, WellFormed
<1>5. \A n \in Node : Undelivered(n)' = Parents(out_nodes, n)
  <2>1. \A p \in Node : pc'[p] \notin {"notify", "done"}
    BY <1>2
  <2> QED
    BY <2>1 DEF Undelivered, Delivered, Parents, RunGraph, TypeOK, WellFormed
<1>6. CountersExact'
  BY <1>2, <1>5, NodeAssumption DEF CountersExact, RunGraph, InputNum
<1>7. \A n \in Node : Undelivered(n)' = {} <=> n = Root
  BY <1>5 DEF TypeOK, WellFormed
<1>8. StartedWhenDelivered'
  BY <1>2, <1>3, <1>7, NodeAssumption DEF StartedWhenDelivered, Held, RunGraph
<1>9. DeliveredIsStarted'
  BY <1>2, <1>7 DEF DeliveredIsStarted
<1>10. HeldByOneThread'
  BY <1>3 DEF HeldByOneThread, RunGraph, TypeOK
<1>11. RunsCountsStarts'
  BY <1>1, <1>2 DEF RunsCountsStarts, RunGraph, TypeOK
<1> QED
  BY <1>4, <1>6, <1>8, <1>9, <1>10, <1>11

(***************************************************************************)
(* Starting a spawned bthread and issuing an io call deliver nothing and   *)
(* touch no counter.                                                       *)
(***************************************************************************)
LEMMA QuietReadiness ==
  ASSUME ReadinessInv, NEW m \in Node, BFunc(m) \/ IssueIo(m)
  PROVE  ReadinessInv'
<1> USE DEF ReadinessInv
<1>1. /\ pc[m] \in {"spawned", "run"} /\ pc'[m] \in {"run", "wait"}
      /\ \A n \in Node \ {m} : pc'[n] = pc[n]
      /\ UNCHANGED <<out_nodes, node_input_num_map, next_output, last_ready_node>>
  BY DEF BFunc, IssueIo, TypeOK
<1>2. TypeOK'
  <2>1. pc' \in [Node -> {"idle", "spawned", "run", "wait", "notify", "done", "lost"}]
    BY DEF BFunc, IssueIo, TypeOK
  <2>2. runs' \in [Node -> Nat]
    BY DEF BFunc, IssueIo, TypeOK
  <2> QED
    BY <1>1, <2>1, <2>2 DEF TypeOK
<1>3. \A n \in Node : Undelivered(n)' = Undelivered(n)
  BY <1>1, UndeliveredSame DEF Delivered, Parents, TypeOK, WellFormed
<1>4. \A n \in Node : (Held(n)' <=> Held(n)) /\ (pc'[n] = "idle" <=> pc[n] = "idle")
  BY <1>1 DEF Held
<1>5. CountersExact'
  BY <1>1, <1>3, <1>4, NodeAssumption DEF CountersExact
<1>6. StartedWhenDelivered' /\ DeliveredIsStarted'
  BY <1>3, <1>4, NodeAssumption DEF StartedWhenDelivered, DeliveredIsStarted
<1>7. HeldByOneThread'
  BY <1>1 DEF HeldByOneThread, TypeOK
<1>8. RunsCountsStarts'
  BY DEF RunsCountsStarts, BFunc, IssueIo, TypeOK
<1> QED
  BY <1>2, <1>5, <1>6, <1>7, <1>8

(***************************************************************************)
(* Entering run_output_nodes_if_ready: the loop stands before its first    *)
(* output.                                                                 *)
(***************************************************************************)
LEMMA EnterNotifyReadiness ==
  ASSUME ReadinessInv, NEW m \in Node, RunAndNotify(m) \/ IoCallback(m)
  PROVE  ReadinessInv'
<1> USE DEF ReadinessInv
<1>1. /\ pc[m] \in {"run", "wait"} /\ pc'[m] = "notify"
      /\ \A n \in Node \ {m} : pc'[n] = pc[n] /\ next_output'[n] = next_output[n]
      /\ next_output'[m] = 1 /\ last_ready_node[m] = NoNode
      /\ last_ready_node' = last_ready_node
      /\ UNCHANGED <<out_nodes, node_input_num_map, runs>>
  BY DEF RunAndNotify, IoCallback, EnterNotify, TypeOK, HeldByOneThread
<1>2. TypeOK'
  <2>1. pc' \in [Node -> {"idle", "spawned", "run", "wait", "notify", "done", "lost"}]
    BY DEF RunAndNotify, IoCallback, EnterNotify, TypeOK
  <2>2. next_output' \in [Node -> Nat \ {0}]
    BY DEF RunAndNotify, IoCallback, EnterNotify, TypeOK
  <2> QED
    BY <1>1, <2>1, <2>2 DEF TypeOK
<1>3. \A n \in Node : Undelivered(n)' = Undelivered(n)
  <2>1. \A p \in Node : \A n \in Node : Delivered(p, n)' <=> Delivered(p, n)
    <3>1. \A p \in Node : out_nodes[p] \in Seq(Node)
      BY DEF TypeOK, WellFormed
    <3> QED
      BY <1>1, <3>1 DEF Delivered
  <2> QED
    BY <1>1, <2>1, UndeliveredSame DEF Parents, TypeOK, WellFormed
<1>4. \A n \in Node : (Held(n)' <=> Held(n)) /\ (pc'[n] = "idle" <=> pc[n] = "idle")
  BY <1>1 DEF Held
<1>5. CountersExact'
  BY <1>1, <1>3, <1>4, NodeAssumption DEF CountersExact
<1>6. StartedWhenDelivered' /\ DeliveredIsStarted'
  BY <1>3, <1>4, NodeAssumption DEF StartedWhenDelivered, DeliveredIsStarted
<1>7. HeldByOneThread'
  BY <1>1 DEF HeldByOneThread, TypeOK
<1>8. RunsCountsStarts'
  BY <1>1 DEF RunsCountsStarts
<1> QED
  BY <1>2, <1>5, <1>6, <1>7, <1>8
(***************************************************************************)
(* An iteration whose output still waits for others: its counter loses the *)
(* one edge that was delivered and stays above zero.                       *)
(***************************************************************************)
LEMMA NotifyWaitingReadiness ==
  ASSUME ReadinessInv, NEW m \in Node, NotifyWaiting(m)
  PROVE  ReadinessInv'
<1> USE DEF ReadinessInv
<1>0. PICK c \in Node : c = out_nodes[m][next_output[m]]
  BY DEF NotifyWaiting, MoreOutputs, TypeOK, WellFormed
<1>1. /\ pc[m] = "notify" /\ MoreOutputs(m)
      /\ UNCHANGED <<out_nodes, pc, last_ready_node, runs>>
      /\ next_output' = [next_output EXCEPT ![m] = @ + 1]
      /\ node_input_num_map' = [node_input_num_map EXCEPT ![c] = @ - 1]
      /\ node_input_num_map[c] # 1
  BY <1>0 DEF NotifyWaiting, Ready
<1>2. /\ c # Root
      /\ m \in Undelivered(c)
      /\ Undelivered(c)' = Undelivered(c) \ {m}
      /\ \A n \in Node \ {c} : Undelivered(n)' = Undelivered(n)
  BY <1>0, <1>1, DeliverOne
<1>3. TypeOK'
  <2>1. /\ next_output' \in [Node -> Nat \ {0}]
        /\ node_input_num_map' \in [Node -> Int]
    BY <1>1, <1>2 DEF TypeOK
  <2> QED
    BY <1>1, <2>1 DEF TypeOK
<1>4. pc[Root] # "idle"
  BY <1>1 DEF StartedWhenDelivered
<1>5. /\ node_input_num_map[c] = Cardinality(Undelivered(c))
      /\ Cardinality(Undelivered(c)') = node_input_num_map[c] - 1
      /\ Undelivered(c)' # {}
  <2>1. node_input_num_map[c] = Cardinality(Undelivered(c))
    BY <1>2, <1>4 DEF CountersExact
  <2>2. Cardinality(Undelivered(c)') = Cardinality(Undelivered(c)) - 1
    BY <1>2, UndeliveredFinite, FS_RemoveElement
  <2>3. IsFiniteSet(Undelivered(c)') /\ Cardinality(Undelivered(c)') # 0
    BY <1>1, <1>2, <2>1, <2>2, UndeliveredFinite, FS_RemoveElement
  <2> QED
    BY <2>1, <2>2, <2>3, FS_EmptySet
<1>6. CountersExact'
  BY <1>1, <1>2, <1>4, <1>5 DEF CountersExact, TypeOK
<1>7. pc[c] = "idle" /\ ~Held(c)
  BY <1>2 DEF StartedWhenDelivered
<1>8. StartedWhenDelivered' /\ DeliveredIsStarted'
  BY <1>1, <1>2, <1>5, <1>7 DEF StartedWhenDelivered, DeliveredIsStarted, Held
<1>9. HeldByOneThread' /\ RunsCountsStarts'
  BY <1>1 DEF HeldByOneThread, RunsCountsStarts
<1> QED
  BY <1>3, <1>6, <1>8, <1>9

(***************************************************************************)
(* An iteration that makes its output ready: the counter reaches zero, so  *)
(* this thread alone holds the output; the one it held before is spawned   *)
(* (or lost).                                                              *)
(***************************************************************************)
LEMMA NotifyReadyReadiness ==
  ASSUME ReadinessInv, NEW m \in Node, NotifyReady(m)
  PROVE  ReadinessInv'
<1> USE DEF ReadinessInv
<1>0. PICK c \in Node : c = out_nodes[m][next_output[m]]
  BY DEF NotifyReady, MoreOutputs, TypeOK, WellFormed
<1> DEFINE l == last_ready_node[m]
<1>1. /\ pc[m] = "notify" /\ MoreOutputs(m)
      /\ UNCHANGED <<out_nodes, runs>>
      /\ next_output' = [next_output EXCEPT ![m] = @ + 1]
      /\ node_input_num_map' = [node_input_num_map EXCEPT ![c] = @ - 1]
      /\ last_ready_node' = [last_ready_node EXCEPT ![m] = c]
      /\ node_input_num_map[c] = 1
  BY <1>0 DEF NotifyReady, Ready
<1>2. /\ l # NoNode => /\ l \in Node /\ l # Root /\ l # m /\ pc[l] = "idle"
                       /\ pc' = [pc EXCEPT ![l] = pc'[l]]
                       /\ pc'[l] \in {"spawned", "lost"}
      /\ l = NoNode => pc' = pc
  <2>1. l # NoNode => l \in Node /\ l # Root /\ pc[l] = "idle"
    BY DEF HeldByOneThread, TypeOK
  <2> QED
    BY <1>1, <2>1 DEF NotifyReady, SpawnOutcomes, TypeOK
<1>3. /\ pc'[m] = "notify"
      /\ \A p \in Node : p # l => pc'[p] = pc[p]
      /\ \A p \in Node : pc'[p] = pc[p]
           \/ (pc[p] \notin {"notify", "done"} /\ pc'[p] \notin {"notify", "done"})
  <2>1. CASE l = NoNode
    BY <1>1, <1>2, <2>1
  <2>2. CASE l # NoNode
    <3>1. \A p \in Node : p # l => pc'[p] = pc[p]
      BY <1>2, <2>2 DEF TypeOK
    <3> QED
      BY <1>1, <1>2, <2>2, <3>1
  <2> QED
    BY <2>1, <2>2
<1>4. /\ c # Root
      /\ m \in Undelivered(c)
      /\ Undelivered(c)' = Undelivered(c) \ {m}
      /\ \A n \in Node \ {c} : Undelivered(n)' = Undelivered(n)
  BY <1>0, <1>1, <1>3, DeliverOne
<1>5. pc[c] = "idle" /\ ~Held(c)
  BY <1>4 DEF StartedWhenDelivered
<1>6. TypeOK'
  <2>1. /\ next_output' \in [Node -> Nat \ {0}]
        /\ node_input_num_map' \in [Node -> Int]
        /\ last_ready_node' \in [Node -> Node \cup {NoNode}]
    BY <1>1, <1>4 DEF TypeOK
  <2>2. pc' \in [Node -> {"idle", "spawned", "run", "wait", "notify", "done", "lost"}]
    BY <1>2 DEF TypeOK
  <2> QED
    BY <1>1, <2>1, <2>2 DEF TypeOK
<1>7. pc[Root] # "idle" /\ pc'[Root] = pc[Root]
  BY <1>1, <1>2, <1>3, NodeAssumption DEF StartedWhenDelivered
<1>8. /\ node_input_num_map[c] = Cardinality(Undelivered(c))
      /\ Cardinality(Undelivered(c)') = node_input_num_map[c] - 1
      /\ Undelivered(c)' = {}
  <2>1. node_input_num_map[c] = Cardinality(Undelivered(c))
    BY <1>4, <1>7 DEF CountersExact
  <2>2. /\ Cardinality(Undelivered(c)') = Cardinality(Undelivered(c)) - 1
        /\ IsFiniteSet(Undelivered(c)')
    BY <1>4, UndeliveredFinite, FS_RemoveElement
  <2> QED
    BY <1>1, <2>1, <2>2, FS_EmptySet
<1>9. CountersExact'
  BY <1>1, <1>4, <1>7, <1>8 DEF CountersExact, TypeOK
<1>10. \A n \in Node : n # l => (Held(n)' <=> Held(n) \/ n = c)
  BY <1>1 DEF Held, TypeOK
<1>11. l # NoNode => Held(l) /\ l # c
  BY <1>5 DEF Held
<1>12. StartedWhenDelivered'
  <2> SUFFICES ASSUME NEW n \in Node, pc'[n] # "idle" \/ Held(n)'
               PROVE  Undelivered(n)' = {}
    BY <1>7 DEF StartedWhenDelivered
  <2>1. CASE n = c
    BY <1>8, <2>1
  <2>2. CASE n # c
    <3>1. pc[n] # "idle" \/ Held(n)
      BY <1>3, <1>10, <1>11, <2>2, NodeAssumption
    <3> QED
      BY <1>4, <2>2, <3>1 DEF StartedWhenDelivered
  <2> QED
    BY <2>1, <2>2
<1>13. DeliveredIsStarted'
  <2> SUFFICES ASSUME NEW n \in Node, Undelivered(n)' = {}
               PROVE  pc'[n] # "idle" \/ Held(n)'
    BY DEF DeliveredIsStarted
  <2>1. CASE n = c
    BY <1>10, <1>11, <2>1, NodeAssumption
  <2>2. CASE n = l
    BY <1>2, <2>2, NodeAssumption
  <2>3. CASE n # c /\ n # l
    BY <1>3, <1>4, <1>7, <1>10, <2>3 DEF DeliveredIsStarted
  <2> QED
    BY <2>1, <2>2, <2>3
<1>14. HeldByOneThread'
  <2>1. \A p \in Node \ {m} : last_ready_node'[p] = last_ready_node[p]
    BY <1>1 DEF TypeOK
  <2>2. last_ready_node'[m] = c
    BY <1>1 DEF TypeOK
  <2>3. \A p \in Node \ {m} : last_ready_node[p] # NoNode =>
          last_ready_node[p] # l /\ last_ready_node[p] # c
    BY <1>5 DEF HeldByOneThread, Held
  <2>4. pc'[c] = "idle"
    BY <1>3, <1>4, <1>5, <1>11, NodeAssumption
  <2>5. \A p \in Node \ {m} : last_ready_node[p] # NoNode =>
          /\ pc'[p] = "notify" /\ pc'[last_ready_node[p]] = "idle"
          /\ last_ready_node[p] # Root
    BY <1>2, <1>3, <2>3 DEF HeldByOneThread, TypeOK
  <2> QED
    BY <1>3, <1>4, <2>1, <2>2, <2>3, <2>4, <2>5 DEF HeldByOneThread
<1>15. RunsCountsStarts'
  BY <1>1, <1>2, <1>3 DEF RunsCountsStarts
<1> QED
  BY <1>6, <1>9, <1>12, <1>13, <1>14, <1>15

(***************************************************************************)
(* The end of the loop: every edge of the node has been delivered, and the *)
(* held output is run by this thread.                                      *)
(***************************************************************************)
LEMMA FinishNotifyReadiness ==
  ASSUME ReadinessInv, NEW m \in Node, FinishNotify(m)
  PROVE  ReadinessInv'
<1> USE DEF ReadinessInv
<1> DEFINE l == last_ready_node[m]
<1>1. /\ pc[m] = "notify" /\ ~MoreOutputs(m)
      /\ UNCHANGED <<out_nodes, node_input_num_map, next_output>>
      /\ last_ready_node' = [last_ready_node EXCEPT ![m] = NoNode]
  BY DEF FinishNotify
<1>2. /\ l # NoNode => /\ l \in Node /\ l # Root /\ l # m /\ pc[l] = "idle"
                       /\ pc' = [pc EXCEPT ![m] = "done", ![l] = "run"]
                       /\ runs' = [runs EXCEPT ![l] = @ + 1]
      /\ l = NoNode => pc' = [pc EXCEPT ![m] = "done"] /\ runs' = runs
  <2>1. l # NoNode => l \in Node /\ l # Root /\ pc[l] = "idle"
    BY DEF HeldByOneThread, TypeOK
  <2> QED
    BY <1>1, <2>1 DEF FinishNotify
<1>3. /\ pc'[m] = "done"
      /\ l # NoNode => pc'[l] = "run"
      /\ \A p \in Node : p # l /\ p # m => pc'[p] = pc[p]
  BY <1>1, <1>2 DEF TypeOK
<1>4. TypeOK'
  <2>1. last_ready_node' \in [Node -> Node \cup {NoNode}]
    BY <1>1 DEF TypeOK
  <2>2. pc' \in [Node -> {"idle", "spawned", "run", "wait", "notify", "done", "lost"}]
    BY <1>2 DEF TypeOK
  <2>3. runs' \in [Node -> Nat]
    BY <1>2 DEF TypeOK
  <2> QED
    BY <1>1, <2>1, <2>2, <2>3 DEF TypeOK
<1>5. \A n \in Node : Undelivered(n)' = Undelivered(n)
  <2> SUFFICES ASSUME NEW n \in Node, NEW p \in Parents(out_nodes, n)
               PROVE  Delivered(p, n)' <=> Delivered(p, n)
    BY <1>1, UndeliveredSame
  <2>1. /\ p \in Node
        /\ out_nodes[p] \in Seq(Node)
        /\ \E j \in DOMAIN out_nodes[p] : out_nodes[p][j] = n
    BY DEF Parents, Children, TypeOK, WellFormed
  <2>2. CASE p = m
    <3>1. \A j \in DOMAIN out_nodes[m] : j < next_output[m]
      BY <1>1, <2>1, <2>2 DEF MoreOutputs, TypeOK
    <3> QED
      BY <1>1, <1>3, <2>1, <2>2, <3>1 DEF Delivered
  <2>3. CASE p # m /\ p = l
    BY <1>2, <1>3, <2>1, <2>3, NodeAssumption DEF Delivered
  <2>4. CASE p # m /\ p # l
    BY <1>1, <1>3, <2>1, <2>4 DEF Delivered
  <2> QED
    BY <2>2, <2>3, <2>4
<1>6. pc[Root] # "idle" /\ pc'[Root] # "idle"
  BY <1>1, <1>2, <1>3, NodeAssumption DEF StartedWhenDelivered
<1>7. CountersExact'
  BY <1>1, <1>5, <1>6 DEF CountersExact
<1>8. /\ \A n \in Node : n # l => (Held(n)' <=> Held(n))
      /\ l # NoNode => Held(l)
  BY <1>1, NodeAssumption DEF Held, TypeOK
<1>9. \A n \in Node : n # l => (pc'[n] = "idle" <=> pc[n] = "idle")
  BY <1>1, <1>3
<1>10. StartedWhenDelivered'
  BY <1>5, <1>6, <1>8, <1>9, NodeAssumption DEF StartedWhenDelivered
<1>11. DeliveredIsStarted'
  BY <1>3, <1>5, <1>6, <1>8, <1>9, NodeAssumption DEF DeliveredIsStarted
<1>12. HeldByOneThread'
  <2>1. /\ last_ready_node'[m] = NoNode
        /\ \A p \in Node \ {m} : last_ready_node'[p] = last_ready_node[p]
    BY <1>1 DEF TypeOK
  <2>2. \A p \in Node \ {m} : last_ready_node[p] # NoNode =>
          /\ last_ready_node[p] # l /\ last_ready_node[p] # m
          /\ pc[p] = "notify" /\ p # l
    BY <1>1, <1>2, NodeAssumption DEF HeldByOneThread, TypeOK
  <2>3. \A p \in Node \ {m} : last_ready_node[p] # NoNode =>
          /\ pc'[p] = "notify" /\ pc'[last_ready_node[p]] = "idle"
          /\ last_ready_node[p] # Root
    BY <1>3, <2>2 DEF HeldByOneThread, TypeOK
  <2> QED
    BY <2>1, <2>3 DEF HeldByOneThread
<1>13. RunsCountsStarts'
  <2>1. \A n \in Node : n # l => runs'[n] = runs[n]
    BY <1>2 DEF TypeOK
  <2>2. l # NoNode => runs'[l] = 1
    BY <1>2 DEF TypeOK, RunsCountsStarts
  <2> QED
    BY <1>1, <1>2, <1>3, <2>1, <2>2, NodeAssumption DEF RunsCountsStarts
<1> QED
  BY <1>4, <1>7, <1>10, <1>11, <1>12, <1>13
-----------------------------------------------------------------------------
(***************************************************************************)
(* Every action of the engine preserves the invariant.                     *)
(***************************************************************************)
LEMMA NextReadiness == ReadinessInv /\ [Next]_vars => ReadinessInv'
<1> SUFFICES ASSUME ReadinessInv, [Next]_vars PROVE ReadinessInv'
  OBVIOUS
<1>1. CASE RunGraph
  BY <1>1, RunGraphReadiness
<1>2. ASSUME NEW n \in Node, NodeStep(n) PROVE ReadinessInv'
  <2>1. CASE BFunc(n) \/ IssueIo(n)
    BY <2>1, QuietReadiness
  <2>2. CASE RunAndNotify(n) \/ IoCallback(n)
    BY <2>2, EnterNotifyReadiness
  <2>3. CASE NotifyWaiting(n)
    BY <2>3, NotifyWaitingReadiness
  <2>4. CASE NotifyReady(n)
    BY <2>4, NotifyReadyReadiness
  <2>5. CASE FinishNotify(n)
    BY <2>5, FinishNotifyReadiness
  <2> QED
    BY <1>2, <2>1, <2>2, <2>3, <2>4, <2>5 DEF NodeStep
<1>3. CASE UNCHANGED vars
  <2> USE <1>3 DEF vars
  <2>1. TypeOK'
    BY DEF ReadinessInv, TypeOK
  <2>2. \A n \in Node : Undelivered(n)' = Undelivered(n) /\ (Held(n)' <=> Held(n))
    BY DEF Undelivered, Delivered, Held
  <2>3. CountersExact' /\ StartedWhenDelivered' /\ DeliveredIsStarted'
    BY <2>2 DEF ReadinessInv, CountersExact, StartedWhenDelivered, DeliveredIsStarted
  <2>4. HeldByOneThread' /\ RunsCountsStarts'
    BY DEF ReadinessInv, HeldByOneThread, RunsCountsStarts
  <2> QED
    BY <2>1, <2>3, <2>4 DEF ReadinessInv
<1> QED
  BY <1>1, <1>2, <1>3 DEF Next, Terminated

(***************************************************************************)
(* The counters of node_input_num_map count exactly the edges still to be  *)
(* delivered, and a ready node is held or started exactly once, in every   *)
(* execution of every accepted graph.                                      *)
(***************************************************************************)
THEOREM ReadinessCorrect == Spec => []ReadinessInv
<1>1. Init => ReadinessInv
  BY InitReadiness
<1>2. ReadinessInv /\ [Next]_vars => ReadinessInv'
  BY NextReadiness
<1> QED
  BY <1>1, <1>2, PTL DEF Spec

(***************************************************************************)
(* Node::run is entered at most once per node and execution (README.md:37).*)
(***************************************************************************)
THEOREM RunOnceCorrect == Spec => []RunOnce
<1>1. ReadinessInv => RunOnce
  BY DEF ReadinessInv, RunsCountsStarts, RunOnce
<1> QED
  BY <1>1, ReadinessCorrect, PTL

(***************************************************************************)
(* No counter is decremented below zero: graph.cpp:52 is never reached.    *)
(***************************************************************************)
THEOREM NeverTooManyNotifyCorrect == Spec => []NeverTooManyNotify
<1>1. ReadinessInv => NeverTooManyNotify
  BY UndeliveredFinite DEF ReadinessInv, CountersExact, NeverTooManyNotify
<1> QED
  BY <1>1, ReadinessCorrect, PTL

(***************************************************************************)
(* A node that has not been finished has delivered nothing, so its         *)
(* children have not been started.                                         *)
(***************************************************************************)
LEMMA ParentsFinishedFirst ==
  ASSUME ReadinessInv, NEW n \in Node, pc[n] # "idle"
  PROVE  Parents(out_nodes, n) \subseteq Finished
<1>1. Undelivered(n) = {}
  BY DEF ReadinessInv, StartedWhenDelivered
<1>2. Parents(out_nodes, n) \subseteq Node
  BY DEF ReadinessInv, TypeOK, WellFormed, Parents
<1> QED
  BY <1>1, <1>2 DEF Undelivered, Delivered, Finished

(***************************************************************************)
(* While a node is at work, nothing that depends on it has been entered.   *)
(* The set S of the proof is closed under edges, so it contains everything *)
(* reachable from m.                                                       *)
(***************************************************************************)
LEMMA ReadinessOrders == ReadinessInv => RunsAfterAncestors
<1> SUFFICES ASSUME ReadinessInv, NEW m \in Node \ Finished,
                    NEW n \in Reachable(out_nodes, m) \ {m}
             PROVE  runs[n] = 0
  BY DEF RunsAfterAncestors
<1> DEFINE S == {m} \cup {k \in Node \ Finished : runs[k] = 0}
<1>1. out_nodes \in [Node -> Seq(Node)]
  BY DEF ReadinessInv, TypeOK, WellFormed
<1>2. ASSUME NEW k \in S, NEW c \in Children(out_nodes, k) PROVE c \in S
  <2>1. c \in Node /\ k \in Node /\ k \in Parents(out_nodes, c) /\ k \notin Finished
    BY <1>1, <1>2 DEF Children, Parents
  <2>2. pc[c] = "idle"
    BY <2>1, ParentsFinishedFirst
  <2> QED
    BY <2>1, <2>2 DEF ReadinessInv, RunsCountsStarts, Finished
<1>3. S \subseteq Node /\ m \in S /\ Closed(out_nodes, S)
  BY <1>2 DEF Closed
<1>4. n \in S
  BY <1>1, <1>3 DEF Reachable
<1> QED
  BY <1>4

(***************************************************************************)
(* No node enters Node::run while a node it depends on, directly or not,   *)
(* is at work: what do_service reads from other nodes' contexts has been   *)
(* written.                                                                *)
(***************************************************************************)
THEOREM RunsAfterAncestorsCorrect == Spec => []RunsAfterAncestors
<1> QED
  BY ReadinessOrders, ReadinessCorrect, PTL

\* What depends on a node depends on what the node depends on.
LEMMA LostAboveChild ==
  ASSUME out_nodes \in [Node -> Seq(Node)], NEW p \in Node, LostAbove(p),
         NEW n \in Children(out_nodes, p)
  PROVE  LostAbove(n)
<1>1. n \in Node
  BY DEF Children
<1>2. PICK m \in Node : pc[m] = "lost" /\ p \in Reachable(out_nodes, m)
  BY DEF LostAbove
<1>3. n \in Reachable(out_nodes, m)
  BY <1>1, <1>2 DEF Reachable, Closed
<1> QED BY <1>2, <1>3 DEF LostAbove

(***************************************************************************)
(* When nothing moves any more, every node has run its course but for what *)
(* a failed spawn has lost and what depends on it.  A node that starves    *)
(* otherwise waits for a node that does as well, and in a graph without    *)
(* cycles the set of such nodes has a first member unless it is empty.     *)
(***************************************************************************)
THEOREM StarvedOnlyBelowLostCorrect == Spec => []StarvedOnlyBelowLost
<1>1. ReadinessInv => StarvedOnlyBelowLost
  <2> SUFFICES ASSUME ReadinessInv, pc[Root] # "idle",
                      \A k \in Node : pc[k] \in {"idle", "done", "lost"}
               PROVE  \A n \in Node : pc[n] = "done" \/ LostAbove(n)
    BY DEF StarvedOnlyBelowLost
  <2> DEFINE S == {n \in Node : pc[n] # "done" /\ ~LostAbove(n)}
  <2>1. out_nodes \in [Node -> Seq(Node)] /\ AcyclicOn(out_nodes, Node)
    BY DEF ReadinessInv, TypeOK, WellFormed
  <2>2. ASSUME NEW n \in S PROVE \E p \in S : p \in Parents(out_nodes, n)
    <3>1. pc[n] # "lost"
      BY <2>1 DEF LostAbove, Reachable
    <3>2. ~Held(n)
      BY NodeAssumption DEF ReadinessInv, HeldByOneThread, Held
    <3>3. Undelivered(n) # {}
      BY <3>1, <3>2 DEF ReadinessInv, DeliveredIsStarted
    <3>4. PICK p \in Parents(out_nodes, n) : pc[p] # "done"
      BY <3>3 DEF Undelivered, Delivered
    <3>5. p \in Node /\ n \in Children(out_nodes, p)
      BY <2>1 DEF Parents
    <3>6. ~LostAbove(p)
      BY <2>1, <3>5, LostAboveChild
    <3> QED BY <3>4, <3>5, <3>6
  <2> HIDE DEF S
  <2>3. S = {}
    <3> SUFFICES ASSUME S # {} PROVE FALSE
      OBVIOUS
    <3>1. S \subseteq Node
      BY DEF S
    <3> QED BY <2>1, <2>2, <3>1 DEF AcyclicOn
  <2> QED BY <2>3 DEF S
<1> QED
  BY <1>1, ReadinessCorrect, PTL

-----------------------------------------------------------------------------
(***************************************************************************)
(* The engine implements DagRun: finishing a node is the abstract step     *)
(* Finish, allowed because its inputs are finished; all else stutters.     *)
(***************************************************************************)
THEOREM ImplementsDagRunCorrect == Spec => ImplementsDagRun
<1>1. Init => Dag!Init
  BY DEF Init, Dag!Init, Finished
<1>2. ReadinessInv /\ [Next]_vars => [Dag!Next]_(Dag!dagVars)
  <2> SUFFICES ASSUME ReadinessInv, [Next]_vars
               PROVE  Dag!Next \/ (UNCHANGED out_nodes /\ Finished' = Finished)
    BY DEF Dag!dagVars
  <2>1. CASE RunGraph \/ \E n \in Node : BFunc(n) \/ IssueIo(n)
    <3>1. UNCHANGED out_nodes
      BY <2>1 DEF RunGraph, BFunc, IssueIo
    <3>2. \A k \in Node : pc'[k] = pc[k] \/
            (pc[k] \in {"idle", "spawned", "run"} /\ pc'[k] \in {"run", "wait"})
      BY <2>1 DEF RunGraph, BFunc, IssueIo, ReadinessInv, TypeOK
    <3> QED
      BY <3>1, <3>2 DEF Finished
  <2>2. ASSUME NEW n \in Node, RunAndNotify(n) \/ IoCallback(n) PROVE Dag!Next
    <3>1. n \notin Finished /\ pc[n] # "idle"
      BY <2>2 DEF RunAndNotify, IoCallback, Finished
    <3>2. Parents(out_nodes, n) \subseteq Finished
      BY <3>1, ParentsFinishedFirst
    <3>3. UNCHANGED out_nodes /\ Finished' = Finished \cup {n}
      BY <2>2 DEF RunAndNotify, IoCallback, EnterNotify, Finished, ReadinessInv, TypeOK
    <3> QED
      BY <3>1, <3>2, <3>3 DEF Dag!Next, Dag!Finish, Dag!Parents, Parents,
                              Dag!Children, Children
  <2>3. ASSUME NEW n \in Node, NotifyWaiting(n)
        PROVE  UNCHANGED out_nodes /\ Finished' = Finished
    BY <2>3 DEF NotifyWaiting, Finished
  <2>4. ASSUME NEW n \in Node, NotifyReady(n) \/ FinishNotify(n)
        PROVE  UNCHANGED out_nodes /\ Finished' = Finished
    <3>1. UNCHANGED out_nodes
      BY <2>4 DEF NotifyReady, FinishNotify
    <3>2. last_ready_node[n] # NoNode =>
            last_ready_node[n] \in Node /\ pc[last_ready_node[n]] = "idle"
      BY DEF ReadinessInv, HeldByOneThread, TypeOK
    <3>3. pc[n] = "notify" /\ pc'[n] \in {"notify", "done"}
      BY <2>4, <3>2 DEF NotifyReady, FinishNotify, ReadinessInv, TypeOK
    <3>4. \A k \in Node \ {n} : pc'[k] = pc[k] \/
            (pc[k] = "idle" /\ pc'[k] \in {"spawned", "lost", "run"})
      BY <2>4, <3>2 DEF NotifyReady, FinishNotify, SpawnOutcomes, ReadinessInv, TypeOK
    <3> QED
      BY <3>1, <3>3, <3>4 DEF Finished
  <2>5. CASE UNCHANGED vars
    BY <2>5 DEF vars, Finished
  <2> QED
    BY <2>1, <2>2, <2>3, <2>4, <2>5 DEF Next, NodeStep, Terminated
<1> QED
  BY <1>1, <1>2, ReadinessCorrect, PTL DEF Spec, ImplementsDagRun, Dag!Spec
=============================================================================
