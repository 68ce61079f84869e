------------------------------ MODULE GraphRun ------------------------------
(***************************************************************************)
(* One execution of a graph: Graph::run (frame/graph.h) and Node::run,     *)
(* Node::notify and Node::run_output_nodes_if_ready (frame/graph.cpp).     *)
(*                                                                         *)
(* Every node has its own thread of control, a bthread or the tail of the  *)
(* bthread that made it ready; pc[n] says where Node::run of n stands:     *)
(*                                                                         *)
(*   idle     nobody has made n ready                                      *)
(*   spawned  bthread_start_background has been given n, b_func not begun  *)
(*   run      inside Node::run, do_service (or skip) not finished          *)
(*   wait     do_service of an io node returned, its answer is outstanding *)
(*   notify   inside run_output_nodes_if_ready                             *)
(*   done     run_output_nodes_if_ready has returned                       *)
(*   lost     bthread_start_background failed; its result is ignored       *)
(*                                                                         *)
(* The only state the threads share is node_input_num_map, the atomic      *)
(* counters of the context; a step is one access to it.                    *)
(***************************************************************************)
EXTENDS GraphTopology

CONSTANTS Node,          \* Graph::all_nodes
          Root,          \* Graph::root_node
          NoNode,        \* nullptr
          IoNode,        \* nodes whose type() is not "cpu"
          Graphs,        \* the graphs to run, each a function Node -> Seq(Node)
          SpawnMayFail   \* whether bthread_start_background may return an error

(***************************************************************************)
(* Graphs holds what GraphManager::init accepts, restricted to all_nodes:  *)
(* GraphBuild shows that such graphs are like this (AcceptedFeedsGraphRun).*)
(***************************************************************************)
ASSUME NodeAssumption ==
  /\ IsFiniteSet(Node)
  /\ Root \in Node
  /\ NoNode \notin Node
  /\ IoNode \subseteq Node
  /\ SpawnMayFail \in BOOLEAN

ASSUME GraphsAssumption == \A g \in Graphs : WellFormed(g, Node, Root)

VARIABLES
  out_nodes,            \* Node::out_nodes of every node
  node_input_num_map,   \* Context::node_input_num_map, one counter per node
  pc,                   \* where Node::run of each node stands
  next_output,          \* i of run_output_nodes_if_ready's loop, from 1
  last_ready_node,      \* the local of the same name, per node
  runs                  \* how often Node::run has been entered (history)

vars == <<out_nodes, node_input_num_map, pc, next_output, last_ready_node, runs>>

Init ==
  /\ out_nodes \in Graphs
  /\ node_input_num_map = [n \in Node |-> 0]
  /\ pc = [n \in Node |-> "idle"]
  /\ next_output = [n \in Node |-> 1]
  /\ last_ready_node = [n \in Node |-> NoNode]
  /\ runs = [n \in Node |-> 0]

-----------------------------------------------------------------------------
\* Node::get_input_num: add_output counted every edge into n once.
InputNum(n) == Cardinality(Parents(out_nodes, n))

\* Graph::run: a fresh context with every counter at its in-degree, then the
\* root is run by the caller itself.
RunGraph ==
  /\ pc[Root] = "idle"
  /\ node_input_num_map' = [n \in Node |-> InputNum(n)]
  /\ pc' = [pc EXCEPT ![Root] = "run"]
  /\ runs' = [runs EXCEPT ![Root] = @ + 1]
  /\ UNCHANGED <<out_nodes, next_output, last_ready_node>>

\* b_func: a spawned bthread enters Node::run of its node.
BFunc(n) ==
  /\ pc[n] = "spawned"
  /\ pc' = [pc EXCEPT ![n] = "run"]
  /\ runs' = [runs EXCEPT ![n] = @ + 1]
  /\ UNCHANGED <<out_nodes, node_input_num_map, next_output, last_ready_node>>

\* Entering run_output_nodes_if_ready of n.
EnterNotify(n) ==
  /\ pc' = [pc EXCEPT ![n] = "notify"]
  /\ next_output' = [next_output EXCEPT ![n] = 1]
  /\ last_ready_node' = [last_ready_node EXCEPT ![n] = NoNode]
  /\ UNCHANGED <<out_nodes, node_input_num_map, runs>>

\* Node::run of a skipped node, or of a "cpu" node whose do_service is over.
RunAndNotify(n) ==
  /\ pc[n] = "run"
  /\ EnterNotify(n)

\* Node::run of an io node: do_service has issued its call and returns; the
\* node's own callback will call run_output_nodes_if_ready.  (An io node that
\* calls it before do_service returns takes RunAndNotify.)
IssueIo(n) ==
  /\ pc[n] = "run"
  /\ n \in IoNode
  /\ pc' = [pc EXCEPT ![n] = "wait"]
  /\ UNCHANGED <<out_nodes, node_input_num_map, next_output, last_ready_node, runs>>

\* The answer of an io node has been handled.
IoCallback(n) ==
  /\ pc[n] = "wait"
  /\ EnterNotify(n)

\* The outputs of n that a loop of run_output_nodes_if_ready has yet to notify.
MoreOutputs(n) == next_output[n] <= Len(out_nodes[n])

\* bthread_start_background of m; a failure goes unnoticed.
SpawnOutcomes == IF SpawnMayFail THEN {"spawned", "lost"} ELSE {"spawned"}

\* Mutants of Ready: any input makes a node ready; fetch_sub is taken to return the
\* new value.
ReadyEarly(old) == old >= 1
ReadyNever(old) == old = 0

\* Node::notify's answer for a counter that held old.
Ready(old) == old = 1

\* An iteration in which the counter of the output does not reach zero.
NotifyWaiting(n) ==
  /\ pc[n] = "notify"
  /\ MoreOutputs(n)
  /\ LET c == out_nodes[n][next_output[n]]
     IN  /\ ~Ready(node_input_num_map[c])
         /\ node_input_num_map' = [node_input_num_map EXCEPT ![c] = @ - 1]
  /\ next_output' = [next_output EXCEPT ![n] = @ + 1]
  /\ UNCHANGED <<out_nodes, pc, last_ready_node, runs>>

\* An iteration that makes an output ready: the previous ready one, if any, gets
\* a bthread of its own.
NotifyReady(n) ==
  /\ pc[n] = "notify"
  /\ MoreOutputs(n)
  /\ LET c == out_nodes[n][next_output[n]]
     IN  /\ Ready(node_input_num_map[c])
         /\ node_input_num_map' = [node_input_num_map EXCEPT ![c] = @ - 1]
         /\ last_ready_node' = [last_ready_node EXCEPT ![n] = c]
  /\ IF last_ready_node[n] # NoNode
       THEN \E o \in SpawnOutcomes : pc' = [pc EXCEPT ![last_ready_node[n]] = o]
       ELSE UNCHANGED pc
  /\ next_output' = [next_output EXCEPT ![n] = @ + 1]
  /\ UNCHANGED <<out_nodes, runs>>

\* Mutant of FinishNotify: the last ready output is forgotten.
FinishNotifyDropsLast(n) ==
  /\ pc[n] = "notify"
  /\ ~MoreOutputs(n)
  /\ pc' = [pc EXCEPT ![n] = "done"]
  /\ last_ready_node' = [last_ready_node EXCEPT ![n] = NoNode]
  /\ UNCHANGED <<out_nodes, node_input_num_map, next_output, runs>>

\* The loop is over: the last ready output, if any, is run by this very thread.
FinishNotify(n) ==
  /\ pc[n] = "notify"
  /\ ~MoreOutputs(n)
  /\ IF last_ready_node[n] # NoNode
       THEN /\ pc' = [pc EXCEPT ![n] = "done", ![last_ready_node[n]] = "run"]
            /\ runs' = [runs EXCEPT ![last_ready_node[n]] = @ + 1]
       ELSE /\ pc' = [pc EXCEPT ![n] = "done"]
            /\ UNCHANGED runs
  /\ last_ready_node' = [last_ready_node EXCEPT ![n] = NoNode]
  /\ UNCHANGED <<out_nodes, node_input_num_map, next_output>>

\* Steps of the threads; IoCallback is taken by the rpc layer's threads.
NodeStep(n) ==
  \/ BFunc(n)
  \/ RunAndNotify(n)
  \/ IssueIo(n)
  \/ IoCallback(n)
  \/ NotifyWaiting(n)
  \/ NotifyReady(n)
  \/ FinishNotify(n)

Terminated ==
  /\ \A n \in Node : pc[n] \in {"idle", "done", "lost"}
  /\ pc[Root] # "idle"
  /\ UNCHANGED vars

Next == RunGraph \/ (\E n \in Node : NodeStep(n)) \/ Terminated

Spec == Init /\ [][Next]_vars

(***************************************************************************)
(* The bthread scheduler runs every started bthread, and the rpc layer     *)
(* runs the callback of every call it accepted (with an error status if    *)
(* the call fails).                                                        *)
(***************************************************************************)
FairSpec ==
  /\ Spec
  /\ WF_vars(RunGraph)
  /\ \A n \in Node : WF_vars(NodeStep(n))
-----------------------------------------------------------------------------
TypeOK ==
  /\ WellFormed(out_nodes, Node, Root)
  /\ node_input_num_map \in [Node -> Int]
  /\ pc \in [Node -> {"idle", "spawned", "run", "wait", "notify", "done", "lost"}]
  /\ next_output \in [Node -> Nat \ {0}]
  /\ last_ready_node \in [Node -> Node \cup {NoNode}]
  /\ runs \in [Node -> Nat]

\* Nodes whose work is over: do_service and its callback have ended, or the node
\* was skipped.
Finished == {n \in Node : pc[n] \in {"notify", "done"}}

\* p's loop has passed its edge into n.
Delivered(p, n) ==
  \/ pc[p] = "done"
  \/ /\ pc[p] = "notify"
     /\ \E j \in DOMAIN out_nodes[p] : j < next_output[p] /\ out_nodes[p][j] = n

Undelivered(n) == {p \in Parents(out_nodes, n) : ~Delivered(p, n)}

\* n is known to be ready but nobody has started it yet.
Held(n) == \E p \in Node : last_ready_node[p] = n

(***************************************************************************)
(* The invariant that makes the counters work: a counter is the number of  *)
(* edges into its node that are still to be delivered, and a node whose    *)
(* edges are all delivered is either held by exactly one thread as its     *)
(* last ready node or has been started, exactly once.                      *)
(***************************************************************************)
CountersExact ==
  \A n \in Node : node_input_num_map[n] =
    IF pc[Root] = "idle" THEN 0 ELSE Cardinality(Undelivered(n))

\* Before Graph::run nothing has happened, and only notified nodes start.
StartedWhenDelivered ==
  \A n \in Node : pc[n] # "idle" \/ Held(n) => Undelivered(n) = {} /\ pc[Root] # "idle"

DeliveredIsStarted ==
  \A n \in Node : Undelivered(n) = {} /\ pc[Root] # "idle" => pc[n] # "idle" \/ Held(n)

HeldByOneThread ==
  /\ \A p \in Node : last_ready_node[p] # NoNode =>
       pc[p] = "notify" /\ pc[last_ready_node[p]] = "idle" /\ last_ready_node[p] # Root
  /\ \A p, q \in Node : last_ready_node[p] = last_ready_node[q]
                          /\ last_ready_node[p] # NoNode => p = q

RunsCountsStarts ==
  \A n \in Node : runs[n] = IF pc[n] \in {"idle", "spawned", "lost"} THEN 0 ELSE 1

(***************************************************************************)
(* The five facts above together are inductive: every counter of           *)
(* node_input_num_map always equals the edges still to be delivered, and   *)
(* readiness is neither lost nor given to two threads.                     *)
(***************************************************************************)
ReadinessInv ==
  /\ TypeOK
  /\ CountersExact
  /\ StartedWhenDelivered
  /\ DeliveredIsStarted
  /\ HeldByOneThread
  /\ RunsCountsStarts

(***************************************************************************)
(* README.md:37: do_service is called once by each graph->run.  Node::run  *)
(* is entered at most once per execution, whatever order the inputs of a   *)
(* node finish in, on however many threads.                                *)
(***************************************************************************)
RunOnce == \A n \in Node : runs[n] <= 1

(***************************************************************************)
(* A node's do_service reads the service contexts of the nodes it depends  *)
(* on: none of them, direct or indirect, may still be at work when the     *)
(* node enters Node::run (or is already past it).                          *)
(***************************************************************************)
RunsAfterAncestors ==
  \A m \in Node \ Finished :
    \A n \in Reachable(out_nodes, m) \ {m} : runs[n] = 0

(***************************************************************************)
(* frame/graph.cpp:50-52, "too many notify ... this should not happen": no *)
(* counter is decremented below zero.                                      *)
(***************************************************************************)
NeverTooManyNotify == \A n \in Node : node_input_num_map[n] >= 0

\* n, or a node it depends on, was lost.
LostAbove(n) == \E m \in Node : pc[m] = "lost" /\ n \in Reachable(out_nodes, m)

(***************************************************************************)
(* What a failed bthread_start_background costs: once nothing moves any    *)
(* more, a node that has not run its course was itself lost or depends on  *)
(* one that was.  Nothing else starves, and nothing deadlocks.             *)
(***************************************************************************)
StarvedOnlyBelowLost ==
  (pc[Root] # "idle" /\ \A n \in Node : pc[n] \in {"idle", "done", "lost"}) =>
    \A n \in Node : pc[n] = "done" \/ LostAbove(n)

(***************************************************************************)
(* Every call of an io node being answered, the graph runs to the end:     *)
(* every node finishes and its thread returns, except those that were      *)
(* lost, and those below them.                                             *)
(***************************************************************************)
Completes == <>(\A n \in Node : pc[n] = "done" \/ LostAbove(n))

Dag == INSTANCE DagRun WITH finished <- Finished

(***************************************************************************)
(* Node::run and the counters implement the abstract run of a DAG.         *)
(***************************************************************************)
ImplementsDagRun == Dag!Spec
=============================================================================
