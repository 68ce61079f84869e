------------------------------- MODULE DagRun -------------------------------
(***************************************************************************)
(* What running a graph promises, without threads, counters or callbacks:  *)
(* the work of every node is done once, and only when the work of all the  *)
(* nodes it takes input from has been done.  GraphRun implements this.     *)
(***************************************************************************)
EXTENDS GraphTopology

CONSTANTS Node,    \* the nodes of the graph (Graph::all_nodes)
          Root     \* Graph::root_node

VARIABLES out_nodes,   \* the edges; fixed once the graph is built
          finished     \* the nodes whose do_service is over, or was skipped

dagVars == <<out_nodes, finished>>

Init == finished = {}

Finish(n) ==
  /\ n \notin finished
  /\ Parents(out_nodes, n) \subseteq finished
  /\ finished' = finished \cup {n}
  /\ UNCHANGED out_nodes

Next == \E n \in Node : Finish(n)

Spec == Init /\ [][Next]_dagVars
=============================================================================
