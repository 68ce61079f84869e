--------------------------- MODULE GraphTopology ---------------------------
(***************************************************************************)
(* What a graph of nodes is: out[n] is Node::out_nodes of n, the sequence  *)
(* of nodes that n notifies (src/src/frame/graph.h:32-86).  The operators  *)
(* below are the mathematical reference against which the code that builds *)
(* graphs (GraphBuild) and the code that runs them (GraphRun) are checked. *)
(* None of them is recursive: reachability is the least closed set, and    *)
(* acyclicity says that every non-empty set of nodes has a first member.   *)
(***************************************************************************)
EXTENDS Integers, Sequences, FiniteSets

Children(out, n) == {out[n][k] : k \in DOMAIN out[n]}

Parents(out, n) == {m \in DOMAIN out : n \in Children(out, m)}

\* A set of nodes that no edge leaves.
Closed(out, S) == \A m \in S : Children(out, m) \subseteq S

Reachable(out, root) ==
  {n \in DOMAIN out :
     \A S \in SUBSET DOMAIN out : root \in S /\ Closed(out, S) => n \in S}

AcyclicOn(out, R) ==
  \A S \in SUBSET R : S # {} => \E n \in S : Parents(out, n) \cap S = {}

NoParallelEdges(out) ==
  \A n \in DOMAIN out : \A j, k \in DOMAIN out[n] :
    out[n][j] = out[n][k] => j = k

(***************************************************************************)
(* The graphs that Graph::run can execute to the end: the root waits for   *)
(* nobody, every node that waits for somebody waits only for nodes the     *)
(* root reaches, and nobody waits for itself through others.               *)
(***************************************************************************)
Runnable(out, root) ==
  LET R == Reachable(out, root)
  IN  /\ Parents(out, root) = {}
      /\ \A n \in R : Parents(out, n) \subseteq R
      /\ AcyclicOn(out, R)

(***************************************************************************)
(* What Graph::run and Node::run rely on: the nodes of the graph notify    *)
(* each other only, at most once, the root alone waits for nobody, and     *)
(* nobody waits for itself through others.                                 *)
(***************************************************************************)
WellFormed(out, nodes, root) ==
  /\ out \in [nodes -> Seq(nodes)]
  /\ NoParallelEdges(out)
  /\ \A n \in nodes : Parents(out, n) = {} <=> n = root
  /\ AcyclicOn(out, nodes)
=============================================================================
