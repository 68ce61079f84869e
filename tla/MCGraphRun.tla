----------------------------- MODULE MCGraphRun -----------------------------
(***************************************************************************)
(* GraphRun on every graph with the nodes 0..MaxNode that is rooted at 0   *)
(* and numbered along its edges: up to the names of the nodes these are    *)
(* all rooted DAGs of that size.  Every node lists its outputs in rising   *)
(* order, or every node in falling order.                                  *)
(***************************************************************************)
EXTENDS GraphRun, SequencesExt

CONSTANT MaxNode

MCNode == 0..MaxNode

Edges == {e \in MCNode \X MCNode : e[1] < e[2]}

RootedEdgeSets ==
  {E \in SUBSET Edges : \A n \in MCNode \ {0} : \E m \in MCNode : <<m, n>> \in E}

Rising(E) ==
  [n \in MCNode |-> SetToSortSeq({m \in MCNode : <<n, m>> \in E}, LAMBDA a, b : a < b)]

Falling(E) == [n \in MCNode |-> Reverse(Rising(E)[n])]

MCGraphs == UNION {{Rising(E), Falling(E)} : E \in RootedEdgeSets}
=============================================================================
