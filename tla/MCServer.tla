------------------------------ MODULE MCServer ------------------------------
(***************************************************************************)
(* Server on every graph of the nodes 0..4 that is rooted at 0, numbered   *)
(* along its edges, and ends in 4, which takes input from 1, 2 and 3: the  *)
(* shape of the shipped graph.conf, with two rpc nodes beside, above or    *)
(* below the node "start".                                                 *)
(***************************************************************************)
EXTENDS Server, SequencesExt

MCNode == 0..4

Edges == {e \in MCNode \X MCNode : e[1] < e[2] /\ e[2] # 4}

RootedEdgeSets ==
  {E \in SUBSET Edges : \A n \in 1..3 : \E m \in MCNode : <<m, n>> \in E}

Rising(E) ==
  [n \in MCNode |-> SetToSortSeq({m \in MCNode : <<n, m>> \in E}, LAMBDA a, b : a < b)]

MCGraphs == {Rising(E \cup {<<1, 4>>, <<2, 4>>, <<3, 4>>}) : E \in RootedEdgeSets}
=============================================================================
