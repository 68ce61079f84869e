---------------------------- MODULE MCGraphBuild ----------------------------
(***************************************************************************)
(* GraphBuild on the sections with the entries 1, 2 and 3.  Any of the     *)
(* edges below may be declared by its source, and one edge, the same or    *)
(* another, by its target.  The root is usually 1; it may be missing or    *)
(* given twice, and a name may be unknown to node_service.conf.            *)
(***************************************************************************)
EXTENDS GraphBuild, SequencesExt

MCName == {1, 2, 3}

PossibleEdges == {e \in MCName \X MCName : e[1] # e[2]} \cup {<<2, 2>>}

Rising(S) == SetToSortSeq(S, LAMBDA a, b : a < b)

Section(C, P, roots, known) ==
  [entries |-> MCName,
   children |-> [n \in MCName |-> Rising({m \in MCName : <<n, m>> \in C})],
   parents |-> [n \in MCName |-> Rising({m \in MCName : <<m, n>> \in P})],
   roots |-> roots, known |-> known]

AtMostOneEdge == {{}} \cup {{e} : e \in PossibleEdges}

MCConfigs ==
  {Section(C, P, {1}, MCName) : C \in SUBSET PossibleEdges, P \in AtMostOneEdge}
  \cup {Section(C, {}, roots, MCName) : C \in SUBSET PossibleEdges, roots \in {{}, {1, 2}}}
  \cup {Section(C, {}, {1}, {1, 2}) : C \in SUBSET PossibleEdges}
=============================================================================
