-------------------------- MODULE GraphBuild_proofs --------------------------
(***************************************************************************)
(* Proofs about GraphBuild, for every section of graph.conf, whatever its  *)
(* size, its edges and the order its entries are read in: edges are        *)
(* counted once, Graph::check accepts exactly the graphs that can run to   *)
(* the end, and what it accepts is what GraphRun assumes.                  *)
(***************************************************************************)
EXTENDS GraphBuild, FiniteSetTheorems, SequenceTheorems, TLAPS

Elements(s) == {s[i] : i \in DOMAIN s}

\* What kids, pars and queue lose when their head is taken.
LEMMA ElementsOfTail ==
  ASSUME NEW S, NEW s \in Seq(S), s # <<>>
  PROVE  /\ Head(s) \in S
         /\ Tail(s) \in Seq(S)
         /\ Elements(s) = {Head(s)} \cup Elements(Tail(s))
<1>1. /\ Head(s) \in S /\ Tail(s) \in Seq(S) /\ Head(s) = s[1]
      /\ Len(s) \in Nat \ {0} /\ DOMAIN s = 1..Len(s)
      /\ Len(Tail(s)) = Len(s) - 1 /\ DOMAIN Tail(s) = 1..(Len(s) - 1)
      /\ \A i \in 1..(Len(s) - 1) : Tail(s)[i] = s[i + 1]
  BY HeadTailProperties, LenProperties, EmptySeq
<1>2. Elements(s) \subseteq {Head(s)} \cup Elements(Tail(s))
  <2> SUFFICES ASSUME NEW i \in 1..Len(s), i # 1
               PROVE  s[i] \in Elements(Tail(s))
    BY <1>1 DEF Elements
  <2>1. i - 1 \in 1..(Len(s) - 1) /\ Tail(s)[i - 1] = s[i]
    BY <1>1
  <2> QED BY <1>1, <2>1 DEF Elements
<1>3. Elements(Tail(s)) \subseteq Elements(s)
  <2> SUFFICES ASSUME NEW i \in 1..(Len(s) - 1)
               PROVE  Tail(s)[i] \in Elements(s)
    BY <1>1 DEF Elements
  <2>1. i + 1 \in 1..Len(s) /\ Tail(s)[i] = s[i + 1]
    BY <1>1
  <2> QED BY <1>1, <2>1 DEF Elements
<1>4. Head(s) \in Elements(s)
  <2>1. 1 \in 1..Len(s)
    BY <1>1
  <2> QED BY <1>1, <2>1 DEF Elements
<1>5. Elements(s) = {Head(s)} \cup Elements(Tail(s))
  BY <1>2, <1>3, <1>4
<1> QED BY <1>1, <1>5

\* What the search's queue gains.
LEMMA ElementsOfConcat ==
  ASSUME NEW S, NEW s \in Seq(S), NEW t \in Seq(S)
  PROVE  /\ s \o t \in Seq(S)
         /\ Elements(s \o t) = Elements(s) \cup Elements(t)
<1>1. /\ s \o t \in Seq(S)
      /\ Len(s) \in Nat /\ Len(t) \in Nat
      /\ DOMAIN s = 1..Len(s) /\ DOMAIN t = 1..Len(t)
      /\ DOMAIN (s \o t) = 1..(Len(s) + Len(t))
      /\ \A i \in 1..(Len(s) + Len(t)) :
           (s \o t)[i] = IF i <= Len(s) THEN s[i] ELSE t[i - Len(s)]
  BY ConcatProperties, LenProperties
<1>2. ASSUME NEW i \in 1..(Len(s) + Len(t))
      PROVE  (s \o t)[i] \in Elements(s) \cup Elements(t)
  <2>1. CASE i <= Len(s)
    BY <1>1, <2>1 DEF Elements
  <2>2. CASE ~(i <= Len(s))
    <3>1. i - Len(s) \in 1..Len(t) /\ (s \o t)[i] = t[i - Len(s)]
      BY <1>1, <2>2
    <3> QED BY <1>1, <3>1 DEF Elements
  <2> QED BY <2>1, <2>2
<1>3. ASSUME NEW i \in 1..Len(s)
      PROVE  s[i] \in Elements(s \o t)
  <2>1. i \in 1..(Len(s) + Len(t)) /\ (s \o t)[i] = s[i]
    BY <1>1
  <2> QED BY <1>1, <2>1 DEF Elements
<1>4. ASSUME NEW i \in 1..Len(t)
      PROVE  t[i] \in Elements(s \o t)
  <2>1. i + Len(s) \in 1..(Len(s) + Len(t)) /\ (s \o t)[i + Len(s)] = t[i]
    BY <1>1
  <2> QED BY <1>1, <2>1 DEF Elements
<1> QED BY <1>1, <1>2, <1>3, <1>4 DEF Elements

LEMMA ElementsType ==
  ASSUME NEW S, NEW s \in Seq(S)
  PROVE  Elements(s) \subseteq S
  BY LenProperties, ElementOfSeq DEF Elements

-----------------------------------------------------------------------------
(***************************************************************************)
(* Types, and what the phases have established: an entry's lists are only  *)
(* read for its own node, and the search and the check have a root.        *)
(***************************************************************************)
Shape ==
  /\ config \in ConfigType
  /\ todo \subseteq config.entries
  /\ cur \in Name \cup {NoNode} /\ kids \in Seq(Name) /\ pars \in Seq(Name)
  /\ DOMAIN ids \subseteq Name /\ \A n \in DOMAIN ids : ids[n] \in Nat
  /\ root \in Name \cup {NoNode}
  /\ out_nodes \in [Name -> Seq(Name)]
  /\ input_num \in [Name -> Int]
  /\ input_num_4_check \in [Name -> Int]
  /\ all_nodes \subseteq Name /\ queue \in Seq(Name)
  /\ zero_input_node \subseteq Name /\ deleted \subseteq Name
  /\ phase \in {"parse", "collect", "check", "accepted", "rejected", "crashed"}
  /\ cur = NoNode => kids = <<>> /\ pars = <<>>
  /\ phase \in {"collect", "check", "accepted", "rejected"} => root \in Name
  /\ phase # "parse" => todo = {} /\ kids = <<>> /\ pars = <<>>
  /\ phase = "parse" => all_nodes = {} /\ queue = <<>>
  /\ phase \in {"check", "accepted"} => queue = <<>>
  /\ phase \in {"parse", "collect", "crashed"} => zero_input_node = {} /\ deleted = {}

(***************************************************************************)
(* Node::add_output keeps the edges unique and the two counters of inputs  *)
(* exact; the check takes from the second those of the deleted nodes.      *)
(***************************************************************************)
CountsExact ==
  /\ NoParallelEdges(out_nodes)
  /\ \A n \in Name : input_num[n] = Cardinality(Parents(out_nodes, n))
  /\ \A n \in Name :
       input_num_4_check[n] = Cardinality(Parents(out_nodes, n) \ deleted)

CountedInv == Shape /\ CountsExact

LEMMA ParentsFinite ==
  ASSUME out_nodes \in [Name -> Seq(Name)]
  PROVE  \A n, D : /\ Parents(out_nodes, n) \subseteq Name
                   /\ IsFiniteSet(Parents(out_nodes, n) \ D)
                   /\ Cardinality(Parents(out_nodes, n) \ D) \in Nat
                   /\ IsFiniteSet(Parents(out_nodes, n))
                   /\ Cardinality(Parents(out_nodes, n)) \in Nat
<1>1. \A n : Parents(out_nodes, n) \subseteq Name
  BY DEF Parents
<1>2. \A n : IsFiniteSet(Parents(out_nodes, n))
  BY <1>1, NameAssumption, FS_Subset
<1>3. \A n, D : IsFiniteSet(Parents(out_nodes, n) \ D)
  BY <1>1, NameAssumption, FS_Subset
<1> QED BY <1>1, <1>2, <1>3, FS_CardinalityType

\* The nodes an add_output or a search meets are names.
LEMMA ChildrenNames ==
  ASSUME NEW out \in [Name -> Seq(Name)], NEW n \in Name
  PROVE  Children(out, n) = Elements(out[n]) /\ Children(out, n) \subseteq Name
<1>1. out[n] \in Seq(Name)
  OBVIOUS
<1> QED BY <1>1, ElementsType DEF Children, Elements

\* A stored edge: std::find has not found it, so it is a new one.
LEMMA StoreEdge ==
  ASSUME Shape, NEW n \in Name, NEW c \in Name, AddOutput(n, c)
  PROVE  /\ out_nodes' \in [Name -> Seq(Name)]
         /\ \A m \in Name : Children(out_nodes', m) =
              IF m = n THEN Children(out_nodes, n) \cup {c} ELSE Children(out_nodes, m)
         /\ NoParallelEdges(out_nodes) => NoParallelEdges(out_nodes')
<1>1. out_nodes \in [Name -> Seq(Name)]
  BY DEF Shape
<1>2. CASE c \in Children(out_nodes, n)
  BY <1>1, <1>2 DEF AddOutput, edgeVars
<1>3. CASE c \notin Children(out_nodes, n)
  <2>1. out_nodes' = [out_nodes EXCEPT ![n] = Append(@, c)]
    BY <1>3 DEF AddOutput
  <2>2. out_nodes[n] \in Seq(Name)
    BY <1>1
  <2>3. /\ Append(out_nodes[n], c) \in Seq(Name)
        /\ Len(out_nodes[n]) \in Nat
        /\ DOMAIN out_nodes[n] = 1..Len(out_nodes[n])
        /\ DOMAIN Append(out_nodes[n], c) = 1..(Len(out_nodes[n]) + 1)
        /\ \A i \in 1..Len(out_nodes[n]) : Append(out_nodes[n], c)[i] = out_nodes[n][i]
        /\ Append(out_nodes[n], c)[Len(out_nodes[n]) + 1] = c
    BY <2>2, LenProperties
  <2>4. /\ out_nodes' \in [Name -> Seq(Name)]
        /\ out_nodes'[n] = Append(out_nodes[n], c)
        /\ \A m \in Name \ {n} : out_nodes'[m] = out_nodes[m]
    BY <1>1, <2>1, <2>3
  <2>5. Children(out_nodes', n) = Children(out_nodes, n) \cup {c}
    <3>1. \A i \in 1..Len(out_nodes[n]) : i \in 1..(Len(out_nodes[n]) + 1)
      BY <2>3
    <3>2. \A i \in 1..(Len(out_nodes[n]) + 1) :
            i \in 1..Len(out_nodes[n]) \/ i = Len(out_nodes[n]) + 1
      BY <2>3
    <3>3. Len(out_nodes[n]) + 1 \in 1..(Len(out_nodes[n]) + 1)
      BY <2>3
    <3> QED BY <2>3, <2>4, <3>1, <3>2, <3>3 DEF Children
  <2>6. \A m \in Name \ {n} : Children(out_nodes', m) = Children(out_nodes, m)
    BY <2>4 DEF Children
  <2>7. ASSUME NoParallelEdges(out_nodes)
        PROVE  NoParallelEdges(out_nodes')
    <3>1. \A j, k \in DOMAIN out_nodes[n] : out_nodes[n][j] = out_nodes[n][k] => j = k
      BY <1>1, <2>7 DEF NoParallelEdges
    <3>2. \A j \in DOMAIN out_nodes[n] : out_nodes[n][j] # c
      BY <1>3 DEF Children
    <3>3. \A j, k \in DOMAIN out_nodes'[n] : out_nodes'[n][j] = out_nodes'[n][k] => j = k
      <4> DEFINE L == Len(out_nodes[n])
      <4>1. \A j \in DOMAIN out_nodes'[n] :
              \/ j \in 1..L /\ out_nodes'[n][j] = out_nodes[n][j]
              \/ j = L + 1 /\ out_nodes'[n][j] = c
        BY <2>3, <2>4
      <4>2. DOMAIN out_nodes[n] = 1..L
        BY <2>3
      <4> HIDE DEF L
      <4> QED BY <4>1, <4>2, <3>1, <3>2
    <3>4. \A m \in Name \ {n} : \A j, k \in DOMAIN out_nodes'[m] :
            out_nodes'[m][j] = out_nodes'[m][k] => j = k
      BY <1>1, <2>4, <2>7 DEF NoParallelEdges
    <3>5. DOMAIN out_nodes' = Name
      BY <2>4
    <3> QED BY <3>3, <3>4, <3>5 DEF NoParallelEdges
  <2> QED BY <2>4, <2>5, <2>6, <2>7
<1> QED BY <1>2, <1>3

\* The counters of an add_output: only the target's, and only for a new edge.
LEMMA CountEdge ==
  ASSUME CountedInv, NEW n \in Name, NEW c \in Name, AddOutput(n, c), deleted = {}
  PROVE  /\ input_num' \in [Name -> Int]
         /\ input_num_4_check' \in [Name -> Int]
         /\ \A m \in Name : input_num'[m] = Cardinality(Parents(out_nodes', m))
         /\ \A m \in Name : input_num_4_check'[m] = Cardinality(Parents(out_nodes', m))
<1> USE DEF CountedInv
<1>1. /\ out_nodes \in [Name -> Seq(Name)]
      /\ input_num \in [Name -> Int] /\ input_num_4_check \in [Name -> Int]
  BY DEF Shape
<1>2. /\ out_nodes' \in [Name -> Seq(Name)]
      /\ \A m \in Name : Children(out_nodes', m) =
           IF m = n THEN Children(out_nodes, n) \cup {c} ELSE Children(out_nodes, m)
  BY StoreEdge
<1>3. \A m \in Name : /\ input_num[m] = Cardinality(Parents(out_nodes, m))
                      /\ input_num_4_check[m] = Cardinality(Parents(out_nodes, m))
  <2>1. \A m : Parents(out_nodes, m) \ deleted = Parents(out_nodes, m)
    OBVIOUS
  <2> QED BY <2>1 DEF CountsExact
<1>4. CASE c \in Children(out_nodes, n)
  BY <1>1, <1>3, <1>4 DEF AddOutput, edgeVars
<1>5. CASE c \notin Children(out_nodes, n)
  <2>1. Parents(out_nodes', c) = Parents(out_nodes, c) \cup {n}
    BY <1>1, <1>2 DEF Parents
  <2>2. n \notin Parents(out_nodes, c)
    BY <1>5 DEF Parents
  <2>3. \A m \in Name \ {c} : Parents(out_nodes', m) = Parents(out_nodes, m)
    BY <1>1, <1>2 DEF Parents
  <2>4. Cardinality(Parents(out_nodes', c)) = Cardinality(Parents(out_nodes, c)) + 1
    BY <1>1, <2>1, <2>2, ParentsFinite, FS_AddElement
  <2>5. /\ input_num' = [input_num EXCEPT ![c] = @ + 1]
        /\ input_num_4_check' = [input_num_4_check EXCEPT ![c] = @ + 1]
    BY <1>5 DEF AddOutput
  <2> QED BY <1>1, <1>3, <2>3, <2>4, <2>5
<1> QED BY <1>4, <1>5
-----------------------------------------------------------------------------
LEMMA InitCounted == Init => CountedInv
<1> SUFFICES ASSUME Init PROVE CountedInv
  OBVIOUS
<1>1. Shape
  BY ConfigsAssumption, EmptySeq DEF Init, Shape, ConfigType
<1>2. \A n : Parents(out_nodes, n) = {}
  BY DEF Init, Parents, Children
<1>3. NoParallelEdges(out_nodes)
  BY DEF Init, NoParallelEdges
<1>4. \A n : Parents(out_nodes, n) \ deleted = {}
  BY <1>2
<1> QED BY <1>1, <1>2, <1>3, <1>4, FS_EmptySet DEF CountedInv, CountsExact, Init

\* create_service_if_not_exist makes a number of each new node's place.
LEMMA CreateType ==
  ASSUME Shape, NEW n \in Name
  PROVE  /\ DOMAIN Create(n) \subseteq Name
         /\ \A m \in DOMAIN Create(n) : Create(n)[m] \in Nat
<1>1. Cardinality(DOMAIN ids) \in Nat
  BY NameAssumption, FS_Subset, FS_CardinalityType DEF Shape
<1> QED BY <1>1 DEF Create, Shape

\* Reading an entry: BeginEntry, BreakAtEntry, and an edge from either end.
LEMMA ReadCounted ==
  ASSUME CountedInv,
         \/ \E n \in Name : BeginEntry(n) \/ BreakAtEntry(n)
         \/ AddChild \/ AddParent
  PROVE  CountedInv'
<1> USE DEF CountedInv
<1>1. ASSUME NEW n \in Name, BeginEntry(n)
      PROVE  CountedInv'
  <2>1. config.children[n] \in Seq(Name) /\ config.parents[n] \in Seq(Name)
    BY DEF Shape, ConfigType
  <2>2. DOMAIN ids' \subseteq Name /\ \A m \in DOMAIN ids' : ids'[m] \in Nat
    BY <1>1, CreateType DEF BeginEntry
  <2>3. Shape'
    BY <1>1, <2>1, <2>2, NameAssumption
       DEF Shape, BeginEntry, AtNextEntry, edgeVars, checkVars
  <2> QED BY <1>1, <2>3 DEF CountsExact, BeginEntry, edgeVars, checkVars
<1>2. ASSUME NEW n \in Name, BreakAtEntry(n)
      PROVE  CountedInv'
  <2>1. Shape'
    BY <1>2 DEF Shape, BreakAtEntry, AtNextEntry, edgeVars, checkVars
  <2> QED BY <1>2, <2>1 DEF CountsExact, BreakAtEntry, edgeVars, checkVars
<1>3. ASSUME NEW n \in Name, NEW c \in Name, AddOutput(n, c), NEW m \in Name,
             ids' = Create(m), phase = "parse",
             kids' \in Seq(Name), pars' \in Seq(Name), cur # NoNode,
             UNCHANGED <<config, todo, cur, root, all_nodes, queue, checkVars, phase>>
      PROVE  CountedInv'
  <2>1. DOMAIN ids' \subseteq Name /\ \A k \in DOMAIN ids' : ids'[k] \in Nat
    BY <1>3, CreateType
  <2>2. deleted = {} /\ deleted' = {}
    BY <1>3 DEF Shape, checkVars
  <2>3. /\ out_nodes' \in [Name -> Seq(Name)]
        /\ NoParallelEdges(out_nodes')
    BY <1>3, StoreEdge DEF CountsExact
  <2>4. /\ input_num' \in [Name -> Int] /\ input_num_4_check' \in [Name -> Int]
        /\ \A k \in Name : input_num'[k] = Cardinality(Parents(out_nodes', k))
        /\ \A k \in Name : input_num_4_check'[k] = Cardinality(Parents(out_nodes', k))
    BY <1>3, <2>2, CountEdge
  <2>5. Shape'
    BY <1>3, <2>1, <2>3, <2>4 DEF Shape, checkVars
  <2>6. \A k : Parents(out_nodes', k) \ deleted' = Parents(out_nodes', k)
    BY <2>2
  <2> QED BY <2>3, <2>4, <2>5, <2>6 DEF CountsExact
<1>4. ASSUME phase = "parse", UNCHANGED <<ids, edgeVars, input_num_4_check>>,
             kids' \in Seq(Name), pars' \in Seq(Name), cur # NoNode,
             UNCHANGED <<config, todo, cur, root, all_nodes, queue, checkVars, phase>>
      PROVE  CountedInv'
  <2>1. Shape'
    BY <1>4 DEF Shape, checkVars, edgeVars
  <2> QED BY <1>4, <2>1 DEF CountsExact, edgeVars, checkVars
<1>5. CASE AddChild
  <2>1. cur \in Name /\ cur # NoNode /\ Head(kids) \in Name /\ Tail(kids) \in Seq(Name)
    BY <1>5, ElementsOfTail DEF Shape, AddChild
  <2>2. kids' = Tail(kids) /\ pars' \in Seq(Name) /\ phase = "parse"
    BY <1>5 DEF Shape, AddChild
  <2>3. UNCHANGED <<config, todo, cur, root, all_nodes, queue, checkVars, phase>>
    BY <1>5 DEF AddChild
  <2>4. CASE Head(kids) \in config.known
    BY <1>3, <1>5, <2>1, <2>2, <2>3, <2>4 DEF AddChild
  <2>5. CASE Head(kids) \notin config.known
    BY <1>4, <1>5, <2>1, <2>2, <2>3, <2>5 DEF AddChild
  <2> QED BY <2>4, <2>5
<1>6. CASE AddParent
  <2>1. cur \in Name /\ cur # NoNode /\ Head(pars) \in Name /\ Tail(pars) \in Seq(Name)
    BY <1>6, ElementsOfTail DEF Shape, AddParent
  <2>2. pars' = Tail(pars) /\ kids' \in Seq(Name) /\ phase = "parse"
    BY <1>6 DEF Shape, AddParent
  <2>3. UNCHANGED <<config, todo, cur, root, all_nodes, queue, checkVars, phase>>
    BY <1>6 DEF AddParent
  <2>4. CASE Head(pars) \in config.known
    BY <1>3, <1>6, <2>1, <2>2, <2>3, <2>4 DEF AddParent
  <2>5. CASE Head(pars) \notin config.known
    BY <1>4, <1>6, <2>1, <2>2, <2>3, <2>5 DEF AddParent
  <2> QED BY <2>4, <2>5
<1> QED BY <1>1, <1>2, <1>5, <1>6

\* The search and the phases touch neither the edges nor the counters.
LEMMA SearchCounted ==
  ASSUME CountedInv, InitGraph \/ Collect \/ BeginCheck \/ Verdict
  PROVE  CountedInv'
<1> USE DEF CountedInv
<1>1. UNCHANGED <<config, parseVars, edgeVars, input_num_4_check, deleted>>
  BY DEF InitGraph, Collect, BeginCheck, Verdict, checkVars
<1>2. CountsExact'
  BY <1>1 DEF CountsExact, edgeVars
<1>3. CASE InitGraph
  <2>1. root # NoNode => <<root>> \in Seq(Name)
    BY DEF Shape
  <2>2. UNCHANGED <<zero_input_node, all_nodes>>
    BY <1>3 DEF InitGraph, checkVars
  <2>3. queue' \in Seq(Name)
    BY <1>3, <2>1 DEF InitGraph, Shape
  <2> QED BY <1>1, <1>2, <1>3, <2>2, <2>3
           DEF Shape, InitGraph, AtNextEntry, parseVars, edgeVars
<1>4. CASE Collect
  <2>1. queue \in Seq(Name) /\ queue # <<>> /\ out_nodes \in [Name -> Seq(Name)]
    BY <1>4 DEF Collect, Shape
  <2>2. Head(queue) \in Name /\ Tail(queue) \in Seq(Name)
    BY <2>1, ElementsOfTail
  <2>3. Tail(queue) \o out_nodes[Head(queue)] \in Seq(Name)
    BY <2>1, <2>2, ElementsOfConcat
  <2>4. queue' \in Seq(Name) /\ all_nodes' \subseteq Name
    BY <1>4, <2>2, <2>3 DEF Collect, Shape
  <2>5. phase = "collect" /\ phase' = "collect" /\ UNCHANGED zero_input_node
    BY <1>4 DEF Collect, checkVars
  <2> QED BY <1>1, <1>2, <2>4, <2>5 DEF Shape, parseVars, edgeVars
<1>5. CASE BeginCheck
  BY <1>1, <1>2, <1>5 DEF Shape, BeginCheck, parseVars, edgeVars
<1>6. CASE Verdict
  BY <1>1, <1>2, <1>6 DEF Shape, Verdict, parseVars, edgeVars, checkVars
<1> QED BY <1>3, <1>4, <1>5, <1>6
-----------------------------------------------------------------------------
(***************************************************************************)
(* Graph::init's search: it collects and queues only what the root         *)
(* reaches, and the outputs of a collected node are collected or queued.   *)
(***************************************************************************)
SearchInv ==
  phase \in {"collect", "check", "accepted"} =>
    /\ all_nodes \cup Elements(queue) \subseteq Reachable(out_nodes, root)
    /\ root \in all_nodes \cup Elements(queue)
    /\ \A n \in all_nodes : Children(out_nodes, n) \subseteq all_nodes \cup Elements(queue)

\* The root reaches itself, and the outputs of what it reaches.
LEMMA ReachableFacts ==
  ASSUME NEW out \in [Name -> Seq(Name)], NEW r \in Name
  PROVE  /\ Reachable(out, r) \subseteq Name
         /\ r \in Reachable(out, r)
         /\ \A n \in Reachable(out, r) : Children(out, n) \subseteq Reachable(out, r)
         /\ \A S \in SUBSET Name : r \in S /\ Closed(out, S) => Reachable(out, r) \subseteq S
<1>1. DOMAIN out = Name
  OBVIOUS
<1>2. ASSUME NEW n \in Reachable(out, r), NEW c \in Children(out, n)
      PROVE  c \in Reachable(out, r)
  <2>1. n \in Name /\ c \in Name
    BY <1>1, <1>2, ChildrenNames DEF Reachable
  <2> SUFFICES ASSUME NEW S \in SUBSET Name, r \in S, Closed(out, S)
               PROVE  c \in S
    BY <1>1, <2>1 DEF Reachable
  <2>2. n \in S
    BY <1>1 DEF Reachable
  <2> QED BY <2>2 DEF Closed
<1> QED BY <1>1, <1>2 DEF Reachable

\* When the queue is empty, the search has found exactly what the root reaches.
LEMMA Searched ==
  ASSUME Shape, SearchInv, queue = <<>>, phase \in {"collect", "check", "accepted"}
  PROVE  /\ all_nodes = Reachable(out_nodes, root)
         /\ root \in all_nodes
         /\ \A n \in all_nodes : Children(out_nodes, n) \subseteq all_nodes
<1>1. Elements(queue) = {}
  BY DEF Elements
<1>2. out_nodes \in [Name -> Seq(Name)] /\ root \in Name /\ all_nodes \in SUBSET Name
  BY DEF Shape
<1>3. /\ all_nodes \subseteq Reachable(out_nodes, root)
      /\ root \in all_nodes
      /\ Closed(out_nodes, all_nodes)
  BY <1>1 DEF SearchInv, Closed
<1> QED BY <1>2, <1>3, ReachableFacts DEF Closed

LEMMA NextSearch ==
  ASSUME CountedInv, SearchInv, [Next]_vars
  PROVE  SearchInv'
<1> USE DEF CountedInv
<1>1. ASSUME UNCHANGED <<phase, all_nodes, queue, out_nodes, root>>
      PROVE  SearchInv'
  BY <1>1 DEF SearchInv
<1>2. CASE InitGraph
  <2>1. CASE root = NoNode
    BY <1>2, <2>1 DEF InitGraph, SearchInv
  <2>2. CASE root # NoNode
    <3>1. /\ phase = "parse" /\ all_nodes = {} /\ root \in Name
          /\ out_nodes \in [Name -> Seq(Name)]
      BY <1>2, <2>2 DEF InitGraph, AtNextEntry, Shape
    <3>2. /\ queue' = <<root>> /\ all_nodes' = {} /\ root' = root
          /\ out_nodes' = out_nodes
      BY <1>2, <2>2, <3>1 DEF InitGraph, parseVars, edgeVars
    <3>3. Elements(<<root>>) = {root}
      BY DEF Elements
    <3>4. root \in Reachable(out_nodes, root)
      BY <3>1, ReachableFacts
    <3> QED BY <3>1, <3>2, <3>3, <3>4 DEF SearchInv
  <2> QED BY <2>1, <2>2
<1>3. CASE Collect
  <2> DEFINE n == Head(queue)
  <2>1. /\ phase = "collect" /\ phase' = "collect"
        /\ UNCHANGED <<out_nodes, root>>
    BY <1>3 DEF Collect, parseVars, edgeVars
  <2>2. out_nodes \in [Name -> Seq(Name)] /\ root \in Name /\ queue \in Seq(Name)
    BY <2>1 DEF Shape
  <2>3. /\ n \in Name /\ Tail(queue) \in Seq(Name)
        /\ Elements(queue) = {n} \cup Elements(Tail(queue))
    BY <1>3, <2>2, ElementsOfTail DEF Collect
  <2>4. Children(out_nodes, n) = Elements(out_nodes[n])
    BY <2>2, <2>3, ChildrenNames
  <2>5. Elements(Tail(queue) \o out_nodes[n]) =
          Elements(Tail(queue)) \cup Children(out_nodes, n)
    <3> HIDE DEF n
    <3>1. out_nodes[n] \in Seq(Name)
      BY <2>2, <2>3
    <3>2. Elements(Tail(queue) \o out_nodes[n]) =
            Elements(Tail(queue)) \cup Elements(out_nodes[n])
      <4>1. ASSUME NEW s \in Seq(Name), NEW t \in Seq(Name)
            PROVE  Elements(s \o t) = Elements(s) \cup Elements(t)
        BY ElementsOfConcat
      <4>2. Tail(queue) \in Seq(Name)
        BY <2>3
      <4> QED BY <3>1, <4>1, <4>2
    <3> QED BY <2>4, <3>2
  <2>6. Children(out_nodes, n) \subseteq Reachable(out_nodes, root)
    BY <2>1, <2>2, <2>3, ReachableFacts DEF SearchInv
  <2>7. CASE n \in all_nodes
    <3>1. queue' = Tail(queue) /\ all_nodes' = all_nodes
      BY <1>3, <2>7 DEF Collect
    <3>2. all_nodes' \cup Elements(queue') = all_nodes \cup Elements(queue)
      BY <2>3, <2>7, <3>1
    <3> QED BY <2>1, <3>1, <3>2 DEF SearchInv
  <2>8. CASE n \notin all_nodes
    <3>1. queue' = Tail(queue) \o out_nodes[n] /\ all_nodes' = all_nodes \cup {n}
      BY <1>3, <2>8 DEF Collect
    <3>2. all_nodes' \cup Elements(queue') =
            all_nodes \cup Elements(queue) \cup Children(out_nodes, n)
      BY <2>3, <2>5, <3>1
    <3> HIDE DEF n
    <3> QED BY <2>1, <2>6, <3>1, <3>2 DEF SearchInv
  <2> QED BY <2>7, <2>8
<1>4. CASE BeginCheck
  BY <1>4 DEF SearchInv, BeginCheck, parseVars, edgeVars
<1>5. ASSUME NEW r \in Name, Eliminate(r)
      PROVE  SearchInv'
  BY <1>5 DEF SearchInv, Eliminate, parseVars, edgeVars
<1>6. CASE Verdict
  BY <1>6 DEF SearchInv, Verdict, parseVars, edgeVars
<1>7. CASE (\E n \in Name : BeginEntry(n) \/ BreakAtEntry(n)) \/ AddChild \/ AddParent
  BY <1>7 DEF SearchInv, BeginEntry, BreakAtEntry, AddChild, AddParent, AtNextEntry
<1>8. CASE UNCHANGED vars
  BY <1>1, <1>8 DEF vars, parseVars, edgeVars
<1> QED BY <1>2, <1>3, <1>4, <1>5, <1>6, <1>7, <1>8 DEF Next

-----------------------------------------------------------------------------
(***************************************************************************)
(* Graph::check's elimination: the deleted nodes and those about to be     *)
(* have all their parents deleted, nobody else with parents has, and the   *)
(* deleted nodes are without a cycle.                                      *)
(***************************************************************************)
EliminationInv ==
  phase \in {"check", "accepted"} =>
    /\ zero_input_node \cap deleted = {}
    /\ zero_input_node \cup deleted \subseteq all_nodes
    /\ root \in zero_input_node \cup deleted
    /\ Parents(out_nodes, root) = {}
    /\ \A n \in zero_input_node \cup deleted : Parents(out_nodes, n) \subseteq deleted
    /\ \A n \in Name : Parents(out_nodes, n) # {} /\ Parents(out_nodes, n) \subseteq deleted
                         => n \in zero_input_node \cup deleted
    /\ AcyclicOn(out_nodes, deleted)

AcceptedDeleted ==
  phase = "accepted" => zero_input_node = {} /\ all_nodes \subseteq deleted

\* What the counters of the outputs of r mean when r is deleted.
LEMMA EliminateCounts ==
  ASSUME CountedInv, EliminationInv, NEW r \in Name, Eliminate(r)
  PROVE  /\ \A n \in Name : input_num_4_check'[n] =
              Cardinality(Parents(out_nodes, n) \ deleted')
         /\ \A n \in Children(out_nodes, r) :
              input_num_4_check[n] = 1 <=> Parents(out_nodes, n) \subseteq deleted'
<1> USE DEF CountedInv
<1>1. /\ phase = "check" /\ r \in zero_input_node /\ r \notin deleted
      /\ deleted' = deleted \cup {r}
      /\ out_nodes \in [Name -> Seq(Name)] /\ input_num_4_check \in [Name -> Int]
  BY DEF Eliminate, EliminationInv, Shape
<1>2. Children(out_nodes, r) \subseteq Name
  BY <1>1, ChildrenNames
<1>3. \A n \in Name : input_num_4_check[n] = Cardinality(Parents(out_nodes, n) \ deleted)
  BY DEF CountsExact
<1>4. ASSUME NEW n \in Name
      PROVE  Parents(out_nodes, n) \ deleted' = (Parents(out_nodes, n) \ deleted) \ {r}
  BY <1>1
<1>5. ASSUME NEW n \in Children(out_nodes, r)
      PROVE  /\ n \in Name
             /\ Cardinality(Parents(out_nodes, n) \ deleted') = input_num_4_check[n] - 1
             /\ input_num_4_check[n] = 1 <=> Parents(out_nodes, n) \subseteq deleted'
  <2>1. n \in Name
    BY <1>2, <1>5
  <2>2. r \in Parents(out_nodes, n) \ deleted
    BY <1>1, <1>5 DEF Parents
  <2>3. /\ IsFiniteSet(Parents(out_nodes, n) \ deleted)
        /\ Cardinality(Parents(out_nodes, n) \ deleted) \in Nat
        /\ IsFiniteSet(Parents(out_nodes, n) \ deleted')
    BY <1>1, ParentsFinite
  <2>4. Cardinality(Parents(out_nodes, n) \ deleted') = input_num_4_check[n] - 1
    <3> DEFINE left == Parents(out_nodes, n) \ deleted
    <3>1. Cardinality(left \ {r}) = Cardinality(left) - 1
      <4> HIDE DEF left
      <4> SUFFICES ASSUME r \in left, IsFiniteSet(left)
                   PROVE  Cardinality(left \ {r}) = Cardinality(left) - 1
        BY <2>2, <2>3 DEF left
      <4> QED BY FS_RemoveElement
    <3>2. Cardinality(left) = input_num_4_check[n]
      BY <1>3, <2>1
    <3>3. Parents(out_nodes, n) \ deleted' = left \ {r}
      BY <1>4, <2>1
    <3> HIDE DEF left
    <3> QED BY <3>1, <3>2, <3>3
  <2>5. Cardinality(Parents(out_nodes, n) \ deleted') = 0
          <=> Parents(out_nodes, n) \ deleted' = {}
    BY <2>3, FS_EmptySet
  <2>6. input_num_4_check[n] \in Int
    BY <1>1, <2>1
  <2>7. input_num_4_check[n] = 1 <=> Parents(out_nodes, n) \ deleted' = {}
    BY <2>4, <2>5, <2>6
  <2> QED BY <2>1, <2>4, <2>7
<1>6. ASSUME NEW n \in Name, n \notin Children(out_nodes, r)
      PROVE  Parents(out_nodes, n) \ deleted' = Parents(out_nodes, n) \ deleted
  BY <1>1, <1>6 DEF Parents
<1>7. \A n \in Name : input_num_4_check'[n] =
        IF n \in Children(out_nodes, r) THEN input_num_4_check[n] - 1 ELSE input_num_4_check[n]
  BY DEF Eliminate
<1> QED BY <1>3, <1>5, <1>6, <1>7

LEMMA EliminateCounted ==
  ASSUME CountedInv, EliminationInv, SearchInv, NEW r \in Name, Eliminate(r)
  PROVE  CountedInv'
<1> USE DEF CountedInv
<1>1. out_nodes' = out_nodes /\ input_num' = input_num
  BY DEF Eliminate, edgeVars
<1>2. CountsExact'
  BY <1>1, EliminateCounts DEF CountsExact
<1>3. input_num_4_check' \in [Name -> Int]
  BY DEF Eliminate, Shape
<1>4. Children(out_nodes, r) \subseteq Name
  BY ChildrenNames DEF Shape
<1>5. zero_input_node' \subseteq Name /\ deleted' \subseteq Name
  BY <1>4 DEF Eliminate, Shape
<1>6. phase = "check" /\ UNCHANGED <<config, parseVars, all_nodes, queue, phase>>
  BY DEF Eliminate
<1>7. Shape'
  BY <1>1, <1>3, <1>5, <1>6 DEF Shape, parseVars
<1> QED BY <1>2, <1>7

LEMMA EliminateKeeps ==
  ASSUME CountedInv, SearchInv, EliminationInv, NEW r \in Name, Eliminate(r)
  PROVE  EliminationInv'
<1> USE DEF CountedInv
<1>1. /\ phase = "check" /\ phase' = "check" /\ queue = <<>>
      /\ out_nodes \in [Name -> Seq(Name)]
      /\ UNCHANGED <<out_nodes, root, all_nodes>>
      /\ r \in zero_input_node /\ r \notin deleted
      /\ deleted' = deleted \cup {r}
  BY DEF Eliminate, EliminationInv, Shape, parseVars, edgeVars
<1>2. /\ zero_input_node \cap deleted = {}
      /\ zero_input_node \cup deleted \subseteq all_nodes
      /\ root \in zero_input_node \cup deleted
      /\ Parents(out_nodes, root) = {}
      /\ \A n \in zero_input_node \cup deleted : Parents(out_nodes, n) \subseteq deleted
      /\ \A n \in Name : Parents(out_nodes, n) # {} /\ Parents(out_nodes, n) \subseteq deleted
                           => n \in zero_input_node \cup deleted
      /\ AcyclicOn(out_nodes, deleted)
  BY <1>1 DEF EliminationInv
<1>3. r \in all_nodes /\ Children(out_nodes, r) \subseteq all_nodes
  BY <1>1, <1>2, Searched
<1>4. \A n \in Children(out_nodes, r) :
        n \in Name /\ r \in Parents(out_nodes, n) /\ n \notin deleted'
  <2>1. \A n \in Children(out_nodes, r) : n \in Name /\ r \in Parents(out_nodes, n)
    BY <1>1, ChildrenNames DEF Parents
  <2> QED BY <1>1, <1>2, <2>1
<1>5. zero_input_node' = (zero_input_node \ {r})
        \cup {n \in Children(out_nodes, r) : Parents(out_nodes, n) \subseteq deleted'}
  BY EliminateCounts DEF Eliminate
<1>6. zero_input_node' \cap deleted' = {}
  BY <1>1, <1>2, <1>4, <1>5
<1>7. /\ zero_input_node' \cup deleted' \subseteq all_nodes
      /\ root \in zero_input_node' \cup deleted'
  BY <1>1, <1>2, <1>3, <1>5
<1>8. \A n \in zero_input_node' \cup deleted' : Parents(out_nodes, n) \subseteq deleted'
  BY <1>1, <1>2, <1>5
<1>9. ASSUME NEW n \in Name, Parents(out_nodes, n) # {}, Parents(out_nodes, n) \subseteq deleted'
      PROVE  n \in zero_input_node' \cup deleted'
  <2>1. CASE n \in Children(out_nodes, r)
    BY <1>5, <1>9, <2>1
  <2>2. CASE n \notin Children(out_nodes, r)
    <3>1. r \notin Parents(out_nodes, n)
      BY <2>2 DEF Parents
    <3> QED BY <1>1, <1>2, <1>5, <1>9, <3>1
  <2> QED BY <2>1, <2>2
<1>10. AcyclicOn(out_nodes, deleted')
  <2> SUFFICES ASSUME NEW S \in SUBSET deleted', S # {}
               PROVE  \E n \in S : Parents(out_nodes, n) \cap S = {}
    BY DEF AcyclicOn
  <2>1. CASE S \ {r} # {}
    <3>1. PICK n \in S \ {r} : Parents(out_nodes, n) \cap (S \ {r}) = {}
      BY <1>1, <1>2, <2>1 DEF AcyclicOn
    <3>2. n \in deleted /\ r \notin Parents(out_nodes, n)
      BY <1>1, <1>2, <3>1
    <3> QED BY <3>1, <3>2
  <2>2. CASE S \ {r} = {}
    <3>1. S = {r} /\ r \notin Parents(out_nodes, r)
      BY <1>1, <1>2, <2>2
    <3> QED BY <3>1
  <2> QED BY <2>1, <2>2
<1> QED BY <1>1, <1>2, <1>6, <1>7, <1>8, <1>9, <1>10 DEF EliminationInv
-----------------------------------------------------------------------------
(***************************************************************************)
(* The check starts with the root alone, if nothing leads to it.           *)
(***************************************************************************)
LEMMA BeginCheckKeeps ==
  ASSUME CountedInv, SearchInv, BeginCheck
  PROVE  EliminationInv' /\ CheckIsExact'
<1> USE DEF CountedInv
<1>1. /\ phase = "collect" /\ queue = <<>> /\ root \in Name /\ deleted = {}
      /\ out_nodes \in [Name -> Seq(Name)]
      /\ UNCHANGED <<out_nodes, root, all_nodes, deleted>>
  BY DEF BeginCheck, Shape, parseVars, edgeVars
<1>2. root \in all_nodes
  BY <1>1, Searched
<1>3. input_num_4_check[root] = 0 <=> Parents(out_nodes, root) = {}
  <2>1. Parents(out_nodes, root) \ deleted = Parents(out_nodes, root)
    BY <1>1
  <2>2. input_num_4_check[root] = Cardinality(Parents(out_nodes, root))
    BY <1>1, <2>1 DEF CountsExact
  <2> QED BY <1>1, <2>2, ParentsFinite, FS_EmptySet
<1>4. CASE input_num_4_check[root] = 0
  <2>1. phase' = "check" /\ zero_input_node' = {root} /\ Parents(out_nodes, root) = {}
    BY <1>3, <1>4 DEF BeginCheck
  <2>2. AcyclicOn(out_nodes, {})
    BY DEF AcyclicOn
  <2> QED BY <1>1, <1>2, <2>1, <2>2 DEF EliminationInv, CheckIsExact
<1>5. CASE input_num_4_check[root] # 0
  <2>1. phase' = "rejected" /\ Parents(out_nodes, root) # {}
    BY <1>3, <1>5 DEF BeginCheck
  <2>2. ~Runnable(out_nodes, root)
    BY <2>1 DEF Runnable
  <2> QED BY <1>1, <2>1, <2>2 DEF EliminationInv, CheckIsExact
<1> QED BY <1>4, <1>5

(***************************************************************************)
(* Whoever has all its parents deleted is deleted in the end, so what is   *)
(* left of a graph that is refused contains a cycle or waits for a node    *)
(* the root does not reach, and an accepted graph has neither.             *)
(***************************************************************************)
LEMMA VerdictExact ==
  ASSUME CountedInv, SearchInv, EliminationInv, Verdict
  PROVE  EliminationInv' /\ AcceptedDeleted' /\ CheckIsExact'
<1> USE DEF CountedInv
<1>1. /\ phase = "check" /\ queue = <<>> /\ zero_input_node = {} /\ root \in Name
      /\ out_nodes \in [Name -> Seq(Name)]
      /\ UNCHANGED <<out_nodes, root, all_nodes, deleted, zero_input_node>>
  BY DEF Verdict, Shape, parseVars, edgeVars, checkVars
<1>2. /\ all_nodes = Reachable(out_nodes, root)
      /\ \A n \in all_nodes : Children(out_nodes, n) \subseteq all_nodes
  BY <1>1, Searched
<1>3. /\ deleted \subseteq all_nodes /\ root \in deleted
      /\ Parents(out_nodes, root) = {}
      /\ \A n \in deleted : Parents(out_nodes, n) \subseteq deleted
      /\ \A n \in Name : Parents(out_nodes, n) # {} /\ Parents(out_nodes, n) \subseteq deleted
                           => n \in deleted
      /\ AcyclicOn(out_nodes, deleted)
  BY <1>1 DEF EliminationInv
<1>4. CASE all_nodes \subseteq deleted
  <2>1. phase' = "accepted" /\ deleted = all_nodes
    BY <1>3, <1>4 DEF Verdict
  <2>2. Runnable(out_nodes, root)
    BY <1>2, <1>3, <2>1 DEF Runnable
  <2>3. EliminationInv'
    BY <1>1, <2>1 DEF EliminationInv
  <2> QED BY <1>1, <2>1, <2>2, <2>3 DEF AcceptedDeleted, CheckIsExact
<1>5. CASE ~(all_nodes \subseteq deleted)
  <2>1. phase' = "rejected"
    BY <1>5 DEF Verdict
  <2>2. ASSUME Runnable(out_nodes, root)
        PROVE  FALSE
    <3> DEFINE S == all_nodes \ deleted
    <3>1. S \subseteq Reachable(out_nodes, root) /\ S # {}
      BY <1>2, <1>5
    <3>2. PICK n \in S : Parents(out_nodes, n) \cap S = {}
      BY <2>2, <3>1 DEF Runnable, AcyclicOn
    <3>3. n \in Name /\ n \in all_nodes /\ n \notin deleted
      BY <1>1, <1>2, <3>2, ReachableFacts
    <3>4. Parents(out_nodes, n) \subseteq deleted
      BY <1>2, <2>2, <3>2, <3>3 DEF Runnable
    <3>5. Parents(out_nodes, n) = {}
      BY <1>3, <3>3, <3>4
    <3>6. Closed(out_nodes, all_nodes \ {n})
      <4>1. \A m \in all_nodes : m \in Name
        BY <1>1, <1>2, ReachableFacts
      <4> QED BY <1>1, <1>2, <3>5, <4>1 DEF Closed, Parents
    <3>7. root \in all_nodes \ {n} /\ all_nodes \ {n} \in SUBSET Name
      BY <1>1, <1>2, <1>3, <3>3, ReachableFacts
    <3>8. all_nodes \subseteq all_nodes \ {n}
      BY <1>1, <1>2, <3>6, <3>7, ReachableFacts
    <3> QED BY <3>3, <3>8
  <2> QED BY <1>1, <2>1, <2>2 DEF EliminationInv, AcceptedDeleted, CheckIsExact
<1> QED BY <1>4, <1>5

(***************************************************************************)
(* The inductive invariant of the initialisation.                          *)
(***************************************************************************)
BuildInv ==
  CountedInv /\ SearchInv /\ EliminationInv /\ AcceptedDeleted /\ CheckIsExact

LEMMA InitBuild == Init => BuildInv
  BY InitCounted
     DEF Init, BuildInv, SearchInv, EliminationInv, AcceptedDeleted, CheckIsExact

LEMMA NextBuild ==
  ASSUME BuildInv, [Next]_vars
  PROVE  BuildInv'
<1> USE DEF BuildInv
<1>1. SearchInv'
  BY NextSearch
<1>2. ASSUME CountedInv', phase' \notin {"check", "accepted", "rejected"}
      PROVE  BuildInv'
  BY <1>1, <1>2 DEF EliminationInv, AcceptedDeleted, CheckIsExact
<1>3. CASE (\E n \in Name : BeginEntry(n) \/ BreakAtEntry(n)) \/ AddChild \/ AddParent
  <2>1. phase' = "parse"
    BY <1>3 DEF BeginEntry, BreakAtEntry, AtNextEntry, AddChild, AddParent
  <2> QED BY <1>2, <1>3, <2>1, ReadCounted
<1>4. CASE InitGraph \/ Collect
  <2>1. phase' \in {"crashed", "collect"}
    BY <1>4 DEF InitGraph, Collect
  <2> QED BY <1>2, <1>4, <2>1, SearchCounted
<1>5. CASE BeginCheck
  <2>1. phase' # "accepted"
    BY <1>5 DEF BeginCheck
  <2> QED BY <1>1, <1>5, <2>1, SearchCounted, BeginCheckKeeps DEF AcceptedDeleted
<1>6. ASSUME NEW r \in Name, Eliminate(r)
      PROVE  BuildInv'
  <2>1. phase' = "check"
    BY <1>6 DEF Eliminate
  <2> QED BY <1>1, <1>6, <2>1, EliminateCounted, EliminateKeeps
          DEF AcceptedDeleted, CheckIsExact
<1>7. CASE Verdict
  BY <1>1, <1>7, SearchCounted, VerdictExact
<1>8. CASE UNCHANGED vars
  <2>1. UNCHANGED <<config, parseVars, edgeVars, input_num_4_check, all_nodes, queue,
                    zero_input_node, deleted, phase>>
    BY <1>8 DEF vars, checkVars
  <2>2. CountedInv'
    BY <2>1 DEF CountedInv, Shape, CountsExact, parseVars, edgeVars
  <2> QED BY <1>1, <2>1, <2>2
          DEF EliminationInv, AcceptedDeleted, CheckIsExact, parseVars, edgeVars
<1> QED BY <1>3, <1>4, <1>5, <1>6, <1>7, <1>8 DEF Next

LEMMA BuildCorrect == Spec => []BuildInv
<1>1. BuildInv /\ [Next]_vars => BuildInv'
  BY NextBuild
<1> QED BY InitBuild, <1>1, PTL DEF Spec

(***************************************************************************)
(* Node::add_output, called for an edge by either of its ends or by both,  *)
(* stores and counts it once, for every section of any size.               *)
(***************************************************************************)
THEOREM EdgesCountedOnceCorrect == Spec => []EdgesCountedOnce
<1>1. BuildInv => EdgesCountedOnce
  <2> SUFFICES ASSUME BuildInv PROVE EdgesCountedOnce
    OBVIOUS
  <2>1. Shape /\ CountsExact
    BY DEF BuildInv, CountedInv
  <2>2. out_nodes \in [Name -> Seq(Name)]
    BY <2>1 DEF Shape
  <2>3. \A n \in Name : input_num[n] \in Nat /\ input_num_4_check[n] \in Nat
    BY <2>1, <2>2, ParentsFinite DEF CountsExact
  <2>4. input_num \in [Name -> Nat] /\ input_num_4_check \in [Name -> Nat]
    BY <2>1, <2>3 DEF Shape
  <2>5. todo \subseteq Name
    BY <2>1 DEF Shape, ConfigType
  <2>6. TypeOK
    BY <2>1, <2>4, <2>5 DEF Shape, TypeOK
  <2> QED BY <2>1, <2>6 DEF EdgesCountedOnce, CountsExact
<1> QED BY <1>1, BuildCorrect, PTL

(***************************************************************************)
(* Graph::check accepts a graph exactly if it can run to the end.          *)
(***************************************************************************)
THEOREM CheckIsExactCorrect == Spec => []CheckIsExact
<1>1. BuildInv => CheckIsExact
  BY DEF BuildInv
<1> QED BY <1>1, BuildCorrect, PTL

(***************************************************************************)
(* What GraphManager::init hands over is what Graph::run assumes.          *)
(***************************************************************************)
THEOREM AcceptedFeedsGraphRunCorrect == Spec => []AcceptedFeedsGraphRun
<1>1. BuildInv => AcceptedFeedsGraphRun
  <2> SUFFICES ASSUME BuildInv, phase = "accepted" PROVE AcceptedFeedsGraphRun
    BY DEF AcceptedFeedsGraphRun
  <2> DEFINE g == [n \in all_nodes |-> out_nodes[n]]
  <2>1. /\ Shape /\ CountsExact /\ SearchInv /\ queue = <<>> /\ root \in Name
        /\ out_nodes \in [Name -> Seq(Name)] /\ all_nodes \subseteq Name
    BY DEF BuildInv, CountedInv, Shape
  <2>2. /\ all_nodes = Reachable(out_nodes, root) /\ root \in all_nodes
        /\ \A n \in all_nodes : Children(out_nodes, n) \subseteq all_nodes
    BY <2>1, Searched
  <2>3. /\ all_nodes = deleted /\ Parents(out_nodes, root) = {}
        /\ \A n \in deleted : Parents(out_nodes, n) \subseteq deleted
    BY DEF BuildInv, EliminationInv, AcceptedDeleted
  <2>4. ASSUME NEW n \in all_nodes
        PROVE  g[n] \in Seq(all_nodes)
    <3>1. /\ out_nodes[n] \in Seq(Name) /\ Len(out_nodes[n]) \in Nat
          /\ out_nodes[n] \in [1..Len(out_nodes[n]) -> Name]
      BY <2>1, <2>4, LenProperties
    <3>2. \A i \in 1..Len(out_nodes[n]) : out_nodes[n][i] \in all_nodes
      BY <2>2, <2>4, <3>1 DEF Children
    <3>3. out_nodes[n] \in [1..Len(out_nodes[n]) -> all_nodes]
      BY <3>1, <3>2
    <3> QED BY <2>4, <3>1, <3>3
  <2>5. g \in [all_nodes -> Seq(all_nodes)]
    BY <2>4
  <2>6. \A n \in all_nodes : Parents(g, n) = Parents(out_nodes, n)
    BY <2>1, <2>3 DEF Parents, Children
  <2>7. \A n \in all_nodes : input_num[n] = Cardinality(Parents(g, n))
    BY <2>1, <2>6 DEF CountsExact
  <2>8. NoParallelEdges(g)
    BY <2>1 DEF CountsExact, NoParallelEdges
  <2>9. \A n \in all_nodes : Parents(g, n) = {} <=> n = root
    <3> SUFFICES ASSUME NEW n \in all_nodes, Parents(out_nodes, n) = {}, n # root
                 PROVE  FALSE
      BY <2>2, <2>3, <2>6
    <3> DEFINE S == all_nodes \ {n}
    <3>1. S \in SUBSET Name /\ root \in S
      BY <2>1, <2>2
    <3>2. \A m \in S : n \notin Children(out_nodes, m)
      BY <2>1 DEF Parents
    <3>3. Closed(out_nodes, S)
      BY <2>2, <3>2 DEF Closed
    <3>4. DOMAIN out_nodes = Name
      BY <2>1
    <3> HIDE DEF S
    <3>5. n \in S
      BY <2>2, <3>1, <3>3, <3>4 DEF Reachable
    <3> QED BY <3>5 DEF S
  <2>10. AcyclicOn(g, all_nodes)
    <3>1. AcyclicOn(out_nodes, all_nodes)
      BY <2>3 DEF BuildInv, EliminationInv
    <3> HIDE DEF g
    <3> QED BY <2>6, <3>1 DEF AcyclicOn
  <2>11. WellFormed(g, all_nodes, root)
    <3> HIDE DEF g
    <3> QED BY <2>5, <2>8, <2>9, <2>10 DEF WellFormed
  <2> QED BY <2>2, <2>7, <2>11 DEF AcceptedFeedsGraphRun
<1> QED BY <1>1, BuildCorrect, PTL
-----------------------------------------------------------------------------
(***************************************************************************)
(* While the section is read: what is stored, and what is left of the      *)
(* lists of the entry being read, is what the entries read so far declare. *)
(***************************************************************************)
EdgesRead ==
  config.known = Name =>
    \A m, n \in Name :
      \/ n \in Children(out_nodes, m)
      \/ m = cur /\ n \in Elements(kids)
      \/ n = cur /\ m \in Elements(pars)
      <=>
      \/ m \in config.entries \ todo /\ n \in Children(config.children, m)
      \/ n \in config.entries \ todo /\ m \in Children(config.parents, n)

LEMMA NextEdgesRead ==
  ASSUME CountedInv, EdgesRead, [Next]_vars
  PROVE  EdgesRead'
<1> USE DEF CountedInv
<1>1. CASE UNCHANGED <<config, parseVars, edgeVars>>
  BY <1>1 DEF EdgesRead, parseVars, edgeVars
<1>2. ASSUME NEW k \in Name, BeginEntry(k)
      PROVE  EdgesRead'
  <2>1. /\ kids = <<>> /\ pars = <<>> /\ k \in todo /\ todo \subseteq config.entries
        /\ todo' = todo \ {k} /\ cur' = k /\ out_nodes' = out_nodes /\ config' = config
        /\ kids' = config.children[k] /\ pars' = config.parents[k]
    BY <1>2 DEF BeginEntry, AtNextEntry, Shape, edgeVars
  <2>2. /\ Elements(kids) = {} /\ Elements(pars) = {}
        /\ Elements(kids') = Children(config.children, k)
        /\ Elements(pars') = Children(config.parents, k)
    BY <2>1 DEF Elements, Children
  <2> QED BY <2>1, <2>2 DEF EdgesRead
<1>3. ASSUME NEW k \in Name, BreakAtEntry(k)
      PROVE  EdgesRead'
  BY <1>3 DEF BreakAtEntry, EdgesRead
<1>4. CASE AddChild
  <2>1. /\ UNCHANGED <<config, todo, cur, pars>> /\ kids' = Tail(kids)
        /\ cur \in Name /\ kids \in Seq(Name) /\ kids # <<>>
    BY <1>4 DEF AddChild, Shape
  <2>2. /\ Head(kids) \in Name
        /\ Elements(kids) = {Head(kids)} \cup Elements(kids')
    BY <2>1, ElementsOfTail
  <2>3. CASE config.known = Name
    <3>1. AddOutput(cur, Head(kids))
      BY <1>4, <2>2, <2>3 DEF AddChild
    <3>2. \A m \in Name : Children(out_nodes', m) =
            IF m = cur THEN Children(out_nodes, cur) \cup {Head(kids)}
            ELSE Children(out_nodes, m)
      BY <2>1, <2>2, <3>1, StoreEdge
    <3> QED BY <2>1, <2>2, <2>3, <3>2 DEF EdgesRead
  <2> QED BY <2>1, <2>3 DEF EdgesRead
<1>5. CASE AddParent
  <2>1. /\ UNCHANGED <<config, todo, cur, kids>> /\ pars' = Tail(pars)
        /\ cur \in Name /\ pars \in Seq(Name) /\ pars # <<>>
    BY <1>5 DEF AddParent, Shape
  <2>2. /\ Head(pars) \in Name
        /\ Elements(pars) = {Head(pars)} \cup Elements(pars')
    BY <2>1, ElementsOfTail
  <2>3. CASE config.known = Name
    <3>1. AddOutput(Head(pars), cur)
      BY <1>5, <2>2, <2>3 DEF AddParent
    <3>2. \A m \in Name : Children(out_nodes', m) =
            IF m = Head(pars) THEN Children(out_nodes, m) \cup {cur}
            ELSE Children(out_nodes, m)
      BY <2>1, <2>2, <3>1, StoreEdge
    <3> QED BY <2>1, <2>2, <2>3, <3>2 DEF EdgesRead
  <2> QED BY <2>1, <2>3 DEF EdgesRead
<1>6. CASE InitGraph \/ Collect \/ BeginCheck \/ Verdict \/ \E r \in Name : Eliminate(r)
  BY <1>1, <1>6 DEF InitGraph, Collect, BeginCheck, Verdict, Eliminate
<1>7. CASE UNCHANGED vars
  BY <1>1, <1>7 DEF vars
<1> QED BY <1>2, <1>3, <1>4, <1>5, <1>6, <1>7 DEF Next

(***************************************************************************)
(* graph.conf's key_set may come in any order, and an edge may be declared *)
(* at either end: the graph has the declared edges.                        *)
(***************************************************************************)
THEOREM OrderDoesNotMatterCorrect == Spec => []OrderDoesNotMatter
<1>1. Init => EdgesRead
  <2> SUFFICES ASSUME Init PROVE EdgesRead
    OBVIOUS
  <2>1. /\ \A m \in Name : Children(out_nodes, m) = {}
        /\ Elements(kids) = {} /\ Elements(pars) = {} /\ todo = config.entries
    BY DEF Init, Children, Elements
  <2> QED BY <2>1 DEF EdgesRead
<1>2. BuildInv /\ EdgesRead /\ [Next]_vars => EdgesRead'
  BY NextEdgesRead DEF BuildInv
<1>3. BuildInv /\ EdgesRead => OrderDoesNotMatter
  <2> SUFFICES ASSUME BuildInv, EdgesRead, phase # "parse", config.known = Name
               PROVE  StoredEdges = DeclaredEdges
    BY DEF OrderDoesNotMatter
  <2>1. todo = {} /\ kids = <<>> /\ pars = <<>>
    BY DEF BuildInv, CountedInv, Shape
  <2>2. Elements(kids) = {} /\ Elements(pars) = {}
    BY <2>1 DEF Elements
  <2>3. \A e \in Name \X Name : e \in StoredEdges <=> e \in DeclaredEdges
    BY <2>1, <2>2 DEF EdgesRead, StoredEdges, DeclaredEdges
  <2> QED BY <2>3 DEF StoredEdges, DeclaredEdges
<1> QED BY <1>1, <1>2, <1>3, BuildCorrect, PTL DEF Spec
=============================================================================
