----------------------------- MODULE GraphBuild -----------------------------
(***************************************************************************)
(* How a section of graph.conf becomes a Graph: GraphManager::init         *)
(* (frame/graph_manager.cpp) reads the entries of the section in the order *)
(* of hocon's key_set, which is not specified, creates the nodes it meets  *)
(* and connects them; Graph::init and Graph::check (frame/graph.h) collect *)
(* the nodes the root reaches and eliminate them in topological order.     *)
(*                                                                         *)
(* The program is sequential here.  phase says how far it is:              *)
(*   parse     reading entries            collect   Graph::init's search   *)
(*   check     Graph::check's elimination                                  *)
(*   accepted  the graph is in graph_map                                   *)
(*   rejected  LOG(FATAL); if that does not abort, init returns false and  *)
(*             the program does not start either                           *)
(*   crashed   no entry was a root: Graph::init dereferences nullptr       *)
(***************************************************************************)
EXTENDS GraphTopology

CONSTANTS Name,     \* the node names graph.conf may mention
          NoNode,   \* nullptr
          Configs   \* sections of graph.conf, see ConfigType

(***************************************************************************)
(* A section: its entries, each with its children, its parents and whether *)
(* it says root = true, and the names that node_service.conf gives a       *)
(* registered class.                                                       *)
(***************************************************************************)
ConfigType ==
  [entries : SUBSET Name, children : [Name -> Seq(Name)],
   parents : [Name -> Seq(Name)], roots : SUBSET Name, known : SUBSET Name]

ASSUME NameAssumption == IsFiniteSet(Name) /\ NoNode \notin Name
ASSUME ConfigsAssumption == \A c \in Configs : c \in ConfigType

VARIABLES
  config,             \* the section being read
  todo,               \* entries the loop has not reached
  cur, kids, pars,    \* the entry being read, and what is left of its lists
  ids,                \* nodes_map: the created nodes, each with its Node::id
  root,               \* the local root, then Graph::root_node
  out_nodes,          \* Node::out_nodes
  input_num,          \* Node::input_num
  input_num_4_check,  \* Node::input_num_4_check
  all_nodes,          \* Graph::all_nodes, as a set
  queue,              \* q of Graph::init
  zero_input_node,    \* the list of Graph::check, as a set
  deleted,            \* nodes whose del_flag_map entry is true
  phase

parseVars == <<todo, cur, kids, pars, ids, root>>
edgeVars == <<out_nodes, input_num>>
checkVars == <<zero_input_node, deleted>>
vars == <<config, parseVars, edgeVars, input_num_4_check, all_nodes, queue,
          checkVars, phase>>

Init ==
  /\ config \in Configs
  /\ todo = config.entries
  /\ cur = NoNode /\ kids = <<>> /\ pars = <<>>
  /\ ids = [n \in {} |-> 0]
  /\ root = NoNode
  /\ out_nodes = [n \in Name |-> <<>>]
  /\ input_num = [n \in Name |-> 0]
  /\ input_num_4_check = [n \in Name |-> 0]
  /\ all_nodes = {} /\ queue = <<>>
  /\ zero_input_node = {} /\ deleted = {}
  /\ phase = "parse"

-----------------------------------------------------------------------------
\* create_service_if_not_exist(n) for a name the NodeManager knows; the id is
\* NodeIdGen's next one, which is the number of nodes created so far.  The class
\* of a known name is taken to be registered: one that is not is LOG(FATAL)
\* (graph_manager.cpp:46-49), which ends the program.
Create(n) ==
  [m \in DOMAIN ids \cup {n} |->
     IF m \in DOMAIN ids THEN ids[m] ELSE Cardinality(DOMAIN ids)]

\* Mutant of AddOutput: without the std::find.
AddOutputAlways(n, c) ==
  /\ out_nodes' = [out_nodes EXCEPT ![n] = Append(@, c)]
  /\ input_num' = [input_num EXCEPT ![c] = @ + 1]
  /\ input_num_4_check' = [input_num_4_check EXCEPT ![c] = @ + 1]

\* service->add_output(child), unless std::find finds the edge.
AddOutput(n, c) ==
  IF c \in Children(out_nodes, n)
    THEN UNCHANGED <<edgeVars, input_num_4_check>>
    ELSE /\ out_nodes' = [out_nodes EXCEPT ![n] = Append(@, c)]
         /\ input_num' = [input_num EXCEPT ![c] = @ + 1]
         /\ input_num_4_check' = [input_num_4_check EXCEPT ![c] = @ + 1]

AtNextEntry == phase = "parse" /\ kids = <<>> /\ pars = <<>>

\* The head of the loop body: the entry's own node, and its root attribute.  The
\* last entry with root = true wins.
BeginEntry(n) ==
  /\ AtNextEntry
  /\ n \in todo /\ n \in config.known
  /\ todo' = todo \ {n}
  /\ cur' = n
  /\ kids' = config.children[n]
  /\ pars' = config.parents[n]
  /\ ids' = Create(n)
  /\ root' = IF n \in config.roots THEN n ELSE root
  /\ UNCHANGED <<config, edgeVars, input_num_4_check, all_nodes, queue, checkVars, phase>>

\* An entry whose node cannot be created ends the loop, not the initialisation:
\* the entries after it are not read.
BreakAtEntry(n) ==
  /\ AtNextEntry
  /\ n \in todo /\ n \notin config.known
  /\ todo' = {}
  /\ UNCHANGED <<config, cur, kids, pars, ids, root, edgeVars, input_num_4_check,
                 all_nodes, queue, checkVars, phase>>

\* One element of "children"; an unknown one is skipped.
AddChild ==
  /\ phase = "parse" /\ kids # <<>>
  /\ LET c == Head(kids)
     IN  IF c \in config.known
           THEN ids' = Create(c) /\ AddOutput(cur, c)
           ELSE UNCHANGED <<ids, edgeVars, input_num_4_check>>
  /\ kids' = Tail(kids)
  /\ UNCHANGED <<config, todo, cur, pars, root, all_nodes, queue, checkVars, phase>>

\* Mutant of AddParent: the edge is turned round.
AddParentTurned ==
  /\ phase = "parse" /\ kids = <<>> /\ pars # <<>>
  /\ LET p == Head(pars)
     IN  IF p \in config.known
           THEN ids' = Create(p) /\ AddOutput(cur, p)
           ELSE UNCHANGED <<ids, edgeVars, input_num_4_check>>
  /\ pars' = Tail(pars)
  /\ UNCHANGED <<config, todo, cur, kids, root, all_nodes, queue, checkVars, phase>>

\* One element of "parents"; an unknown one is skipped.
AddParent ==
  /\ phase = "parse" /\ kids = <<>> /\ pars # <<>>
  /\ LET p == Head(pars)
     IN  IF p \in config.known
           THEN ids' = Create(p) /\ AddOutput(p, cur)
           ELSE UNCHANGED <<ids, edgeVars, input_num_4_check>>
  /\ pars' = Tail(pars)
  /\ UNCHANGED <<config, todo, cur, kids, root, all_nodes, queue, checkVars, phase>>

\* graph->init(root): the search starts at the root, which may be nullptr.
InitGraph ==
  /\ AtNextEntry /\ todo = {}
  /\ IF root = NoNode
       THEN phase' = "crashed" /\ UNCHANGED queue
       ELSE phase' = "collect" /\ queue' = <<root>>
  /\ UNCHANGED <<config, parseVars, edgeVars, input_num_4_check, all_nodes, checkVars>>

\* Mutant of Collect: a node met again stays at the head of the queue.
CollectStuck ==
  /\ phase = "collect" /\ queue # <<>>
  /\ LET n == Head(queue)
     IN  IF n \in all_nodes
           THEN UNCHANGED <<queue, all_nodes>>
           ELSE /\ all_nodes' = all_nodes \cup {n}
                /\ queue' = Tail(queue) \o out_nodes[n]
  /\ UNCHANGED <<config, parseVars, edgeVars, input_num_4_check, checkVars, phase>>

\* One turn of the search.
Collect ==
  /\ phase = "collect" /\ queue # <<>>
  /\ LET n == Head(queue)
     IN  IF n \in all_nodes
           THEN queue' = Tail(queue) /\ UNCHANGED all_nodes
           ELSE /\ all_nodes' = all_nodes \cup {n}
                /\ queue' = Tail(queue) \o out_nodes[n]
  /\ UNCHANGED <<config, parseVars, edgeVars, input_num_4_check, checkVars, phase>>

\* Graph::check: a root with inputs is refused at once.
BeginCheck ==
  /\ phase = "collect" /\ queue = <<>>
  /\ IF input_num_4_check[root] = 0
       THEN phase' = "check" /\ zero_input_node' = {root}
       ELSE phase' = "rejected" /\ UNCHANGED zero_input_node
  /\ UNCHANGED <<config, parseVars, edgeVars, input_num_4_check, all_nodes, queue,
                 deleted>>

\* One turn of the elimination: each output of the node loses an input, and those
\* that had no other join the list.  Nothing depends on the order of the list, so it
\* is worked off in any.
Eliminate(r) ==
  /\ phase = "check" /\ r \in zero_input_node
  /\ deleted' = deleted \cup {r}
  /\ input_num_4_check' =
       [n \in Name |-> IF n \in Children(out_nodes, r)
                         THEN input_num_4_check[n] - 1
                         ELSE input_num_4_check[n]]
  /\ zero_input_node' =
       (zero_input_node \ {r})
         \cup {n \in Children(out_nodes, r) : input_num_4_check[n] = 1}
  /\ UNCHANGED <<config, parseVars, edgeVars, all_nodes, queue, phase>>

\* Mutant of Verdict: eliminating the root is enough.
VerdictOnRoot ==
  /\ phase = "check" /\ zero_input_node = {}
  /\ phase' = IF root \in deleted THEN "accepted" ELSE "rejected"
  /\ UNCHANGED <<config, parseVars, edgeVars, input_num_4_check, all_nodes, queue,
                 checkVars>>

\* The verdict: a collected node that was not eliminated refuses the graph.
Verdict ==
  /\ phase = "check" /\ zero_input_node = {}
  /\ phase' = IF all_nodes \subseteq deleted THEN "accepted" ELSE "rejected"
  /\ UNCHANGED <<config, parseVars, edgeVars, input_num_4_check, all_nodes, queue,
                 checkVars>>

Ended == phase \in {"accepted", "rejected", "crashed"}

Next ==
  \/ \E n \in Name : BeginEntry(n) \/ BreakAtEntry(n)
  \/ AddChild
  \/ AddParent
  \/ InitGraph
  \/ Collect
  \/ BeginCheck
  \/ \E r \in Name : Eliminate(r)
  \/ Verdict
  \/ Ended /\ UNCHANGED vars

Spec == Init /\ [][Next]_vars

\* Sequential code that does not block.
FairSpec == Spec /\ WF_vars(Next)
-----------------------------------------------------------------------------
TypeOK ==
  /\ config \in ConfigType
  /\ todo \subseteq Name
  /\ cur \in Name \cup {NoNode} /\ kids \in Seq(Name) /\ pars \in Seq(Name)
  /\ DOMAIN ids \subseteq Name /\ \A n \in DOMAIN ids : ids[n] \in Nat
  /\ root \in Name \cup {NoNode}
  /\ out_nodes \in [Name -> Seq(Name)]
  /\ input_num \in [Name -> Nat]
  /\ input_num_4_check \in [Name -> Nat]
  /\ all_nodes \subseteq Name /\ queue \in Seq(Name)
  /\ zero_input_node \subseteq Name /\ deleted \subseteq Name
  /\ phase \in {"parse", "collect", "check", "accepted", "rejected", "crashed"}

(***************************************************************************)
(* An edge declared by both of its ends, in either order, is stored and    *)
(* counted once: input_num is what Node::run's counters start from, so one *)
(* count too many and the node never runs.                                 *)
(***************************************************************************)
EdgesCountedOnce ==
  /\ TypeOK
  /\ NoParallelEdges(out_nodes)
  /\ \A n \in Name : input_num[n] = Cardinality(Parents(out_nodes, n))

(***************************************************************************)
(* Graph::check accepts exactly the graphs that can run to the end: it     *)
(* refuses a cycle the root reaches and a reachable node that waits for an *)
(* unreachable one, and it refuses nothing else.                           *)
(***************************************************************************)
CheckIsExact ==
  phase \in {"accepted", "rejected"} =>
    (phase = "accepted" <=> Runnable(out_nodes, root))

(***************************************************************************)
(* What Graph::run and Node::run rely on: in an accepted graph all_nodes   *)
(* is what the root reaches, the edges make it a graph as GraphRun assumes *)
(* it, and every counter starts at the number of nodes of all_nodes that   *)
(* will notify it.                                                         *)
(***************************************************************************)
AcceptedFeedsGraphRun ==
  phase = "accepted" =>
    LET g == [n \in all_nodes |-> out_nodes[n]]
    IN  /\ all_nodes = Reachable(out_nodes, root)
        /\ WellFormed(g, all_nodes, root)
        /\ \A n \in all_nodes : input_num[n] = Cardinality(Parents(g, n))

\* What the section declares, from either end.
DeclaredEdges ==
  {e \in Name \X Name :
     \/ e[1] \in config.entries /\ e[2] \in Children(config.children, e[1])
     \/ e[2] \in config.entries /\ e[1] \in Children(config.parents, e[2])}

StoredEdges == {e \in Name \X Name : e[2] \in Children(out_nodes, e[1])}

(***************************************************************************)
(* The order in which the entries happen to be read, and the end an edge   *)
(* is declared at, do not matter when every name is known: the graph has   *)
(* the declared edges.                                                     *)
(***************************************************************************)
OrderDoesNotMatter ==
  phase # "parse" /\ config.known = Name => StoredEdges = DeclaredEdges

(***************************************************************************)
(* Every section is judged: the search and the elimination come to an end, *)
(* cycles or not.                                                          *)
(***************************************************************************)
InitEnds == <>Ended

-----------------------------------------------------------------------------
(***************************************************************************)
(* graph.cpp:39-41: a node whose id is outside node_input_num_map "should  *)
(* not happen".  The map has all_nodes.size() counters (graph.h:196), but  *)
(* ids are also given to nodes the root does not reach.                    *)
(***************************************************************************)
IdsInsideCounters ==
  phase = "accepted" => \A n \in all_nodes : ids[n] < Cardinality(all_nodes)
=============================================================================
