------------------------------- MODULE Server -------------------------------
(***************************************************************************)
(* The program around a graph: the initialisation of main.cpp and          *)
(* init_graph_frame, one call of EchoServiceImpl::Echo, and the services   *)
(* the graph is made of: StartService, DoneService and nodes that ask      *)
(* another server through BrpcService or HttpService.  The threads of the  *)
(* graph are GraphRun's, whose actions the services call: this module adds *)
(* what the services do in between, and shows that they keep IoNode.       *)
(*                                                                         *)
(* The call of an rpc node is made inside do_service and answered on a     *)
(* thread of brpc, so the callback may overtake the end of do_service.     *)
(* A call that fails or times out is answered like any other: the callback *)
(* does not look at the controller's status.                               *)
(*                                                                         *)
(* Node::run leaves do_service out where skip says so (graph.cpp:24).  No  *)
(* class of the repository overrides skip, which says no, and no node is   *)
(* skipped here: one that is ends like a cpu node, its context untouched.  *)
(***************************************************************************)
EXTENDS GraphTopology

CONSTANTS Node, Root, NoNode,
          Rpc,           \* nodes that derive from BrpcService or HttpService
          Start, Done,   \* the node named "start" and a node of class DoneService
          Graphs, SpawnMayFail,
          Transport,     \* sections of downstream.conf
          Client,        \* sections of redis_client.conf
          NoName         \* a node without a downstream

ASSUME ServerAssumption ==
  /\ Rpc \subseteq Node \ {Start, Done}
  /\ Start \in Node /\ Done \in Node \ {Start}
  /\ \A g \in Graphs : Done \in Reachable(g, Start)
  /\ NoName \notin Transport \cup Client

VARIABLES
  out_nodes, node_input_num_map, pc, next_output, last_ready_node, runs,  \* GraphRun's
  phase,          \* off, nodes, graphs, listen, serving, aborted
  downstream_map, \* GtransportManager's channels
  client_map,     \* RedisClientManager's clients
  downstream,     \* of each rpc node in node_service.conf, also its _transport_name
  overrides,      \* rpc nodes that define call_rpc_method, or are http nodes
  call,           \* none, refused (no channel), mute, sent, processed, over
  returned,       \* do_service of the rpc node has returned
  settled,        \* nodes whose service context is final
  start_context   \* Context::start_context

graphVars == <<out_nodes, node_input_num_map, pc, next_output, last_ready_node, runs>>
confVars == <<downstream_map, client_map, downstream, overrides>>
callVars == <<call, returned, settled, start_context>>
vars == <<graphVars, phase, confVars, callVars>>

Run == INSTANCE GraphRun WITH IoNode <- Rpc

\* What GraphRun assumes of its nodes and graphs.
ASSUME RunAssumption ==
  /\ IsFiniteSet(Node)
  /\ Root \in Node /\ NoNode \notin Node
  /\ SpawnMayFail \in BOOLEAN
  /\ \A g \in Graphs : Run!WellFormed(g, Node, Root)

Init ==
  /\ Run!Init
  /\ phase = "off"
  /\ downstream_map = {}
  /\ client_map = {}
  /\ downstream \in [Rpc -> Transport \cup Client \cup {NoName}]
  /\ overrides \in SUBSET Rpc
  /\ call = [n \in Rpc |-> "none"]
  /\ returned = [n \in Rpc |-> FALSE]
  /\ settled = {}
  /\ start_context = NoNode

-----------------------------------------------------------------------------
\* GtransportManager::init inserts its sections in any order and stops at one whose
\* channel fails.  The program itself does not call it; an application may, first.
RegisterTransport(t) ==
  /\ phase = "off"
  /\ t \notin downstream_map
  /\ downstream_map' = downstream_map \cup {t}
  /\ UNCHANGED <<graphVars, phase, client_map, downstream, overrides, callVars>>

\* init_graph_frame: a cache that fails is only logged; every redis client is made.
InitClients ==
  /\ phase = "off"
  /\ phase' = "nodes"
  /\ client_map' = Client
  /\ UNCHANGED <<graphVars, downstream_map, downstream, overrides, callVars>>

\* NodeManager::init: the downstream of every node must be known.
Known(name) == name \in {NoName} \cup downstream_map \cup client_map

InitNodes ==
  /\ phase = "nodes"
  /\ phase' = IF \A n \in Rpc : Known(downstream[n]) THEN "graphs" ELSE "aborted"
  /\ UNCHANGED <<graphVars, confVars, callVars>>

\* GraphManager::init accepts the graph or not.
InitGraphs ==
  /\ phase = "graphs"
  /\ phase' \in {"listen", "aborted"}
  /\ UNCHANGED <<graphVars, confVars, callVars>>

\* server.Start; from here on requests arrive.
StartServer ==
  /\ phase = "listen"
  /\ phase' \in {"serving", "aborted"}
  /\ UNCHANGED <<graphVars, confVars, callVars>>

\* EchoServiceImpl::Echo runs the graph on the thread of the call.
Echo ==
  /\ phase = "serving"
  /\ Run!RunGraph
  /\ UNCHANGED <<phase, confVars, callVars>>

\* A cpu node: its do_service writes its context for the last time, "start" also its id.
DoCpu(n) ==
  /\ n \notin Rpc
  /\ Run!RunAndNotify(n)
  /\ settled' = settled \cup {n}
  /\ start_context' = IF n = Start THEN Start ELSE start_context
  /\ UNCHANGED <<phase, confVars, call, returned>>

\* do_service of an rpc node up to its call: get_transport looks among the channels only.
Calls(n) ==
  IF downstream[n] \notin downstream_map THEN "refused"
  ELSE IF n \in overrides THEN "sent" ELSE "mute"

Call(n) ==
  /\ pc[n] = "run"
  /\ call[n] = "none"
  /\ call' = [call EXCEPT ![n] = Calls(n)]
  /\ settled' = IF Calls(n) = "refused" THEN settled \cup {n} ELSE settled
  /\ UNCHANGED <<graphVars, phase, confVars, returned, start_context>>

\* Mutant of RefusedNotify: do_service only returns -1.
RefusedForgotten(n) ==
  /\ call[n] = "refused"
  /\ Run!IssueIo(n)
  /\ call' = [call EXCEPT ![n] = "mute"]
  /\ returned' = [returned EXCEPT ![n] = TRUE]
  /\ UNCHANGED <<phase, confVars, settled, start_context>>

\* Without a channel do_service notifies the outputs itself, then returns -1.
RefusedNotify(n) ==
  /\ call[n] = "refused"
  /\ Run!RunAndNotify(n)
  /\ call' = [call EXCEPT ![n] = "over"]
  /\ UNCHANGED <<phase, confVars, returned, settled, start_context>>

\* Mutant of ReturnIo: the class does not override type(), which says "cpu".
ReturnIoAsCpu(n) ==
  /\ ~returned[n]
  /\ call[n] \in {"mute", "sent", "processed", "over"}
  /\ returned' = [returned EXCEPT ![n] = TRUE]
  /\ IF pc[n] = "run" THEN Run!RunAndNotify(n) ELSE UNCHANGED graphVars
  /\ UNCHANGED <<phase, confVars, call, settled, start_context>>

\* do_service returns; if the callback has not come yet, Node::run leaves an io node
\* to it.  When do_service has notified itself, that has to be over.
ReturnIo(n) ==
  /\ ~returned[n]
  /\ call[n] \in {"mute", "sent", "processed", "over"}
  /\ returned' = [returned EXCEPT ![n] = TRUE]
  /\ IF pc[n] = "run"
       THEN Run!IssueIo(n)
       ELSE /\ downstream[n] \notin downstream_map => pc[n] = "done"
            /\ UNCHANGED graphVars
  /\ UNCHANGED <<phase, confVars, call, settled, start_context>>

\* handle_response and service_cb: process_response writes the context, and the
\* controller and the response are deleted.
ProcessResponse(n) ==
  /\ call[n] = "sent"
  /\ call' = [call EXCEPT ![n] = "processed"]
  /\ settled' = settled \cup {n}
  /\ UNCHANGED <<graphVars, phase, confVars, returned, start_context>>

\* Mutant of CallbackNotify: the outputs are notified before the response is processed.
CallbackNotifyFirst(n) ==
  /\ call[n] \in {"sent", "processed"}
  /\ Run!RunAndNotify(n) \/ Run!IoCallback(n)
  /\ UNCHANGED <<phase, confVars, callVars>>

\* service_cb's call of run_output_nodes_if_ready, before or after do_service returned.
CallbackNotify(n) ==
  /\ call[n] = "processed"
  /\ Run!RunAndNotify(n) \/ Run!IoCallback(n)
  /\ call' = [call EXCEPT ![n] = "over"]
  /\ UNCHANGED <<phase, confVars, returned, settled, start_context>>

\* The threads of the graph between the services.
Threads(n) ==
  /\ Run!BFunc(n) \/ Run!NotifyWaiting(n) \/ Run!NotifyReady(n) \/ Run!FinishNotify(n)
  /\ UNCHANGED <<phase, confVars, callVars>>

RpcStep(n) ==
  \/ Call(n) \/ RefusedNotify(n) \/ ReturnIo(n)
  \/ ProcessResponse(n) \/ CallbackNotify(n)

Startup == InitClients \/ InitNodes \/ InitGraphs \/ StartServer

Terminated ==
  /\ \/ phase = "aborted"
     \/ Run!Terminated
  /\ \A n \in Rpc : call[n] = "none" \/ returned[n]
  /\ UNCHANGED vars

\* A graph whose calls are not all answered stays as it is.
Hanging ==
  /\ \E n \in Rpc : call[n] = "mute" /\ returned[n]
  /\ \A n \in Node \ Rpc : pc[n] \in {"idle", "done", "lost"}
  /\ \A n \in Rpc : pc[n] \in {"idle", "done", "lost"} \/ call[n] = "mute"
  /\ \A n \in Rpc : call[n] = "none" \/ returned[n]
  /\ UNCHANGED vars

Next ==
  \/ \E t \in Transport : RegisterTransport(t)
  \/ Startup
  \/ Echo
  \/ \E n \in Node : DoCpu(n) \/ Threads(n)
  \/ \E n \in Rpc : RpcStep(n)
  \/ Terminated
  \/ Hanging

Spec == Init /\ [][Next]_vars

(***************************************************************************)
(* The threads run, and brpc runs the callback of every call it was given, *)
(* with the answer or with an error.                                       *)
(***************************************************************************)
FairSpec ==
  /\ Spec
  /\ WF_vars(Startup) /\ WF_vars(Echo)
  /\ \A n \in Node : WF_vars(DoCpu(n)) /\ WF_vars(Threads(n))
  /\ \A n \in Rpc : WF_vars(RpcStep(n))

-----------------------------------------------------------------------------
TypeOK ==
  /\ Run!TypeOK
  /\ phase \in {"off", "nodes", "graphs", "listen", "serving", "aborted"}
  /\ downstream_map \in SUBSET Transport
  /\ client_map \in SUBSET Client
  /\ downstream \in [Rpc -> Transport \cup Client \cup {NoName}]
  /\ overrides \in SUBSET Rpc
  /\ call \in [Rpc -> {"none", "refused", "mute", "sent", "processed", "over"}]
  /\ returned \in [Rpc -> BOOLEAN]
  /\ settled \in SUBSET Node
  /\ start_context \in {Start, NoNode}

(***************************************************************************)
(* A service reads the contexts of other nodes without any lock            *)
(* (get_const_context): when do_service of a node begins, the contexts of  *)
(* all the nodes it depends on are final, those written by callbacks on    *)
(* brpc's threads included, and DoneService finds the id that "start"      *)
(* stores (done.cpp:17), which is otherwise uninitialised.                 *)
(***************************************************************************)
ReadsSettled ==
  /\ TypeOK
  /\ \A m \in Node \ settled : \A n \in Reachable(out_nodes, m) \ {m} : runs[n] = 0
  /\ runs[Done] > 0 => start_context = Start

Io(n) == INSTANCE IoNode WITH
           returned <- returned[n],
           complete <- n \in settled,
           outputs  <- IF pc[n] \in {"notify", "done"} THEN 1 ELSE 0

(***************************************************************************)
(* BrpcService and HttpService keep the contract of an io node, whichever  *)
(* of do_service and its callback is faster, with a channel or without.    *)
(***************************************************************************)
ServicesImplementIoNode ==
  /\ \A n \in Rpc : Io(n)!Init
  /\ [][\A n \in Rpc : [Io(n)!Next]_(Io(n)!ioVars)]_vars

\* A node whose do_service has returned and whose callback nobody will run.
Mute(m) == m \in Rpc \ overrides /\ downstream[m] \in downstream_map /\ pc[m] = "wait"

\* n never notifies its outputs, or is below a node that does not.
Silent(n) ==
  \E m \in Node : n \in Reachable(out_nodes, m) /\ (pc[m] = "lost" \/ Mute(m))

\* No thread of the graph has a step and brpc has no callback to run.
AtRest ==
  \A n \in Node :
    \/ pc[n] \in {"idle", "done", "lost"}
    \/ /\ n \in Rpc /\ returned[n]
       /\ pc[n] \in {"run", "wait"} /\ call[n] \notin {"sent", "processed"}

(***************************************************************************)
(* A node that is refused a channel notifies its outputs itself            *)
(* (brpc_service.cpp:22) and any other leaves it to its callback: when     *)
(* nothing of a request moves any more, whatever has not run its course is *)
(* below a lost node or below one whose callback was dropped.              *)
(***************************************************************************)
StopsOnlyBelowSilent ==
  pc[Root] # "idle" /\ AtRest => \A n \in Node : pc[n] = "done" \/ Silent(n)

(***************************************************************************)
(* graph.cpp:20, "io nodes call run_output_nodes_if_ready themselves": a   *)
(* program that starts runs the request's graph to its end.  What stays    *)
(* behind is below a node whose class has no call_rpc_method of its own    *)
(* (the one of BrpcService drops the callback) or whose bthread was lost;  *)
(* a missing channel or a failed call stops nobody.                        *)
(***************************************************************************)
CompletesUnlessSilent ==
  <>(phase = "aborted" \/ \A n \in Node : pc[n] = "done" \/ Silent(n))
=============================================================================
