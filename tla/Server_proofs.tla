--------------------------- MODULE Server_proofs ---------------------------
(***************************************************************************)
(* What is proved of Server for every graph, every set of rpc nodes and    *)
(* every configuration: contexts are read when they are final, the         *)
(* services keep the contract of io nodes, and nothing of a request stays  *)
(* behind that is not below a lost node or a dropped callback.             *)
(***************************************************************************)
EXTENDS Server, TLAPS

(***************************************************************************)
(* The initialisation, and what the services do between two accesses to    *)
(* the graph, do not touch the state of the graph.                         *)
(***************************************************************************)
GraphIdle ==
  \/ \E t \in Transport : RegisterTransport(t)
  \/ Startup
  \/ \E n \in Rpc : Call(n) \/ ProcessResponse(n)
  \/ Terminated \/ Hanging

(***************************************************************************)
(* The other steps, by the service that takes them: each begins at a node  *)
(* that has been entered and ends in one step of Run for that node, or, if *)
(* the callback was faster than do_service, in none.                       *)
(***************************************************************************)
ServiceStep(n) ==
  \/ DoCpu(n)
  \/ Threads(n)
  \/ n \in Rpc /\ (RefusedNotify(n) \/ ReturnIo(n) \/ CallbackNotify(n))

LEMMA NextCases ==
  ASSUME Next
  PROVE  GraphIdle \/ Echo \/ \E n \in Node : ServiceStep(n)
<1>1. Rpc \subseteq Node
  BY ServerAssumption DEF ServerAssumption
<1> QED BY <1>1 DEF Next, GraphIdle, ServiceStep, RpcStep

LEMMA GraphIdleKeeps == GraphIdle => UNCHANGED graphVars
  BY DEF GraphIdle, RegisterTransport, Startup, InitClients, InitNodes, InitGraphs,
         StartServer, Call, ProcessResponse, Terminated, Hanging, Run!Terminated, vars

(***************************************************************************)
(* The step of the graph that a service's step contains.                   *)
(***************************************************************************)
LEMMA ServiceStepRuns ==
  ASSUME NEW n \in Node, ServiceStep(n)
  PROVE  Run!NodeStep(n) \/ UNCHANGED graphVars
<1>1. CASE DoCpu(n)
  BY <1>1 DEF DoCpu, Run!NodeStep
<1>2. CASE Threads(n)
  BY <1>2 DEF Threads, Run!NodeStep
<1>3. CASE RefusedNotify(n)
  BY <1>3 DEF RefusedNotify, Run!NodeStep
<1>4. CASE ReturnIo(n)
  BY <1>4 DEF ReturnIo, Run!NodeStep
<1>5. CASE CallbackNotify(n)
  BY <1>5 DEF CallbackNotify, Run!NodeStep
<1> QED BY <1>1, <1>2, <1>3, <1>4, <1>5 DEF ServiceStep

LEMMA NextRuns ==
  ASSUME [Next]_vars
  PROVE  [Run!Next]_(Run!vars)
<1>1. CASE UNCHANGED vars
  BY <1>1 DEF vars, graphVars, Run!vars
<1>2. CASE GraphIdle
  BY <1>2, GraphIdleKeeps DEF graphVars, Run!vars
<1>3. CASE Echo
  BY <1>3 DEF Echo, Run!Next
<1>4. ASSUME NEW n \in Node, ServiceStep(n)
      PROVE  [Run!Next]_(Run!vars)
  BY <1>4, ServiceStepRuns DEF Run!Next, Run!vars, graphVars
<1> QED BY <1>1, <1>2, <1>3, <1>4, NextCases

-----------------------------------------------------------------------------
(***************************************************************************)
(* GraphRun with the rpc nodes as its io nodes, with what is proved of it. *)
(***************************************************************************)
Engine == INSTANCE GraphRun_proofs WITH IoNode <- Rpc

(***************************************************************************)
(* Run and Engine are the same specification; the lemmas down to           *)
(* ReadinessKept say so and carry ReadinessInv over to Server.             *)
(***************************************************************************)
LEMMA EngineAssumptions ==
  /\ Engine!IsFiniteSet(Node) /\ Root \in Node /\ NoNode \notin Node
  /\ Rpc \subseteq Node /\ SpawnMayFail \in BOOLEAN
  /\ \A g \in Graphs : Engine!WellFormed(g, Node, Root)
<1>1. \A g \in Graphs : Engine!WellFormed(g, Node, Root)
  BY RunAssumption
     DEF RunAssumption, Run!WellFormed, Run!NoParallelEdges, Run!AcyclicOn, Run!Parents,
         Run!Children, Engine!WellFormed, Engine!NoParallelEdges, Engine!AcyclicOn,
         Engine!Parents, Engine!Children
<1> QED
  BY <1>1, ServerAssumption, RunAssumption
     DEF ServerAssumption, RunAssumption, IsFiniteSet, Engine!IsFiniteSet

LEMMA EngineStep ==
  ASSUME NEW n, Run!NodeStep(n)
  PROVE  Engine!NodeStep(n)
<1>1. Run!BFunc(n) => Engine!BFunc(n)
  BY DEF Run!BFunc, Engine!BFunc
<1>2. Run!RunAndNotify(n) => Engine!RunAndNotify(n)
  BY DEF Run!RunAndNotify, Run!EnterNotify, Engine!RunAndNotify, Engine!EnterNotify
<1>3. Run!IssueIo(n) => Engine!IssueIo(n)
  BY DEF Run!IssueIo, Engine!IssueIo
<1>4. Run!IoCallback(n) => Engine!IoCallback(n)
  BY DEF Run!IoCallback, Run!EnterNotify, Engine!IoCallback, Engine!EnterNotify
<1>5. Run!NotifyWaiting(n) => Engine!NotifyWaiting(n)
  BY DEF Run!NotifyWaiting, Run!MoreOutputs, Run!Ready,
         Engine!NotifyWaiting, Engine!MoreOutputs, Engine!Ready
<1>6. Run!NotifyReady(n) => Engine!NotifyReady(n)
  BY DEF Run!NotifyReady, Run!MoreOutputs, Run!Ready, Run!SpawnOutcomes,
         Engine!NotifyReady, Engine!MoreOutputs, Engine!Ready, Engine!SpawnOutcomes
<1>7. Run!FinishNotify(n) => Engine!FinishNotify(n)
  BY DEF Run!FinishNotify, Run!MoreOutputs, Engine!FinishNotify, Engine!MoreOutputs
<1> QED
  BY <1>1, <1>2, <1>3, <1>4, <1>5, <1>6, <1>7 DEF Run!NodeStep, Engine!NodeStep

LEMMA EngineRunGraph == Run!RunGraph => Engine!RunGraph
  BY DEF Run!RunGraph, Run!InputNum, Run!Parents, Run!Children, Run!Cardinality,
         Engine!RunGraph, Engine!InputNum, Engine!Parents, Engine!Children,
         Engine!Cardinality

LEMMA EngineNext ==
  ASSUME [Next]_vars
  PROVE  [Engine!Next]_(Engine!vars)
<1>1. [Run!Next]_(Run!vars)
  BY NextRuns
<1>2. Run!Terminated \/ UNCHANGED Run!vars => UNCHANGED Engine!vars
  BY DEF Run!Terminated, Run!vars, Engine!vars
<1> QED
  BY <1>1, <1>2, EngineStep, EngineRunGraph DEF Run!Next, Engine!Next

LEMMA ReadinessKept ==
  /\ Init => Engine!ReadinessInv
  /\ Engine!ReadinessInv /\ [Next]_vars => Engine!ReadinessInv'
<1>1. Init => Engine!Init
  BY DEF Init, Run!Init, Engine!Init
<1> QED
  BY <1>1, EngineAssumptions, EngineNext, Engine!InitReadiness, Engine!NextReadiness

(***************************************************************************)
(* What Server's properties need of ReadinessInv, in the names of Run.     *)
(***************************************************************************)
LEMMA ReadinessTypes ==
  /\ Engine!ReadinessInv => Run!TypeOK
  /\ Engine!ReadinessInv' => Run!TypeOK'
<1>1. Engine!ReadinessInv => Run!TypeOK
  BY DEF Engine!ReadinessInv,
         Run!TypeOK, Run!WellFormed, Run!NoParallelEdges, Run!AcyclicOn, Run!Parents,
         Run!Children, Engine!TypeOK, Engine!WellFormed, Engine!NoParallelEdges,
         Engine!AcyclicOn, Engine!Parents, Engine!Children
<1> QED BY <1>1, PTL

LEMMA ReadinessGives ==
  ASSUME Engine!ReadinessInv
  PROVE  Run!TypeOK /\ Run!HeldByOneThread /\ Run!RunsAfterAncestors
<1>1. Run!HeldByOneThread
  BY DEF Engine!ReadinessInv, Run!HeldByOneThread, Engine!HeldByOneThread
<1>2. Engine!RunsAfterAncestors
  BY EngineAssumptions, Engine!ReadinessOrders
<1>3. Run!RunsAfterAncestors
  BY <1>2
     DEF Run!RunsAfterAncestors, Run!Finished, Run!Reachable, Run!Closed, Run!Children,
         Engine!RunsAfterAncestors, Engine!Finished, Engine!Reachable, Engine!Closed,
         Engine!Children
<1> QED
  BY <1>1, <1>3, ReadinessTypes

-----------------------------------------------------------------------------
(***************************************************************************)
(* run_output_nodes_if_ready is entered by the two steps that say so; a    *)
(* node that another's loop makes ready or runs has not been started.      *)
(***************************************************************************)
LEMMA FinishedSteps ==
  ASSUME Run!TypeOK, Run!HeldByOneThread
  PROVE  /\ Run!RunGraph => Run!Finished' = Run!Finished
         /\ \A n \in Node : Threads(n) \/ Run!IssueIo(n) => Run!Finished' = Run!Finished
         /\ \A n \in Node : Run!RunAndNotify(n) \/ Run!IoCallback(n) =>
              n \notin Run!Finished /\ Run!Finished' = Run!Finished \cup {n}
<1> USE DEF Run!Finished
<1>1. Run!RunGraph => Run!Finished' = Run!Finished
  BY DEF Run!RunGraph, Run!TypeOK
<1>2. ASSUME NEW n \in Node, Run!BFunc(n) \/ Run!NotifyWaiting(n) \/ Run!IssueIo(n)
      PROVE  Run!Finished' = Run!Finished
  BY <1>2 DEF Run!BFunc, Run!NotifyWaiting, Run!IssueIo, Run!TypeOK
<1>3. ASSUME NEW n \in Node, Run!NotifyReady(n) \/ Run!FinishNotify(n)
      PROVE  Run!Finished' = Run!Finished
  <2>1. last_ready_node[n] # NoNode =>
          last_ready_node[n] \in Node /\ pc[last_ready_node[n]] = "idle"
    BY DEF Run!HeldByOneThread, Run!TypeOK
  <2>2. pc[n] = "notify" /\ pc'[n] \in {"notify", "done"}
    BY <1>3, <2>1 DEF Run!NotifyReady, Run!FinishNotify, Run!TypeOK
  <2>3. \A k \in Node \ {n} : pc'[k] = pc[k] \/
          (pc[k] = "idle" /\ pc'[k] \in {"spawned", "lost", "run"})
    BY <1>3, <2>1 DEF Run!NotifyReady, Run!FinishNotify, Run!SpawnOutcomes, Run!TypeOK
  <2> QED BY <2>2, <2>3
<1>4. ASSUME NEW n \in Node, Run!RunAndNotify(n) \/ Run!IoCallback(n)
      PROVE  n \notin Run!Finished /\ Run!Finished' = Run!Finished \cup {n}
  BY <1>4 DEF Run!RunAndNotify, Run!IoCallback, Run!EnterNotify, Run!TypeOK
<1> QED BY <1>1, <1>2, <1>3, <1>4 DEF Threads

(***************************************************************************)
(* The graph is one of those given; the contexts of the nodes that have    *)
(* begun to notify their outputs are final, and that of an rpc node is     *)
(* final exactly when its response has been processed or it has been       *)
(* refused a channel.                                                      *)
(***************************************************************************)
ContextsInv ==
  /\ TypeOK
  /\ out_nodes \in Graphs
  /\ Run!Finished \subseteq settled
  /\ Start \in settled => start_context = Start
  /\ \A n \in Rpc : n \in settled <=> call[n] \in {"refused", "processed", "over"}

ServicesInv == Engine!ReadinessInv /\ ContextsInv

LEMMA InitServices == Init => ServicesInv
<1> SUFFICES ASSUME Init PROVE ServicesInv
  OBVIOUS
<1>1. Engine!ReadinessInv
  BY ReadinessKept
<1>2. TypeOK
  BY <1>1, ReadinessGives DEF Init, TypeOK
<1>3. Run!Finished = {}
  BY DEF Init, Run!Init, Run!Finished
<1> QED BY <1>1, <1>2, <1>3 DEF Init, Run!Init, ServicesInv, ContextsInv

LEMMA NextTypeOK ==
  ASSUME TypeOK, Run!TypeOK', [Next]_vars
  PROVE  TypeOK'
<1> USE DEF TypeOK
<1>1. CASE UNCHANGED vars
  BY <1>1 DEF vars, confVars, callVars
<1>2. CASE \/ \E t \in Transport : RegisterTransport(t)
           \/ Startup \/ Echo
  BY <1>2 DEF RegisterTransport, Startup, InitClients, InitNodes, InitGraphs,
              StartServer, Echo, confVars, callVars
<1>3. ASSUME NEW n \in Node, DoCpu(n) \/ Threads(n)
      PROVE  TypeOK'
  BY <1>3 DEF DoCpu, Threads, confVars, callVars
<1>4. ASSUME NEW n \in Rpc, Call(n) \/ ProcessResponse(n)
      PROVE  TypeOK'
  <2>1. n \in Node
    BY ServerAssumption DEF ServerAssumption
  <2> QED BY <1>4, <2>1 DEF Call, Calls, ProcessResponse, confVars
<1>5. ASSUME NEW n \in Rpc, RefusedNotify(n) \/ ReturnIo(n) \/ CallbackNotify(n)
      PROVE  TypeOK'
  BY <1>5 DEF RefusedNotify, ReturnIo, CallbackNotify, confVars
<1> QED BY <1>1, <1>2, <1>3, <1>4, <1>5 DEF Next, RpcStep, Terminated, Hanging

LEMMA GraphKept ==
  ASSUME [Next]_vars
  PROVE  out_nodes' = out_nodes
<1>1. [Run!Next]_(Run!vars)
  BY NextRuns
<1> QED
  BY <1>1
     DEF Run!Next, Run!vars, Run!RunGraph, Run!NodeStep, Run!BFunc, Run!RunAndNotify,
         Run!EnterNotify, Run!IssueIo, Run!IoCallback, Run!NotifyWaiting,
         Run!NotifyReady, Run!FinishNotify, Run!Terminated

LEMMA NextServices ==
  ASSUME ServicesInv, [Next]_vars
  PROVE  ServicesInv'
<1> USE DEF ServicesInv
<1>1. Engine!ReadinessInv'
  BY ReadinessKept
<1>2. Run!TypeOK /\ Run!HeldByOneThread /\ Run!TypeOK'
  BY <1>1, ReadinessGives, ReadinessTypes
<1>3. TypeOK'
  BY <1>2, NextTypeOK DEF ContextsInv
<1>4. Rpc \subseteq Node \ {Start}
  BY ServerAssumption DEF ServerAssumption
<1> USE GraphKept DEF ContextsInv
<1>5. CASE UNCHANGED vars
  BY <1>1, <1>3, <1>5 DEF vars, graphVars, callVars, Run!Finished
<1>6. CASE GraphIdle
  <2>1. Run!Finished' = Run!Finished
    BY <1>6, GraphIdleKeeps DEF graphVars, Run!Finished
  <2>2. CASE \E n \in Rpc : Call(n) \/ ProcessResponse(n)
    BY <1>1, <1>3, <1>4, <2>1, <2>2 DEF Call, Calls, ProcessResponse, TypeOK
  <2>3. CASE UNCHANGED callVars
    BY <1>1, <1>3, <2>1, <2>3 DEF callVars
  <2> QED
    BY <1>6, <2>2, <2>3
       DEF GraphIdle, RegisterTransport, Startup, InitClients, InitNodes, InitGraphs,
           StartServer, Terminated, Hanging, vars
<1>7. CASE Echo
  BY <1>1, <1>2, <1>3, <1>7, FinishedSteps DEF Echo, callVars
<1>8. ASSUME NEW n \in Node, ServiceStep(n)
      PROVE  ServicesInv'
  <2>1. CASE DoCpu(n)
    BY <1>1, <1>2, <1>3, <1>4, <2>1, FinishedSteps DEF DoCpu
  <2>2. CASE Threads(n)
    <3>1. UNCHANGED callVars
      BY <2>2 DEF Threads
    <3> QED BY <1>1, <1>2, <1>3, <2>2, <3>1, FinishedSteps DEF callVars
  <2>3. CASE n \in Rpc /\ (RefusedNotify(n) \/ CallbackNotify(n))
    BY <1>1, <1>2, <1>3, <1>4, <2>3, FinishedSteps
       DEF RefusedNotify, CallbackNotify, TypeOK
  <2>4. CASE n \in Rpc /\ ReturnIo(n)
    <3>1. Run!Finished' = Run!Finished
      BY <1>2, <2>4, FinishedSteps DEF ReturnIo, graphVars, Run!Finished
    <3> QED BY <1>1, <1>3, <2>4, <3>1 DEF ReturnIo
  <2> QED BY <1>8, <2>1, <2>2, <2>3, <2>4 DEF ServiceStep
<1> QED BY <1>5, <1>6, <1>7, <1>8, NextCases

(***************************************************************************)
(* When do_service of a node begins, the contexts of all the nodes it      *)
(* depends on are final, and "done" finds what "start" has stored,         *)
(* whatever the graph and the order of callbacks and returns.              *)
(***************************************************************************)
THEOREM ReadsSettledCorrect == Spec => []ReadsSettled
<1>1. ServicesInv => ReadsSettled
  <2> SUFFICES ASSUME ServicesInv PROVE ReadsSettled
    OBVIOUS
  <2> USE DEF ServicesInv, ContextsInv
  <2>1. \A m \in Node \ Run!Finished :
          \A n \in Reachable(out_nodes, m) \ {m} : runs[n] = 0
    BY ReadinessGives
       DEF Run!RunsAfterAncestors, Run!Reachable, Run!Closed, Run!Children,
           Reachable, Closed, Children
  <2>2. Done \in Reachable(out_nodes, Start) \ {Start} /\ Start \in Node
    BY ServerAssumption DEF ServerAssumption
  <2>3. runs[Done] > 0 => start_context = Start
    BY <2>1, <2>2
  <2> QED BY <2>1, <2>3 DEF ReadsSettled
<1> QED BY <1>1, InitServices, NextServices, PTL DEF Spec

-----------------------------------------------------------------------------
(***************************************************************************)
(* The step of the contract that a step of the program is for rpc node n,  *)
(* in the variables of Server.                                             *)
(***************************************************************************)
IoReturns(n) ==
  /\ ~returned[n] /\ returned'[n]
  /\ n \in settled' <=> n \in settled
  /\ n \in Run!Finished' <=> n \in Run!Finished

IoCompletes(n) ==
  /\ n \notin settled /\ n \in settled'
  /\ returned'[n] = returned[n]
  /\ n \in Run!Finished' <=> n \in Run!Finished

IoNotifies(n) ==
  /\ n \in settled /\ n \in settled'
  /\ n \notin Run!Finished /\ n \in Run!Finished'
  /\ returned'[n] = returned[n]

IoStutters(n) ==
  /\ n \in settled' <=> n \in settled
  /\ n \in Run!Finished' <=> n \in Run!Finished
  /\ returned'[n] = returned[n]

IoStep(n) == IoReturns(n) \/ IoCompletes(n) \/ IoNotifies(n) \/ IoStutters(n)

(***************************************************************************)
(* Those are the steps of IoNode.                                          *)
(***************************************************************************)
LEMMA IoStepMaps ==
  ASSUME NEW n \in Rpc, IoStep(n), returned \in [Rpc -> BOOLEAN],
         returned' \in [Rpc -> BOOLEAN]
  PROVE  [Io(n)!Next]_(Io(n)!ioVars)
<1>1. n \in Node
  BY ServerAssumption DEF ServerAssumption
<1> USE DEF Io!Next, Io!ioVars, Io!Return, Io!Complete, Io!Notify, Run!Finished
<1>2. CASE IoReturns(n)
  <2>1. returned'[n] \in BOOLEAN
    OBVIOUS
  <2>2. returned[n]' = TRUE
    BY <1>2, <2>1, Zenon DEF IoReturns
  <2>3. (n \in settled)' = (n \in settled)
    BY <1>2 DEF IoReturns
  <2> QED BY <1>1, <1>2, <2>2, <2>3 DEF IoReturns
<1>3. CASE IoCompletes(n)
  <2>1. (n \in settled)' = TRUE
    BY <1>3, Zenon DEF IoCompletes
  <2> QED BY <1>1, <1>3, <2>1 DEF IoCompletes
<1>4. CASE IoNotifies(n)
  BY <1>1, <1>4 DEF IoNotifies
<1>5. CASE IoStutters(n)
  BY <1>1, <1>5 DEF IoStutters
<1> QED BY <1>2, <1>3, <1>4, <1>5 DEF IoStep

LEMMA NextIoStep ==
  ASSUME ServicesInv, [Next]_vars, NEW n \in Rpc
  PROVE  IoStep(n)
<1> USE DEF IoStep
<1>1. Run!TypeOK /\ Run!HeldByOneThread
  BY ReadinessGives DEF ServicesInv
<1>2. /\ call \in [Rpc -> {"none", "refused", "mute", "sent", "processed", "over"}]
      /\ returned \in [Rpc -> BOOLEAN]
      /\ \A m \in Rpc : m \in settled <=> call[m] \in {"refused", "processed", "over"}
  BY DEF ServicesInv, ContextsInv, TypeOK
<1>3. Rpc \subseteq Node
  BY ServerAssumption DEF ServerAssumption
<1>4. CASE UNCHANGED vars
  BY <1>4 DEF vars, graphVars, callVars, Run!Finished, IoStutters
<1>5. CASE GraphIdle
  <2>1. Run!Finished' = Run!Finished
    BY <1>5, GraphIdleKeeps DEF graphVars, Run!Finished
  <2>2. ASSUME NEW m \in Rpc, Call(m) \/ ProcessResponse(m)
        PROVE  IoCompletes(n) \/ IoStutters(n)
    BY <1>2, <2>1, <2>2 DEF Call, Calls, ProcessResponse, IoCompletes, IoStutters
  <2>3. CASE UNCHANGED callVars
    BY <2>1, <2>3 DEF callVars, IoStutters
  <2> QED
    BY <1>5, <2>2, <2>3
       DEF GraphIdle, RegisterTransport, Startup, InitClients, InitNodes, InitGraphs,
           StartServer, Terminated, Hanging, vars
<1>6. CASE Echo
  BY <1>1, <1>6, FinishedSteps DEF Echo, callVars, IoStutters
<1>7. ASSUME NEW m \in Node, ServiceStep(m)
      PROVE  IoStep(n)
  <2>1. CASE DoCpu(m)
    BY <1>1, <2>1, FinishedSteps DEF DoCpu, IoStutters
  <2>2. CASE Threads(m)
    <3>1. UNCHANGED callVars
      BY <2>2 DEF Threads
    <3> QED BY <1>1, <2>2, <3>1, FinishedSteps DEF callVars, IoStutters
  <2>3. CASE m \in Rpc /\ (RefusedNotify(m) \/ CallbackNotify(m))
    <3>1. /\ m \in settled /\ settled' = settled /\ returned' = returned
          /\ Run!RunAndNotify(m) \/ Run!IoCallback(m)
      BY <1>2, <2>3 DEF RefusedNotify, CallbackNotify
    <3> QED BY <1>1, <1>3, <2>3, <3>1, FinishedSteps DEF IoNotifies, IoStutters
  <2>4. CASE m \in Rpc /\ ReturnIo(m)
    <3>1. Run!Finished' = Run!Finished
      BY <1>1, <1>3, <2>4, FinishedSteps DEF ReturnIo, graphVars, Run!Finished
    <3> QED BY <1>2, <2>4, <3>1 DEF ReturnIo, IoReturns, IoStutters
  <2> QED BY <1>7, <2>1, <2>2, <2>3, <2>4 DEF ServiceStep
<1> QED BY <1>4, <1>5, <1>6, <1>7, NextCases

(***************************************************************************)
(* BrpcService and HttpService keep the contract of an io node: whichever  *)
(* of do_service and its callback is faster, refused or answered, the      *)
(* outputs are notified at most once and after the context is final.       *)
(***************************************************************************)
THEOREM ServicesImplementIoNodeCorrect == Spec => ServicesImplementIoNode
<1>1. Init => \A n \in Rpc : Io(n)!Init
  <2>1. Rpc \subseteq Node
    BY ServerAssumption DEF ServerAssumption
  <2> QED BY <2>1 DEF Init, Run!Init, Io!Init
<1>2. ServicesInv /\ ServicesInv' /\ [Next]_vars =>
        \A n \in Rpc : [Io(n)!Next]_(Io(n)!ioVars)
  <2> SUFFICES ASSUME ServicesInv, ServicesInv', [Next]_vars, NEW n \in Rpc
               PROVE  [Io(n)!Next]_(Io(n)!ioVars)
    OBVIOUS
  <2>1. IoStep(n)
    BY NextIoStep
  <2>2. returned \in [Rpc -> BOOLEAN] /\ returned' \in [Rpc -> BOOLEAN]
    BY DEF ServicesInv, ContextsInv, TypeOK
  <2> QED BY <2>1, <2>2, IoStepMaps
<1>3. Spec => []ServicesInv
  BY InitServices, NextServices, PTL DEF Spec
<1> QED BY <1>1, <1>2, <1>3, PTL DEF Spec, ServicesImplementIoNode

-----------------------------------------------------------------------------
(***************************************************************************)
(* How far do_service and the callback of an rpc node are tells where its  *)
(* thread stands.  An unanswered call of a node that waits is still to be  *)
(* answered, or its callback was dropped by the default call_rpc_method.   *)
(***************************************************************************)
CallsInv ==
  \A n \in Rpc :
    /\ call[n] = "none" => pc[n] \in {"idle", "spawned", "lost", "run"} /\ ~returned[n]
    /\ call[n] = "refused" => pc[n] = "run" /\ ~returned[n]
    /\ call[n] \in {"mute", "sent", "processed"} =>
         /\ downstream[n] \in downstream_map
         /\ returned[n] => pc[n] = "wait"
         /\ ~returned[n] => pc[n] = "run"
    /\ call[n] = "mute" => n \notin overrides
    /\ call[n] = "over" => pc[n] \in {"notify", "done"}

\* The nodes that Echo and the threads between the services move.
Moved(k) ==
  \/ pc'[k] = pc[k]
  \/ pc[k] \in {"idle", "spawned"} /\ pc'[k] \in {"spawned", "lost", "run"}
  \/ pc[k] = "notify" /\ pc'[k] \in {"notify", "done"}

LEMMA ThreadsMove ==
  ASSUME Run!TypeOK, Run!HeldByOneThread,
         Run!RunGraph \/ \E n \in Node : Threads(n)
  PROVE  \A k \in Node : Moved(k)
<1>1. CASE Run!RunGraph
  BY <1>1 DEF Run!RunGraph, Run!TypeOK, Moved
<1>2. ASSUME NEW n \in Node, Run!BFunc(n) \/ Run!NotifyWaiting(n)
      PROVE  \A k \in Node : Moved(k)
  BY <1>2 DEF Run!BFunc, Run!NotifyWaiting, Run!TypeOK, Moved
<1>3. ASSUME NEW n \in Node, Run!NotifyReady(n) \/ Run!FinishNotify(n)
      PROVE  \A k \in Node : Moved(k)
  <2>1. last_ready_node[n] # NoNode =>
          last_ready_node[n] \in Node /\ pc[last_ready_node[n]] = "idle"
    BY DEF Run!HeldByOneThread, Run!TypeOK
  <2>2. pc[n] = "notify" /\ pc'[n] \in {"notify", "done"}
    BY <1>3, <2>1 DEF Run!NotifyReady, Run!FinishNotify, Run!TypeOK
  <2>3. \A k \in Node \ {n} : pc'[k] = pc[k] \/
          (pc[k] = "idle" /\ pc'[k] \in {"spawned", "lost", "run"})
    BY <1>3, <2>1 DEF Run!NotifyReady, Run!FinishNotify, Run!SpawnOutcomes, Run!TypeOK
  <2> QED BY <2>2, <2>3 DEF Moved
<1> QED BY <1>1, <1>2, <1>3 DEF Threads

LEMMA InitCalls == Init => CallsInv
<1>1. Rpc \subseteq Node
  BY ServerAssumption DEF ServerAssumption
<1> QED BY <1>1 DEF Init, Run!Init, CallsInv

\* Steps that leave the calls alone.
LEMMA CallsKept ==
  ASSUME CallsInv, UNCHANGED <<call, returned, downstream, overrides>>,
         downstream_map \subseteq downstream_map', \A n \in Rpc : Moved(n)
  PROVE  CallsInv'
BY DEF CallsInv, Moved

LEMMA NextCalls ==
  ASSUME ServicesInv, CallsInv, [Next]_vars
  PROVE  CallsInv'
<1>1. Run!TypeOK /\ Run!HeldByOneThread
  BY ReadinessGives DEF ServicesInv
<1>2. /\ call \in [Rpc -> {"none", "refused", "mute", "sent", "processed", "over"}]
      /\ returned \in [Rpc -> BOOLEAN]
      /\ pc \in [Node -> {"idle", "spawned", "run", "wait", "notify", "done", "lost"}]
  BY DEF ServicesInv, ContextsInv, TypeOK, Run!TypeOK
<1>3. Rpc \subseteq Node
  BY ServerAssumption DEF ServerAssumption
<1>4. CASE UNCHANGED vars
  BY <1>4, CallsKept DEF vars, graphVars, confVars, callVars, Moved
<1>5. CASE GraphIdle
  <2>1. pc' = pc
    BY <1>5, GraphIdleKeeps DEF graphVars
  <2>2. ASSUME NEW m \in Rpc, Call(m)
        PROVE  CallsInv'
    <3>1. /\ pc[m] = "run" /\ call[m] = "none" /\ ~returned[m]
          /\ call' = [call EXCEPT ![m] = Calls(m)]
          /\ UNCHANGED <<pc, returned, downstream, overrides, downstream_map>>
      BY <2>1, <2>2 DEF Call, confVars, CallsInv
    <3>2. /\ Calls(m) \in {"refused", "mute", "sent"}
          /\ Calls(m) # "refused" => downstream[m] \in downstream_map
          /\ Calls(m) = "mute" => m \notin overrides
      BY DEF Calls
    <3> QED BY <1>2, <3>1, <3>2 DEF CallsInv
  <2>3. ASSUME NEW m \in Rpc, ProcessResponse(m)
        PROVE  CallsInv'
    <3>1. /\ call[m] = "sent" /\ call' = [call EXCEPT ![m] = "processed"]
          /\ UNCHANGED <<pc, returned, downstream, overrides, downstream_map>>
      BY <2>1, <2>3 DEF ProcessResponse, confVars
    <3> QED BY <1>2, <3>1 DEF CallsInv
  <2>4. CASE \/ \E t \in Transport : RegisterTransport(t)
             \/ Startup \/ Terminated \/ Hanging
    <3>1. /\ UNCHANGED <<call, returned, downstream, overrides>>
          /\ downstream_map \subseteq downstream_map'
      BY <2>4 DEF RegisterTransport, Startup, InitClients, InitNodes, InitGraphs,
                  StartServer, Terminated, Hanging, vars, confVars, callVars
    <3> QED BY <2>1, <3>1, CallsKept DEF Moved
  <2> QED BY <1>5, <2>2, <2>3, <2>4 DEF GraphIdle
<1>6. CASE Echo \/ \E m \in Node : Threads(m)
  <2>1. \A n \in Rpc : Moved(n)
    BY <1>1, <1>3, <1>6, ThreadsMove DEF Echo
  <2>2. UNCHANGED <<call, returned, downstream, overrides, downstream_map>>
    BY <1>6 DEF Echo, Threads, confVars, callVars
  <2> QED BY <2>1, <2>2, CallsKept
<1>7. ASSUME NEW m \in Node, DoCpu(m)
      PROVE  CallsInv'
  <2>1. /\ \A n \in Rpc : pc'[n] = pc[n]
        /\ UNCHANGED <<call, returned, downstream, overrides, downstream_map>>
    BY <1>2, <1>3, <1>7 DEF DoCpu, Run!RunAndNotify, Run!EnterNotify, confVars
  <2> QED BY <2>1, CallsKept DEF Moved
<1>8. ASSUME NEW m \in Rpc, RefusedNotify(m) \/ CallbackNotify(m)
      PROVE  CallsInv'
  <2>1. /\ pc' = [pc EXCEPT ![m] = "notify"] /\ call' = [call EXCEPT ![m] = "over"]
        /\ UNCHANGED <<returned, downstream, overrides, downstream_map>>
    BY <1>8 DEF RefusedNotify, CallbackNotify, Run!RunAndNotify, Run!IoCallback,
                Run!EnterNotify, confVars
  <2> QED BY <1>2, <1>3, <2>1 DEF CallsInv
<1>9. ASSUME NEW m \in Rpc, ReturnIo(m)
      PROVE  CallsInv'
  <2>1. /\ ~returned[m] /\ returned' = [returned EXCEPT ![m] = TRUE]
        /\ call[m] \in {"mute", "sent", "processed", "over"}
        /\ UNCHANGED <<call, downstream, overrides, downstream_map>>
        /\ \/ pc[m] = "run" /\ pc' = [pc EXCEPT ![m] = "wait"]
           \/ pc[m] # "run" /\ pc' = pc
    BY <1>9 DEF ReturnIo, Run!IssueIo, graphVars, confVars
  <2> QED BY <1>2, <1>3, <2>1 DEF CallsInv
<1> QED BY <1>4, <1>5, <1>6, <1>7, <1>8, <1>9, NextCases DEF ServiceStep

\* What ReadinessInv says of a graph in which nobody notifies.
LEMMA StarvedFacts ==
  ASSUME Engine!ReadinessInv, pc[Root] # "idle", \A k \in Node : pc[k] # "notify",
         NEW n \in Node, pc[n] = "idle"
  PROVE  \E p \in Node : n \in Children(out_nodes, p) /\ pc[p] # "done"
<1>1. /\ out_nodes \in [Node -> Seq(Node)] /\ NoNode \notin Node
      /\ last_ready_node \in [Node -> Node \cup {NoNode}]
  BY RunAssumption, ReadinessGives DEF RunAssumption, Run!TypeOK, Run!WellFormed
<1>2. ~Engine!Held(n)
  BY <1>1 DEF Engine!ReadinessInv, Engine!HeldByOneThread, Engine!Held
<1>3. Engine!Undelivered(n) # {}
  BY <1>2 DEF Engine!ReadinessInv, Engine!DeliveredIsStarted
<1> QED
  BY <1>1, <1>3
     DEF Engine!Undelivered, Engine!Delivered, Engine!Parents, Engine!Children, Children

\* What depends on a silent node is silent.
LEMMA SilentChild ==
  ASSUME out_nodes \in [Node -> Seq(Node)], NEW p \in Node, Silent(p),
         NEW n \in Children(out_nodes, p)
  PROVE  Silent(n)
<1>1. n \in Node
  BY DEF Children
<1>2. PICK m \in Node : p \in Reachable(out_nodes, m) /\ (pc[m] = "lost" \/ Mute(m))
  BY DEF Silent
<1>3. n \in Reachable(out_nodes, m)
  BY <1>1, <1>2 DEF Reachable, Closed
<1> QED BY <1>2, <1>3 DEF Silent

(***************************************************************************)
(* When nothing of a request moves any more, what has not run its course   *)
(* is below a lost node or one whose callback was dropped: a refused       *)
(* channel, a failed call and any order of do_service and its callback     *)
(* leave nobody behind.                                                    *)
(***************************************************************************)
THEOREM StopsOnlyBelowSilentCorrect == Spec => []StopsOnlyBelowSilent
<1>1. ServicesInv /\ CallsInv => StopsOnlyBelowSilent
  <2> SUFFICES ASSUME ServicesInv, CallsInv, pc[Root] # "idle", AtRest
               PROVE  \A n \in Node : pc[n] = "done" \/ Silent(n)
    BY DEF StopsOnlyBelowSilent
  <2> DEFINE S == {n \in Node : pc[n] # "done" /\ ~Silent(n)}
  <2>1. /\ out_nodes \in [Node -> Seq(Node)]
        /\ \A T \in SUBSET Node : T # {} =>
             \E n \in T : \A p \in T : n \notin Children(out_nodes, p)
    <3>1. out_nodes \in [Node -> Seq(Node)] /\ Run!AcyclicOn(out_nodes, Node)
      BY ReadinessGives DEF ServicesInv, Run!TypeOK, Run!WellFormed
    <3> QED BY <3>1 DEF Run!AcyclicOn, Run!Parents, Run!Children, Children
  <2>2. ASSUME NEW n \in Node PROVE n \in Reachable(out_nodes, n)
    BY <2>1 DEF Reachable
  <2>3. \A n \in Node : pc[n] # "notify"
    BY DEF AtRest
  <2>4. ASSUME NEW n \in Node PROVE pc[n] \in {"idle", "done", "lost"} \/ Mute(n)
    <3> SUFFICES ASSUME n \in Rpc, returned[n], pc[n] \in {"run", "wait"},
                        call[n] \notin {"sent", "processed"}
                 PROVE  Mute(n)
      BY DEF AtRest
    <3>1. call[n] = "mute"
      BY DEF CallsInv, ServicesInv, ContextsInv, TypeOK
    <3> QED BY <3>1 DEF CallsInv, Mute
  <2>5. ASSUME NEW n \in S PROVE \E p \in S : n \in Children(out_nodes, p)
    <3>1. pc[n] = "idle"
      BY <2>2, <2>4 DEF Silent
    <3>2. PICK p \in Node : n \in Children(out_nodes, p) /\ pc[p] # "done"
      BY <2>3, <3>1, StarvedFacts DEF ServicesInv
    <3>3. ~Silent(p)
      BY <2>1, <3>2, SilentChild
    <3> QED BY <3>2, <3>3
  <2> HIDE DEF S
  <2>6. S = {}
    <3> SUFFICES ASSUME S # {} PROVE FALSE
      OBVIOUS
    <3>1. S \in SUBSET Node
      BY DEF S
    <3> QED BY <2>1, <2>5, <3>1
  <2> QED BY <2>6 DEF S
<1>2. Spec => []ServicesInv
  BY InitServices, NextServices, PTL DEF Spec
<1>3. ServicesInv /\ CallsInv /\ [Next]_vars => CallsInv'
  BY NextCalls
<1> QED BY <1>1, <1>2, <1>3, InitCalls, PTL DEF Spec
=============================================================================
