------------------------------- MODULE IoNode -------------------------------
(***************************************************************************)
(* What Node::run expects of a node whose type() is not "cpu"              *)
(* (frame/graph.cpp:19-23): the node itself calls                          *)
(* run_output_nodes_if_ready, at most once, when its service context is    *)
(* complete, before or after its do_service returns.  GraphRun's pc of     *)
(* such a node is "run" while outputs = 0 and ~returned, "wait" while      *)
(* outputs = 0 and returned, and "notify" from the call on; so the steps   *)
(* below are its IssueIo, RunAndNotify and IoCallback.                     *)
(***************************************************************************)
EXTENDS Integers

VARIABLES returned,   \* do_service has returned
          complete,   \* nothing will change the node's service context any more
          outputs     \* calls of run_output_nodes_if_ready

ioVars == <<returned, complete, outputs>>

Init == ~returned /\ ~complete /\ outputs = 0

Return ==
  /\ ~returned
  /\ returned' = TRUE
  /\ UNCHANGED <<complete, outputs>>

Complete ==
  /\ ~complete
  /\ complete' = TRUE
  /\ UNCHANGED <<returned, outputs>>

Notify ==
  /\ complete
  /\ outputs = 0
  /\ outputs' = 1
  /\ UNCHANGED <<returned, complete>>

Next == Return \/ Complete \/ Notify

Spec == Init /\ [][Next]_ioVars
=============================================================================
