--------------------------- MODULE MCChannelPools ---------------------------
(***************************************************************************)
(* ChannelPools with a cluster of two servers and three slots that moves   *)
(* slots (the marker is shown by one server), has two servers claim one    *)
(* slot before and after an epoch changes, loses a server, or has slots    *)
(* that nobody serves.                                                     *)
(***************************************************************************)
EXTENDS ChannelPools

Node(server, slots, epoch) ==
  [server |-> server, slots |-> slots, epoch |-> epoch, moving |-> FALSE]

MCTopologies ==
  {<<Node("a", {0}, 1), Node("b", {1, 2}, 2)>>,
   <<Node("a", {0}, 1), [Node("b", {1, 2}, 2) EXCEPT !.moving = TRUE]>>,
   <<Node("a", {0, 1}, 1), Node("b", {1, 2}, 2)>>,
   <<Node("a", {0, 1}, 3), Node("b", {1, 2}, 2)>>,
   <<Node("b", {0, 1}, 2)>>}
=============================================================================
