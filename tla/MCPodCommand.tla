---------------------------- MODULE MCPodCommand ----------------------------
(* No volume, the right one, one elsewhere, and two of the same name with  *)
(* the right one last, among others.                                       *)
EXTENDS PodCommand

Right == [named |-> TRUE, here |-> TRUE]
Elsewhere == [named |-> TRUE, here |-> FALSE]
Other == [named |-> FALSE, here |-> TRUE]

MCListings == {<<>>, <<Other, Right>>, <<Other, Elsewhere>>, <<Elsewhere, Right>>}
=============================================================================
