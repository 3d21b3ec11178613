------------------------------ MODULE MCSweep ------------------------------
EXTENDS Sweep

CONSTANTS p2, builder, prebuilt

(* Each pod has a prefix of its own.                                       *)
MCPrefixOf == [p \in Pods |-> IF p = p2 THEN prebuilt ELSE builder]

(* Absent, a filter that every uptime passes, and one beyond the delays.   *)
MCOlderThans == {NotGiven, 0, 3}

=============================================================================
