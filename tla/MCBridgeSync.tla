---------------------------- MODULE MCBridgeSync ----------------------------
(***************************************************************************)
(* An instance of BridgeSync: the priority of the background, the one that *)
(* is its opposite, and the one of the pending operations.                 *)
(***************************************************************************)
EXTENDS BridgeSync

CONSTANTS a1, a2

MCTwo == {a1, a2}

MCOnePending == {a1}

MCPriorities == {-1, 1, 20}

=============================================================================
