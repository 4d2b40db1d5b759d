------------------------ MODULE MCBridgeTransaction ------------------------
(***************************************************************************)
(* An instance of BridgeTransaction: two accounts and one that is broken,  *)
(* and one edit beside the blank one, which is what it takes for an answer *)
(* to be about another account or another edit.                            *)
(***************************************************************************)
EXTENDS BridgeTransaction

CONSTANTS bitcoin, ethereum, unsupported, blank, amount

MCAccounts == {bitcoin, ethereum, unsupported}

MCSettings == [late : BOOLEAN, restores : BOOLEAN] \ {[late |-> TRUE, restores |-> TRUE]}

=============================================================================
