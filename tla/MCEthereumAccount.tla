------------------------- MODULE MCEthereumAccount -------------------------
(***************************************************************************)
(* An instance of EthereumAccount: the address has sent one transaction,   *)
(* the user sends one that transfers the token, may replace it by one that *)
(* does not, and sends another one; one is received.                       *)
(***************************************************************************)
EXTENDS EthereumAccount

CONSTANTS first, second, replacement, third, received

MCTxs == {first, second, replacement, third, received}

MCSent == MCTxs \ {received}

MCHere == {second, replacement, third}

MCTokenTxs == {first, second}

MCNonce == [t \in MCTxs |-> CASE t = first -> 0
                              [] t = third -> 2
                              [] t = received -> 7
                              [] OTHER -> 1]

MCPast == <<first>>

Setting(overlap, times, sends) ==
  [overlap |-> overlap, reorgs |-> times, sends |-> sends]

\* Syncs that overlap, a chain that reorganises itself, and a replacement.
MCSettings ==
  {Setting(TRUE, 0, {second, third}), Setting(FALSE, 1, {second, third}),
   Setting(FALSE, 0, MCHere)}

=============================================================================
