-------------------------- MODULE MCBitcoinSpending --------------------------
(***************************************************************************)
(* The instance of BitcoinSpending that is checked.                        *)
(***************************************************************************)
EXTENDS BitcoinSpending

\* Outputs that cost more than they are worth, that pay for themselves, and that are worth
\* a change of either policy.
Values == {60, 160, 700, 14000}

Mined(v) == [value |-> v, confirmed |-> TRUE, height |-> 1, rbf |-> FALSE]
Pending(v) == [value |-> v, confirmed |-> FALSE, height |-> 0, rbf |-> TRUE]

Few == UNION {[1..n -> {Mined(v) : v \in Values} \cup {Pending(v) : v \in {60, 700}}] : n \in 1..3}
Many == [1..4 -> {Mined(v) : v \in Values}]

\* The mode of the account, the kind of the recipient and the policy of the network.
Kinds ==
  {[mode |-> "legacy", recipient |-> "native", timestamped |-> TRUE,
    dustPolicy |-> "FIXED", dustThreshold |-> 10000],
   [mode |-> "native", recipient |-> "taproot", timestamped |-> FALSE,
    dustPolicy |-> "PER_KBYTE", dustThreshold |-> 3000],
   [mode |-> "native", recipient |-> "legacy", timestamped |-> FALSE,
    dustPolicy |-> "PER_KBYTE", dustThreshold |-> 3000]}

Made(lists, rates, pending, excluded, amounts, limit) ==
  [kind : Kinds, utxos : lists, strategy : {"DeepFirst", "Merge", "CoinSelect"},
   feePerByte : rates, pickUnconfirmedRBF : pending, excludeUTXOs : excluded, amount : amounts,
   TOTAL_TRIES : {limit}]

\* Just what 253 outputs to the recipient need, by what CoinSelect aims at.
Large == {<<Mined(v)>> : v \in {1273006, 1273682, 1275959}}

\* The search of four outputs ends before 50 tries; with 3 it may find nothing.
MCRequests ==
  Made(Few, {1}, BOOLEAN, {{}}, {UseAll, 100, 450, 600, 13000}, 50)
    \cup Made(Many, {3}, {FALSE}, {{}}, {UseAll, 450, 1200}, 50)
    \cup Made(Many, {1}, {FALSE}, {{}}, {UseAll, 1200}, 3)
    \cup Made(Few, {3}, {FALSE}, {{2}}, {UseAll, 0}, 50)
    \cup Made(Large, {1}, {FALSE}, {{}}, {1265000}, 50)
=============================================================================
