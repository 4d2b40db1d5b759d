----------------------------- MODULE MCXpubSync -----------------------------
(***************************************************************************)
(* An instance of XpubSync: a payment, one that spends it and has change   *)
(* and an output to the same account, and one to an address of the next    *)
(* block of addresses; two transactions of an address fill a page.         *)
(***************************************************************************)
EXTENDS XpubSync

CONSTANTS receive, send, far, c1, c2, c3

MCTo == receive :> {<<0, 0>>} @@ send :> {<<0, 1>>, <<1, 0>>} @@ far :> {<<0, 2>>}

MCSpends ==
  receive :> {} @@ send :> {<<receive, <<0, 0>>>>} @@ far :> {}

MCSettings ==
  {[calls |-> 3, faults |-> FALSE, events |-> 3],
   [calls |-> 2, faults |-> FALSE, events |-> 4],
   [calls |-> 2, faults |-> TRUE, events |-> 3],
   [calls |-> 1, faults |-> TRUE, events |-> 3]}

=============================================================================
