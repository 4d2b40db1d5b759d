--------------------------- MODULE MCCountervalues ---------------------------
(***************************************************************************)
(* The instance of Countervalues that is checked: one pair, days of two    *)
(* hours; the run begins in the second day and ends in the third.          *)
(***************************************************************************)
EXTENDS Countervalues

CONSTANT p1

MCPairs == {p1}
MCStarts == {0, 3}
MCBounds ==
  {[changes |-> 2, wipes |-> 0, restarts |-> 0, last |-> 4, today |-> TRUE, fills |-> {TRUE}],
   [changes |-> 1, wipes |-> 1, restarts |-> 0, last |-> 3, today |-> TRUE, fills |-> {TRUE}],
   [changes |-> 0, wipes |-> 0, restarts |-> 1, last |-> 5, today |-> FALSE, fills |-> {TRUE}],
   [changes |-> 1, wipes |-> 0, restarts |-> 1, last |-> 3, today |-> TRUE,
    fills |-> {TRUE, FALSE}]}
=============================================================================
