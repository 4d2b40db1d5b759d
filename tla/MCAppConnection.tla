--------------------------- MODULE MCAppConnection ---------------------------
(***************************************************************************)
(* The instances of AppConnection that are checked.  All delays are those  *)
(* of the code, in seconds, but the timeout of the polling, which is cut.  *)
(***************************************************************************)
EXTENDS AppConnection

CONSTANTS d1, d2

MCDevices == {d1, d2}

\* One device and three moves of its user; two devices and one move; one move and commands
\* and installations that may fail, with and without an address to ask for.
MCSettings ==
  {[devices |-> {d1}, faults |-> FALSE, derives |-> TRUE, moves |-> 3],
   [devices |-> {d1, d2}, faults |-> FALSE, derives |-> TRUE, moves |-> 1],
   [devices |-> {d1}, faults |-> TRUE, derives |-> TRUE, moves |-> 1],
   [devices |-> {d1}, faults |-> TRUE, derives |-> FALSE, moves |-> 1]}
=============================================================================
