--------------------------- MODULE MCLibcoreAccess ---------------------------
(***************************************************************************)
(* The instance of LibcoreAccess that is checked.                          *)
(***************************************************************************)
EXTENDS LibcoreAccess, TLC

CONSTANTS j1, j2, j3, i1, i2, i3, f1, f2, f3

MCCallers == {j1, j2, j3}
MCItems == {i1, i2, i3}
MCFlushes == {f1, f2, f3}

Symmetry == Permutations(MCCallers) \cup Permutations(MCItems) \cup Permutations(MCFlushes)
=============================================================================
