--------------------------- MODULE MCAppsManager ---------------------------
(***************************************************************************)
(* An instance of AppsManager: two apps that need a third one, an app that *)
(* is not in the store and the one with the empty name.                    *)
(***************************************************************************)
EXTENDS AppsManager

CONSTANTS bitcoin, dogecoin, litecoin, unknown, unnamed

MCApps == {bitcoin, dogecoin, litecoin, unknown, unnamed}

MCAppByName == <<dogecoin, bitcoin, litecoin>>

MCDeps == [a \in {bitcoin, dogecoin, litecoin} |->
             IF a = bitcoin THEN <<>> ELSE <<bitcoin>>]

\* The device may hold anything whose dependencies it holds, and at most one
\* app that the store does not know.
MCInitials ==
  {S \in SUBSET MCApps : /\ {dogecoin, litecoin} \cap S # {} => bitcoin \in S
                         /\ ~({unknown, unnamed} \subseteq S)}

MCRestores == {<<>>, <<litecoin>>}

Setting(hook, overlap, mixed, faults) ==
  [hook |-> hook, overlap |-> overlap, mixed |-> mixed, faults |-> faults]

\* A user who waits, one who does not while anything goes wrong, and runAll.
MCSettings ==
  {Setting(TRUE, FALSE, FALSE, FALSE), Setting(TRUE, TRUE, TRUE, TRUE),
   Setting(FALSE, FALSE, FALSE, FALSE), Setting(FALSE, FALSE, TRUE, TRUE)}

=============================================================================
