------------------------------- MODULE Lists -------------------------------
(***************************************************************************)
(* Parts of lists, as recursive functions that the proof system can reason *)
(* about.                                                                  *)
(***************************************************************************)
EXTENDS Integers, Sequences, SequencesExt

\* The members of list that are in kept, in their order.
Keeping(list, kept) ==
  LET upTo[i \in 0..Len(list)] ==
        IF i = 0 THEN <<>>
        ELSE IF list[i] \in kept THEN Append(upTo[i - 1], list[i])
        ELSE upTo[i - 1]
  IN  upTo[Len(list)]

Without(list, gone) == Keeping(list, ToSet(list) \ gone)

\* The sum of the members of list at some places.
SumOver(list, places) ==
  LET upTo[i \in 0..Len(list)] ==
        IF i = 0 THEN 0 ELSE upTo[i - 1] + IF i \in places THEN list[i] ELSE 0
  IN  upTo[Len(list)]

=============================================================================
