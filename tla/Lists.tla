-------------------------------- MODULE Lists --------------------------------
(***************************************************************************)
(* Lists as the documentation programs use them. What is taken from a list *)
(* is named by a set of items instead of a test, so that facts about it    *)
(* can be stated for every list and every set.                             *)
(***************************************************************************)
EXTENDS Naturals, Sequences

\* [x for x in list if x in S]: the items of a list that are in S, in order.
Select(list, S) ==
  LET from[n \in 0 .. Len(list)] ==
        IF n = 0 THEN <<>>
        ELSE IF list[n] \in S THEN Append(from[n - 1], list[n])
        ELSE from[n - 1]
  IN  from[Len(list)]

=============================================================================
