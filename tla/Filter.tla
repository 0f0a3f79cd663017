------------------------------- MODULE Filter -------------------------------
(***************************************************************************)
(* Array.prototype.filter, as a recursive function: the folds of the       *)
(* community modules take operators, about which nothing can be proved.    *)
(***************************************************************************)
EXTENDS Naturals, Sequences

\* The elements of a list that are wanted, in their order.
Kept(list, wanted) ==
  LET kept[n \in 0 .. Len(list)] ==
        IF n = 0 THEN <<>>
        ELSE IF list[n] \in wanted THEN Append(kept[n - 1], list[n]) ELSE kept[n - 1]
  IN  kept[Len(list)]

=============================================================================
