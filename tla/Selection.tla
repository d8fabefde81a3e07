----------------------------- MODULE Selection -----------------------------
(***************************************************************************)
(* Filters and sums of sequences as recursive functions on their prefixes, *)
(* so that the invariants that use them can be proved.                     *)
(***************************************************************************)
EXTENDS Integers, Sequences

\* The elements of seq that are in T, in their order.
Select(seq, T) ==
  LET kept[n \in 0..Len(seq)] ==
        IF n = 0 THEN <<>>
        ELSE IF seq[n] \in T THEN Append(kept[n - 1], seq[n]) ELSE kept[n - 1]
  IN kept[Len(seq)]

\* The sum of a sequence of numbers.
Total(seq) ==
  LET sum[n \in 0..Len(seq)] == IF n = 0 THEN 0 ELSE sum[n - 1] + seq[n]
  IN sum[Len(seq)]
=============================================================================
