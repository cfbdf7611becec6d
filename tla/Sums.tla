-------------------------------- MODULE Sums --------------------------------
(* Sums of sequences of numbers, as a recursive function of the position so
   that the lemmas of module Induction apply to them. *)
EXTENDS Integers, Sequences

\* The sum of the first n numbers of s.
SumTo(s, n) ==
  LET total[k \in 0..Len(s)] == IF k = 0 THEN 0 ELSE total[k - 1] + s[k]
  IN  total[n]

Sum(s) == SumTo(s, Len(s))
=============================================================================
