---------------------------------- MODULE Sums ----------------------------------
(***************************************************************************)
(* What a loop adds up: a recursive function in the place of a fold, since *)
(* it can be reasoned about.                                               *)
(***************************************************************************)
EXTENDS Naturals, Sequences

Total(w) ==
  LET sum[i \in 0..Len(w)] == IF i = 0 THEN 0 ELSE sum[i - 1] + w[i]
  IN  sum[Len(w)]
==============================================================================
