---------------------------- MODULE SequenceSums ----------------------------
(***************************************************************************)
(* The sum of a sequence of numbers, as the loops of the code compute it.  *)
(* It is written as a recursive function, and not with a fold of the       *)
(* community modules, so that SequenceSumsProofs can prove what it yields. *)
(***************************************************************************)
EXTENDS Integers, Sequences

\* The partial sums: PartialSums(s, n)[i] adds the first i elements of s.
PartialSums(s, n) ==
    LET sum[i \in 0..n] == IF i = 0 THEN 0 ELSE sum[i - 1] + s[i] IN sum

SeqSum(s) == PartialSums(s, Len(s))[Len(s)]
=============================================================================
