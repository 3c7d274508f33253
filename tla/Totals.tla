------------------------------- MODULE Totals -------------------------------
(***************************************************************************)
(* Sums of natural numbers, as the size of a set: no recursion, so that    *)
(* TotalsProofs can prove the laws of a sum that other proofs need.        *)
(***************************************************************************)
EXTENDS Integers, Sequences, FiniteSets

\* The units of f over S, numbered at each element, and the sum of f over S.
Units(f, S) == UNION {{x} \X (1..f[x]) : x \in S}
Total(f, S) == Cardinality(Units(f, S))

\* The sum of a sequence.
SeqTotal(s) == Total(s, DOMAIN s)

=============================================================================
