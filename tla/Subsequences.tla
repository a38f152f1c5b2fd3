----------------------------- MODULE Subsequences -----------------------------
(***************************************************************************)
(* The elements of a sequence at some of its positions, in their order:    *)
(* what filter leaves of an iterator.  SelectSeq and the folds say the     *)
(* same by recursion over the sequence; here the n-th element kept is the  *)
(* one at the position with n - 1 positions kept before it, so that it can *)
(* be reasoned about without an induction.                                 *)
(***************************************************************************)
EXTENDS Integers, Sequences, FiniteSets

Rank(I, i) == Cardinality({j \in I : j <= i})

(* The n-th number of a set, in ascending order.                           *)
Nth(I, n) == CHOOSE i \in I : Rank(I, i) = n

Ascending(I) == [n \in 1 .. Cardinality(I) |-> Nth(I, n)]

Select(s, I) == [n \in 1 .. Cardinality(I) |-> s[Nth(I, n)]]

=============================================================================
