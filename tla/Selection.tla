------------------------------ MODULE Selection ------------------------------
(***************************************************************************)
(* Python's [x for x in s if ...]: the elements of a sequence at chosen    *)
(* indices, in their order, written so that facts about it can be proved.  *)
(***************************************************************************)
EXTENDS Integers, Sequences, FiniteSets

(* The k-th member of a finite set of numbers, in increasing order. *)
Nth(I, k) == CHOOSE i \in I : Cardinality({j \in I : j <= i}) = k

Subsequence(s, I) == [k \in 1 .. Cardinality(I) |-> s[Nth(I, k)]]
=============================================================================
