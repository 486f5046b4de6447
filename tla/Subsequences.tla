---------------------------- MODULE Subsequences ----------------------------
(* What a query with a WHERE clause leaves of the rows it reads in order.   *)
(* This is SelectSeq by a set, without its recursion, so that the proofs    *)
(* can speak of the result.                                                 *)
EXTENDS Naturals, Sequences, FiniteSets

\* The k-th number in I.
Place(I, k) == CHOOSE i \in I : Cardinality({j \in I : j <= i}) = k

\* The members of s that are in S, in their order.
Filtered(s, S) ==
  LET I == {i \in 1..Len(s) : s[i] \in S}
  IN  [k \in 1..Cardinality(I) |-> s[Place(I, k)]]
=============================================================================
