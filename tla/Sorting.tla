------------------------------ MODULE Sorting ------------------------------
(***************************************************************************)
(* A finite set in the order of a relation, as a comparator that is never  *)
(* zero on distinct elements sorts it.                                     *)
(***************************************************************************)
EXTENDS Integers, FiniteSets

\* The elements of S, each behind those that are before it.
InOrder(S, before) ==
  [n \in 1..Cardinality(S) |->
     CHOOSE x \in S : Cardinality({y \in S : <<y, x>> \in before}) = n - 1]
=============================================================================
