------------------------------- MODULE Places -------------------------------
(***************************************************************************)
(* Places in a sequence: the rank of one among others, and all of them in  *)
(* order.                                                                  *)
(***************************************************************************)
EXTENDS Naturals, FiniteSets

Rank(S, x) == Cardinality({y \in S : y <= x})

\* The members of a finite set of numbers, least first.
InOrder(S) == [k \in 1 .. Cardinality(S) |-> CHOOSE x \in S : Rank(S, x) = k]
=============================================================================
