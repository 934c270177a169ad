----------------------------- MODULE MCWeights -----------------------------
(***************************************************************************)
(* Small instances of Weights.                                             *)
(***************************************************************************)
EXTENDS Weights, TLC

CONSTANTS q1, q2, q3

Symmetry == Permutations(Queries)
=============================================================================
