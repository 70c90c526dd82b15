------------------------- MODULE MCDepreciationRuns -------------------------
(* Bounds for DepreciationRuns: a year is a number, the other sets are symmetric. *)
EXTENDS DepreciationRuns, TLC

Symmetry == Permutations(Runs) \cup Permutations(Requests)
=============================================================================
