--------------------------- MODULE MCSchedulePlan ---------------------------
(* The plans of one user, on a few ids.                                       *)
EXTENDS SchedulePlan, TLC

Symmetry == Permutations(Sessions)
=============================================================================
