------------------------------ MODULE MCCaches ------------------------------
(* Three tasks at once and a clock of five steps, the time to live being two. *)
EXTENDS Caches, TLC

CONSTANTS a1, a2, a3

CallerSymmetry == Permutations(Callers)

=============================================================================
