----------------------------- MODULE MCDialogs -----------------------------
(* Two handlers at a time, three dialogs. *)
EXTENDS Dialogs, TLC

CONSTANTS t1, t2

TaskSymmetry == Permutations(Tasks)

=============================================================================
