----------------------------- MODULE MCService -----------------------------
(* The process over two trading days and two boots, with three calls. *)
EXTENDS Service

CONSTANTS c1, c2, c3

=============================================================================
