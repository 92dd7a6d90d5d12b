---------------------------- MODULE MCApiHandle ----------------------------
(* ApiHandle with two concurrent calls of user commands and jobs. *)
EXTENDS ApiHandle

CONSTANTS c1, c2

=============================================================================
