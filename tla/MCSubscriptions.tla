-------------------------- MODULE MCSubscriptions --------------------------
(* Subscriptions with two instruments and an account. *)
EXTENDS Subscriptions

CONSTANTS i1, i2, a1, a2

=============================================================================
