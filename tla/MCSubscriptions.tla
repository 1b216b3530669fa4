------------------------------ MODULE MCSubscriptions ------------------------------
(* The instance of Subscriptions that TLC checks. *)
EXTENDS Subscriptions

=============================================================================
