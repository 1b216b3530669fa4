-------------------------------- MODULE MCGateway --------------------------------
(* An instance of Gateway for TLC. *)
EXTENDS Gateway

(* A node with the configuration server, another SIG and a vendor model, and with an *)
(* element that has no models.                                              *)
TwoElements == <<<<2, 1>>, <<0, 0>>>>

=============================================================================
