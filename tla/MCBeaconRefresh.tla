--------------------------- MODULE MCBeaconRefresh ---------------------------
(* An instance of BeaconRefresh for TLC. *)
EXTENDS BeaconRefresh

(* UUIDs, in the order in which memcmp has them. *)
TwoDevices == 1..2

=============================================================================
