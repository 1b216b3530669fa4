------------------------------ MODULE MCBeaconListing ------------------------------
(* Instances of BeaconListing for TLC. *)
EXTENDS BeaconListing

(* UUIDs, in the order in which memcmp has them. *)
TwoDevices == 1..2

=============================================================================
