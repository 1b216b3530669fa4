------------------------------ MODULE MCBeacons ------------------------------
(* Instances of Beacons for TLC. *)
EXTENDS Beacons

(* UUIDs, in the order in which memcmp has them. *)
ThreeDevices == 1..3

=============================================================================
