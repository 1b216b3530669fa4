---------------------------------- MODULE Devices ----------------------------------
(* The unprovisioned devices around the gateway, by UUID.  A UUID is a positive   *)
(* number, ordered as util_uuid_cmp (memcmp) orders the 16 bytes.                *)
EXTENDS Integers

CONSTANT Uuid

ASSUME UuidIsPos == Uuid \subseteq Nat \ {0}

=============================================================================
