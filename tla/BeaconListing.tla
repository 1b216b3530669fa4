------------------------------- MODULE BeaconListing -------------------------------
(***************************************************************************)
(* A reader that walks the beacon list by index while the list changes:    *)
(* the `beacon list' command of the shell (src/src/cli.c), or the          *)
(* beacon_list event for the cloud (src/src/codec.c); their loops are the  *)
(* same.                                                                   *)
(***************************************************************************)
EXTENDS BeaconList

VARIABLES
    rd,     \* index the reader is at; 0: no listing in progress
    out,    \* UUIDs shown so far
    stayed  \* history: UUIDs listed without a break since the listing began

readVars == <<rd, out, stayed>>
vars == <<listVars, readVars>>

Init ==
    /\ ListInit
    /\ rd = 0
    /\ out = {}
    /\ stayed = {}

ListStep ==
    /\ ListNext
    /\ stayed' = stayed \cap ListedUuids'
    /\ UNCHANGED <<rd, out>>

(* The reader's thread is preemptible and waits while the work queue runs. *)
ReadStarts ==
    /\ scan = 0
    /\ rd = 0
    /\ rd' = 1
    /\ out' = {}
    /\ stayed' = ListedUuids
    /\ UNCHANGED listVars

(* One turn of the loop: show the entry at the index, go to the next index. *)
ReadNext ==
    /\ scan = 0
    /\ rd > 0
    /\ Active(rd)
    /\ out' = out \cup {list[rd].uuid}
    /\ rd' = rd + 1
    /\ UNCHANGED <<listVars, stayed>>

(* btmesh_get_beacon_uuid returns NULL: the index is past the tail. *)
ReadEnds ==
    /\ scan = 0
    /\ rd > 0
    /\ ~Active(rd)
    /\ rd' = 0
    /\ UNCHANGED <<listVars, out, stayed>>

Next == ListStep \/ ReadStarts \/ ReadNext \/ ReadEnds

Spec == Init /\ [][Next]_vars

(* ListingComplete: when a listing ends it has shown every beacon that was      *)
(* active from its start to its end ("List all active unprovisioned device    *)
(* beacons").                                                               *)
ListingComplete == [][rd > 0 /\ rd' = 0 => stayed \subseteq out]_vars

=============================================================================
