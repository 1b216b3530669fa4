---------------------------------- MODULE Beacons ----------------------------------
(***************************************************************************)
(* Beacon reception (BeaconList) against the shell's block and unblock     *)
(* commands (BlockedList).                                                 *)
(***************************************************************************)
EXTENDS BeaconList, BlockedList

vars == <<listVars, blockedVars>>

TypeOK == ListTypeOK /\ BlockedTypeOK

Init == ListInit /\ BlockedInit

-----------------------------------------------------------------------------
(* beacon_recv, complete.  Its conditions in their order: the list is full,   *)
(* the UUID is blocked, it is listed already, it is new.                     *)
BeaconRecv(u) ==
    /\ \/ /\ Len(list) = MaxBeacon \/ IsBlocked(u)
          /\ RecvDropped(u)
       \/ /\ ~IsBlocked(u)
          /\ RecvListed(u) \/ RecvNew(u)
    /\ UNCHANGED blockedVars

(* Time passes, devices stop, and beacon_remove_inactive runs. *)
ListStep ==
    /\ \/ \E u \in Uuid : FallsSilent(u)
       \/ \E t \in Timer : TimerExpires(t)
       \/ ScanNext
    /\ UNCHANGED blockedVars

(* The shell thread is preemptible and waits while the work queue runs. *)
ShellStep == scan = 0 /\ BlockedNext /\ UNCHANGED listVars

Next == (\E u \in Uuid : BeaconRecv(u)) \/ ListStep \/ ShellStep

Spec == Init /\ [][Next]_vars

(* Timers that run expire, and the system work queue gets its turn. *)
FairSpec ==
    /\ Spec
    /\ \A t \in Timer : WF_vars(TimerExpires(t) /\ ListStep)
    /\ WF_vars(ScanNext /\ ListStep)

-----------------------------------------------------------------------------
(* The UUID that btmesh_block_beacon has moved behind blocked_tail: from the     *)
(* first memcpy of its loop to blocked_tail++ this is the largest of the        *)
(* blocked UUIDs, if it is larger than the one that is entered.              *)
Displaced(u) ==
    /\ \/ sh.pc = "make_room" /\ sh.at <= btail
       \/ sh.pc = "grow"
    /\ u > sh.uuid
    /\ \A v \in blocked : v <= u

(* BlockedNotAdmitted: beacon_recv enters a UUID that the user has blocked and    *)
(* is not unblocking only while btmesh_block_beacon has it behind the tail.       *)
(* Every other blocked UUID is found at every moment, whichever entries the      *)
(* loops of btmesh_block_beacon and btmesh_unblock_beacon are moving.            *)
BlockedNotAdmitted ==
    [][\A u \in ListedUuids' \ ListedUuids : u \in blocked \ {sh.uuid} => Displaced(u)]_vars

=============================================================================
