-------------------------------- MODULE BeaconList --------------------------------
(***************************************************************************)
(* The list of unprovisioned device beacons (src/src/btmesh.c).            *)
(*                                                                         *)
(* beacon_list is kept sorted by UUID; every entry owns one of the         *)
(* MAX_BEACON kernel timers, and a timer that expires queues beacon_work,  *)
(* which scans the list for expired entries.  beacon_recv runs in the      *)
(* Bluetooth thread and beacon_remove_inactive in the system work queue;   *)
(* both threads are cooperative, so neither interrupts the other, but      *)
(* timers expire (in interrupt context) at any point of the scan.          *)
(*                                                                         *)
(* The OOB information, the URI hash and the printed UUID of an entry are  *)
(* left out.                                                               *)
(***************************************************************************)
EXTENDS Devices, Sequences

CONSTANT
    MaxBeacon  \* MAX_BEACON: length of beacon_list and of beacon_timer_list

ASSUME MaxBeaconIsPos == MaxBeacon \in Nat \ {0}

VARIABLES
    list,     \* beacon_list up to beacon_tail
    owned,    \* timers whose user data is not NULL
    running,  \* timers that are started and have not expired
    expired,  \* timers whose status is above 0
    pending,  \* beacon_work is queued
    scan,     \* position of beacon_remove_inactive in the list; 0: not running
    silent    \* devices that have stopped beaconing for good

timerVars == <<owned, running, expired>>
listVars == <<list, timerVars, pending, scan, silent>>

Timer == 1..MaxBeacon
Entry == [uuid : Uuid, timer : Timer]

ListTypeOK ==
    /\ list \in Seq(Entry)
    /\ Len(list) <= MaxBeacon
    /\ owned \subseteq Timer
    /\ running \subseteq Timer
    /\ expired \subseteq Timer
    /\ pending \in BOOLEAN
    /\ scan \in 0..Len(list) + 1
    /\ silent \subseteq Uuid

ListInit ==
    /\ list = <<>>
    /\ owned = {}
    /\ running = {}
    /\ expired = {}
    /\ pending = FALSE
    /\ scan = 0
    /\ silent = {}

-----------------------------------------------------------------------------
(* btmesh_get_beacon_uuid(idx), with positions counted from 1. *)
Active(k) == k <= Len(list)
Listed(u) == \E i \in 1..Len(list) : list[i].uuid = u
ListedUuids == {list[i].uuid : i \in 1..Len(list)}

(* Mutation: a new entry goes to the end of the list. *)
Bug_IsLastPos(k, u) == k = Len(list) + 1

(* Where the loop of beacon_recv, going down from the tail and moving larger *)
(* entries up, leaves the new one.                                          *)
IsInsertPos(k, u) ==
    /\ k \in 1..Len(list) + 1
    /\ \A i \in k..Len(list) : u < list[i].uuid
    /\ k > 1 => ~(u < list[k - 1].uuid)

InsertedAt(k, e) ==
    [i \in 1..Len(list) + 1 |->
        IF i < k THEN list[i] ELSE IF i = k THEN e ELSE list[i - 1]]

RemovedAt(k) ==
    [i \in 1..Len(list) - 1 |-> IF i < k THEN list[i] ELSE list[i + 1]]

(* The first timer of beacon_timer_list that is free; the loop that looks for *)
(* it has no bound, so MaxBeacon + 1 stands for running off the array.       *)
IsFirstFree(t) ==
    /\ t \in 1..MaxBeacon + 1
    /\ t \notin owned
    /\ \A s \in 1..t - 1 : s \in owned

(* k_timer_start: the status is cleared and the timer runs again. *)
StartTimer(t) ==
    /\ running' = running \cup {t}
    /\ expired' = expired \ {t}

-----------------------------------------------------------------------------
(* beacon_recv drops the beacon: the list is full, or the UUID is blocked.   *)
(* BlockedList decides the latter; here it may happen at any time.          *)
RecvDropped(u) ==
    /\ scan = 0
    /\ u \notin silent
    /\ UNCHANGED listVars

(* beacon_recv of a listed UUID restarts the entry's timer. *)
RecvListed(u) ==
    /\ scan = 0
    /\ u \notin silent
    /\ Len(list) < MaxBeacon
    /\ \E i \in 1..Len(list) : list[i].uuid = u /\ StartTimer(list[i].timer)
    /\ UNCHANGED <<list, owned, pending, scan, silent>>

(* Mutation: a UUID that is listed already is entered again. *)
Bug_RecvNoLookup(u) ==
    /\ scan = 0
    /\ u \notin silent
    /\ Len(list) < MaxBeacon
    /\ \E k \in 1..Len(list) + 1, t \in 1..MaxBeacon + 1 :
        /\ IsInsertPos(k, u)
        /\ IsFirstFree(t)
        /\ list' = InsertedAt(k, [uuid |-> u, timer |-> t])
        /\ owned' = owned \cup {t}
        /\ StartTimer(t)
    /\ UNCHANGED <<pending, scan, silent>>

(* beacon_recv of a new UUID: sorted insertion, a free timer, its start. *)
RecvNew(u) ==
    /\ scan = 0
    /\ u \notin silent
    /\ Len(list) < MaxBeacon
    /\ ~Listed(u)
    /\ \E k \in 1..Len(list) + 1, t \in 1..MaxBeacon + 1 :
        /\ IsInsertPos(k, u)
        /\ IsFirstFree(t)
        /\ list' = InsertedAt(k, [uuid |-> u, timer |-> t])
        /\ owned' = owned \cup {t}
        /\ StartTimer(t)
    /\ UNCHANGED <<pending, scan, silent>>

-----------------------------------------------------------------------------
(* A timer expires; beacon_timer_handler submits beacon_work. *)
TimerExpires(t) ==
    /\ t \in running
    /\ running' = running \ {t}
    /\ expired' = expired \cup {t}
    /\ pending' = TRUE
    /\ UNCHANGED <<list, owned, scan, silent>>

(* The system work queue starts beacon_remove_inactive. *)
ScanStarts ==
    /\ pending
    /\ scan = 0
    /\ pending' = FALSE
    /\ scan' = 1
    /\ UNCHANGED <<list, timerVars, silent>>

(* Mutation: the timer of a removed entry keeps its user data. *)
Bug_RemoveKeepsTimer ==
    /\ scan \in 1..Len(list)
    /\ list[scan].timer \in expired
    /\ expired' = expired \ {list[scan].timer}
    /\ list' = RemovedAt(scan)
    /\ UNCHANGED <<owned, running, pending, scan, silent>>

(* Mutation: the scan moves on after a removal and skips the next entry. *)
Bug_RemoveSkipsNext ==
    /\ scan \in 1..Len(list)
    /\ list[scan].timer \in expired
    /\ expired' = expired \ {list[scan].timer}
    /\ owned' = owned \ {list[scan].timer}
    /\ list' = RemovedAt(scan)
    /\ scan' = scan + 1
    /\ UNCHANGED <<running, pending, silent>>

(* The entry at the scan's position has expired (k_timer_status_get also      *)
(* clears the status): its timer is freed and the rest of the list moves up. *)
ScanRemoves ==
    /\ scan \in 1..Len(list)
    /\ list[scan].timer \in expired
    /\ expired' = expired \ {list[scan].timer}
    /\ owned' = owned \ {list[scan].timer}
    /\ list' = RemovedAt(scan)
    /\ UNCHANGED <<running, pending, scan, silent>>

(* The entry has not expired: the scan goes on. *)
ScanKeeps ==
    /\ scan \in 1..Len(list)
    /\ list[scan].timer \notin expired
    /\ scan' = scan + 1
    /\ UNCHANGED <<list, timerVars, pending, silent>>

ScanEnds ==
    /\ scan = Len(list) + 1
    /\ scan' = 0
    /\ UNCHANGED <<list, timerVars, pending, silent>>

(* Environment: a device is switched off, leaves, or is provisioned. *)
FallsSilent(u) ==
    /\ u \notin silent
    /\ silent' = silent \cup {u}
    /\ UNCHANGED <<list, timerVars, pending, scan>>

ScanNext == ScanStarts \/ ScanRemoves \/ ScanKeeps \/ ScanEnds
RecvNext(u) == RecvDropped(u) \/ RecvListed(u) \/ RecvNew(u)

ListNext ==
    \/ \E u \in Uuid : RecvNext(u) \/ FallsSilent(u)
    \/ \E t \in Timer : TimerExpires(t)
    \/ ScanNext

ListSpec == ListInit /\ [][ListNext]_listVars

-----------------------------------------------------------------------------
(* ListSorted: beacon_list holds every UUID at most once and in increasing     *)
(* order, through insertions and removals in any order; `beacon list' and the *)
(* tab completion of the shell show it in this order.                        *)
ListSorted ==
    \A i, j \in 1..Len(list) : i < j => list[i].uuid < list[j].uuid

(* TimersMatch: the timers in use are exactly those of the listed beacons, one *)
(* each, and a free timer neither runs nor has a status left over from its   *)
(* last owner.                                                              *)
TimersMatch ==
    /\ owned = {list[i].timer : i \in 1..Len(list)}
    /\ \A i, j \in 1..Len(list) : list[i].timer = list[j].timer => i = j
    /\ running \cup expired \subseteq owned
    /\ running \cap expired = {}

(* FreeTimerFound: as long as the list is not full a free timer exists, which  *)
(* is what the unbounded search loop of beacon_recv relies on ("If the beacon *)
(* isn't full we will find a free timer").                                  *)
FreeTimerFound == Len(list) < MaxBeacon => \E t \in Timer : t \notin owned

(* NoneForgotten: every listed beacon is on its way out of the list: its timer *)
(* runs, or it has expired and beacon_work is queued or the scan has yet to  *)
(* reach it.                                                                *)
NoneForgotten ==
    \A i \in 1..Len(list) :
        \/ list[i].timer \in running
        \/ /\ list[i].timer \in expired
           /\ pending \/ scan \in 1..i

(* SilentForgotten: a device that stops beaconing disappears from the list and  *)
(* stays out of it.                                                         *)
SilentForgotten == \A u \in Uuid : [](u \in silent => <>[]~Listed(u))

=============================================================================
