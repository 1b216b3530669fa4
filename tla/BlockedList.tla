------------------------------- MODULE BlockedList -------------------------------
(***************************************************************************)
(* The list of blocked beacons (src/src/btmesh.c).                         *)
(*                                                                         *)
(* Only the shell thread changes it, one command at a time, but that       *)
(* thread is preemptible: between any two of its writes the Bluetooth      *)
(* thread may run beacon_recv and read the list.  Every memcpy of the      *)
(* shifting loops is therefore a step of its own.                          *)
(***************************************************************************)
EXTENDS Devices

CONSTANT
    MaxBlocked  \* BEACON_BLOCKED_SIZE

ASSUME MaxBlockedIsPos == MaxBlocked \in Nat \ {0}

VARIABLES
    blk,      \* blocked_list, the array
    btail,    \* blocked_tail, as a number of entries
    sh,       \* the shell thread: step, argument, and the slot it is at
    blocked   \* what is blocked, as the commands completed so far have it

blockedVars == <<blk, btail, sh, blocked>>

Slot == 1..MaxBlocked
ShIdle == [pc |-> "idle", uuid |-> 0, at |-> 0]
ShAt(p, u, k) == [pc |-> p, uuid |-> u, at |-> k]

BlockedTypeOK ==
    /\ blk \in [Slot -> Uuid \cup {0}]
    /\ btail \in 0..MaxBlocked
    /\ sh \in [pc : {"idle", "make_room", "grow", "close_gap"},
               uuid : Uuid \cup {0}, at : 0..MaxBlocked + 1]
    /\ blocked \subseteq Uuid

BlockedInit ==
    /\ blk = [i \in Slot |-> 0]
    /\ btail = 0
    /\ sh = ShIdle
    /\ blocked = {}

(* beacon_is_blocked *)
IsBlocked(u) == \E i \in 1..btail : blk[i] = u

-----------------------------------------------------------------------------
(* Mutation: the check for a full list is missing. *)
Bug_BlockWhenFull(u) ==
    /\ sh.pc = "idle"
    /\ ~IsBlocked(u)
    /\ sh' = ShAt("make_room", u, btail + 1)
    /\ UNCHANGED <<blk, btail, blocked>>

(* btmesh_block_beacon up to its loop; -ENOMEM when full, -EAGAIN when already *)
(* blocked, and then nothing changes.                                       *)
BlockStarts(u) ==
    /\ sh.pc = "idle"
    /\ btail < MaxBlocked
    /\ ~IsBlocked(u)
    /\ sh' = ShAt("make_room", u, btail + 1)
    /\ UNCHANGED <<blk, btail, blocked>>

(* Mutation: source and destination of the memcpy are swapped. *)
Bug_CopiesDown ==
    /\ sh.pc = "make_room"
    /\ sh.at > 1
    /\ sh.uuid < blk[sh.at - 1]
    /\ blk' = [blk EXCEPT ![sh.at - 1] = blk[sh.at]]
    /\ sh' = [sh EXCEPT !.at = sh.at - 1]
    /\ UNCHANGED <<btail, blocked>>

(* Larger UUIDs move one slot up, the last one into the slot past the tail. *)
BlockMakesRoom ==
    /\ sh.pc = "make_room"
    /\ sh.at > 1
    /\ sh.uuid < blk[sh.at - 1]
    /\ blk' = [blk EXCEPT ![sh.at] = blk[sh.at - 1]]
    /\ sh' = [sh EXCEPT !.at = sh.at - 1]
    /\ UNCHANGED <<btail, blocked>>

(* Mutation: the new UUID overwrites the entry before the free slot. *)
Bug_WriteOneLow ==
    /\ sh.pc = "make_room"
    /\ sh.at > 1 => ~(sh.uuid < blk[sh.at - 1])
    /\ blk' = [blk EXCEPT ![IF sh.at > 1 THEN sh.at - 1 ELSE 1] = sh.uuid]
    /\ sh' = ShAt("grow", sh.uuid, sh.at)
    /\ UNCHANGED <<btail, blocked>>

BlockWrites ==
    /\ sh.pc = "make_room"
    /\ sh.at > 1 => ~(sh.uuid < blk[sh.at - 1])
    /\ blk' = [blk EXCEPT ![sh.at] = sh.uuid]
    /\ sh' = ShAt("grow", sh.uuid, sh.at)
    /\ UNCHANGED <<btail, blocked>>

(* blocked_tail++ *)
BlockEnds ==
    /\ sh.pc = "grow"
    /\ btail' = btail + 1
    /\ blocked' = blocked \cup {sh.uuid}
    /\ sh' = ShIdle
    /\ UNCHANGED blk

(* btmesh_unblock_beacon finds the UUID; otherwise it returns -ESRCH. *)
UnblockStarts(u) ==
    /\ sh.pc = "idle"
    /\ \E k \in 1..btail :
        /\ blk[k] = u
        /\ \A i \in 1..k - 1 : blk[i] # u
        /\ sh' = ShAt("close_gap", u, k)
    /\ UNCHANGED <<blk, btail, blocked>>

(* Every later entry, and once the slot after the last, moves one slot down.  *)
(* With a full list that slot lies behind the array: whatever is there is    *)
(* copied.                                                                  *)
UnblockClosesGap ==
    /\ sh.pc = "close_gap"
    /\ sh.at <= btail
    /\ \E g \in IF sh.at < MaxBlocked THEN {blk[sh.at + 1]} ELSE Uuid \cup {0} :
        blk' = [blk EXCEPT ![sh.at] = g]
    /\ sh' = [sh EXCEPT !.at = sh.at + 1]
    /\ UNCHANGED <<btail, blocked>>

(* blocked_tail-- *)
UnblockEnds ==
    /\ sh.pc = "close_gap"
    /\ sh.at > btail
    /\ btail' = btail - 1
    /\ blocked' = blocked \ {sh.uuid}
    /\ sh' = ShIdle
    /\ UNCHANGED blk

ShellSteps == BlockMakesRoom \/ BlockWrites \/ BlockEnds \/ UnblockClosesGap \/ UnblockEnds
BlockedNext == ShellSteps \/ \E u \in Uuid : BlockStarts(u) \/ UnblockStarts(u)

BlockedSpec == BlockedInit /\ [][BlockedNext]_blockedVars

-----------------------------------------------------------------------------
(* BlockedExact: between two commands the array holds exactly the UUIDs that    *)
(* were blocked and not unblocked since, each once and in increasing order:   *)
(* the shifting loops lose, duplicate and misplace nothing.                  *)
BlockedExact ==
    sh.pc = "idle" =>
        /\ {blk[i] : i \in 1..btail} = blocked
        /\ \A i, j \in 1..btail : i < j => blk[i] < blk[j]

=============================================================================
