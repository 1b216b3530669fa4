----------------------------- MODULE ProvisioningProofs -----------------------------
(***************************************************************************)
(* Proofs about Provisioning, for any set of devices and any bounds.       *)
(***************************************************************************)
EXTENDS Provisioning, TLAPS

WorkStates == [delayed : BOOLEAN, queued : BOOLEAN]

(* Setting flags of a k_work_delayable leaves a k_work_delayable. *)
LEMMA WorkFlags ==
    ASSUME NEW w \in WorkStates
    PROVE  /\ [w EXCEPT !.delayed = TRUE] \in WorkStates
           /\ [w EXCEPT !.queued = FALSE] \in WorkStates
           /\ NoWork \in WorkStates
           /\ [w EXCEPT !.delayed = FALSE, !.queued = TRUE] \in WorkStates
BY DEF WorkStates, NoWork

LEMMA TypeInit == Init => TypeOK
BY ZeroIsNoDevice, BoundsAreNat
   DEF Init, Booted, TypeOK, Errors, AnyUuid, Item, RespItem, NoLink, NoWork, GwAt

LEMMA TypeNext == TypeOK /\ [Next]_vars => TypeOK'
<1> SUFFICES ASSUME TypeOK, [Next]_vars PROVE TypeOK'
  OBVIOUS
<1> USE ZeroIsNoDevice, BoundsAreNat
    DEF TypeOK, Errors, AnyUuid, Item, RespItem, ProvItem, NoLink, GwAt, history
<1>1. ASSUME NEW u \in Uuid, CloudRequest(u) PROVE TypeOK'
  BY <1>1 DEF CloudRequest
<1>2. ASSUME NEW u \in Uuid, CliProvision(u) PROVE TypeOK'
  BY <1>2 DEF CliProvision, LinkOf
<1>3. CASE GwPollProv
  BY <1>3 DEF GwPollProv
<1>4. CASE GwPollResp
  BY <1>4 DEF GwPollResp, Report
<1>5. CASE GwTake
  BY <1>5 DEF GwTake
<1>6. CASE GwTakeTimeout
  BY <1>6 DEF GwTakeTimeout, Report
<1>7. CASE GwOpStarted
  BY <1>7 DEF GwOpStarted, LinkOf
<1>8. CASE GwOpFailed
  BY <1>8 DEF GwOpFailed, Report
<1>9. CASE GwCopy
  BY <1>9 DEF GwCopy
<1>10. CASE GwArm
  BY <1>10 DEF GwArm
<1>11. CASE GwGive
  BY <1>11 DEF GwGive
<1>12. CASE GwFreeFaults
  BY <1>12 DEF GwFreeFaults, Booted, NoWork
<1>13. CASE DelayEnds
  BY <1>13 DEF DelayEnds
<1>14. CASE TimeoutRuns
  <2>1. work' \in WorkStates
    BY <1>14, WorkFlags DEF TimeoutRuns, WorkStates
  <2>4. prov' \in [err : Errors, uuid : AnyUuid]
    BY <1>14 DEF TimeoutRuns
  <2>2. fifo' \in Seq(Item) /\ sem' \in {0, 1}
    <3> HIDE DEF Item, RespItem
    <3>1. RespItem \in Item
      BY DEF Item, RespItem
    <3>2. \/ fifo' = Append(fifo, RespItem) /\ sem' = sem
          \/ sem' = 1 /\ fifo' = fifo
      BY <1>14 DEF TimeoutRuns, RespQueued
    <3>3. fifo \in Seq(Item) /\ sem \in {0, 1}
      OBVIOUS
    <3> HIDE DEF TypeOK
    <3>4. Append(fifo, RespItem) \in Seq(Item)
      BY <3>1, <3>3
    <3> QED
      BY <3>2, <3>3, <3>4
  <2>3. UNCHANGED <<gw, bt, link, reqs, clis, requested, added, reported>>
    BY <1>14 DEF TimeoutRuns
  <2> QED
    BY <2>1, <2>2, <2>3, <2>4 DEF WorkStates
<1>15. CASE NodeAdded
  <2>1. link.uuid \in Uuid
    BY <1>15 DEF NodeAdded
  <2>2. work' \in WorkStates
    <3>1. \/ work' = NoWork
          \/ work' = work
      BY <1>15 DEF NodeAdded, CancelTimeout
    <3>2. work \in WorkStates
      BY DEF WorkStates
    <3> QED
      BY <3>1, <3>2, WorkFlags
  <2>3. /\ added' \in SUBSET Uuid
        /\ reported' \in SUBSET [err : Errors, uuid : AnyUuid]
    BY <2>1, <1>15 DEF NodeAdded, Report
  <2>4. bt' \in {"idle", "give"} /\ link' = NoLink
    BY <1>15 DEF NodeAdded
  <2>5. UNCHANGED <<fifo, sem, prov, gw, reqs, clis, requested>>
    BY <1>15 DEF NodeAdded
  <2> QED
    BY <2>2, <2>3, <2>4, <2>5 DEF WorkStates
<1>16. CASE BtGive
  BY <1>16 DEF BtGive
<1>17. CASE LinkLost
  BY <1>17 DEF LinkLost
<1>18. CASE UNCHANGED vars
  BY <1>18 DEF vars
<1> QED
  BY <1>1, <1>2, <1>3, <1>4, <1>5, <1>6, <1>7, <1>8, <1>9, <1>10, <1>11, <1>12,
     <1>13, <1>14, <1>15, <1>16, <1>17, <1>18
     DEF Next, GwNext, WorkNext

(* TypeCorrect: every reachable state is well typed; in particular the      *)
(* semaphore never counts past 1 and a link always belongs to a device.     *)
THEOREM TypeCorrect == Spec => []TypeOK
BY TypeInit, TypeNext, PTL DEF Spec

-----------------------------------------------------------------------------
(* What queueing and dequeueing do to the kinds of entries in a queue. *)
LEMMA HoldsAppend ==
    ASSUME NEW q \in Seq(Item), NEW e \in Item, NEW p
    PROVE  Holds(Append(q, e), p) <=> (Holds(q, p) \/ e.proc = p)
<1> DEFINE a == Append(q, e)
<1>1. /\ Len(a) = Len(q) + 1
      /\ a[Len(q) + 1] = e
      /\ \A i \in 1..Len(q) : a[i] = q[i]
      /\ Len(q) \in Nat
  OBVIOUS
<1> HIDE DEF a
<1>2. Holds(a, p) => (Holds(q, p) \/ e.proc = p)
  BY <1>1 DEF Holds
<1>3. Holds(q, p) => Holds(a, p)
  BY <1>1 DEF Holds
<1>4. e.proc = p => Holds(a, p)
  <2>1. Len(q) + 1 \in 1..Len(a)
    BY <1>1
  <2> QED
    BY <1>1, <2>1 DEF Holds
<1> QED
  BY <1>2, <1>3, <1>4 DEF a

LEMMA HoldsTail ==
    ASSUME NEW q \in Seq(Item), q # <<>>, NEW p
    PROVE  /\ Holds(Tail(q), p) => Holds(q, p)
           /\ Holds(q, p) /\ Head(q).proc # p => Holds(Tail(q), p)
           /\ Holds(q, Head(q).proc)
<1> DEFINE t == Tail(q)
<1>1. /\ Len(q) \in Nat
      /\ Len(q) # 0
      /\ Len(t) = Len(q) - 1
      /\ \A i \in 1..Len(t) : t[i] = q[i + 1]
      /\ Head(q) = q[1]
  OBVIOUS
<1> HIDE DEF t
<1>2. Holds(t, p) => Holds(q, p)
  BY <1>1 DEF Holds
<1>3. ASSUME Holds(q, p), Head(q).proc # p PROVE Holds(t, p)
  <2>1. PICK i \in 1..Len(q) : q[i].proc = p
    BY <1>3 DEF Holds
  <2>2. i - 1 \in 1..Len(t) /\ t[i - 1] = q[i]
    BY <1>1, <1>3, <2>1
  <2> QED
    BY <2>1, <2>2 DEF Holds
<1>4. Holds(q, Head(q).proc)
  BY <1>1 DEF Holds
<1> QED
  BY <1>2, <1>3, <1>4 DEF t

-----------------------------------------------------------------------------
LEMMA SemNext == TypeOK /\ SemNotLost /\ [Next]_vars => SemNotLost'
<1> SUFFICES ASSUME TypeOK, SemNotLost, [Next]_vars, sem' = 0 PROVE GiverExists'
  BY DEF SemNotLost
<1> USE DEF SemNotLost, GiverExists, RespPending, GwAt, history
<1>0. /\ sem \in {0, 1}
      /\ fifo \in Seq(Item)
      /\ RespItem \in Item
      /\ \A u \in Uuid : ProvItem(u) \in Item
  BY DEF TypeOK, Item, RespItem, ProvItem
<1>1. ASSUME NEW u \in Uuid, CloudRequest(u) PROVE GiverExists'
  BY <1>0, <1>1, HoldsAppend DEF CloudRequest
<1>2. ASSUME NEW u \in Uuid, CliProvision(u) PROVE GiverExists'
  BY <1>2 DEF CliProvision
<1>3. CASE GwPollProv
  BY <1>0, <1>3, HoldsTail DEF GwPollProv
<1>4. CASE GwPollResp
  BY <1>4 DEF GwPollResp
<1>5. CASE GwTake
  BY <1>5 DEF GwTake
<1>6. CASE GwTakeTimeout
  BY <1>6 DEF GwTakeTimeout
<1>7. CASE GwOpStarted
  BY <1>7 DEF GwOpStarted
<1>8. CASE GwOpFailed
  BY <1>8 DEF GwOpFailed
<1>9. CASE GwCopy
  BY <1>9 DEF GwCopy
<1>10. CASE GwArm
  BY <1>10 DEF GwArm, TypeOK
<1>11. CASE GwGive
  BY <1>11 DEF GwGive
<1>12. CASE GwFreeFaults
  BY <1>12 DEF GwFreeFaults, Booted
<1>13. CASE DelayEnds
  BY <1>13 DEF DelayEnds, TypeOK
<1>14. CASE TimeoutRuns
  <2>1. fifo' = Append(fifo, RespItem)
    BY <1>14 DEF TimeoutRuns, RespQueued
  <2>2. RespItem.proc = "PROV_RESP"
    BY DEF RespItem
  <2> QED
    BY <1>0, <2>1, <2>2, HoldsAppend
<1>15. CASE NodeAdded
  <2>1. CASE link.uuid = prov.uuid
    BY <1>15, <2>1 DEF NodeAdded
  <2>2. CASE link.uuid # prov.uuid
    BY <1>15, <2>2 DEF NodeAdded
  <2> QED
    BY <2>1, <2>2
<1>16. CASE BtGive
  BY <1>16 DEF BtGive
<1>17. CASE LinkLost
  BY <1>17 DEF LinkLost
<1>18. CASE UNCHANGED vars
  BY <1>18 DEF vars
<1> QED
  BY <1>1, <1>2, <1>3, <1>4, <1>5, <1>6, <1>7, <1>8, <1>9, <1>10, <1>11, <1>12,
     <1>13, <1>14, <1>15, <1>16, <1>17, <1>18
     DEF Next, GwNext, WorkNext

(* SemSafe: prov_sem is never lost: while it is taken, a thread, the timeout   *)
(* work or a queue entry is bound to give it back.                           *)
THEOREM SemSafe == Spec => []SemNotLost
<1>1. Init => SemNotLost
  BY DEF Init, Booted, SemNotLost
<1> QED
  BY <1>1, SemNext, TypeCorrect, PTL DEF Spec

-----------------------------------------------------------------------------
(* NoFalseSuccess is not inductive: PROV_RESP reports prov.err, which is 0     *)
(* until prov_timeout has run.  The strengthening says that it has run before *)
(* an entry exists that reports it.                                          *)
TimeoutErrSet == RespPending => prov.err = "ETIMEDOUT"
TruthInv == TimeoutErrSet /\ NoFalseSuccess

LEMMA TruthNext == TypeOK /\ TruthInv /\ [Next]_vars => TruthInv'
<1> SUFFICES ASSUME TypeOK, TruthInv, [Next]_vars PROVE TruthInv'
  OBVIOUS
<1> USE DEF TruthInv, TimeoutErrSet, NoFalseSuccess, RespPending, GwAt, history
<1>0. /\ fifo \in Seq(Item)
      /\ RespItem \in Item
      /\ \A u \in Uuid : ProvItem(u) \in Item /\ ProvItem(u).proc # "PROV_RESP"
  BY DEF TypeOK, Item, RespItem, ProvItem
<1>1. ASSUME NEW u \in Uuid, CloudRequest(u) PROVE TruthInv'
  BY <1>0, <1>1, HoldsAppend DEF CloudRequest
<1>2. ASSUME NEW u \in Uuid, CliProvision(u) PROVE TruthInv'
  BY <1>2 DEF CliProvision
<1>3. CASE GwPollProv
  BY <1>0, <1>3, HoldsTail DEF GwPollProv
<1>4. CASE GwPollResp
  <2>1. prov.err = "ETIMEDOUT"
    BY <1>0, <1>4, HoldsTail DEF GwPollResp
  <2>2. TimeoutErrSet'
    BY <1>0, <1>4, <2>1, HoldsTail DEF GwPollResp
  <2>3. NoFalseSuccess'
    BY <1>4, <2>1 DEF GwPollResp, Report
  <2> QED
    BY <2>2, <2>3
<1>5. CASE GwTake
  BY <1>5 DEF GwTake
<1>6. CASE GwTakeTimeout
  BY <1>6 DEF GwTakeTimeout, Report
<1>7. CASE GwOpStarted
  BY <1>7 DEF GwOpStarted
<1>8. CASE GwOpFailed
  BY <1>8 DEF GwOpFailed, Report
<1>9. CASE GwCopy
  BY <1>9 DEF GwCopy, TypeOK
<1>10. CASE GwArm
  BY <1>10 DEF GwArm, TypeOK
<1>11. CASE GwGive
  BY <1>11 DEF GwGive
<1>12. CASE GwFreeFaults
  BY <1>12 DEF GwFreeFaults, Booted, NoWork, Holds
<1>13. CASE DelayEnds
  BY <1>13 DEF DelayEnds, TypeOK
<1>14. CASE TimeoutRuns
  <2>1. prov'.err = "ETIMEDOUT" /\ reported' = reported /\ added' = added
    BY <1>14 DEF TimeoutRuns, TypeOK
  <2> QED
    BY <2>1
<1>15. CASE NodeAdded
  <2>1. TimeoutErrSet'
    <3>1. fifo' = fifo /\ prov' = prov
      BY <1>15 DEF NodeAdded
    <3> QED
      BY <3>1
  <2>2. NoFalseSuccess'
    BY <1>15 DEF NodeAdded, Report
  <2> QED
    BY <2>1, <2>2
<1>16. CASE BtGive
  BY <1>16 DEF BtGive
<1>17. CASE LinkLost
  BY <1>17 DEF LinkLost
<1>18. CASE UNCHANGED vars
  BY <1>18 DEF vars
<1> QED
  BY <1>1, <1>2, <1>3, <1>4, <1>5, <1>6, <1>7, <1>8, <1>9, <1>10, <1>11, <1>12,
     <1>13, <1>14, <1>15, <1>16, <1>17, <1>18
     DEF Next, GwNext, WorkNext

(* TruthfulSuccess: a provision_result with error 0 is only ever sent for a     *)
(* device that the mesh stack reported as added.                             *)
THEOREM TruthfulSuccess == Spec => []NoFalseSuccess
<1>1. Init => TruthInv
  BY DEF Init, Booted, TruthInv, TimeoutErrSet, NoFalseSuccess, RespPending, Holds, NoWork
<1>2. TruthInv => NoFalseSuccess
  BY DEF TruthInv
<1> QED
  BY <1>1, <1>2, TruthNext, TypeCorrect, PTL DEF Spec

-----------------------------------------------------------------------------
(* ReportsOnlyRequested needs every place a reported UUID can come from: the   *)
(* queue, the entry in the thread's hands, and prov.uuid, which must have been *)
(* written before anything reports it.                                       *)
AskedQueue(q, S) == \A i \in 1..Len(q) : q[i].proc = "PROV" => q[i].uuid \in S
Asking == gw.pc \in {"take", "op", "copy", "arm"} => gw.item.uuid \in requested
ProvAsked ==
    /\ prov.uuid \in requested \cup {ZeroUuid}
    /\ \/ work.delayed \/ work.queued
       \/ RespPending \/ gw.pc = "arm"
       => prov.uuid \in requested
AskedInv == AskedQueue(fifo, requested) /\ Asking /\ ProvAsked /\ ReportsOnlyRequested

LEMMA AskedAppend ==
    ASSUME NEW q \in Seq(Item), NEW e \in Item, NEW S,
           AskedQueue(q, S), e.proc = "PROV" => e.uuid \in S
    PROVE  AskedQueue(Append(q, e), S)
BY DEF AskedQueue

LEMMA AskedTail ==
    ASSUME NEW q \in Seq(Item), q # <<>>, NEW S, AskedQueue(q, S)
    PROVE  /\ AskedQueue(Tail(q), S)
           /\ Head(q).proc = "PROV" => Head(q).uuid \in S
BY DEF AskedQueue

LEMMA AskedNext == TypeOK /\ AskedInv /\ [Next]_vars => AskedInv'
<1> SUFFICES ASSUME TypeOK, AskedInv, [Next]_vars PROVE AskedInv'
  OBVIOUS
<1> USE DEF AskedInv, Asking, ProvAsked, ReportsOnlyRequested, RespPending, GwAt, history
<1>0. /\ fifo \in Seq(Item)
      /\ RespItem \in Item
      /\ RespItem.proc # "PROV"
      /\ \A u \in Uuid : /\ ProvItem(u) \in Item
                          /\ ProvItem(u).proc # "PROV_RESP"
                          /\ ProvItem(u).uuid = u
  BY DEF TypeOK, Item, RespItem, ProvItem
<1>1. ASSUME NEW u \in Uuid, CloudRequest(u) PROVE AskedInv'
  <2>1. AskedQueue(fifo, requested')
    BY <1>1 DEF CloudRequest, AskedQueue
  <2>2. AskedQueue(fifo', requested')
    BY <1>0, <1>1, <2>1, AskedAppend DEF CloudRequest
  <2>3. RespPending' => RespPending
    BY <1>0, <1>1, HoldsAppend DEF CloudRequest
  <2>4. requested \subseteq requested'
    BY <1>1 DEF CloudRequest
  <2>5. UNCHANGED <<gw, prov, work, reported>>
    BY <1>1 DEF CloudRequest
  <2> QED
    BY <2>2, <2>3, <2>4, <2>5
<1>2. ASSUME NEW u \in Uuid, CliProvision(u) PROVE AskedInv'
  BY <1>2 DEF CliProvision
<1>3. CASE GwPollProv
  <2>1. AskedQueue(fifo', requested') /\ Asking'
    BY <1>0, <1>3, AskedTail DEF GwPollProv
  <2> QED
    BY <1>0, <1>3, <2>1, HoldsTail DEF GwPollProv
<1>4. CASE GwPollResp
  <2>1. AskedQueue(fifo', requested')
    BY <1>0, <1>4, AskedTail DEF GwPollResp
  <2>2. prov.uuid \in requested
    BY <1>0, <1>4, HoldsTail DEF GwPollResp
  <2> QED
    BY <1>4, <2>1, <2>2 DEF GwPollResp, Report
<1>5. CASE GwTake
  BY <1>5 DEF GwTake
<1>6. CASE GwTakeTimeout
  BY <1>6 DEF GwTakeTimeout, Report
<1>7. CASE GwOpStarted
  BY <1>7 DEF GwOpStarted
<1>8. CASE GwOpFailed
  BY <1>8 DEF GwOpFailed, Report
<1>9. CASE GwCopy
  BY <1>9 DEF GwCopy, TypeOK
<1>10. CASE GwArm
  BY <1>10 DEF GwArm
<1>11. CASE GwGive
  BY <1>11 DEF GwGive
<1>12. CASE GwFreeFaults
  BY <1>12 DEF GwFreeFaults, Booted, NoWork, Holds, AskedQueue
<1>13. CASE DelayEnds
  BY <1>13 DEF DelayEnds
<1>14. CASE TimeoutRuns
  <2>1. AskedQueue(fifo', requested')
    BY <1>0, <1>14, AskedAppend DEF TimeoutRuns, RespQueued
  <2>2. work.queued /\ prov'.uuid = prov.uuid
    BY <1>14 DEF TimeoutRuns, TypeOK
  <2>3. UNCHANGED <<gw, requested, reported>>
    BY <1>14 DEF TimeoutRuns
  <2> QED
    BY <2>1, <2>2, <2>3
<1>15. CASE NodeAdded
  <2>1. link.uuid \in Uuid
    BY <1>15 DEF NodeAdded, TypeOK
  <2>2. /\ work'.delayed => work.delayed
        /\ work'.queued => work.queued
    BY <1>15 DEF NodeAdded, CancelTimeout, NoWork, TypeOK
  <2>3. CASE link.uuid = prov.uuid
    <3>1. link.uuid \in requested
      BY <2>1, <2>3, ZeroIsNoDevice
    <3>2. reported' = reported \cup {[err |-> "OK", uuid |-> link.uuid]}
      BY <1>15, <2>3 DEF NodeAdded, Report
    <3> QED
      BY <1>15, <2>2, <3>1, <3>2 DEF NodeAdded
  <2>4. CASE link.uuid # prov.uuid
    BY <1>15, <2>2, <2>4 DEF NodeAdded
  <2> QED
    BY <2>3, <2>4
<1>16. CASE BtGive
  BY <1>16 DEF BtGive
<1>17. CASE LinkLost
  BY <1>17 DEF LinkLost
<1>18. CASE UNCHANGED vars
  BY <1>18 DEF vars
<1> QED
  BY <1>1, <1>2, <1>3, <1>4, <1>5, <1>6, <1>7, <1>8, <1>9, <1>10, <1>11, <1>12,
     <1>13, <1>14, <1>15, <1>16, <1>17, <1>18
     DEF Next, GwNext, WorkNext

(* OnlyRequested: every provision_result names a device that the cloud asked    *)
(* for.                                                                      *)
THEOREM OnlyRequested == Spec => []ReportsOnlyRequested
<1>1. Init => AskedInv
  BY DEF Init, Booted, AskedInv, AskedQueue, Asking, ProvAsked, ReportsOnlyRequested,
         RespPending, Holds, NoWork, GwAt
<1>2. AskedInv => ReportsOnlyRequested
  BY DEF AskedInv
<1> QED
  BY <1>1, <1>2, AskedNext, TypeCorrect, PTL DEF Spec

=============================================================================
