------------------------------ MODULE BeaconListProofs ------------------------------
(***************************************************************************)
(* Proofs about BeaconList, for any set of devices and any MAX_BEACON.     *)
(***************************************************************************)
EXTENDS BeaconList, FiniteSetTheorems, TLAPS

-----------------------------------------------------------------------------
(* What shifting the entries up or down by one makes of the list. *)
LEMMA Inserted ==
    ASSUME list \in Seq(Entry), NEW k \in 1..Len(list) + 1, NEW e \in Entry
    PROVE  /\ InsertedAt(k, e) \in Seq(Entry)
           /\ Len(InsertedAt(k, e)) = Len(list) + 1
           /\ \A i \in 1..Len(list) + 1 :
                InsertedAt(k, e)[i] =
                    IF i < k THEN list[i] ELSE IF i = k THEN e ELSE list[i - 1]
<1> DEFINE n == Len(list)
           ins == InsertedAt(k, e)
<1>1. n \in Nat /\ \A i \in 1..n : list[i] \in Entry
  OBVIOUS
<1>2. ins = [i \in 1..n + 1 |-> IF i < k THEN list[i] ELSE IF i = k THEN e ELSE list[i - 1]]
  BY DEF InsertedAt
<1> HIDE DEF ins, n
<1>3. ASSUME NEW i \in 1..n + 1 PROVE ins[i] \in Entry
  BY <1>1, <1>2, <1>3 DEF n
<1>4. ins \in [1..n + 1 -> Entry]
  BY <1>2, <1>3
<1>5. ins \in Seq(Entry) /\ Len(ins) = n + 1
  BY <1>1, <1>4
<1> QED
  BY <1>2, <1>5 DEF ins, n

LEMMA Removed ==
    ASSUME list \in Seq(Entry), NEW k \in 1..Len(list)
    PROVE  /\ RemovedAt(k) \in Seq(Entry)
           /\ Len(RemovedAt(k)) = Len(list) - 1
           /\ \A i \in 1..Len(list) - 1 :
                RemovedAt(k)[i] = IF i < k THEN list[i] ELSE list[i + 1]
<1> DEFINE n == Len(list)
           rem == RemovedAt(k)
<1>1. n \in Nat /\ n > 0 /\ \A i \in 1..n : list[i] \in Entry
  OBVIOUS
<1>2. rem = [i \in 1..n - 1 |-> IF i < k THEN list[i] ELSE list[i + 1]]
  BY DEF RemovedAt
<1> HIDE DEF rem, n
<1>3. ASSUME NEW i \in 1..n - 1 PROVE rem[i] \in Entry
  BY <1>1, <1>2, <1>3
<1>4. rem \in [1..n - 1 -> Entry]
  BY <1>2, <1>3
<1>5. rem \in Seq(Entry) /\ Len(rem) = n - 1
  BY <1>1, <1>4
<1> QED
  BY <1>2, <1>5 DEF rem, n

(* Fewer entries than timers, and each entry has one timer: one is left. *)
LEMMA FreeTimerExists == ListTypeOK /\ TimersMatch => FreeTimerFound
<1> SUFFICES ASSUME ListTypeOK, TimersMatch, Len(list) < MaxBeacon, Timer \subseteq owned
             PROVE  FALSE
  BY DEF FreeTimerFound
<1> DEFINE f == [i \in 1..Len(list) |-> list[i].timer]
<1>1. Len(list) \in Nat /\ MaxBeacon \in Nat /\ MaxBeacon > 0
  BY MaxBeaconIsPos DEF ListTypeOK
<1>2. f \in [1..Len(list) -> Timer]
  <2>1. \A i \in 1..Len(list) : list[i] \in Entry
    BY DEF ListTypeOK
  <2>2. \A i \in 1..Len(list) : list[i].timer \in Timer
    BY <2>1 DEF Entry
  <2> QED
    BY <2>2
<1>3. \A t \in Timer : \E i \in 1..Len(list) : f[i] = t
  BY DEF TimersMatch
<1>4. f \in Surjection(1..Len(list), Timer)
  BY <1>2, <1>3 DEF Surjection
<1>5. \A n \in Nat : IsFiniteSet(1..n) /\ Cardinality(1..n) = n
  <2> TAKE n \in Nat
  <2>1. /\ IsFiniteSet(1..n)
        /\ Cardinality(1..n) = IF 1 > n THEN 0 ELSE n - 1 + 1
    BY FS_Interval
  <2> QED
    BY <2>1
<1>6. Cardinality(Timer) = MaxBeacon
  BY <1>1, <1>5 DEF Timer
<1> HIDE DEF f
<1>7. Cardinality(Timer) <= Cardinality(1..Len(list))
  BY <1>1, <1>4, <1>5, FS_Surjection
<1> QED
  BY <1>1, <1>5, <1>6, <1>7

(* The search loop of beacon_recv ends inside the array. *)
LEMMA SearchInRange ==
    ASSUME ListTypeOK, TimersMatch, Len(list) < MaxBeacon, NEW t, IsFirstFree(t)
    PROVE  t \in Timer /\ t \notin owned
<1>1. PICK s \in Timer : s \notin owned
  BY FreeTimerExists DEF FreeTimerFound
<1> QED
  BY <1>1, MaxBeaconIsPos DEF IsFirstFree, Timer

-----------------------------------------------------------------------------
ListInv == ListTypeOK /\ TimersMatch

LEMMA ListInvInit == ListInit => ListInv
<1> SUFFICES ASSUME ListInit PROVE ListInv
  OBVIOUS
<1>1. Len(list) = 0 /\ list \in Seq(Entry)
  BY DEF ListInit
<1>2. ListTypeOK
  <2>1. Len(list) <= MaxBeacon /\ scan \in 0..Len(list) + 1
    BY <1>1, MaxBeaconIsPos DEF ListInit
  <2>2. pending \in BOOLEAN
    BY DEF ListInit
  <2>3. owned \subseteq Timer /\ running \subseteq Timer /\ expired \subseteq Timer
    BY DEF ListInit
  <2>4. silent \subseteq Uuid
    BY DEF ListInit
  <2> QED
    BY <1>1, <2>1, <2>2, <2>3, <2>4 DEF ListTypeOK
<1>3. TimersMatch
  BY <1>1 DEF ListInit, TimersMatch
<1> QED
  BY <1>2, <1>3 DEF ListInv

(* TimersMatch is about the list and the timers only. *)
LEMMA TimersMatchFrame ==
    ASSUME TimersMatch, UNCHANGED <<list, owned, running, expired>>
    PROVE  TimersMatch'
BY DEF TimersMatch

LEMMA ListInvRecvNew ==
    ASSUME ListInv, NEW u \in Uuid, RecvNew(u)
    PROVE  ListInv'
<1>1. PICK k \in 1..Len(list) + 1, t \in 1..MaxBeacon + 1 :
        /\ IsInsertPos(k, u)
        /\ IsFirstFree(t)
        /\ list' = InsertedAt(k, [uuid |-> u, timer |-> t])
        /\ owned' = owned \cup {t}
        /\ StartTimer(t)
  BY DEF RecvNew
<1>2. t \in Timer /\ t \notin owned
  BY <1>1, SearchInRange DEF ListInv, RecvNew
<1> DEFINE e == [uuid |-> u, timer |-> t]
<1>3. e \in Entry
  BY <1>2 DEF Entry
<1>4. /\ list' \in Seq(Entry)
      /\ Len(list') = Len(list) + 1
      /\ \A i \in 1..Len(list) + 1 :
            list'[i] = IF i < k THEN list[i] ELSE IF i = k THEN e ELSE list[i - 1]
  <2>1. list \in Seq(Entry)
    BY DEF ListInv, ListTypeOK
  <2>2. list' = InsertedAt(k, e)
    BY <1>1
  <2> HIDE DEF e
  <2>3. /\ InsertedAt(k, e) \in Seq(Entry)
        /\ Len(InsertedAt(k, e)) = Len(list) + 1
        /\ \A i \in 1..Len(list) + 1 :
            InsertedAt(k, e)[i] =
                IF i < k THEN list[i] ELSE IF i = k THEN e ELSE list[i - 1]
    BY <1>1, <1>3, <2>1, Inserted, Zenon
  <2> QED
    BY <2>2, <2>3, Zenon
<1>5. ListTypeOK'
  <2>1. /\ Len(list) \in Nat
        /\ Len(list) < MaxBeacon
        /\ scan = 0
        /\ UNCHANGED <<pending, scan, silent>>
    BY DEF RecvNew, ListInv, ListTypeOK
  <2>2. Len(list') <= MaxBeacon /\ scan' \in 0..Len(list') + 1
    BY <1>4, <2>1, MaxBeaconIsPos
  <2>3. owned' \subseteq Timer /\ running' \subseteq Timer /\ expired' \subseteq Timer
    BY <1>1, <1>2 DEF ListInv, ListTypeOK, StartTimer
  <2> QED
    BY <1>4, <2>1, <2>2, <2>3 DEF ListInv, ListTypeOK
<1> DEFINE n == Len(list)
<1>6. /\ n \in Nat /\ k \in 1..n + 1
      /\ \A i \in 1..n : list[i].timer \in owned
      /\ \A i, j \in 1..n : list[i].timer = list[j].timer => i = j
      /\ owned = {list[i].timer : i \in 1..n}
      /\ e.timer = t
  BY DEF ListInv, ListTypeOK, TimersMatch
<1> HIDE DEF e, n
<1>0. n \in Nat /\ k \in 1..n + 1
  BY <1>6
<1>7. \A i \in 1..n : \E j \in 1..n + 1 : list'[j] = list[i]
  <2> TAKE i \in 1..n
  <2>1. CASE i < k
    <3>1. i \in 1..n + 1 /\ list'[i] = list[i]
      BY <1>0, <1>4, <2>1 DEF n
    <3> QED
      BY <3>1
  <2>2. CASE i >= k
    <3>1. i + 1 \in 1..n + 1 /\ list'[i + 1] = list[i]
      BY <1>0, <1>4, <2>2 DEF n
    <3> QED
      BY <3>1
  <2> QED
    BY <1>0, <2>1, <2>2
<1>8. list'[k] = e
  BY <1>4, <1>6 DEF n
<1>9. \A j \in 1..n + 1 : j = k \/ \E i \in 1..n : list'[j] = list[i]
  <2> SUFFICES ASSUME NEW j \in 1..n + 1, j # k
               PROVE  \E i \in 1..n : list'[j] = list[i]
    OBVIOUS
  <2>1. CASE j < k
    <3>1. j \in 1..n /\ list'[j] = list[j]
      BY <1>0, <1>4, <2>1 DEF n
    <3> QED
      BY <3>1
  <2>2. CASE j > k
    <3>1. j - 1 \in 1..n /\ list'[j] = list[j - 1]
      BY <1>0, <1>4, <2>2 DEF n
    <3> QED
      BY <3>1
  <2> QED
    BY <1>0, <2>1, <2>2
<1>10. owned' = {list'[i].timer : i \in 1..Len(list')}
  <2>1. ASSUME NEW x \in owned' PROVE \E j \in 1..n + 1 : x = list'[j].timer
    BY <1>1, <1>6, <1>7, <1>8, <2>1
  <2>2. ASSUME NEW j \in 1..n + 1 PROVE list'[j].timer \in owned'
    BY <1>1, <1>6, <1>8, <1>9
  <2> QED
    BY <1>4, <2>1, <2>2 DEF n
<1>11. \A i, j \in 1..Len(list') : list'[i].timer = list'[j].timer => i = j
  <2> SUFFICES ASSUME NEW i \in 1..n + 1, NEW j \in 1..n + 1,
                      list'[i].timer = list'[j].timer
               PROVE  i = j
    BY <1>4 DEF n
  <2> DEFINE old(x) == IF x < k THEN x ELSE x - 1
  <2>1. ASSUME NEW x \in 1..n + 1, x # k
        PROVE  old(x) \in 1..n /\ list'[x] = list[old(x)]
    BY <1>4, <1>6, <2>1 DEF n
  <2>2. CASE i = k \/ j = k
    BY <1>2, <1>6, <1>8, <2>1, <2>2
  <2>3. CASE i # k /\ j # k
    <3>1. /\ old(i) \in 1..n /\ list'[i] = list[old(i)]
          /\ old(j) \in 1..n /\ list'[j] = list[old(j)]
      BY <2>1, <2>3
    <3> HIDE DEF old
    <3>2. old(i) = old(j)
      BY <1>6, <3>1
    <3> QED
      BY <1>0, <2>3, <3>2 DEF old
  <2> QED
    BY <2>2, <2>3
<1>12. (running \cup expired \subseteq owned)' /\ (running \cap expired = {})'
  BY <1>1, <1>2 DEF ListInv, TimersMatch, StartTimer
<1> QED
  BY <1>5, <1>10, <1>11, <1>12 DEF ListInv, TimersMatch

LEMMA ListInvScanRemoves ==
    ASSUME ListInv, ScanRemoves
    PROVE  ListInv'
<1> DEFINE n == Len(list)
           t == list[scan].timer
<1>1. /\ list \in Seq(Entry)
      /\ n \in Nat
      /\ n <= MaxBeacon
      /\ scan \in 1..n
      /\ scan \in Int
      /\ \A i, j \in 1..n : list[i].timer = list[j].timer => i = j
      /\ owned = {list[i].timer : i \in 1..n}
      /\ owned' = owned \ {t}
      /\ expired' = expired \ {t}
      /\ t \in expired
      /\ UNCHANGED <<running, pending, scan, silent>>
  BY DEF ListInv, ListTypeOK, TimersMatch, ScanRemoves
<1>2. /\ list' \in Seq(Entry)
      /\ Len(list') = n - 1
      /\ \A i \in 1..n - 1 : list'[i] = IF i < scan THEN list[i] ELSE list[i + 1]
  BY <1>1, Removed DEF ScanRemoves
<1>3. ListTypeOK'
  <2>1. Len(list') <= MaxBeacon /\ scan' \in 0..Len(list') + 1
    BY <1>1, <1>2, MaxBeaconIsPos
  <2>2. owned' \subseteq Timer /\ running' \subseteq Timer /\ expired' \subseteq Timer
    BY <1>1 DEF ListInv, ListTypeOK
  <2> QED
    BY <1>1, <1>2, <2>1, <2>2 DEF ListInv, ListTypeOK
<1> HIDE DEF n, t
<1> DEFINE old(x) == IF x < scan THEN x ELSE x + 1
<1>4. \A x \in 1..n - 1 : old(x) \in 1..n /\ old(x) # scan /\ list'[x] = list[old(x)]
  BY <1>1, <1>2
<1>5. \A i \in 1..n : i # scan => \E j \in 1..n - 1 : list'[j] = list[i]
  <2> SUFFICES ASSUME NEW i \in 1..n, i # scan PROVE \E j \in 1..n - 1 : list'[j] = list[i]
    OBVIOUS
  <2>1. CASE i < scan
    <3>1. i \in 1..n - 1 /\ list'[i] = list[i]
      BY <1>1, <1>2, <2>1
    <3> QED
      BY <3>1
  <2>2. CASE i > scan
    <3>1. i - 1 \in 1..n - 1 /\ list'[i - 1] = list[i]
      BY <1>1, <1>2, <2>2
    <3> QED
      BY <3>1
  <2> QED
    BY <1>1, <2>1, <2>2
<1>6. owned' = {list'[i].timer : i \in 1..Len(list')}
  <2>1. ASSUME NEW x \in owned' PROVE \E j \in 1..n - 1 : x = list'[j].timer
    <3>1. PICK i \in 1..n : x = list[i].timer /\ i # scan
      BY <1>1, <2>1 DEF t
    <3> QED
      BY <1>5, <3>1
  <2>2. ASSUME NEW j \in 1..n - 1 PROVE list'[j].timer \in owned'
    BY <1>1, <1>4 DEF t
  <2> QED
    BY <1>2, <2>1, <2>2
<1>7. \A i, j \in 1..Len(list') : list'[i].timer = list'[j].timer => i = j
  <2> SUFFICES ASSUME NEW i \in 1..n - 1, NEW j \in 1..n - 1,
                      list'[i].timer = list'[j].timer
               PROVE  i = j
    BY <1>2
  <2>1. /\ old(i) \in 1..n /\ list'[i] = list[old(i)]
        /\ old(j) \in 1..n /\ list'[j] = list[old(j)]
    BY <1>4
  <2> HIDE DEF old
  <2>2. old(i) = old(j)
    BY <1>1, <2>1
  <2> QED
    BY <1>1, <2>2 DEF old
<1>8. (running \cup expired \subseteq owned)' /\ (running \cap expired = {})'
  <2>1. running \cup expired \subseteq owned /\ running \cap expired = {}
    BY DEF ListInv, TimersMatch
  <2>2. t \notin running
    BY <1>1, <2>1
  <2> QED
    BY <1>1, <2>1, <2>2
<1> QED
  BY <1>3, <1>6, <1>7, <1>8 DEF ListInv, TimersMatch

LEMMA ListInvNext == ListInv /\ [ListNext]_listVars => ListInv'
<1> SUFFICES ASSUME ListInv, [ListNext]_listVars PROVE ListInv'
  OBVIOUS
<1> USE DEF timerVars
<1>1. ASSUME NEW u \in Uuid, RecvDropped(u) PROVE ListInv'
  BY <1>1 DEF RecvDropped, listVars, ListInv, ListTypeOK, TimersMatch
<1>2. ASSUME NEW u \in Uuid, RecvListed(u) PROVE ListInv'
  <2>1. PICK i \in 1..Len(list) : StartTimer(list[i].timer)
    BY <1>2 DEF RecvListed
  <2>2. UNCHANGED <<list, owned, pending, scan, silent>>
    BY <1>2 DEF RecvListed
  <2>3. list[i].timer \in owned
    BY DEF ListInv, TimersMatch
  <2> QED
    BY <2>1, <2>2, <2>3 DEF ListInv, ListTypeOK, TimersMatch, StartTimer
<1>3. ASSUME NEW u \in Uuid, RecvNew(u) PROVE ListInv'
  BY <1>3, ListInvRecvNew
<1>4. ASSUME NEW u \in Uuid, FallsSilent(u) PROVE ListInv'
  BY <1>4 DEF FallsSilent, ListInv, ListTypeOK, TimersMatch
<1>5. ASSUME NEW t \in Timer, TimerExpires(t) PROVE ListInv'
  BY <1>5 DEF TimerExpires, ListInv, ListTypeOK, TimersMatch
<1>6. CASE ScanStarts
  <2>1. /\ pending' \in BOOLEAN
        /\ scan' = 1
        /\ UNCHANGED <<list, owned, running, expired, silent>>
    BY <1>6 DEF ScanStarts
  <2>2. TimersMatch'
    BY <2>1, TimersMatchFrame DEF ListInv
  <2> QED
    BY <2>1, <2>2 DEF ListInv, ListTypeOK
<1>7. CASE ScanRemoves
  BY <1>7, ListInvScanRemoves
<1>8. CASE ScanKeeps
  BY <1>8 DEF ScanKeeps, ListInv, ListTypeOK, TimersMatch
<1>9. CASE ScanEnds
  BY <1>9 DEF ScanEnds, ListInv, ListTypeOK, TimersMatch
<1>10. CASE UNCHANGED listVars
  BY <1>10 DEF listVars, ListInv, ListTypeOK, TimersMatch
<1> QED
  BY <1>1, <1>2, <1>3, <1>4, <1>5, <1>6, <1>7, <1>8, <1>9, <1>10
     DEF ListNext, RecvNext, ScanNext

(* ListTyped: the list is well formed: never longer than the array, its timers  *)
(* inside beacon_timer_list and the scan never more than one past the tail.   *)
THEOREM ListTyped == ListSpec => []ListTypeOK
<1>1. ListInv => ListTypeOK
  BY DEF ListInv
<1> QED
  BY <1>1, ListInvInit, ListInvNext, PTL DEF ListSpec

(* TimersAreOwned: every listed beacon has a timer of its own, and a free timer *)
(* is idle.                                                                 *)
THEOREM TimersAreOwned == ListSpec => []TimersMatch
<1>1. ListInv => TimersMatch
  BY DEF ListInv
<1> QED
  BY <1>1, ListInvInit, ListInvNext, PTL DEF ListSpec

(* TimerSearchSucceeds: the unbounded search for a free timer in beacon_recv    *)
(* finds one within the array.                                              *)
THEOREM TimerSearchSucceeds == ListSpec => []FreeTimerFound
<1>1. ListInv => FreeTimerFound
  BY FreeTimerExists DEF ListInv
<1> QED
  BY <1>1, ListInvInit, ListInvNext, PTL DEF ListSpec

-----------------------------------------------------------------------------
(* Insertion at the place that the loop finds keeps the list sorted. *)
LEMMA SortedRecvNew ==
    ASSUME ListTypeOK, ListSorted, NEW u \in Uuid, RecvNew(u)
    PROVE  ListSorted'
<1>1. PICK k \in 1..Len(list) + 1, t \in 1..MaxBeacon + 1 :
        /\ IsInsertPos(k, u)
        /\ list' = InsertedAt(k, [uuid |-> u, timer |-> t])
  BY DEF RecvNew
<1> DEFINE e == [uuid |-> u, timer |-> t]
           n == Len(list)
           id(i) == list[i].uuid
<1>2. /\ n \in Nat /\ k \in 1..n + 1 /\ u \in Nat
      /\ \A i \in 1..n : id(i) \in Nat
      /\ \A i, j \in 1..n : i < j => id(i) < id(j)
      /\ \A i \in k..n : u < id(i)
      /\ k > 1 => ~(u < id(k - 1))
      /\ \A i \in 1..n : id(i) # u
  <2>1. n \in Nat /\ k \in 1..n + 1 /\ u \in Nat
    BY <1>1, UuidIsPos DEF ListTypeOK
  <2>2. \A i \in 1..n : id(i) \in Nat
    <3>1. \A i \in 1..n : list[i] \in Entry
      BY DEF ListTypeOK
    <3>2. \A i \in 1..n : list[i].uuid \in Uuid
      BY <3>1 DEF Entry
    <3> QED
      BY <3>2, UuidIsPos
  <2>3. \A i, j \in 1..n : i < j => id(i) < id(j)
    BY DEF ListSorted
  <2>4. (\A i \in k..n : u < id(i)) /\ (k > 1 => ~(u < id(k - 1)))
    BY <1>1 DEF IsInsertPos
  <2>5. \A i \in 1..n : id(i) # u
    BY DEF RecvNew, Listed
  <2> QED
    BY <2>1, <2>2, <2>3, <2>4, <2>5
<1>3. DOMAIN list' = 1..n + 1 /\ Len(list') = n + 1
  BY <1>1, <1>2 DEF InsertedAt
<1>4. \A i \in 1..n + 1 :
        list'[i].uuid = IF i < k THEN id(i) ELSE IF i = k THEN u ELSE id(i - 1)
  BY <1>1, <1>2 DEF InsertedAt
<1> HIDE DEF id, n
<1>5. \A i \in 1..n : i < k => id(i) < u
  <2> SUFFICES ASSUME NEW i \in 1..n, i < k PROVE id(i) < u
    OBVIOUS
  <2>1. k - 1 \in 1..n /\ id(k - 1) < u
    BY <1>2
  <2>2. i = k - 1 \/ id(i) < id(k - 1)
    BY <1>2, <2>1
  <2> QED
    BY <1>2, <2>1, <2>2
<1> SUFFICES ASSUME NEW i \in 1..n + 1, NEW j \in 1..n + 1, i < j
             PROVE  list'[i].uuid < list'[j].uuid
  BY <1>3 DEF ListSorted
<1>6. CASE j < k
  BY <1>2, <1>4, <1>6
<1>7. CASE i < k /\ j = k
  BY <1>2, <1>4, <1>5, <1>7
<1>8. CASE i < k /\ j > k
  <2>1. list'[i].uuid = id(i) /\ list'[j].uuid = id(j - 1)
    BY <1>2, <1>4, <1>8
  <2>2. i \in 1..n /\ j - 1 \in 1..n /\ i < j - 1
    BY <1>2, <1>8
  <2> QED
    BY <1>2, <2>1, <2>2
<1>9. CASE i = k
  <2>1. list'[i].uuid = u /\ list'[j].uuid = id(j - 1)
    BY <1>2, <1>4, <1>9
  <2>2. j - 1 \in k..n
    BY <1>2, <1>9
  <2> QED
    BY <1>2, <2>1, <2>2
<1>10. CASE i > k
  <2>1. list'[i].uuid = id(i - 1) /\ list'[j].uuid = id(j - 1)
    BY <1>2, <1>4, <1>10
  <2>2. i - 1 \in 1..n /\ j - 1 \in 1..n /\ i - 1 < j - 1
    BY <1>2, <1>10
  <2> QED
    BY <1>2, <2>1, <2>2
<1> QED
  BY <1>2, <1>6, <1>7, <1>8, <1>9, <1>10

LEMMA SortedScanRemoves ==
    ASSUME ListTypeOK, ListSorted, ScanRemoves
    PROVE  ListSorted'
<1> DEFINE n == Len(list)
           old(x) == IF x < scan THEN x ELSE x + 1
<1>1. list \in Seq(Entry) /\ n \in Nat /\ scan \in 1..n
  BY DEF ListTypeOK, ScanRemoves
<1>2. /\ Len(list') = n - 1
      /\ \A i \in 1..n - 1 : list'[i] = IF i < scan THEN list[i] ELSE list[i + 1]
  BY <1>1, Removed DEF ScanRemoves
<1> HIDE DEF n
<1>3. \A x \in 1..n - 1 : old(x) \in 1..n /\ list'[x] = list[old(x)]
  BY <1>1, <1>2
<1>4. \A x, y \in 1..n - 1 : x < y => old(x) < old(y)
  BY <1>1
<1> HIDE DEF old
<1> QED
  BY <1>2, <1>3, <1>4 DEF ListSorted, n

LEMMA SortedNext == ListTypeOK /\ ListSorted /\ [ListNext]_listVars => ListSorted'
<1> SUFFICES ASSUME ListTypeOK, ListSorted, [ListNext]_listVars PROVE ListSorted'
  OBVIOUS
<1>1. ASSUME UNCHANGED list PROVE ListSorted'
  BY <1>1 DEF ListSorted
<1>2. ASSUME NEW u \in Uuid, RecvNext(u) \/ FallsSilent(u) PROVE ListSorted'
  BY <1>1, <1>2, SortedRecvNew DEF RecvNext, RecvDropped, RecvListed, FallsSilent, listVars
<1>3. ASSUME NEW t \in Timer, TimerExpires(t) PROVE ListSorted'
  BY <1>1, <1>3 DEF TimerExpires
<1>4. CASE ScanNext
  BY <1>1, <1>4, SortedScanRemoves DEF ScanNext, ScanStarts, ScanKeeps, ScanEnds
<1> QED
  BY <1>1, <1>2, <1>3, <1>4 DEF ListNext, listVars

(* AlwaysSorted: insertion and removal keep beacon_list sorted and free of      *)
(* duplicates, whatever the number of devices and of places.                 *)
THEOREM AlwaysSorted == ListSpec => []ListSorted
<1>1. ListInit => ListSorted
  BY DEF ListInit, ListSorted
<1> QED
  BY <1>1, ListTyped, SortedNext, PTL DEF ListSpec

-----------------------------------------------------------------------------
(* OnItsWay(i): the entry is going to leave the list, unless it is refreshed. *)
OnItsWay(i) ==
    \/ list[i].timer \in running
    \/ list[i].timer \in expired /\ (pending \/ scan \in 1..i)

LEMMA OnItsWayRecvNew ==
    ASSUME ListInv, NoneForgotten, NEW u \in Uuid, RecvNew(u)
    PROVE  NoneForgotten'
<1>1. PICK k \in 1..Len(list) + 1, t \in 1..MaxBeacon + 1 :
        /\ IsFirstFree(t)
        /\ list' = InsertedAt(k, [uuid |-> u, timer |-> t])
        /\ StartTimer(t)
  BY DEF RecvNew
<1> DEFINE n == Len(list)
<1>2. /\ n \in Nat /\ k \in 1..n + 1 /\ scan = 0 /\ pending' = pending
      /\ \A i \in 1..n : list[i].timer \in owned
      /\ t \notin owned
      /\ \A i \in 1..n :
            list[i].timer \in running \/ (list[i].timer \in expired /\ pending)
  <2>1. n \in Nat /\ k \in 1..n + 1 /\ scan = 0 /\ pending' = pending
    BY DEF ListInv, ListTypeOK, RecvNew
  <2>2. \A i \in 1..n : list[i].timer \in owned
    BY DEF ListInv, TimersMatch
  <2>3. t \notin owned
    BY <1>1 DEF IsFirstFree
  <2> QED
    BY <2>1, <2>2, <2>3 DEF NoneForgotten
<1>3. DOMAIN list' = 1..n + 1 /\ Len(list') = n + 1
  BY <1>1, <1>2 DEF InsertedAt
<1>4. \A i \in 1..n + 1 :
        list'[i].timer = IF i < k THEN list[i].timer ELSE IF i = k THEN t ELSE list[i - 1].timer
  BY <1>1, <1>2 DEF InsertedAt
<1> HIDE DEF n
<1>5. running' = running \cup {t} /\ expired' = expired \ {t}
  BY <1>1 DEF StartTimer
<1> SUFFICES ASSUME NEW i \in 1..n + 1
             PROVE  list'[i].timer \in running' \/ (list'[i].timer \in expired' /\ pending')
  BY <1>3 DEF NoneForgotten
<1>6. CASE i = k
  BY <1>4, <1>5, <1>6
<1>7. ASSUME NEW j \in 1..n, list'[i].timer = list[j].timer
      PROVE  list'[i].timer \in running' \/ (list'[i].timer \in expired' /\ pending')
  BY <1>2, <1>5, <1>7
<1>8. CASE i < k
  <2>1. i \in 1..n /\ list'[i].timer = list[i].timer
    BY <1>2, <1>4, <1>8
  <2> QED
    BY <1>7, <2>1
<1>9. CASE i > k
  <2>1. i - 1 \in 1..n /\ list'[i].timer = list[i - 1].timer
    BY <1>2, <1>4, <1>9
  <2> QED
    BY <1>7, <2>1
<1> QED
  BY <1>2, <1>6, <1>8, <1>9

LEMMA OnItsWayScanRemoves ==
    ASSUME ListInv, NoneForgotten, ScanRemoves
    PROVE  NoneForgotten'
<1> DEFINE n == Len(list)
           old(x) == IF x < scan THEN x ELSE x + 1
<1>1. /\ list \in Seq(Entry) /\ n \in Nat /\ scan \in 1..n
      /\ UNCHANGED <<running, pending, scan>>
      /\ expired' = expired \ {list[scan].timer}
      /\ \A i, j \in 1..n : list[i].timer = list[j].timer => i = j
  BY DEF ListInv, ListTypeOK, TimersMatch, ScanRemoves
<1>2. /\ Len(list') = n - 1
      /\ \A i \in 1..n - 1 : list'[i] = IF i < scan THEN list[i] ELSE list[i + 1]
  BY <1>1, Removed DEF ScanRemoves
<1> HIDE DEF n
<1> SUFFICES ASSUME NEW i \in 1..n - 1 PROVE OnItsWay(i)'
  BY <1>2 DEF NoneForgotten, OnItsWay
<1>3. /\ old(i) \in 1..n /\ old(i) # scan /\ list'[i] = list[old(i)]
      /\ scan \in 1..old(i) => scan \in 1..i
  BY <1>1, <1>2
<1> HIDE DEF old
<1> DEFINE o == old(i)
<1>4. o \in 1..n /\ o # scan /\ list'[i] = list[o] /\ (scan \in 1..o => scan \in 1..i)
  BY <1>3
<1> HIDE DEF o
<1>5. OnItsWay(o)
  BY <1>4 DEF NoneForgotten, OnItsWay, n
<1>6. list[o].timer # list[scan].timer
  BY <1>1, <1>4
<1> QED
  BY <1>1, <1>4, <1>5, <1>6 DEF OnItsWay

LEMMA OnItsWayNext == ListInv /\ NoneForgotten /\ [ListNext]_listVars => NoneForgotten'
<1> SUFFICES ASSUME ListInv, NoneForgotten, [ListNext]_listVars PROVE NoneForgotten'
  OBVIOUS
<1> USE DEF timerVars
<1>1. /\ Len(list) \in Nat
      /\ \A i, j \in 1..Len(list) : list[i].timer = list[j].timer => i = j
      /\ scan \in 0..Len(list) + 1
  BY DEF ListInv, ListTypeOK, TimersMatch
<1>2. ASSUME NEW u \in Uuid, RecvDropped(u) \/ FallsSilent(u) PROVE NoneForgotten'
  BY <1>2 DEF RecvDropped, FallsSilent, listVars, NoneForgotten
<1>3. ASSUME NEW u \in Uuid, RecvListed(u) PROVE NoneForgotten'
  BY <1>1, <1>3 DEF RecvListed, StartTimer, NoneForgotten
<1>4. ASSUME NEW u \in Uuid, RecvNew(u) PROVE NoneForgotten'
  BY <1>4, OnItsWayRecvNew
<1>5. ASSUME NEW t \in Timer, TimerExpires(t) PROVE NoneForgotten'
  BY <1>5 DEF TimerExpires, NoneForgotten
<1>6. CASE ScanStarts
  BY <1>1, <1>6 DEF ScanStarts, NoneForgotten
<1>7. CASE ScanRemoves
  BY <1>7, OnItsWayScanRemoves
<1>8. CASE ScanKeeps
  BY <1>1, <1>8 DEF ScanKeeps, NoneForgotten
<1>9. CASE ScanEnds
  BY <1>1, <1>9 DEF ScanEnds, NoneForgotten
<1>10. CASE UNCHANGED listVars
  BY <1>10 DEF listVars, NoneForgotten
<1> QED
  BY <1>2, <1>3, <1>4, <1>5, <1>6, <1>7, <1>8, <1>9, <1>10 DEF ListNext, RecvNext, ScanNext

(* NeverForgotten: no interleaving of expiries, refreshes and the scan leaves an *)
(* entry behind that nothing is going to remove.                             *)
THEOREM NeverForgotten == ListSpec => []NoneForgotten
<1>1. ListInit => NoneForgotten
  BY DEF ListInit, NoneForgotten
<1> QED
  BY <1>1, ListInvInit, ListInvNext, OnItsWayNext, PTL DEF ListSpec

=============================================================================
