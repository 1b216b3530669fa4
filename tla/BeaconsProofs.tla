------------------------------ MODULE BeaconsProofs ------------------------------
(***************************************************************************)
(* Proofs about the two beacon lists together, for any sizes of the lists  *)
(* and any devices.                                                        *)
(***************************************************************************)
EXTENDS Beacons, BeaconListProofs

(* Slots 1..n of the array f, but for slot h, hold the set S in order. *)
HoldsBut(f, n, h, S) ==
    /\ {f[i] : i \in (1..n) \ {h}} = S
    /\ \A i, j \in (1..n) \ {h} : i < j => f[i] < f[j]

(* Copying a neighbour into the hole moves the hole there. *)
LEMMA HoleMoves ==
    ASSUME NEW f \in [Slot -> Uuid \cup {0}], NEW n \in 0..MaxBlocked, NEW S,
           NEW h \in 1..n, NEW k \in 1..n, k = h - 1 \/ k = h + 1,
           HoldsBut(f, n, h, S)
    PROVE  HoldsBut([f EXCEPT ![h] = f[k]], n, k, S)
<1> DEFINE g == [f EXCEPT ![h] = f[k]]
           m(i) == IF i = h THEN k ELSE i
<1>1. n \in Nat /\ n <= MaxBlocked /\ MaxBlocked \in Nat
  BY MaxBlockedIsPos
<1>2. \A i \in 1..n : i \in Slot
  BY <1>1 DEF Slot
<1>3. \A i \in (1..n) \ {k} : m(i) \in (1..n) \ {h} /\ g[i] = f[m(i)]
  BY <1>1, <1>2
<1>4. \A i \in (1..n) \ {h} : \E j \in (1..n) \ {k} : m(j) = i
  <2> SUFFICES ASSUME NEW i \in (1..n) \ {h} PROVE \E j \in (1..n) \ {k} : m(j) = i
    OBVIOUS
  <2>1. CASE i = k
    <3>1. h \in (1..n) \ {k} /\ m(h) = i
      BY <1>1, <2>1
    <3> QED
      BY <3>1
  <2>2. CASE i # k
    <3>1. i \in (1..n) \ {k} /\ m(i) = i
      BY <2>2
    <3> QED
      BY <3>1
  <2> QED
    BY <2>1, <2>2
<1>5. \A i, j \in (1..n) \ {k} : i < j => m(i) < m(j)
  BY <1>1
<1> HIDE DEF m, g
<1>6. {g[i] : i \in (1..n) \ {k}} = S
  <2>1. ASSUME NEW x \in S PROVE \E j \in (1..n) \ {k} : x = g[j]
    <3>1. PICK i \in (1..n) \ {h} : x = f[i]
      BY <2>1 DEF HoldsBut
    <3>2. PICK j \in (1..n) \ {k} : m(j) = i
      BY <1>4
    <3> QED
      BY <1>3, <3>1, <3>2
  <2>2. ASSUME NEW j \in (1..n) \ {k} PROVE g[j] \in S
    BY <1>3 DEF HoldsBut
  <2> QED
    BY <2>1, <2>2
<1>7. \A i, j \in (1..n) \ {k} : i < j => g[i] < g[j]
  BY <1>3, <1>5 DEF HoldsBut
<1> QED
  BY <1>6, <1>7 DEF HoldsBut, g

-----------------------------------------------------------------------------
(***************************************************************************)
(* The inductive invariant: the place the shell thread has reached is a    *)
(* hole, the rest of the array is in order and complete.  While an entry   *)
(* is closed up, the hole stays in the last slot once it has got there.    *)
(***************************************************************************)
LastMoved == IF sh.at <= btail THEN sh.at ELSE btail

GapInv ==
    /\ sh.pc = "idle" => HoldsBut(blk, btail, 0, blocked)
    /\ sh.pc = "make_room" =>
        /\ btail < MaxBlocked
        /\ sh.at \in 1..btail + 1
        /\ sh.uuid \in Uuid \ blocked
        /\ HoldsBut(blk, btail + 1, sh.at, blocked)
        /\ \A i \in sh.at + 1..btail + 1 : sh.uuid < blk[i]
    /\ sh.pc = "grow" =>
        /\ btail < MaxBlocked
        /\ sh.uuid \in Uuid
        /\ HoldsBut(blk, btail + 1, 0, blocked \cup {sh.uuid})
    /\ sh.pc = "close_gap" =>
        /\ btail > 0
        /\ sh.at \in 1..btail + 1
        /\ HoldsBut(blk, btail, LastMoved, blocked \ {sh.uuid})

BlockedInv == BlockedTypeOK /\ GapInv

LEMMA BlockedInvInit == BlockedInit => BlockedInv
<1> SUFFICES ASSUME BlockedInit PROVE BlockedInv
  OBVIOUS
<1>1. sh = ShIdle /\ sh.pc = "idle" /\ btail = 0 /\ blocked = {}
  BY DEF BlockedInit, ShIdle
<1>2. HoldsBut(blk, 0, 0, {})
  BY DEF HoldsBut
<1>3. BlockedTypeOK
  <2>1. btail \in 0..MaxBlocked /\ blk \in [Slot -> Uuid \cup {0}]
    BY MaxBlockedIsPos DEF BlockedInit
  <2>2. sh \in [pc : {"idle", "make_room", "grow", "close_gap"},
                uuid : Uuid \cup {0}, at : 0..MaxBlocked + 1]
    BY <1>1, MaxBlockedIsPos DEF ShIdle
  <2> QED
    BY <1>1, <2>1, <2>2 DEF BlockedTypeOK
<1> QED
  BY <1>1, <1>2, <1>3 DEF BlockedInv, GapInv

LEMMA BlockStartsInv ==
    ASSUME BlockedInv, NEW u \in Uuid, BlockStarts(u)
    PROVE  BlockedInv'
<1>1. /\ sh' = [pc |-> "make_room", uuid |-> u, at |-> btail + 1]
      /\ btail \in 0..MaxBlocked /\ btail < MaxBlocked /\ MaxBlocked \in Nat
      /\ UNCHANGED <<blk, btail, blocked>>
      /\ HoldsBut(blk, btail, 0, blocked)
  BY MaxBlockedIsPos DEF BlockStarts, ShAt, BlockedInv, GapInv, BlockedTypeOK
<1>2. BlockedTypeOK'
  <2>1. sh' \in [pc : {"idle", "make_room", "grow", "close_gap"},
                 uuid : Uuid \cup {0}, at : 0..MaxBlocked + 1]
    BY <1>1
  <2> QED
    BY <1>1, <2>1 DEF BlockedInv, BlockedTypeOK
<1>3. u \notin blocked
  BY <1>1 DEF BlockStarts, IsBlocked, HoldsBut
<1>4. (1..btail) \ {0} = (1..btail + 1) \ {btail + 1}
  BY <1>1
<1>5. HoldsBut(blk, btail + 1, btail + 1, blocked)
  BY <1>1, <1>4, Zenon DEF HoldsBut
<1>6. GapInv'
  BY <1>1, <1>3, <1>5 DEF GapInv
<1> QED
  BY <1>2, <1>6 DEF BlockedInv

LEMMA BlockMakesRoomInv ==
    ASSUME BlockedInv, BlockMakesRoom
    PROVE  BlockedInv'
<1> DEFINE k == sh.at
<1>1. /\ sh.pc = "make_room" /\ k \in 2..btail + 1
      /\ btail \in Nat /\ btail < MaxBlocked /\ MaxBlocked \in Nat
      /\ sh.uuid \in Uuid \ blocked /\ sh.uuid < blk[k - 1]
      /\ HoldsBut(blk, btail + 1, k, blocked)
      /\ \A i \in k + 1..btail + 1 : sh.uuid < blk[i]
      /\ blk \in [Slot -> Uuid \cup {0}]
      /\ blk' = [blk EXCEPT ![k] = blk[k - 1]]
      /\ UNCHANGED <<btail, blocked>>
  BY MaxBlockedIsPos DEF BlockMakesRoom, BlockedInv, GapInv, BlockedTypeOK
<1>2. /\ sh'.pc = "make_room" /\ sh'.uuid = sh.uuid /\ sh'.at = k - 1
      /\ sh' \in [pc : {"idle", "make_room", "grow", "close_gap"},
                  uuid : Uuid \cup {0}, at : 0..MaxBlocked + 1]
  BY <1>1 DEF BlockMakesRoom, BlockedInv, BlockedTypeOK
<1>3. k \in Slot /\ k - 1 \in Slot
  BY <1>1 DEF Slot
<1>4. BlockedTypeOK'
  <2>1. blk' \in [Slot -> Uuid \cup {0}]
    BY <1>1, <1>3
  <2> QED
    BY <1>1, <1>2, <2>1 DEF BlockedInv, BlockedTypeOK
<1> HIDE DEF k
<1>5. HoldsBut(blk', btail + 1, k - 1, blocked)
  <2>1. /\ btail + 1 \in 0..MaxBlocked /\ k \in 1..btail + 1 /\ k - 1 \in 1..btail + 1
    BY <1>1
  <2> QED
    BY <1>1, <2>1, HoleMoves
<1>6. \A i \in k..btail + 1 : sh.uuid < blk'[i]
  BY <1>1, <1>3
<1>7. GapInv'
  BY <1>1, <1>2, <1>5, <1>6 DEF GapInv
<1> QED
  BY <1>4, <1>7 DEF BlockedInv

LEMMA BlockWritesInv ==
    ASSUME BlockedInv, BlockWrites
    PROVE  BlockedInv'
<1> DEFINE k == sh.at
           u == sh.uuid
           n == btail + 1
<1>1. /\ sh.pc = "make_room" /\ k \in 1..n
      /\ btail \in Nat /\ btail < MaxBlocked /\ MaxBlocked \in Nat
      /\ u \in Uuid \ blocked
      /\ k > 1 => ~(u < blk[k - 1])
      /\ HoldsBut(blk, n, k, blocked)
      /\ \A i \in k + 1..n : u < blk[i]
      /\ blk \in [Slot -> Uuid \cup {0}]
      /\ blk' = [blk EXCEPT ![k] = u]
      /\ sh' = [pc |-> "grow", uuid |-> u, at |-> k]
      /\ UNCHANGED <<btail, blocked>>
  BY MaxBlockedIsPos DEF BlockWrites, ShAt, BlockedInv, GapInv, BlockedTypeOK
<1>2. k \in Slot /\ \A i \in 1..n : i \in Slot
  BY <1>1 DEF Slot
<1>3. BlockedTypeOK'
  <2>1. blk' \in [Slot -> Uuid \cup {0}]
    BY <1>1, <1>2
  <2>2. sh' \in [pc : {"idle", "make_room", "grow", "close_gap"},
                 uuid : Uuid \cup {0}, at : 0..MaxBlocked + 1]
    BY <1>1
  <2> QED
    BY <1>1, <2>1, <2>2 DEF BlockedInv, BlockedTypeOK
<1>4. /\ n \in Nat /\ k \in 1..n
      /\ \A i \in 1..n : blk'[i] = IF i = k THEN u ELSE blk[i]
      /\ \A i \in (1..n) \ {k} : blk[i] \in Nat /\ blk[i] # u
      /\ u \in Nat
  <2>0. \A x \in Uuid \cup {0} : x \in Nat
    BY UuidIsPos
  <2>1. n \in Nat /\ u \in Nat /\ k \in 1..n
    <3>1. u \in Nat
      BY <1>1, <2>0, Zenon
    <3> QED
      BY <1>1, <3>1
  <2>2. \A i \in 1..n : blk'[i] = IF i = k THEN u ELSE blk[i]
    BY <1>1, <1>2
  <2>3. \A i \in (1..n) \ {k} : blk[i] \in Nat /\ blk[i] # u
    <3>1. \A i \in 1..n : blk[i] \in Nat
      <4>1. \A i \in Slot : blk[i] \in Uuid \cup {0}
        BY <1>1
      <4> QED
        BY <1>2, <2>0, <4>1, Zenon
    <3>2. \A i \in (1..n) \ {k} : blk[i] \in blocked
      BY <1>1 DEF HoldsBut
    <3> QED
      BY <1>1, <3>1, <3>2
  <2> QED
    BY <2>1, <2>2, <2>3
<1> HIDE DEF k, u, n
<1>5. \A i \in 1..n : i < k => blk[i] < u
  <2> SUFFICES ASSUME NEW i \in 1..n, i < k PROVE blk[i] < u
    OBVIOUS
  <2>1. k - 1 \in (1..n) \ {k} /\ i \in (1..n) \ {k}
    BY <1>4
  <2>2. blk[k - 1] < u
    BY <1>1, <1>4, <2>1
  <2>3. i = k - 1 \/ blk[i] < blk[k - 1]
    BY <1>1, <1>4, <2>1 DEF HoldsBut
  <2> QED
    BY <1>4, <2>1, <2>2, <2>3
<1>6. \A i, j \in (1..n) \ {0} : i < j => blk'[i] < blk'[j]
  <2> SUFFICES ASSUME NEW i \in 1..n, NEW j \in 1..n, i < j PROVE blk'[i] < blk'[j]
    OBVIOUS
  <2>1. CASE i # k /\ j # k
    BY <1>1, <1>4, <2>1 DEF HoldsBut
  <2>2. CASE i = k
    <3>1. j \in k + 1..n /\ blk'[i] = u /\ blk'[j] = blk[j]
      BY <1>4, <2>2
    <3> QED
      BY <1>1, <3>1
  <2>3. CASE j = k
    BY <1>4, <1>5, <2>3
  <2> QED
    BY <2>1, <2>2, <2>3
<1>7. {blk'[i] : i \in (1..n) \ {0}} = blocked \cup {u}
  <2>1. ASSUME NEW x \in blocked PROVE \E i \in (1..n) \ {0} : x = blk'[i]
    <3>1. PICK i \in (1..n) \ {k} : x = blk[i]
      BY <1>1, <2>1 DEF HoldsBut
    <3> QED
      BY <1>4, <3>1
  <2>2. \E i \in (1..n) \ {0} : u = blk'[i]
    BY <1>4
  <2>3. ASSUME NEW i \in (1..n) \ {0} PROVE blk'[i] \in blocked \cup {u}
    BY <1>1, <1>4 DEF HoldsBut
  <2> QED
    BY <2>1, <2>2, <2>3
<1>8. HoldsBut(blk', n, 0, blocked \cup {u})
  BY <1>6, <1>7 DEF HoldsBut
<1>9. GapInv'
  BY <1>1, <1>8 DEF GapInv, n
<1> QED
  BY <1>3, <1>9 DEF BlockedInv

LEMMA UnblockStartsInv ==
    ASSUME BlockedInv, NEW u \in Uuid, UnblockStarts(u)
    PROVE  BlockedInv'
<1>1. PICK k \in 1..btail : blk[k] = u /\ sh' = [pc |-> "close_gap", uuid |-> u, at |-> k]
  BY DEF UnblockStarts, ShAt
<1>2. /\ btail \in 0..MaxBlocked /\ MaxBlocked \in Nat
      /\ UNCHANGED <<blk, btail, blocked>>
      /\ HoldsBut(blk, btail, 0, blocked)
  BY MaxBlockedIsPos DEF UnblockStarts, BlockedInv, GapInv, BlockedTypeOK
<1>3. BlockedTypeOK'
  <2>1. sh' \in [pc : {"idle", "make_room", "grow", "close_gap"},
                 uuid : Uuid \cup {0}, at : 0..MaxBlocked + 1]
    BY <1>1, <1>2
  <2> QED
    BY <1>2, <2>1 DEF BlockedInv, BlockedTypeOK
<1>4. HoldsBut(blk, btail, k, blocked \ {u})
  <2>1. \A i \in (1..btail) \ {k} : i \in (1..btail) \ {0} /\ blk[i] # blk[k]
    <3> SUFFICES ASSUME NEW i \in (1..btail) \ {k} PROVE i # 0 /\ blk[i] # blk[k]
      OBVIOUS
    <3>1. i \in (1..btail) \ {0} /\ k \in (1..btail) \ {0} /\ (i < k \/ k < i)
      BY <1>2
    <3>2. blk[i] \in Nat /\ blk[k] \in Nat
      <4>1. \A x \in Uuid \cup {0} : x \in Nat
        BY UuidIsPos
      <4>2. i \in Slot /\ k \in Slot
        BY <1>2 DEF Slot
      <4>3. \A x \in Slot : blk[x] \in Uuid \cup {0}
        BY DEF BlockedInv, BlockedTypeOK
      <4> QED
        BY <4>1, <4>2, <4>3, Zenon
    <3>3. blk[i] < blk[k] \/ blk[k] < blk[i]
      BY <1>2, <3>1 DEF HoldsBut
    <3> QED
      BY <3>1, <3>2, <3>3
  <2>2. {blk[i] : i \in (1..btail) \ {k}} = blocked \ {u}
    <3>1. ASSUME NEW x \in blocked \ {u} PROVE \E i \in (1..btail) \ {k} : x = blk[i]
      <4>1. PICK i \in (1..btail) \ {0} : x = blk[i]
        BY <1>2, <3>1 DEF HoldsBut
      <4>2. i # k
        BY <1>1, <3>1, <4>1
      <4> QED
        BY <4>1, <4>2
    <3>2. ASSUME NEW i \in (1..btail) \ {k} PROVE blk[i] \in blocked \ {u}
      BY <1>1, <1>2, <2>1 DEF HoldsBut
    <3> QED
      BY <3>1, <3>2
  <2>3. \A i, j \in (1..btail) \ {k} : i < j => blk[i] < blk[j]
    BY <1>2, <2>1 DEF HoldsBut
  <2> QED
    BY <2>2, <2>3 DEF HoldsBut
<1>5. GapInv'
  <2>1. sh'.pc = "close_gap" /\ sh'.uuid = u /\ sh'.at = k
    BY <1>1
  <2>2. btail > 0 /\ k \in 1..btail + 1 /\ k <= btail
    BY <1>2
  <2>3. LastMoved' = k
    BY <1>2, <2>1, <2>2 DEF LastMoved
  <2> QED
    BY <1>2, <1>4, <2>1, <2>2, <2>3 DEF GapInv
<1> QED
  BY <1>3, <1>5 DEF BlockedInv

LEMMA UnblockClosesGapInv ==
    ASSUME BlockedInv, UnblockClosesGap
    PROVE  BlockedInv'
<1> DEFINE k == sh.at
<1>1. /\ sh.pc = "close_gap" /\ k \in 1..btail
      /\ btail \in Nat /\ btail <= MaxBlocked /\ MaxBlocked \in Nat
      /\ HoldsBut(blk, btail, k, blocked \ {sh.uuid})
      /\ blk \in [Slot -> Uuid \cup {0}]
      /\ UNCHANGED <<btail, blocked>>
  BY MaxBlockedIsPos DEF UnblockClosesGap, BlockedInv, GapInv, BlockedTypeOK, LastMoved
<1>2. PICK g \in IF k < MaxBlocked THEN {blk[k + 1]} ELSE Uuid \cup {0} :
        blk' = [blk EXCEPT ![k] = g]
  BY DEF UnblockClosesGap
<1>3. /\ sh'.pc = "close_gap" /\ sh'.uuid = sh.uuid /\ sh'.at = k + 1
      /\ sh' \in [pc : {"idle", "make_room", "grow", "close_gap"},
                  uuid : Uuid \cup {0}, at : 0..MaxBlocked + 1]
  BY <1>1 DEF UnblockClosesGap, BlockedInv, BlockedTypeOK
<1>4. BlockedTypeOK'
  <2>1. k \in Slot /\ (k < MaxBlocked => k + 1 \in Slot)
    BY <1>1 DEF Slot
  <2>2. g \in Uuid \cup {0}
    BY <1>1, <1>2, <2>1
  <2>3. blk' \in [Slot -> Uuid \cup {0}]
    BY <1>1, <1>2, <2>1, <2>2
  <2> QED
    BY <1>1, <1>3, <2>3 DEF BlockedInv, BlockedTypeOK
<1> HIDE DEF k
<1>5. HoldsBut(blk', btail, LastMoved', blocked \ {sh.uuid})
  <2>1. CASE k < btail
    <3>1. LastMoved' = k + 1
      <4>1. sh'.at = k + 1 /\ btail' = btail /\ k + 1 <= btail
        BY <1>1, <1>3, <2>1
      <4> QED
        BY <4>1 DEF LastMoved
    <3>2. k < MaxBlocked
      BY <1>1, <2>1
    <3>3. blk' = [blk EXCEPT ![k] = blk[k + 1]]
      BY <1>2, <3>2
    <3>4. btail \in 0..MaxBlocked /\ k \in 1..btail /\ k + 1 \in 1..btail
      BY <1>1, <2>1
    <3> QED
      BY <1>1, <3>1, <3>3, <3>4, HoleMoves
  <2>2. CASE k = btail
    <3>1. LastMoved' = k
      BY <1>1, <1>3, <2>2 DEF LastMoved
    <3>2. \A i \in (1..btail) \ {k} : blk'[i] = blk[i]
      <4>1. \A i \in 1..btail : i \in Slot
        BY <1>1 DEF Slot
      <4> QED
        BY <1>1, <1>2, <4>1
    <3> QED
      BY <1>1, <3>1, <3>2 DEF HoldsBut
  <2> QED
    BY <1>1, <2>1, <2>2
<1>6. GapInv'
  <2>1. btail > 0 /\ k + 1 \in 1..btail + 1
    BY <1>1
  <2> QED
    BY <1>1, <1>3, <1>5, <2>1 DEF GapInv
<1> QED
  BY <1>4, <1>6 DEF BlockedInv

(* BlockEnds and UnblockEnds: the tail moves past the new entry, or before the  *)
(* hole.                                                                      *)
LEMMA CommandEndsInv ==
    ASSUME BlockedInv, BlockEnds \/ UnblockEnds
    PROVE  BlockedInv'
<1>1. btail \in Nat /\ btail <= MaxBlocked /\ MaxBlocked \in Nat
  BY MaxBlockedIsPos DEF BlockedInv, BlockedTypeOK
<1>2. /\ sh'.pc = "idle" /\ blk' = blk
      /\ sh' \in [pc : {"idle", "make_room", "grow", "close_gap"},
                  uuid : Uuid \cup {0}, at : 0..MaxBlocked + 1]
  BY <1>1 DEF BlockEnds, UnblockEnds, ShIdle
<1>3. HoldsBut(blk, btail', 0, blocked') /\ btail' \in 0..MaxBlocked /\ blocked' \subseteq Uuid
  <2>1. CASE BlockEnds
    BY <1>1, <2>1 DEF BlockEnds, BlockedInv, BlockedTypeOK, GapInv
  <2>2. CASE UnblockEnds
    <3>1. /\ btail > 0 /\ btail' = btail - 1
          /\ blocked' = blocked \ {sh.uuid} /\ blocked \subseteq Uuid
          /\ HoldsBut(blk, btail, btail, blocked')
      BY <1>1, <2>2 DEF UnblockEnds, BlockedInv, BlockedTypeOK, GapInv, LastMoved
    <3>2. (1..btail) \ {btail} = (1..btail') \ {0}
      BY <1>1, <3>1
    <3>3. HoldsBut(blk, btail', 0, blocked')
      BY <3>1, <3>2, Zenon DEF HoldsBut
    <3> QED
      BY <1>1, <3>1, <3>3
  <2> QED
    BY <2>1, <2>2
<1>4. BlockedTypeOK'
  BY <1>2, <1>3 DEF BlockedInv, BlockedTypeOK
<1>5. GapInv'
  BY <1>2, <1>3 DEF GapInv
<1> QED
  BY <1>4, <1>5 DEF BlockedInv

LEMMA BlockedInvNext == BlockedInv /\ [BlockedNext]_blockedVars => BlockedInv'
<1>1. ASSUME BlockedInv, UNCHANGED blockedVars PROVE BlockedInv'
  <2>1. sh' = sh /\ blk' = blk /\ btail' = btail /\ blocked' = blocked
    BY <1>1 DEF blockedVars
  <2>2. BlockedTypeOK'
    BY <1>1, <2>1 DEF BlockedInv, BlockedTypeOK
  <2>3. LastMoved' = LastMoved
    BY <2>1 DEF LastMoved
  <2>4. GapInv
    BY <1>1 DEF BlockedInv
  <2>5. GapInv'
    BY <2>1, <2>3, <2>4 DEF GapInv
  <2> QED
    BY <2>2, <2>5 DEF BlockedInv
<1> QED
  BY <1>1, BlockStartsInv, BlockMakesRoomInv, BlockWritesInv, UnblockStartsInv,
     UnblockClosesGapInv, CommandEndsInv
     DEF BlockedNext, ShellSteps

-----------------------------------------------------------------------------
(* EachListAlone: in Beacons, the beacon list does nothing that BeaconList does   *)
(* not, and the blocked list nothing that BlockedList does not; whatever is       *)
(* proved of either holds of the two together.                                  *)
THEOREM EachListAlone == Spec => ListSpec /\ BlockedSpec
<1>1. Init => ListInit /\ BlockedInit
  BY DEF Init
<1>2. [Next]_vars => [ListNext]_listVars /\ [BlockedNext]_blockedVars
  <2> SUFFICES ASSUME [Next]_vars PROVE [ListNext]_listVars /\ [BlockedNext]_blockedVars
    OBVIOUS
  <2>1. ASSUME NEW u \in Uuid, BeaconRecv(u)
        PROVE  ListNext /\ UNCHANGED blockedVars
    BY <2>1 DEF BeaconRecv, ListNext, RecvNext
  <2>2. CASE ListStep
    BY <2>2 DEF ListStep, ListNext
  <2>3. CASE ShellStep
    BY <2>3 DEF ShellStep
  <2>4. CASE UNCHANGED vars
    BY <2>4 DEF vars
  <2> QED
    BY <2>1, <2>2, <2>3, <2>4 DEF Next
<1> QED
  BY <1>1, <1>2, PTL DEF Spec, ListSpec, BlockedSpec

(* Typed: TypeOK, for lists of any size: no command and no scan leaves the bounds  *)
(* of the two arrays.                                                           *)
THEOREM Typed == Spec => []TypeOK
<1>1. BlockedInv => BlockedTypeOK
  BY DEF BlockedInv
<1>2. ListTypeOK /\ BlockedTypeOK => TypeOK
  BY DEF TypeOK
<1> QED
  BY <1>1, <1>2, EachListAlone, ListTyped, BlockedInvInit, BlockedInvNext, PTL DEF BlockedSpec

(* AlwaysExact: between two commands the blocked list is exact and in order, for   *)
(* every size of the array and every sequence of commands.                      *)
THEOREM AlwaysExact == Spec => []BlockedExact
<1>1. BlockedInv => BlockedExact
  <2> SUFFICES ASSUME BlockedInv, sh.pc = "idle" PROVE BlockedExact
    BY DEF BlockedExact
  <2>1. HoldsBut(blk, btail, 0, blocked) /\ btail \in Nat
    BY MaxBlockedIsPos DEF BlockedInv, GapInv, BlockedTypeOK
  <2>2. (1..btail) \ {0} = 1..btail
    BY <2>1
  <2> QED
    BY <2>1, <2>2, Zenon DEF HoldsBut, BlockedExact
<1> QED
  BY <1>1, BlockedInvInit, BlockedInvNext, EachListAlone, PTL DEF BlockedSpec

(* Who is in the list after a step: beacon_recv adds its argument at most, and   *)
(* only when it is not blocked; nothing else adds anyone.                       *)
LEMMA OnlyUnblockedEnter ==
    ASSUME ListTypeOK, [Next]_vars, NEW u \in ListedUuids' \ ListedUuids
    PROVE  ~IsBlocked(u)
<1> DEFINE n == Len(list)
<1>1. list \in Seq(Entry) /\ n \in Nat
  BY DEF ListTypeOK
<1>2. ASSUME list' = list PROVE FALSE
  BY <1>2 DEF ListedUuids
<1>3. ASSUME NEW v \in Uuid, ~IsBlocked(v), RecvNew(v) PROVE ~IsBlocked(u)
  <2>1. PICK k \in 1..n + 1, t \in 1..MaxBeacon + 1 :
          list' = InsertedAt(k, [uuid |-> v, timer |-> t])
    BY <1>3 DEF RecvNew
  <2>2. DOMAIN list' = 1..n + 1 /\ Len(list') = n + 1
    BY <1>1, <2>1 DEF InsertedAt
  <2>3. \A i \in 1..n + 1 :
          list'[i].uuid = IF i < k THEN list[i].uuid ELSE IF i = k THEN v ELSE list[i - 1].uuid
    BY <1>1, <2>1 DEF InsertedAt
  <2>4. PICK i \in 1..n + 1 : u = list'[i].uuid
    BY <2>2 DEF ListedUuids
  <2>5. u # v => \E j \in 1..n : u = list[j].uuid
    <3> SUFFICES ASSUME u # v PROVE \E j \in 1..n : u = list[j].uuid
      OBVIOUS
    <3>1. i # k
      BY <2>3, <2>4
    <3>2. CASE i < k
      <4>1. i \in 1..n /\ u = list[i].uuid
        BY <1>1, <2>3, <2>4, <3>2
      <4> QED
        BY <4>1
    <3>3. CASE i > k
      <4>1. i - 1 \in 1..n /\ u = list[i - 1].uuid
        BY <1>1, <2>3, <2>4, <3>3
      <4> QED
        BY <4>1
    <3> QED
      BY <1>1, <3>1, <3>2, <3>3
  <2>6. u = v
    BY <2>5 DEF ListedUuids
  <2> QED
    BY <1>3, <2>6
<1>4. ASSUME ScanRemoves PROVE FALSE
  <2>1. scan \in 1..n /\ list' = RemovedAt(scan)
    BY <1>4 DEF ScanRemoves
  <2>2. /\ Len(list') = n - 1
        /\ \A i \in 1..n - 1 : list'[i] = IF i < scan THEN list[i] ELSE list[i + 1]
    BY <1>1, <2>1, Removed
  <2>3. PICK i \in 1..n - 1 : u = list'[i].uuid
    BY <2>2 DEF ListedUuids
  <2>4. i \in 1..n /\ i + 1 \in 1..n
    BY <1>1
  <2>5. u = list[i].uuid \/ u = list[i + 1].uuid
    BY <2>2, <2>3
  <2> QED
    BY <2>4, <2>5 DEF ListedUuids
<1>5. ASSUME NEW v \in Uuid, BeaconRecv(v) PROVE ~IsBlocked(u)
  BY <1>2, <1>3, <1>5 DEF BeaconRecv, RecvDropped, RecvListed, listVars
<1>6. CASE ListStep
  BY <1>2, <1>4, <1>6
     DEF ListStep, FallsSilent, TimerExpires, ScanNext, ScanStarts, ScanKeeps, ScanEnds
<1>7. CASE ShellStep
  BY <1>2, <1>7 DEF ShellStep, listVars
<1>8. CASE UNCHANGED vars
  BY <1>2, <1>8 DEF vars, listVars
<1> QED
  BY <1>5, <1>6, <1>7, <1>8 DEF Next

(* At every moment beacon_is_blocked finds everything that is blocked, but for    *)
(* the UUID behind the tail.                                                   *)
LEMMA UnfoundIsDisplaced ==
    ASSUME BlockedInv, NEW u \in blocked \ {sh.uuid}, ~IsBlocked(u)
    PROVE  Displaced(u)
<1>0. /\ btail \in Nat /\ sh.at \in Nat /\ u \in Nat /\ sh.uuid \in Nat
      /\ \A v \in blocked : v \in Nat
      /\ \A i \in 1..btail : u # blk[i]
      /\ sh.pc \in {"idle", "make_room", "grow", "close_gap"}
  <2>1. btail \in Nat /\ sh.at \in Nat /\ sh.uuid \in Nat
    <3>1. /\ btail \in 0..MaxBlocked
          /\ sh.at \in 0..MaxBlocked + 1
          /\ sh.uuid \in Uuid \cup {0}
      BY DEF BlockedInv, BlockedTypeOK
    <3>2. MaxBlocked \in Nat
      BY MaxBlockedIsPos
    <3>3. btail \in Nat /\ sh.at \in Nat
      BY <3>1, <3>2
    <3>4. sh.uuid \in Nat
      <4>1. \A v \in Uuid : v \in Nat
        BY UuidIsPos
      <4>2. sh.uuid \in Uuid \/ sh.uuid = 0
        BY <3>1
      <4> QED
        BY <4>1, <4>2
    <3> QED
      BY <3>3, <3>4
  <2>2. \A v \in blocked : v \in Nat
    BY UuidIsPos DEF BlockedInv, BlockedTypeOK
  <2>3. \A i \in 1..btail : u # blk[i]
    BY DEF IsBlocked
  <2>4. sh.pc \in {"idle", "make_room", "grow", "close_gap"}
    BY DEF BlockedInv, BlockedTypeOK
  <2> QED
    BY <2>1, <2>2, <2>3, <2>4
<1>1. CASE sh.pc = "idle"
  <2>1. PICK i \in (1..btail) \ {0} : u = blk[i]
    BY <1>1 DEF BlockedInv, GapInv, HoldsBut
  <2> QED
    BY <2>1 DEF IsBlocked
<1>2. CASE sh.pc = "close_gap"
  <2>1. PICK i \in (1..btail) \ {LastMoved} : u = blk[i]
    BY <1>2 DEF BlockedInv, GapInv, HoldsBut
  <2> QED
    BY <2>1 DEF IsBlocked
<1>3. ASSUME NEW h \in 0..btail + 1, NEW S, blocked \subseteq S, HoldsBut(blk, btail + 1, h, S),
             u \in S
      PROVE  /\ btail + 1 # h /\ u = blk[btail + 1]
             /\ \A v \in blocked : v <= u
  <2>1. PICK i \in (1..btail + 1) \ {h} : u = blk[i]
    BY <1>3 DEF HoldsBut
  <2>2. i = btail + 1
    BY <1>0, <2>1
  <2>3. ASSUME NEW v \in blocked PROVE v <= u
    <3>1. PICK j \in (1..btail + 1) \ {h} : v = blk[j]
      BY <1>3, <2>3 DEF HoldsBut
    <3>2. j = i \/ j < i
      BY <1>0, <2>2, <3>1
    <3>3. j < i => blk[j] < blk[i]
      BY <1>3, <2>1, <3>1 DEF HoldsBut
    <3> QED
      BY <1>0, <2>1, <3>1, <3>2, <3>3
  <2> QED
    BY <2>1, <2>2, <2>3
<1>4. CASE sh.pc = "make_room"
  <2>1. /\ sh.at \in 1..btail + 1
        /\ HoldsBut(blk, btail + 1, sh.at, blocked)
        /\ \A i \in sh.at + 1..btail + 1 : sh.uuid < blk[i]
    BY <1>4 DEF BlockedInv, GapInv
  <2>2. btail + 1 # sh.at /\ u = blk[btail + 1] /\ \A v \in blocked : v <= u
    BY <1>0, <1>3, <2>1
  <2>3. sh.at <= btail /\ sh.uuid < u
    BY <1>0, <2>1, <2>2
  <2> QED
    BY <1>0, <1>4, <2>2, <2>3 DEF Displaced
<1>5. CASE sh.pc = "grow"
  <2>1. HoldsBut(blk, btail + 1, 0, blocked \cup {sh.uuid})
    BY <1>5 DEF BlockedInv, GapInv
  <2>2. u = blk[btail + 1] /\ \A v \in blocked : v <= u
    BY <1>0, <1>3, <2>1
  <2>3. PICK j \in (1..btail + 1) \ {0} : sh.uuid = blk[j]
    BY <2>1 DEF HoldsBut
  <2>4. j < btail + 1 /\ btail + 1 \in (1..btail + 1) \ {0}
    BY <1>0, <2>2, <2>3
  <2>5. sh.uuid < u
    BY <2>1, <2>2, <2>3, <2>4 DEF HoldsBut
  <2> QED
    BY <1>0, <1>5, <2>2, <2>5 DEF Displaced
<1> QED
  BY <1>0, <1>1, <1>2, <1>4, <1>5

(* NeverAdmitted: a beacon that is blocked enters the beacon list in one case        *)
(* only, while a block command has it behind the tail; at no other moment of a       *)
(* block or an unblock command, and between no two commands.                       *)
THEOREM NeverAdmitted == Spec => BlockedNotAdmitted
<1>1. ListTypeOK /\ BlockedInv /\ [Next]_vars
        => [\A u \in ListedUuids' \ ListedUuids :
                u \in blocked \ {sh.uuid} => Displaced(u)]_vars
  <2> SUFFICES ASSUME ListTypeOK, BlockedInv, [Next]_vars,
                      NEW u \in ListedUuids' \ ListedUuids, u \in blocked \ {sh.uuid}
               PROVE  Displaced(u)
    OBVIOUS
  <2>1. ~IsBlocked(u)
    BY OnlyUnblockedEnter
  <2> QED
    BY <2>1, UnfoundIsDisplaced
<1> QED
  BY <1>1, ListTyped, BlockedInvInit, BlockedInvNext, EachListAlone, PTL
     DEF BlockedSpec, BlockedNotAdmitted, Spec
=============================================================================
