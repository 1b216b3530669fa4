------------------------------ MODULE CloudConnProofs ------------------------------
(***************************************************************************)
(* Proofs about CloudConn, for any CONFIG_CLOUD_CONNECT_COUNT_MAX.         *)
(***************************************************************************)
EXTENDS CloudConn, SequenceTheorems, TLAPS

(* Every work is in the queue at most once. *)
Unique(q) == \A i, j \in 1..Len(q) : q[i] = q[j] => i = j

-----------------------------------------------------------------------------
(* What cancelling, submitting and running a work make of the queue. *)

LEMMA WithoutIs ==
    ASSUME NEW q \in Seq(Work), Unique(q), NEW w \in Work
    PROVE  /\ Without(q, w) \in Seq(Work)
           /\ Unique(Without(q, w))
           /\ \A v \in Work : Contains(Without(q, w), v) <=> Contains(q, v) /\ v # w
<1>1. CASE ~Contains(q, w)
  BY <1>1 DEF Without, Contains
<1>2. CASE Contains(q, w)
  <2> DEFINE k == CHOOSE i \in 1..Len(q) : q[i] = w
             r == RemoveAt(q, k)
             n == Len(q)
             old(i) == IF i < k THEN i ELSE i + 1
  <2>1. k \in 1..n /\ q[k] = w
    BY <1>2 DEF Contains
  <2>2. Without(q, w) = r
    BY <1>2 DEF Without
  <2> HIDE DEF k
  <2>3. n \in Nat /\ \A i \in 1..n : q[i] \in Work
    OBVIOUS
  <2> DEFINE a == SubSeq(q, 1, k - 1)
             b == SubSeq(q, k + 1, n)
  <2>4. a \in Seq(Work) /\ Len(a) = k - 1 /\ \A i \in 1..k - 1 : a[i] = q[i]
    BY <2>1, <2>3
  <2>5. b \in Seq(Work) /\ Len(b) = n - k /\ \A i \in 1..n - k : b[i] = q[k + i]
    BY <2>1, <2>3
  <2>6. r = a \o b
    BY DEF RemoveAt
  <2> HIDE DEF a, b, r, n
  <2>7. r \in Seq(Work) /\ Len(r) = n - 1 /\ \A i \in 1..n - 1 : r[i] = q[old(i)]
    <3>1. /\ a \o b \in Seq(Work)
          /\ Len(a \o b) = Len(a) + Len(b)
          /\ \A i \in 1..Len(a) + Len(b) :
                (a \o b)[i] = IF i <= Len(a) THEN a[i] ELSE b[i - Len(a)]
      BY <2>4, <2>5, ConcatProperties
    <3>2. r \in Seq(Work) /\ Len(r) = n - 1
      BY <2>1, <2>3, <2>4, <2>5, <2>6, <3>1
    <3>3. ASSUME NEW i \in 1..n - 1 PROVE r[i] = q[old(i)]
      <4>1. r[i] = IF i <= k - 1 THEN a[i] ELSE b[i - (k - 1)]
        BY <2>1, <2>3, <2>4, <2>5, <2>6, <3>1
      <4>2. CASE i < k
        BY <2>1, <2>3, <2>4, <4>1, <4>2
      <4>3. CASE i >= k
        <5>1. i - (k - 1) \in 1..n - k /\ k + (i - (k - 1)) = i + 1
          BY <2>1, <2>3, <4>3
        <5>2. r[i] = b[i - (k - 1)]
          BY <2>1, <2>3, <4>1, <4>3
        <5>3. b[i - (k - 1)] = q[i + 1]
          BY <2>5, <5>1
        <5> QED
          BY <2>1, <2>3, <4>3, <5>2, <5>3
      <4> QED
        BY <2>1, <2>3, <4>2, <4>3
    <3> QED
      BY <3>2, <3>3
  <2>8. \A i \in 1..n - 1 : old(i) \in 1..n /\ old(i) # k
    BY <2>1, <2>3
  <2>9. \A i, j \in 1..n - 1 : old(i) = old(j) => i = j
    BY <2>1, <2>3
  <2>10. \A j \in 1..n : j # k => \E i \in 1..n - 1 : old(i) = j
    <3> SUFFICES ASSUME NEW j \in 1..n, j # k PROVE \E i \in 1..n - 1 : old(i) = j
      OBVIOUS
    <3>1. CASE j < k
      <4>1. j \in 1..n - 1 /\ old(j) = j
        BY <2>1, <2>3, <3>1
      <4> QED
        BY <4>1
    <3>2. CASE j > k
      <4>1. j - 1 \in 1..n - 1 /\ old(j - 1) = j
        BY <2>1, <2>3, <3>2
      <4> QED
        BY <4>1
    <3> QED
      BY <2>1, <3>1, <3>2
  <2> HIDE DEF old
  <2>11. Unique(r)
    BY <2>7, <2>8, <2>9 DEF Unique, n
  <2>12. \A v \in Work : Contains(r, v) <=> Contains(q, v) /\ v # w
    <3> SUFFICES ASSUME NEW v \in Work PROVE Contains(r, v) <=> Contains(q, v) /\ v # w
      OBVIOUS
    <3>1. ASSUME Contains(r, v) PROVE Contains(q, v) /\ v # w
      <4>1. PICK i \in 1..n - 1 : v = q[old(i)]
        BY <2>6, <2>7, <3>1 DEF Contains
      <4>2. old(i) \in 1..n /\ old(i) # k
        BY <2>8
      <4> QED
        BY <2>1, <4>1, <4>2 DEF Contains, Unique, n
    <3>2. ASSUME Contains(q, v), v # w PROVE Contains(r, v)
      <4>1. PICK j \in 1..n : q[j] = v
        BY <3>2 DEF Contains, n
      <4>2. j # k
        BY <2>1, <3>2, <4>1
      <4>3. PICK i \in 1..n - 1 : old(i) = j
        BY <2>10, <4>2
      <4> QED
        BY <2>6, <2>7, <4>1, <4>3 DEF Contains
    <3> QED
      BY <3>1, <3>2
  <2> QED
    BY <2>2, <2>7, <2>11, <2>12
<1> QED
  BY <1>1, <1>2

LEMMA SubmittedIs ==
    ASSUME NEW q \in Seq(Work), Unique(q), NEW w \in Work
    PROVE  /\ Submitted(q, w) \in Seq(Work)
           /\ Unique(Submitted(q, w))
           /\ \A v \in Work : Contains(Submitted(q, w), v) <=> Contains(q, v) \/ v = w
<1>1. CASE Contains(q, w)
  BY <1>1 DEF Submitted
<1>2. CASE ~Contains(q, w)
  <2> DEFINE r == Append(q, w)
             n == Len(q)
  <2>1. /\ n \in Nat /\ r \in Seq(Work) /\ Len(r) = n + 1
        /\ \A i \in 1..n : r[i] = q[i]
        /\ r[n + 1] = w
    OBVIOUS
  <2>2. Submitted(q, w) = r
    BY <1>2 DEF Submitted
  <2>3. \A i \in 1..n : q[i] # w
    BY <1>2 DEF Contains
  <2> HIDE DEF r
  <2>4. Unique(r)
    <3> SUFFICES ASSUME NEW i \in 1..n + 1, NEW j \in 1..n + 1, r[i] = r[j] PROVE i = j
      BY <2>1 DEF Unique
    <3>1. CASE i = n + 1 /\ j # n + 1
      BY <2>1, <2>3, <3>1
    <3>2. CASE i # n + 1 /\ j = n + 1
      BY <2>1, <2>3, <3>2
    <3>3. CASE i # n + 1 /\ j # n + 1
      BY <2>1, <3>3 DEF Unique
    <3> QED
      BY <3>1, <3>2, <3>3
  <2>5. \A v \in Work : Contains(r, v) <=> Contains(q, v) \/ v = w
    <3> SUFFICES ASSUME NEW v \in Work PROVE Contains(r, v) <=> Contains(q, v) \/ v = w
      OBVIOUS
    <3>1. ASSUME Contains(r, v) PROVE Contains(q, v) \/ v = w
      <4>1. PICK i \in 1..n + 1 : r[i] = v
        BY <2>1, <3>1 DEF Contains
      <4> QED
        BY <2>1, <4>1 DEF Contains
    <3>2. ASSUME Contains(q, v) \/ v = w PROVE Contains(r, v)
      <4>1. \E i \in 1..n + 1 : r[i] = v
        BY <2>1, <3>2 DEF Contains
      <4> QED
        BY <2>1, <4>1 DEF Contains
    <3> QED
      BY <3>1, <3>2
  <2> QED
    BY <2>1, <2>2, <2>4, <2>5
<1> QED
  BY <1>1, <1>2

LEMMA TailIs ==
    ASSUME NEW q \in Seq(Work), Unique(q), q # <<>>
    PROVE  /\ Tail(q) \in Seq(Work)
           /\ Unique(Tail(q))
           /\ \A v \in Work : Contains(Tail(q), v) <=> Contains(q, v) /\ v # Head(q)
<1> DEFINE t == Tail(q)
           n == Len(q)
<1>1. /\ n \in Nat /\ n > 0 /\ t \in Seq(Work) /\ Len(t) = n - 1
      /\ \A i \in 1..n - 1 : t[i] = q[i + 1]
      /\ Head(q) = q[1]
  OBVIOUS
<1>2. Unique(t)
  <2> HIDE DEF t
  <2> SUFFICES ASSUME NEW i \in 1..n - 1, NEW j \in 1..n - 1, t[i] = t[j] PROVE i = j
    BY <1>1 DEF Unique
  <2>1. i + 1 \in 1..n /\ j + 1 \in 1..n /\ q[i + 1] = q[j + 1]
    BY <1>1
  <2>2. i + 1 = j + 1
    BY <2>1 DEF Unique
  <2> QED
    BY <1>1, <2>2
<1>3. \A v \in Work : Contains(t, v) <=> Contains(q, v) /\ v # Head(q)
  <2> HIDE DEF t
  <2> SUFFICES ASSUME NEW v \in Work PROVE Contains(t, v) <=> Contains(q, v) /\ v # q[1]
    BY <1>1
  <2>1. ASSUME Contains(t, v) PROVE Contains(q, v) /\ v # q[1]
    <3>1. PICK i \in 1..n - 1 : q[i + 1] = v
      BY <1>1, <2>1 DEF Contains
    <3>2. i + 1 \in 1..n /\ i + 1 # 1 /\ 1 \in 1..n
      BY <1>1
    <3>3. q[i + 1] # q[1]
      BY <3>2 DEF Unique
    <3> QED
      BY <3>1, <3>2, <3>3 DEF Contains
  <2>2. ASSUME Contains(q, v), v # q[1] PROVE Contains(t, v)
    <3>1. PICK i \in 1..n : q[i] = v
      BY <2>2 DEF Contains
    <3>2. i - 1 \in 1..n - 1 /\ t[i - 1] = v
      BY <1>1, <2>2, <3>1
    <3> QED
      BY <1>1, <3>2 DEF Contains
  <2> QED
    BY <2>1, <2>2
<1> QED
  BY <1>1, <1>2, <1>3

-----------------------------------------------------------------------------
(***************************************************************************)
(* The inductive invariant.  A new attempt is pending only while the       *)
(* connection is down and the poll thread is done with the disconnection,  *)
(* and it is pending once; so every call of cloud_connect has been counted *)
(* before it is made, and the count passes the maximum only on the way     *)
(* into error_handler.                                                     *)
(***************************************************************************)
OneAttempt ==
    /\ poll # "idle" => conn = "down"
    /\ Pending("connect") => conn = "down" /\ poll = "idle"
    /\ "connect" \in delayed => ~Queued("connect")

Counted ==
    /\ calls <= attempts
    /\ Pending("connect") \/ poll \in {"cancel", "schedule", "error"} => calls < attempts
    /\ attempts <= ConnectMax \/ poll = "error"

CloseRequested == wq = "disconnecting" => closing

ConnInv ==
    /\ TypeOK
    /\ Unique(queue)
    /\ OneAttempt
    /\ Counted
    /\ CloseRequested
    /\ SessionState
    /\ NoStaleReboot
    /\ NeverStranded

(* What a step does to the works, with the queue seen as a set. *)
QueueIs(q, D) ==
    /\ q \in Seq(Work)
    /\ Unique(q)
    /\ \A v \in Work : Contains(q, v) <=> v \in D

InQueue == {v \in Work : Queued(v)}

LEMMA BootQueue == QueueIs(<<"connect">>, {"connect"})
<1>1. <<"connect">> \in Seq(Work) /\ Len(<<"connect">>) = 1 /\ <<"connect">>[1] = "connect"
  BY DEF Work
<1> QED
  BY <1>1 DEF QueueIs, Unique, Contains

LEMMA BootInv ==
    ASSUME Init
    PROVE  ConnInv
<1>1. QueueIs(queue, {"connect"})
  BY BootQueue DEF Init, Booted
<1>2. Contains(queue, "connect") /\ ~Contains(queue, "reboot")
  BY <1>1 DEF QueueIs, Work
<1>3. TypeOK
  <2>1. attempts \in 0..ConnectMax + 1 /\ calls \in 0..ConnectMax + 1
    BY ConnectMaxIsPos DEF Init, Booted
  <2>2. closing \in BOOLEAN /\ delayed \subseteq Work /\ queue \in Seq(Work)
    BY <1>1 DEF Init, Booted, QueueIs
  <2> QED
    BY <2>1, <2>2 DEF Init, Booted, TypeOK
<1>4. OneAttempt /\ Counted /\ CloseRequested /\ SessionState /\ NoStaleReboot /\ NeverStranded
  BY <1>2, ConnectMaxIsPos
     DEF Init, Booted, OneAttempt, Counted, CloseRequested, SessionState, NoStaleReboot,
         NeverStranded, Pending, Queued, Connected
<1> QED
  BY <1>1, <1>3, <1>4 DEF ConnInv, QueueIs

(* The queue after the step, in terms of the queue before it. *)
LEMMA QueueSteps ==
    ASSUME NEW q, NEW D, QueueIs(q, D), NEW w \in Work
    PROVE  /\ QueueIs(Without(q, w), D \ {w})
           /\ QueueIs(Submitted(q, w), D \cup {w})
           /\ w \notin D => QueueIs(Append(q, w), D \cup {w})
           /\ q # <<>> /\ Head(q) = w => w \in D /\ QueueIs(Tail(q), D \ {w})
<1>1. q \in Seq(Work) /\ Unique(q)
  BY DEF QueueIs
<1>2. QueueIs(Without(q, w), D \ {w})
  BY <1>1, WithoutIs DEF QueueIs
<1>3. QueueIs(Submitted(q, w), D \cup {w})
  BY <1>1, SubmittedIs DEF QueueIs
<1>4. w \notin D => Submitted(q, w) = Append(q, w)
  BY DEF QueueIs, Submitted
<1>5. ASSUME q # <<>>, Head(q) = w
      PROVE  w \in D /\ QueueIs(Tail(q), D \ {w})
  <2>1. QueueIs(Tail(q), D \ {w})
    BY <1>1, <1>5, TailIs DEF QueueIs
  <2>2. 1 \in 1..Len(q) /\ q[1] = w
    BY <1>1, <1>5
  <2> QED
    BY <2>1, <2>2 DEF QueueIs, Contains
<1> QED
  BY <1>2, <1>3, <1>4, <1>5

(* InQueue stands for the queue. *)
LEMMA QueueNow ==
    ASSUME TypeOK, Unique(queue)
    PROVE  QueueIs(queue, InQueue)
BY DEF TypeOK, QueueIs, InQueue, Queued

LEMMA QueueThen ==
    ASSUME NEW D, QueueIs(queue', D)
    PROVE  /\ queue' \in Seq(Work) /\ Unique(queue)'
           /\ \A w \in Work : Queued(w)' <=> w \in D
BY DEF QueueIs, Queued

(* Boot states satisfy the invariant, also after a reboot. *)
LEMMA BootInvNext ==
    ASSUME Booted(association', attempts', delayed', queue', wq', poll', conn', closing', calls')
    PROVE  ConnInv'
<1>1. QueueIs(queue', {"connect"})
  BY BootQueue DEF Booted
<1>2. Contains(queue', "connect") /\ ~Contains(queue', "reboot")
  BY <1>1 DEF QueueIs, Work
<1>3. TypeOK'
  <2>1. attempts' \in 0..ConnectMax + 1 /\ calls' \in 0..ConnectMax + 1
    BY ConnectMaxIsPos DEF Booted
  <2>2. closing' \in BOOLEAN /\ delayed' \subseteq Work /\ queue' \in Seq(Work)
    BY <1>1 DEF Booted, QueueIs
  <2> QED
    BY <2>1, <2>2 DEF Booted, TypeOK
<1>4. (OneAttempt /\ Counted /\ CloseRequested /\ SessionState /\ NoStaleReboot /\ NeverStranded)'
  BY <1>2, ConnectMaxIsPos
     DEF Booted, OneAttempt, Counted, CloseRequested, SessionState, NoStaleReboot,
         NeverStranded, Pending, Queued, Connected
<1> QED
  BY <1>1, <1>3, <1>4 DEF ConnInv, QueueIs

-----------------------------------------------------------------------------
LEMMA ConnInvNext == ConnInv /\ [Next]_vars => ConnInv'
<1> SUFFICES ASSUME ConnInv, [Next]_vars PROVE ConnInv'
  OBVIOUS
<1> DEFINE Rest == OneAttempt /\ Counted /\ CloseRequested /\ SessionState
                   /\ NoStaleReboot /\ NeverStranded
<1> USE DEF Pending, Connected, workVars
<1>1. QueueIs(queue, InQueue) /\ \A w \in Work : Queued(w) <=> w \in InQueue
  BY QueueNow DEF ConnInv, QueueIs, Queued
<1>2. /\ "connect" \in Work /\ "cycle" \in Work /\ "reboot" \in Work
      /\ ConnectMax \in Nat /\ ConnectMax > 0
      /\ calls \in Nat /\ attempts \in Nat
      /\ TypeOK /\ Rest
  BY ConnectMaxIsPos DEF ConnInv, TypeOK, Work
<1>3. ASSUME TypeOK', Unique(queue)', Rest' PROVE ConnInv'
  BY <1>3 DEF ConnInv
<1> HIDE DEF Rest
<1>4. ASSUME NEW e \in Work, DelayEnds(e) PROVE ConnInv'
  <2>1. QueueIs(queue', InQueue \cup {e})
    BY <1>1, <1>2, <1>4, QueueSteps DEF DelayEnds
  <2>2. /\ queue' \in Seq(Work) /\ Unique(queue)'
        /\ \A w \in Work : Queued(w)' <=> w \in InQueue \cup {e}
    BY <2>1, QueueThen, Zenon
  <2>3. closing' \in BOOLEAN
    BY <1>2, <1>4 DEF TypeOK, DelayEnds
  <2>4. TypeOK'
    BY <1>2, <1>4, <2>2, <2>3 DEF TypeOK, Rest, Counted, OneAttempt, DelayEnds
  <2>5. Rest'
    BY <1>1, <1>2, <1>4, <2>2 DEF TypeOK, Rest, OneAttempt, Counted, CloseRequested, SessionState, NoStaleReboot, NeverStranded, DelayEnds
  <2> QED
    BY <1>3, <2>2, <2>4, <2>5
<1>5. CASE ConnectRuns
  <2>1. "connect" \in InQueue /\ QueueIs(queue', InQueue \ {"connect"})
    BY <1>1, <1>2, <1>5, QueueSteps DEF ConnectRuns, Runs
  <2>2. /\ queue' \in Seq(Work) /\ Unique(queue)'
        /\ \A w \in Work : Queued(w)' <=> w \in InQueue \ {"connect"}
    BY <2>1, QueueThen, Zenon
  <2>3. closing' \in BOOLEAN
    BY <1>5 DEF ConnectRuns
  <2>4. TypeOK'
    BY <1>2, <1>5, <2>2, <2>3 DEF TypeOK, Rest, Counted, OneAttempt, ConnectRuns, Runs
  <2>5. Pending("connect") /\ ~Pending("connect")'
    BY <1>1, <1>2, <1>5, <2>1, <2>2 DEF Rest, OneAttempt, ConnectRuns
  <2>6. (OneAttempt /\ Counted)'
    BY <1>2, <1>5, <2>5 DEF Rest, OneAttempt, Counted, ConnectRuns
  <2>7. (CloseRequested /\ SessionState /\ NoStaleReboot /\ NeverStranded)'
    BY <1>2, <1>5 DEF Rest, CloseRequested, SessionState, NoStaleReboot, NeverStranded, ConnectRuns, Runs
  <2> QED
    BY <1>3, <2>2, <2>4, <2>6, <2>7 DEF Rest
<1>6. CASE ConnectFails
  <2>1. /\ queue' = Without(Tail(queue), "reboot")
        /\ delayed' \subseteq Work
        /\ "connect" \in delayed' <=> "connect" \in delayed
    BY <1>2, <1>6 DEF ConnectFails, TypeOK
  <2>2. "connect" \in InQueue /\ QueueIs(Tail(queue), InQueue \ {"connect"})
    BY <1>1, <1>2, <1>6, QueueSteps DEF ConnectFails, Runs
  <2>3. QueueIs(queue', (InQueue \ {"connect"}) \ {"reboot"})
    BY <1>2, <2>1, <2>2, QueueSteps
  <2>4. /\ queue' \in Seq(Work) /\ Unique(queue)'
        /\ \A w \in Work : Queued(w)' <=> w \in (InQueue \ {"connect"}) \ {"reboot"}
    BY <2>3, QueueThen, Zenon
  <2>5. TypeOK'
    BY <1>2, <1>6, <2>1, <2>4 DEF TypeOK, Rest, Counted, OneAttempt, ConnectFails, Runs
  <2>6. Pending("connect") /\ ~Pending("connect")'
    BY <1>1, <1>2, <2>1, <2>2, <2>4 DEF Rest, OneAttempt
  <2>7. (OneAttempt /\ Counted)'
    BY <1>2, <1>6, <2>6 DEF Rest, OneAttempt, Counted, ConnectFails
  <2>8. (CloseRequested /\ SessionState /\ NoStaleReboot /\ NeverStranded)'
    BY <1>2, <1>6, <2>6
       DEF Rest, OneAttempt, CloseRequested, SessionState, NoStaleReboot, NeverStranded, ConnectFails
  <2> QED
    BY <1>3, <2>4, <2>5, <2>7, <2>8 DEF Rest
<1>7. CASE WorkQueueSuspends
  <2>1. QueueIs(queue', InQueue)
    BY <1>1, <1>7 DEF WorkQueueSuspends
  <2>2. /\ queue' \in Seq(Work) /\ Unique(queue)'
        /\ \A w \in Work : Queued(w)' <=> w \in InQueue
    BY <2>1, QueueThen, Zenon
  <2>3. closing' \in BOOLEAN
    BY <1>2, <1>7 DEF TypeOK, WorkQueueSuspends
  <2>4. TypeOK'
    BY <1>2, <1>7, <2>2, <2>3 DEF TypeOK, Rest, Counted, OneAttempt, WorkQueueSuspends
  <2>5. Rest'
    BY <1>1, <1>2, <1>7, <2>2 DEF TypeOK, Rest, OneAttempt, Counted, CloseRequested, SessionState, NoStaleReboot, NeverStranded, WorkQueueSuspends
  <2> QED
    BY <1>3, <2>2, <2>4, <2>5
<1>8. CASE CycleRuns
  <2>1. QueueIs(queue', InQueue \ {"cycle"})
    BY <1>1, <1>2, <1>8, QueueSteps DEF CycleRuns, Runs
  <2>2. /\ queue' \in Seq(Work) /\ Unique(queue)'
        /\ \A w \in Work : Queued(w)' <=> w \in InQueue \ {"cycle"}
    BY <2>1, QueueThen, Zenon
  <2>3. closing' \in BOOLEAN
    BY <1>2, <1>8 DEF TypeOK, CycleRuns, Runs
  <2>4. TypeOK'
    BY <1>2, <1>8, <2>2, <2>3 DEF TypeOK, Rest, Counted, OneAttempt, CycleRuns, Runs
  <2>5. Rest'
    BY <1>1, <1>2, <1>8, <2>2 DEF TypeOK, Rest, OneAttempt, Counted, CloseRequested, SessionState, NoStaleReboot, NeverStranded, CycleRuns, Runs
  <2> QED
    BY <1>3, <2>2, <2>4, <2>5
<1>9. CASE CycleEnds
  <2>1. QueueIs(queue', InQueue)
    BY <1>1, <1>9 DEF CycleEnds, Reschedule
  <2>2. /\ queue' \in Seq(Work) /\ Unique(queue)'
        /\ \A w \in Work : Queued(w)' <=> w \in InQueue
    BY <2>1, QueueThen, Zenon
  <2>3. closing' \in BOOLEAN
    BY <1>2, <1>9 DEF TypeOK, CycleEnds, Reschedule
  <2>4. TypeOK'
    BY <1>2, <1>9, <2>2, <2>3 DEF TypeOK, Rest, Counted, OneAttempt, CycleEnds, Reschedule
  <2>5. Rest'
    BY <1>1, <1>2, <1>9, <2>2 DEF TypeOK, Rest, OneAttempt, Counted, CloseRequested, SessionState, NoStaleReboot, NeverStranded, CycleEnds, Reschedule
  <2> QED
    BY <1>3, <2>2, <2>4, <2>5
<1>10. CASE RebootRuns
  <2>1. QueueIs(queue', InQueue \ {"reboot"})
    BY <1>1, <1>2, <1>10, QueueSteps DEF RebootRuns, Runs
  <2>2. /\ queue' \in Seq(Work) /\ Unique(queue)'
        /\ \A w \in Work : Queued(w)' <=> w \in InQueue \ {"reboot"}
    BY <2>1, QueueThen, Zenon
  <2>3. closing' \in BOOLEAN
    BY <1>2, <1>10 DEF TypeOK, RebootRuns, Runs
  <2>4. TypeOK'
    BY <1>2, <1>10, <2>2, <2>3 DEF TypeOK, Rest, Counted, OneAttempt, RebootRuns, Runs
  <2>5. Rest'
    BY <1>1, <1>2, <1>10, <2>2 DEF TypeOK, Rest, OneAttempt, Counted, CloseRequested, SessionState, NoStaleReboot, NeverStranded, RebootRuns, Runs
  <2> QED
    BY <1>3, <2>2, <2>4, <2>5
<1>11. CASE Connecting
  <2>1. QueueIs(queue', InQueue \ {"reboot"})
    BY <1>1, <1>2, <1>11, QueueSteps DEF Connecting, Cancel, PollIdle
  <2>2. /\ queue' \in Seq(Work) /\ Unique(queue)'
        /\ \A w \in Work : Queued(w)' <=> w \in InQueue \ {"reboot"}
    BY <2>1, QueueThen, Zenon
  <2>3. closing' \in BOOLEAN
    BY <1>2, <1>11 DEF TypeOK, Connecting, Cancel, PollIdle
  <2>4. TypeOK'
    BY <1>2, <1>11, <2>2, <2>3 DEF TypeOK, Rest, Counted, OneAttempt, Connecting, Cancel, PollIdle
  <2>5. Rest'
    BY <1>1, <1>2, <1>11, <2>2 DEF TypeOK, Rest, OneAttempt, Counted, CloseRequested, SessionState, NoStaleReboot, NeverStranded, Connecting, Cancel, PollIdle
  <2> QED
    BY <1>3, <2>2, <2>4, <2>5
<1>12. CASE ConnectingFails
  <2>1. QueueIs(queue', InQueue \ {"reboot"})
    <3>1. queue' = Without(queue, "reboot")
      BY <1>12 DEF ConnectingFails
    <3> QED
      BY <1>1, <1>2, <3>1, QueueSteps
  <2>2. /\ queue' \in Seq(Work) /\ Unique(queue)'
        /\ \A w \in Work : Queued(w)' <=> w \in InQueue \ {"reboot"}
    BY <2>1, QueueThen, Zenon
  <2>3. closing' \in BOOLEAN
    BY <1>2, <1>12 DEF TypeOK, ConnectingFails, PollIdle
  <2>4. TypeOK'
    BY <1>2, <1>12, <2>2, <2>3 DEF TypeOK, Rest, Counted, OneAttempt, ConnectingFails, PollIdle
  <2>5. Rest'
    BY <1>1, <1>2, <1>12, <2>2 DEF TypeOK, Rest, OneAttempt, Counted, CloseRequested, SessionState, NoStaleReboot, NeverStranded, ConnectingFails, PollIdle
  <2> QED
    BY <1>3, <2>2, <2>4, <2>5
<1>13. CASE PollSuspends
  <2>1. QueueIs(queue', InQueue)
    BY <1>1, <1>13 DEF PollSuspends
  <2>2. /\ queue' \in Seq(Work) /\ Unique(queue)'
        /\ \A w \in Work : Queued(w)' <=> w \in InQueue
    BY <2>1, QueueThen, Zenon
  <2>3. closing' \in BOOLEAN
    BY <1>2, <1>13 DEF TypeOK, PollSuspends
  <2>4. TypeOK'
    BY <1>2, <1>13, <2>2, <2>3 DEF TypeOK, Rest, Counted, OneAttempt, PollSuspends
  <2>5. Rest'
    BY <1>1, <1>2, <1>13, <2>2 DEF TypeOK, Rest, OneAttempt, Counted, CloseRequested, SessionState, NoStaleReboot, NeverStranded, PollSuspends
  <2> QED
    BY <1>3, <2>2, <2>4, <2>5
<1>14. CASE ConnectedEvt
  <2>1. QueueIs(queue', InQueue \ {"reboot"})
    BY <1>1, <1>2, <1>14, QueueSteps DEF ConnectedEvt, Cancel, PollIdle
  <2>2. /\ queue' \in Seq(Work) /\ Unique(queue)'
        /\ \A w \in Work : Queued(w)' <=> w \in InQueue \ {"reboot"}
    BY <2>1, QueueThen, Zenon
  <2>3. closing' \in BOOLEAN
    BY <1>2, <1>14 DEF TypeOK, ConnectedEvt, Cancel, PollIdle
  <2>4. TypeOK'
    BY <1>2, <1>14, <2>2, <2>3 DEF TypeOK, Rest, Counted, OneAttempt, ConnectedEvt, Cancel, PollIdle
  <2>5. Rest'
    BY <1>1, <1>2, <1>14, <2>2 DEF TypeOK, Rest, OneAttempt, Counted, CloseRequested, SessionState, NoStaleReboot, NeverStranded, ConnectedEvt, Cancel, PollIdle
  <2> QED
    BY <1>3, <2>2, <2>4, <2>5
<1>15. CASE PairRequest
  <2>1. QueueIs(queue', InQueue)
    BY <1>1, <1>15 DEF PairRequest, Reschedule, PollIdle
  <2>2. /\ queue' \in Seq(Work) /\ Unique(queue)'
        /\ \A w \in Work : Queued(w)' <=> w \in InQueue
    BY <2>1, QueueThen, Zenon
  <2>3. closing' \in BOOLEAN
    BY <1>2, <1>15 DEF TypeOK, PairRequest, Reschedule, PollIdle
  <2>4. TypeOK'
    BY <1>2, <1>15, <2>2, <2>3 DEF TypeOK, Rest, Counted, OneAttempt, PairRequest, Reschedule, PollIdle
  <2>5. Rest'
    BY <1>1, <1>2, <1>15, <2>2 DEF TypeOK, Rest, OneAttempt, Counted, CloseRequested, SessionState, NoStaleReboot, NeverStranded, PairRequest, Reschedule, PollIdle
  <2> QED
    BY <1>3, <2>2, <2>4, <2>5
<1>16. CASE ReadyEvt
  <2>1. QueueIs(queue', InQueue)
    BY <1>1, <1>16 DEF ReadyEvt, PollIdle
  <2>2. /\ queue' \in Seq(Work) /\ Unique(queue)'
        /\ \A w \in Work : Queued(w)' <=> w \in InQueue
    BY <2>1, QueueThen, Zenon
  <2>3. closing' \in BOOLEAN
    BY <1>2, <1>16 DEF TypeOK, ReadyEvt, PollIdle
  <2>4. TypeOK'
    BY <1>2, <1>16, <2>2, <2>3 DEF TypeOK, Rest, Counted, OneAttempt, ReadyEvt, PollIdle
  <2>5. Rest'
    BY <1>1, <1>2, <1>16, <2>2 DEF TypeOK, Rest, OneAttempt, Counted, CloseRequested, SessionState, NoStaleReboot, NeverStranded, ReadyEvt, PollIdle
  <2> QED
    BY <1>3, <2>2, <2>4, <2>5
<1>17. CASE DisconnectedEvt
  <2>1. QueueIs(queue', InQueue)
    BY <1>1, <1>17 DEF DisconnectedEvt, PollIdle
  <2>2. /\ queue' \in Seq(Work) /\ Unique(queue)'
        /\ \A w \in Work : Queued(w)' <=> w \in InQueue
    BY <2>1, QueueThen, Zenon
  <2>3. closing' \in BOOLEAN
    BY <1>2, <1>17 DEF TypeOK, DisconnectedEvt, PollIdle
  <2>4. TypeOK'
    BY <1>2, <1>17, <2>2, <2>3 DEF TypeOK, Rest, Counted, OneAttempt, DisconnectedEvt, PollIdle
  <2>5. Rest'
    BY <1>1, <1>2, <1>17, <2>2 DEF TypeOK, Rest, OneAttempt, Counted, CloseRequested, SessionState, NoStaleReboot, NeverStranded, DisconnectedEvt, PollIdle
  <2> QED
    BY <1>3, <2>2, <2>4, <2>5
<1>18. CASE ReconnectCancels
  <2>1. QueueIs(queue', InQueue \ {"reboot"})
    BY <1>1, <1>2, <1>18, QueueSteps DEF ReconnectCancels, Cancel
  <2>2. /\ queue' \in Seq(Work) /\ Unique(queue)'
        /\ \A w \in Work : Queued(w)' <=> w \in InQueue \ {"reboot"}
    BY <2>1, QueueThen, Zenon
  <2>3. closing' \in BOOLEAN
    BY <1>2, <1>18 DEF TypeOK, ReconnectCancels, Cancel
  <2>4. TypeOK'
    BY <1>2, <1>18, <2>2, <2>3 DEF TypeOK, Rest, Counted, OneAttempt, ReconnectCancels, Cancel
  <2>5. Rest'
    BY <1>1, <1>2, <1>18, <2>2 DEF TypeOK, Rest, OneAttempt, Counted, CloseRequested, SessionState, NoStaleReboot, NeverStranded, ReconnectCancels, Cancel
  <2> QED
    BY <1>3, <2>2, <2>4, <2>5
<1>19. CASE ReconnectSchedules
  <2>1. QueueIs(queue', InQueue)
    BY <1>1, <1>19 DEF ReconnectSchedules, Reschedule
  <2>2. /\ queue' \in Seq(Work) /\ Unique(queue)'
        /\ \A w \in Work : Queued(w)' <=> w \in InQueue
    BY <2>1, QueueThen, Zenon
  <2>3. closing' \in BOOLEAN
    BY <1>2, <1>19 DEF TypeOK, ReconnectSchedules, Reschedule
  <2>4. TypeOK'
    BY <1>2, <1>19, <2>2, <2>3 DEF TypeOK, Rest, Counted, OneAttempt, ReconnectSchedules, Reschedule
  <2>5. Rest'
    BY <1>1, <1>2, <1>19, <2>2 DEF TypeOK, Rest, OneAttempt, Counted, CloseRequested, SessionState, NoStaleReboot, NeverStranded, ReconnectSchedules, Reschedule
  <2> QED
    BY <1>3, <2>2, <2>4, <2>5
<1>20. CASE PairDone
  <2>1. \/ association' = "PAIRED" /\ UNCHANGED <<delayed, queue>>
        \/ /\ association' = "RECONNECT"
           /\ delayed' = delayed \ {"cycle"}
           /\ queue' = Append(Without(queue, "cycle"), "cycle")
    BY <1>20 DEF PairDone
  <2>2. QueueIs(queue', InQueue) \/ QueueIs(queue', (InQueue \ {"cycle"}) \cup {"cycle"})
    <3>1. QueueIs(Without(queue, "cycle"), InQueue \ {"cycle"})
      BY <1>1, <1>2, QueueSteps
    <3>2. QueueIs(Append(Without(queue, "cycle"), "cycle"), (InQueue \ {"cycle"}) \cup {"cycle"})
      BY <1>2, <3>1, QueueSteps
    <3> QED
      BY <1>1, <2>1, <3>2
  <2>3. /\ queue' \in Seq(Work) /\ Unique(queue)'
        /\ \A w \in {"connect", "reboot"} : Queued(w)' <=> w \in InQueue
    <3>1. CASE QueueIs(queue', InQueue)
      BY <1>2, <3>1, QueueThen
    <3>2. CASE QueueIs(queue', (InQueue \ {"cycle"}) \cup {"cycle"})
      BY <1>2, <3>2, QueueThen
    <3> QED
      BY <2>2, <3>1, <3>2
  <2>4. TypeOK'
    BY <1>2, <1>20, <2>1, <2>3 DEF TypeOK, PairDone
  <2>5. Rest'
    BY <1>1, <1>2, <1>20, <2>1, <2>3 DEF TypeOK, Rest, OneAttempt, Counted, CloseRequested, SessionState, NoStaleReboot, NeverStranded, PairDone, PollIdle
  <2> QED
    BY <1>3, <2>3, <2>4, <2>5
<1>21. CASE Reboot \/ ModemError
  BY <1>21, BootInvNext DEF Reboot, ModemError
<1>22. CASE UNCHANGED vars
  <2>1. TypeOK' /\ Unique(queue)'
    BY <1>22 DEF vars, ConnInv, TypeOK, Unique
  <2>2. Rest'
    BY <1>2, <1>22 DEF vars, Rest, OneAttempt, Counted, CloseRequested, SessionState, NoStaleReboot, NeverStranded, Queued
  <2> QED
    BY <1>3, <2>1, <2>2
<1> QED
  BY <1>4, <1>5, <1>6, <1>7, <1>8, <1>9, <1>10, <1>11, <1>12, <1>13, <1>14, <1>15, <1>16, <1>17, <1>18, <1>19, <1>20, <1>21, <1>22
     DEF Next, WorkNext, PollSteps, CloudEvents

-----------------------------------------------------------------------------
LEMMA ConnInvAlways == Spec => []ConnInv
BY BootInv, ConnInvNext, PTL DEF Spec

(* TypeCorrect: the state of the cloud connection keeps its types; the attempt       *)
(* counter never passes the maximum by more than one.                               *)
THEOREM TypeCorrect == Spec => []TypeOK
<1>1. ConnInv => TypeOK
  BY DEF ConnInv
<1> QED
  BY <1>1, ConnInvAlways, PTL

(* AttemptLimit: cloud_connect is called at most as often as configured without a     *)
(* CONNECTED event in between.                                                      *)
THEOREM AttemptLimit == Spec => []AttemptsBounded
<1>1. ConnInv => AttemptsBounded
  BY ConnectMaxIsPos DEF ConnInv, Counted, TypeOK, AttemptsBounded
<1> QED
  BY <1>1, ConnInvAlways, PTL

(* SessionOwnsState: the association state always belongs to the present connection.  *)
THEOREM SessionOwnsState == Spec => []SessionState
<1>1. ConnInv => SessionState
  BY DEF ConnInv
<1> QED
  BY <1>1, ConnInvAlways, PTL

(* FailSafesGone: an established connection that nobody asked to close has no reboot   *)
(* pending.                                                                         *)
THEOREM FailSafesGone == Spec => []NoStaleReboot
<1>1. ConnInv => NoStaleReboot
  BY DEF ConnInv
<1> QED
  BY <1>1, ConnInvAlways, PTL

(* AlwaysScheduled: a connection that is down has an attempt, a reboot or a            *)
(* suspended error ahead of it.                                                     *)
THEOREM AlwaysScheduled == Spec => []NeverStranded
<1>1. ConnInv => NeverStranded
  BY DEF ConnInv
<1> QED
  BY <1>1, ConnInvAlways, PTL

=============================================================================
