---------------------------- MODULE SubscriptionsProofs ----------------------------
(***************************************************************************)
(* Proofs about Subscriptions, for any set of addresses and any length of  *)
(* the list.                                                               *)
(***************************************************************************)
EXTENDS Subscriptions, TLAPS

LEMMA RequestsAreSeqs == Requests \subseteq Seq(Addr)
<1> SUFFICES ASSUME NEW n \in 0..MaxAddrs, NEW r \in [1..n -> Addr] PROVE r \in Seq(Addr)
  BY DEF Requests
<1>1. n \in Nat
  BY MaxAddrsIsNat
<1> QED
  BY <1>1

LEMMA HeadTail ==
    ASSUME NEW q \in Seq(Addr), q # <<>>
    PROVE  Head(q) \in Addr /\ Tail(q) \in Seq(Addr)
OBVIOUS

LEMMA TypeInit == Init => TypeOK
<1> SUFFICES ASSUME Init PROVE TypeOK
  OBVIOUS
<1>1. heard \in [dst : Addr, relayed : BOOLEAN]
  BY DEF Init
<1>2. sub_list \in [Slot -> Addr \cup {Unassigned}]
  BY DEF Init
<1>3. todo \in Seq(Addr) /\ at \in 1..ListLen + 1
  BY ListLenIsPos DEF Init
<1> QED
  BY <1>1, <1>2, <1>3 DEF Init, TypeOK

LEMMA TypeNext == TypeOK /\ [Next]_vars => TypeOK'
<1> SUFFICES ASSUME TypeOK, [Next]_vars PROVE TypeOK'
  OBVIOUS
<1> USE ListLenIsPos, HeadTail DEF TypeOK, Slot
<1>1. CASE Begin
  BY <1>1, RequestsAreSeqs DEF Begin
<1>2. CASE End
  BY <1>2 DEF End
<1>3. CASE SubscribeTakes
  BY <1>3 DEF SubscribeTakes, SubscribeReturns, SubscribeAt
<1>4. CASE SubscribeMovesOn
  BY <1>4 DEF SubscribeMovesOn, SubscribeAt
<1>5. CASE SubscribeFull
  BY <1>5 DEF SubscribeFull
<1>6. CASE UnsubscribeAt
  BY <1>6 DEF UnsubscribeAt
<1>7. CASE UnsubscribeReturns
  BY <1>7 DEF UnsubscribeReturns
<1>8. ASSUME NEW a \in Addr, Message(a) PROVE TypeOK'
  <2>1. heard' \in [dst : Addr, relayed : BOOLEAN]
    BY <1>8 DEF Message
  <2>2. UNCHANGED <<sub_list, op, todo, at, held>>
    BY <1>8 DEF Message
  <2> QED
    BY <2>1, <2>2
<1>9. CASE UNCHANGED vars
  BY <1>9 DEF vars
<1> QED
  BY <1>1, <1>2, <1>3, <1>4, <1>5, <1>6, <1>7, <1>8, <1>9 DEF Next

(* TypeCorrect: every reachable state is well typed; in particular the loops over *)
(* the list stop one past its last slot.                                         *)
THEOREM TypeCorrect == Spec => []TypeOK
BY TypeInit, TypeNext, PTL DEF Spec

-----------------------------------------------------------------------------
(***************************************************************************)
(* ListExact alone is not inductive: the invariant must say what the loops *)
(* know of the slots they have passed, and how far the list may differ     *)
(* from held in the middle of an unsubscription.                           *)
(***************************************************************************)
Passed == todo # <<>> => \A i \in 1..at - 1 : sub_list[i] # Head(todo)

LoopInv ==
    /\ Passed
    /\ todo = <<>> => at = 1
    /\ op = "none" => todo = <<>>
    /\ op = "subscribe" => Listed = held
    /\ \A a \in Addr :
        (todo # <<>> /\ a = Head(todo) /\ at > 1) \/ (a \in Listed <=> a \in held)

LEMMA LoopInit == Init => LoopInv
BY UnassignedIsNoAddr DEF Init, LoopInv, Passed, Listed, Slot

LEMMA LoopNext == TypeOK /\ LoopInv /\ [Next]_vars => LoopInv'
<1> SUFFICES ASSUME TypeOK, LoopInv, [Next]_vars PROVE LoopInv'
  OBVIOUS
<1> USE ListLenIsPos, UnassignedIsNoAddr, HeadTail DEF TypeOK, LoopInv, Passed, Listed, Slot
<1>1. CASE Begin
  BY <1>1, RequestsAreSeqs DEF Begin
<1>2. CASE End
  BY <1>2 DEF End
<1>3. CASE SubscribeTakes
  BY <1>3 DEF SubscribeTakes, SubscribeReturns, SubscribeAt
<1>4. CASE SubscribeMovesOn
  BY <1>4 DEF SubscribeMovesOn, SubscribeAt
<1>5. CASE SubscribeFull
  BY <1>5 DEF SubscribeFull
<1>6. CASE UnsubscribeAt
  BY <1>6 DEF UnsubscribeAt
<1>7. CASE UnsubscribeReturns
  BY <1>7 DEF UnsubscribeReturns
<1>8. ASSUME NEW a \in Addr, Message(a) PROVE LoopInv'
  BY <1>8 DEF Message
<1>9. CASE UNCHANGED vars
  BY <1>9 DEF vars
<1> QED
  BY <1>1, <1>2, <1>3, <1>4, <1>5, <1>6, <1>7, <1>8, <1>9 DEF Next

(* ExactList: between two addresses of a request the list holds exactly the       *)
(* addresses subscribed to.                                                     *)
THEOREM ExactList == Spec => []ListExact
<1>1. TypeOK /\ LoopInv => ListExact
  BY DEF TypeOK, LoopInv, ListExact, Listed
<1> QED
  BY <1>1, LoopInit, LoopNext, TypeCorrect, PTL DEF Spec

-----------------------------------------------------------------------------
LEMMA AbstractInit == Init => Abstract!Init
BY DEF Init, Abstract!Init, Listed, Slot

LEMMA AbstractNext == TypeOK /\ LoopInv /\ [Next]_vars => [Abstract!Next]_(Abstract!vars)
<1> SUFFICES ASSUME TypeOK, LoopInv, [Next]_vars PROVE Abstract!Next \/ UNCHANGED Abstract!vars
  OBVIOUS
<1> USE ListLenIsPos, UnassignedIsNoAddr, HeadTail DEF TypeOK, LoopInv, Passed, Listed, Slot
<1>1. CASE Begin
  BY <1>1, RequestsAreSeqs DEF Begin, Abstract!Next, Abstract!Begin
<1>2. CASE End
  BY <1>2 DEF End, Abstract!Next, Abstract!End
<1>3. CASE SubscribeTakes
  BY <1>3 DEF SubscribeTakes, SubscribeReturns, SubscribeAt, Abstract!Next, Abstract!Add
<1>4. CASE SubscribeMovesOn
  BY <1>4 DEF SubscribeMovesOn, Abstract!vars
<1>5. CASE SubscribeFull
  BY <1>5 DEF SubscribeFull, Abstract!Next, Abstract!Refuse
<1>6. CASE UnsubscribeAt
  BY <1>6 DEF UnsubscribeAt, Abstract!Next, Abstract!Remove, Abstract!vars
<1>7. CASE UnsubscribeReturns
  BY <1>7 DEF UnsubscribeReturns, Abstract!Next, Abstract!Removed
<1>8. ASSUME NEW a \in Addr, Message(a) PROVE Abstract!Next
  <2> DEFINE matches == \E i \in Slot : sub_list[i] = a
  <2>1. matches <=> a \in Listed
    OBVIOUS
  <2>5. heard' = [dst |-> a, relayed |-> matches]
    BY <1>8 DEF Message
  <2> HIDE DEF matches
  <2>6. matches = (a \in Listed)
    BY <2>1
  <2>2. Listed' = Listed /\ UNCHANGED <<op, todo>>
    BY <1>8 DEF Message
  <2> HIDE DEF Listed
  <2>3. heard' = [dst |-> a, relayed |-> a \in Listed]
    BY <2>5, <2>6
  <2>4. Abstract!Message(a)
    BY <2>2, <2>3 DEF Abstract!Message
  <2> QED
    BY <2>4 DEF Abstract!Next
<1>9. CASE UNCHANGED vars
  BY <1>9 DEF vars, Abstract!vars
<1> QED
  BY <1>1, <1>2, <1>3, <1>4, <1>5, <1>6, <1>7, <1>8, <1>9 DEF Next

(* Implements: the array of slots implements the set of addresses; every step of   *)
(* the loops is a step of SubscriptionSet or changes nothing that it shows.        *)
THEOREM Implements == Spec => ImplementsSet
BY LoopInit, LoopNext, TypeCorrect, AbstractInit, AbstractNext, PTL
   DEF Spec, ImplementsSet, Abstract!Spec

=============================================================================
