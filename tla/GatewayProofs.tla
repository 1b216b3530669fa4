------------------------------ MODULE GatewayProofs ------------------------------
(***************************************************************************)
(* Proofs about Gateway, for any number of messages and any node: what     *)
(* KeyDbProofs says of keys holds for requests as they come out of the     *)
(* queue, and memory is accounted for.                                     *)
(***************************************************************************)
EXTENDS Gateway, KeyDbProofs, SequenceTheorems

(* Of the queue's actions only ChangesKeys changes keys, by one step of KeyDb. *)
LEMMA NextIsKeyStep == [Next]_vars => [KeyNext]_keyVars
<1> SUFFICES ASSUME [Next]_vars PROVE KeyNext \/ UNCHANGED keyVars
  OBVIOUS
<1>1. CASE GatewayThread
  BY <1>1 DEF GatewayThread, Takes, GivesUp, ListsOrAsks, ChangesKeys, BeginsDiscovery, Discovers,
     DiscoveryEnds, NoAddresses, BadAddresses, ChangesSubscriptions, Relays, Answers, ReleasesOwn,
     Releases, QueueStays, KeyNext
<1>2. CASE ShellThread
  BY <1>2 DEF ShellThread, KeyNext
<1>3. CASE \/ MessageIgnored \/ MessageParsed \/ HandlerThread
           \/ \E kind \in CallbackKind : CallbackQueued(kind)
  BY <1>3 DEF MessageIgnored, MessageParsed, HandlerThread, MessageRefused, EntryAllocated,
     UnknownOperation, MessageDeleted, RequestQueued, OnlyHandler, CallbackQueued
<1>4. CASE UNCHANGED vars
  BY <1>4 DEF vars
<1> QED
  BY <1>1, <1>2, <1>3, <1>4 DEF Next

LEMMA SpecImpliesKeySpec == Spec => KeySpec
<1>1. Init => KeyInit
  BY DEF Init
<1> QED
  BY <1>1, NextIsKeyStep, PTL DEF Spec, KeySpec

(* GatewayAgrees: the gateway's requests, as they come out of its queue, and the shell *)
(* keep database and stack the same, and no place of the database is lost.       *)
THEOREM GatewayAgrees == Spec => []KeysAgree /\ []SlotsNotLost
<1> QED
  BY SpecImpliesKeySpec, AlwaysAgree, NoSlotLost, PTL

-----------------------------------------------------------------------------
(* The description of a node.  What has been allocated, and which pointers are      *)
(* set, follows from the position that the discovery has reached: the pieces       *)
(* before it are allocated, those that hang on one of them are null, and no others  *)
(* are ever looked at.  This needs an order of the positions, the same that the     *)
(* loops take.                                                             *)

(* The order of the parts, and what comes before a position of the discovery. *)
Before(q, r) ==
    \/ q[1] < r[1]
    \/ q[1] = r[1] /\ q[2] < r[2]
    \/ q[1] = r[1] /\ q[2] = r[2] /\ q[3] < r[3]

(* Where a piece is allocated. *)
PartWith(p) == IF p[1] = "models" THEN TheElement(p[2][1]) ELSE p[2]
StepOf(p) ==
    IF p[1] = "subnets" THEN 10
    ELSE IF p[1] = "elems" THEN 11
    ELSE IF p[1] = "models" THEN p[2][2]
    ELSE IF p[1] = "apps" THEN 2
    ELSE 4
Reached(p, q, n) == Before(PartWith(p), q) \/ (PartWith(p) = q /\ StepOf(p) < n)
Passed(p) == Reached(p, part, step)

LEMMA ElementFacts ==
    /\ Len(Element) \in Nat
    /\ \A i \in 1..Len(Element), k \in Kind : Element[i][k] \in Nat
<1>1. \A i \in 1..Len(Element) : Element[i] \in Nat \X Nat
  BY ElementsAreCounts
<1> QED
  BY <1>1, ElementsAreCounts DEF Kind, Sig, Vnd

LEMMA PartFacts ==
    /\ \A i, k, j :
        <<i, k, j>> \in Part <=>
            \/ i = 0 /\ k = Own /\ j = 0
            \/ i \in 1..Len(Element) /\ k = Own /\ j = 0
            \/ i \in 1..Len(Element) /\ k \in Kind /\ j \in 1..Element[i][k]
    /\ \A q \in Part : q = <<q[1], q[2], q[3]>>
<1>a. \A m : m \in Model <=>
        \E i \in 1..Len(Element) : \E k \in Kind : \E j \in 1..Element[i][k] : m = <<i, k, j>>
  <2> DEFINE M(i, k) == {<<i, k, j>> : j \in 1..Element[i][k]}
  <2>1. Model = UNION {M(i, k) : i \in 1..Len(Element), k \in Kind}
    BY DEF Model
  <2>2. \A m, i, k : m \in M(i, k) <=> \E j \in 1..Element[i][k] : m = <<i, k, j>>
    OBVIOUS
  <2> HIDE DEF M
  <2> QED
    BY <2>1, <2>2
<1>1. \A i, k, j :
        <<i, k, j>> \in Model <=> i \in 1..Len(Element) /\ k \in Kind /\ j \in 1..Element[i][k]
  BY <1>a
<1>2. \A q \in Model : q = <<q[1], q[2], q[3]>>
  BY DEF Model
<1> QED
  BY <1>1, <1>2 DEF Part, TheNode, TheElement

LEMMA ModelFacts ==
    \A m : m \in Model <=> m \in Part /\ m[2] \in Kind
<1>1. \A q \in Part \ Model : q[2] = Own
  BY DEF Part, TheNode, TheElement
<1>2. \A q \in Model : q[2] \in Kind
  BY DEF Model
<1> QED
  BY <1>1, <1>2 DEF Part, Kind, Own, Sig, Vnd

LEMMA PartInts ==
    ASSUME NEW q \in Part
    PROVE  q[1] \in 0..Len(Element) /\ q[2] \in 0..2 /\ q[3] \in Nat
BY PartFacts, ElementFacts DEF Own, Kind, Sig, Vnd

(* The loops visit the parts in their order, and none twice. *)
LEMMA AfterIsNext ==
    ASSUME NEW q \in Part
    PROVE  /\ ~IsLast(q) =>
                /\ PartAfter(q) \in Part
                /\ PartAfter(q) # TheNode
                /\ \A r \in Part : Before(r, PartAfter(q)) <=> r = q \/ Before(r, q)
           /\ IsLast(q) => \A r \in Part : r = q \/ Before(r, q)
           /\ ~Before(q, q)
<1> DEFINE i == q[1]  k == q[2]  j == q[3]
<1>1. i \in 0..Len(Element) /\ k \in 0..2 /\ j \in Nat /\ Len(Element) \in Nat
  BY PartInts, ElementFacts
<1>2. /\ q = <<i, k, j>>
      /\ i = 0 => k = 0 /\ j = 0
      /\ k = 0 => j = 0
      /\ k # 0 => k \in Kind /\ i \in 1..Len(Element) /\ j \in 1..Element[i][k]
  BY PartFacts DEF Own, Kind, Sig, Vnd
<1>3. \A r \in Part :
        /\ r = <<r[1], r[2], r[3]>>
        /\ r[1] \in 0..Len(Element) /\ r[2] \in 0..2 /\ r[3] \in Nat
        /\ r[2] = 0 => r[3] = 0
        /\ r[2] # 0 => r[1] \in 1..Len(Element) /\ r[3] \in 1..Element[r[1]][r[2]]
        /\ r = q <=> r[1] = i /\ r[2] = k /\ r[3] = j
  BY <1>2, PartInts, PartFacts DEF Own, Kind, Sig, Vnd
<1>4. \A a \in 1..Len(Element) : Element[a][1] \in Nat /\ Element[a][2] \in Nat
  BY ElementFacts DEF Kind, Sig, Vnd
<1> HIDE DEF i, k, j
<1>5. ~Before(q, q)
  BY <1>1 DEF Before, i, k, j
<1>6. CASE HasSuccessor(q)
  <2>1. k \in Kind /\ j < Element[i][k] /\ PartAfter(q) = <<i, k, j + 1>> /\ i \in 1..Len(Element)
    BY <1>2, <1>6 DEF HasSuccessor, PartAfter, i, k, j, Kind, Sig, Vnd
  <2>2. PartAfter(q) \in Part /\ ~IsLast(q) /\ PartAfter(q) # TheNode
    BY <1>1, <1>4, <2>1, PartFacts DEF IsLast, Kind, Sig, Vnd, TheNode
  <2>3. \A r \in Part : Before(r, PartAfter(q)) <=> r = q \/ Before(r, q)
    BY <1>1, <1>3, <2>1 DEF Before, i, k, j
  <2> QED
    BY <1>5, <2>2, <2>3
<1>7. CASE ~HasSuccessor(q) /\ Has(q, Sig)
  <2>1. i \in 1..Len(Element) /\ k = 0 /\ j = 0 /\ Element[i][1] > 0 /\ PartAfter(q) = <<i, 1, 1>>
    BY <1>1, <1>2, <1>7 DEF Has, PartAfter, i, k, j, Sig, Kind, Vnd
  <2>2. PartAfter(q) \in Part /\ ~IsLast(q) /\ PartAfter(q) # TheNode
    BY <1>1, <1>4, <2>1, PartFacts DEF IsLast, Kind, Sig, Vnd, TheNode, Own
  <2>3. \A r \in Part : Before(r, PartAfter(q)) <=> r = q \/ Before(r, q)
    BY <1>1, <1>3, <1>4, <2>1 DEF Before, i, k, j
  <2> QED
    BY <1>5, <2>2, <2>3
<1>8. CASE ~HasSuccessor(q) /\ ~Has(q, Sig) /\ Has(q, Vnd)
  <2>1. /\ i \in 1..Len(Element) /\ k < 2 /\ Element[i][2] > 0 /\ PartAfter(q) = <<i, 2, 1>>
        /\ k = 0 => Element[i][1] = 0
        /\ k = 1 => j = Element[i][1]
    BY <1>1, <1>2, <1>4, <1>8 DEF Has, HasSuccessor, PartAfter, i, k, j, Sig, Kind, Vnd
  <2>2. PartAfter(q) \in Part /\ ~IsLast(q) /\ PartAfter(q) # TheNode
    BY <1>1, <1>4, <2>1, PartFacts DEF IsLast, Kind, Sig, Vnd, TheNode, Own
  <2>3. \A r \in Part : Before(r, PartAfter(q)) <=> r = q \/ Before(r, q)
    <3> SUFFICES ASSUME NEW r \in Part
                 PROVE  Before(r, PartAfter(q)) <=> r = q \/ Before(r, q)
      OBVIOUS
    <3>1. r[1] = i /\ r[2] = 1 => r[3] \in 1..Element[i][1]
      BY <1>3
    <3> QED
      BY <1>1, <1>3, <1>4, <2>1, <3>1 DEF Before, i, k, j
  <2> QED
    BY <1>5, <2>2, <2>3
<1>9. CASE ~HasSuccessor(q) /\ ~Has(q, Sig) /\ ~Has(q, Vnd)
  <2>1. /\ PartAfter(q) = <<i + 1, 0, 0>>
        /\ i # 0 /\ k = 0 => Element[i][1] = 0
        /\ i # 0 /\ k < 2 => Element[i][2] = 0
        /\ i # 0 /\ k > 0 => j = Element[i][k]
    BY <1>1, <1>2, <1>4, <1>9
       DEF Has, HasSuccessor, PartAfter, TheElement, Own, i, k, j, Sig, Kind, Vnd
  <2>2. IsLast(q) <=> i = Len(Element)
    BY <1>1, <2>1 DEF IsLast
  <2>3. ~IsLast(q) => PartAfter(q) \in Part /\ PartAfter(q) # TheNode
    BY <1>1, <2>1, <2>2, PartFacts DEF TheNode, Own
  <2>4. ASSUME NEW r \in Part, r[1] = i PROVE r = q \/ Before(r, q)
    <3>1. r[2] # 0 => i # 0 /\ r[3] \in 1..Element[i][r[2]]
      BY <1>3, <2>4
    <3>2. r[2] = 0 \/ r[2] = 1 \/ r[2] = 2
      BY <1>3
    <3> QED
      BY <1>1, <1>2, <1>3, <1>4, <2>1, <2>4, <3>1, <3>2 DEF Before, i, k, j
  <2>5. \A r \in Part : Before(r, PartAfter(q)) <=> r[1] <= i
    BY <1>1, <1>3, <2>1 DEF Before
  <2>6. \A r \in Part : r = q \/ Before(r, q) => r[1] <= i
    BY <1>1, <1>3 DEF Before, i
  <2>7. \A r \in Part : r[1] < i => Before(r, q)
    BY <1>1, <1>3 DEF Before, i
  <2> QED
    BY <1>1, <1>3, <1>5, <2>2, <2>3, <2>4, <2>5, <2>6, <2>7
<1> QED
  BY <1>6, <1>7, <1>8, <1>9

LEMMA BeforeIsOrder ==
    ASSUME NEW q \in Part, NEW r \in Part, NEW s \in Part, Before(q, r), Before(r, s)
    PROVE  Before(q, s)
BY PartInts DEF Before

LEMMA NodeIsFirst == \A q \in Part : ~Before(q, TheNode)
BY PartInts, PartFacts, ElementFacts DEF Before, TheNode, Own

-----------------------------------------------------------------------------
(* Pieces and plans. *)
LEMMA PieceCases ==
    ASSUME NEW p \in Piece
    PROVE  \/ p = Subnets
           \/ p = Elems
           \/ \E i \in 1..Len(Element), k \in Kind : p = Models(i, k)
           \/ \E m \in Model : p = <<"apps", m>> \/ p = <<"subs", m>>
BY DEF Piece

LEMMA PieceFacts ==
    ASSUME NEW p \in Piece
    PROVE  /\ PartWith(p) \in Part
           /\ Holder(p) = Stack <=> p \in {Subnets, Elems}
           /\ Holder(p) = Stack \/ Holder(p) \in Piece
           /\ Holder(p) # Stack => Before(PartWith(Holder(p)), PartWith(p))
           /\ Holder(p) \in {Stack, Elems} \/ Holder(Holder(p)) = Elems
           /\ Stack \notin Piece
<1>1. Stack \notin Piece
  BY PieceCases DEF Stack, Subnets, Elems, Models
<1>2. CASE p = Subnets \/ p = Elems
  <2>1. Holder(p) = Stack /\ PartWith(p) = TheNode
    BY <1>2 DEF Holder, PartWith, Subnets, Elems
  <2> QED
    BY <1>1, <1>2, <2>1 DEF Part
<1>3. ASSUME NEW i \in 1..Len(Element), NEW k \in Kind, p = Models(i, k)
      PROVE  /\ Holder(p) = Elems /\ PartWith(p) = TheElement(i)
             /\ p \notin {Subnets, Elems}
  BY <1>3 DEF Holder, PartWith, Models, Subnets, Elems
<1>4. ASSUME NEW i \in 1..Len(Element), NEW k \in Kind, p = Models(i, k)
      PROVE  /\ PartWith(p) \in Part
             /\ Before(TheNode, PartWith(p))
  BY <1>3, <1>4, ElementFacts DEF Part, TheElement, TheNode, Before
<1>5. Elems # Stack /\ Elems \in Piece /\ PartWith(Elems) = TheNode
  BY DEF Elems, Stack, Piece, PartWith
<1>6. ASSUME NEW m \in Model, p = <<"apps", m>> \/ p = <<"subs", m>>
      PROVE  /\ Holder(p) = Models(m[1], m[2]) /\ PartWith(p) = m
             /\ p \notin {Subnets, Elems}
  BY <1>6 DEF Holder, PartWith, Subnets, Elems
<1>7. ASSUME NEW m \in Model
      PROVE  /\ m[1] \in 1..Len(Element) /\ m[2] \in Kind
             /\ m \in Part
             /\ Before(TheElement(m[1]), m)
  <2>1. m \in Part /\ m[2] \in Kind
    BY ModelFacts
  <2>2. m = <<m[1], m[2], m[3]>>
    BY <2>1, PartFacts
  <2>3. m[1] \in 1..Len(Element) /\ m[3] \in Nat
    BY <2>1, <2>2, PartFacts, PartInts DEF Own, Kind, Sig, Vnd
  <2> QED
    BY <2>1, <2>3, ElementFacts DEF Before, TheElement, Own, Kind, Sig, Vnd
<1>8. ASSUME NEW i \in 1..Len(Element), NEW k \in Kind
      PROVE  /\ Models(i, k) \in Piece /\ Models(i, k) # Stack
             /\ Holder(Models(i, k)) = Elems /\ PartWith(Models(i, k)) = TheElement(i)
  BY DEF Models, Piece, Stack, Holder, PartWith
<1>9. ASSUME NEW i \in 1..Len(Element), NEW k \in Kind, p = Models(i, k)
      PROVE  /\ Holder(p) # Stack
             /\ Holder(p) \in Piece
             /\ Before(PartWith(Holder(p)), PartWith(p))
  BY <1>3, <1>4, <1>5, <1>9
<1>10. ASSUME NEW m \in Model, p = <<"apps", m>> \/ p = <<"subs", m>>
       PROVE  /\ Holder(p) # Stack
              /\ Holder(p) \in Piece
              /\ Holder(Holder(p)) = Elems
              /\ Before(PartWith(Holder(p)), PartWith(p))
  BY <1>6, <1>7, <1>8, <1>10
<1> QED
  BY <1>1, <1>2, <1>3, <1>4, <1>5, <1>6, <1>7, <1>9, <1>10, PieceCases

LEMMA FiveCommands ==
    ASSUME NEW a, NEW b, NEW c, NEW d, NEW e
    PROVE  /\ <<a, b, c, d>> \o <<e>> = <<a, b, c, d, e>>
           /\ <<a, b, c, d>> \o <<>> = <<a, b, c, d>>
<1> DEFINE S == {a, b, c, d, e}
           four == <<a, b, c, d>>
           one == <<e>>
<1>1. four \in Seq(S) /\ one \in Seq(S) /\ <<a, b, c, d, e>> \in Seq(S)
  OBVIOUS
<1>2. Len(four) = 4 /\ Len(one) = 1 /\ Len(<<a, b, c, d, e>>) = 5
  OBVIOUS
<1>3. Len(four \o one) = 5 /\ four \o one \in Seq(S)
  <2> HIDE DEF S, four, one
  <2> QED
    BY <1>1, <1>2, ConcatProperties DEF four, one
<1>4. \A n \in 1..5 : (four \o one)[n] = <<a, b, c, d, e>>[n]
  BY <1>1, <1>2, ConcatProperties
<1> HIDE DEF S
<1>5. four \o one = <<a, b, c, d, e>>
  BY <1>1, <1>2, <1>3, <1>4, SeqEqual
<1>6. four \o <<>> = four
  BY <1>1, ConcatEmptySeq
<1> QED
  BY <1>5, <1>6

LEMMA Plans ==
    /\ Plan(TheNode) = NodePlan
    /\ \A i \in 1..Len(Element) : Plan(TheElement(i)) = ElementPlan(i)
    /\ \A m \in Model :
         Plan(m) = IF IsConfigServer(m)
                   THEN <<Ask("mod_app"), Malloc(<<"apps", m>>), Ask("mod_sub"), Malloc(<<"subs", m>>)>>
                   ELSE <<Ask("mod_app"), Malloc(<<"apps", m>>), Ask("mod_sub"), Malloc(<<"subs", m>>),
                          Ask("mod_pub")>>
<1>1. \A m \in Model : m[2] # Own /\ m # TheNode
  BY ModelFacts DEF Kind, Own, Sig, Vnd, TheNode
<1>2. \A i \in 1..Len(Element) : TheElement(i) # TheNode /\ TheElement(i)[2] = Own
  BY ElementFacts DEF TheElement, TheNode
<1>3. \A m \in Model : Plan(m) = ModelPlan(m)
  BY <1>1 DEF Plan
<1>4. \A i \in 1..Len(Element) : Plan(TheElement(i)) = ElementPlan(i)
  BY <1>2 DEF Plan, TheElement
<1>5. Plan(TheNode) = NodePlan
  BY DEF Plan
<1>6. ASSUME NEW m \in Model
      PROVE  ModelPlan(m) = IF IsConfigServer(m)
                   THEN <<Ask("mod_app"), Malloc(<<"apps", m>>), Ask("mod_sub"), Malloc(<<"subs", m>>)>>
                   ELSE <<Ask("mod_app"), Malloc(<<"apps", m>>), Ask("mod_sub"), Malloc(<<"subs", m>>),
                          Ask("mod_pub")>>
  BY FiveCommands DEF ModelPlan
<1> QED
  BY <1>3, <1>4, <1>5, <1>6

(* Where the pieces are allocated. *)
LEMMA PieceSteps ==
    ASSUME NEW p \in Piece
    PROVE  \/ p = Subnets /\ PartWith(p) = TheNode /\ StepOf(p) = 10
           \/ p = Elems /\ PartWith(p) = TheNode /\ StepOf(p) = 11
           \/ \E i \in 1..Len(Element), k \in Kind :
                p = Models(i, k) /\ PartWith(p) = TheElement(i) /\ StepOf(p) = k
           \/ \E m \in Model : p = <<"apps", m>> /\ PartWith(p) = m /\ StepOf(p) = 2
           \/ \E m \in Model : p = <<"subs", m>> /\ PartWith(p) = m /\ StepOf(p) = 4
BY PieceCases DEF PartWith, StepOf, Subnets, Elems, Models

(* The parts: the node, elements and models differ. *)
LEMMA PartCases ==
    /\ \A i \in 1..Len(Element) : TheElement(i) # TheNode
    /\ \A i, k \in 1..Len(Element) : TheElement(i) = TheElement(k) => i = k
    /\ \A m \in Model : m # TheNode /\ \A i \in 1..Len(Element) : m # TheElement(i)
<1>1. \A m \in Model : m[2] # Own
  BY ModelFacts DEF Kind, Own, Sig, Vnd
<1> QED
  BY <1>1, ElementFacts DEF TheElement, TheNode, Own

LEMMA CommandFacts ==
    ASSUME NEW what, NEW p, NEW r
    PROVE  /\ Ask(what).do = "ask" /\ Ask(what).of = what
           /\ Malloc(p).do = "malloc" /\ Malloc(p).of = p
           /\ Ask(what) # Malloc(p)
           /\ Malloc(p) = Malloc(r) => p = r
BY DEF Ask, Malloc

(* A command of a plan allocates the piece that belongs there, or none does. *)
LEMMA PlanFacts ==
    ASSUME NEW q \in Part
    PROVE  /\ Len(Plan(q)) \in Nat \ {0}
           /\ \A n \in 1..Len(Plan(q)) :
                /\ Plan(q)[n].do \in {"ask", "malloc"}
                /\ Plan(q)[n].do = "malloc" =>
                     /\ Plan(q)[n].of \in Piece
                     /\ PartWith(Plan(q)[n].of) = q
                     /\ StepOf(Plan(q)[n].of) = n
                /\ Plan(q)[n].do = "ask" /\ Plan(q)[n].of \in OnOffStates => q = TheNode /\ n < 10
           /\ \A p \in Piece :
                PartWith(p) = q =>
                  StepOf(p) \in 1..Len(Plan(q)) /\ Plan(q)[StepOf(p)] = Malloc(p)
<1>1. CASE q = TheNode
  <2>1. Plan(q) = NodePlan
    BY <1>1, Plans
  <2>2. /\ Subnets \in Piece /\ PartWith(Subnets) = TheNode /\ StepOf(Subnets) = 10
        /\ Elems \in Piece /\ PartWith(Elems) = TheNode /\ StepOf(Elems) = 11
    BY DEF Piece, PartWith, StepOf, Subnets, Elems
  <2>3. \A p \in Piece : PartWith(p) = TheNode => p = Subnets \/ p = Elems
    BY PieceSteps, PartCases
  <2>4. Len(NodePlan) = 11
    BY DEF NodePlan
  <2>5. /\ NodePlan[10] = Malloc(Subnets) /\ NodePlan[11] = Malloc(Elems)
        /\ \A n \in 1..9 : NodePlan[n].do = "ask"
    BY DEF NodePlan, Ask
  <2>6. \A n \in 1..11 : n = 10 \/ n = 11 \/ (n \in 1..9 /\ n < 10)
    OBVIOUS
  <2> QED
    BY <1>1, <2>1, <2>2, <2>3, <2>4, <2>5, <2>6, CommandFacts
<1>2. ASSUME NEW i \in 1..Len(Element), q = TheElement(i)
      PROVE  /\ Len(Plan(q)) = 2
             /\ Plan(q)[1] = Malloc(Models(i, Sig)) /\ Plan(q)[2] = Malloc(Models(i, Vnd))
             /\ \A k \in Kind : /\ Models(i, k) \in Piece
                               /\ PartWith(Models(i, k)) = q
                               /\ StepOf(Models(i, k)) = k
             /\ \A p \in Piece : PartWith(p) = q => p = Models(i, Sig) \/ p = Models(i, Vnd)
  <2>1. Plan(q) = ElementPlan(i)
    BY <1>2, Plans
  <2>2. \A k \in Kind : /\ Models(i, k) \in Piece
                      /\ PartWith(Models(i, k)) = q
                      /\ StepOf(Models(i, k)) = k
    BY <1>2 DEF Piece, PartWith, StepOf, Models
  <2>3. \A p \in Piece : PartWith(p) = q => \E k \in Kind : p = Models(i, k)
    BY <1>2, PieceSteps, PartCases
  <2> QED
    BY <2>1, <2>2, <2>3 DEF ElementPlan, Kind
<1>3. ASSUME NEW i \in 1..Len(Element), q = TheElement(i)
      PROVE  /\ Len(Plan(q)) \in Nat \ {0}
             /\ \A n \in 1..Len(Plan(q)) :
                  /\ Plan(q)[n].do = "malloc"
                  /\ Plan(q)[n].of \in Piece
                  /\ PartWith(Plan(q)[n].of) = q
                  /\ StepOf(Plan(q)[n].of) = n
             /\ \A p \in Piece :
                  PartWith(p) = q =>
                    StepOf(p) \in 1..Len(Plan(q)) /\ Plan(q)[StepOf(p)] = Malloc(p)
  <2>1. \A n \in 1..2 : n = Sig \/ n = Vnd
    BY DEF Sig, Vnd
  <2>2. Sig = 1 /\ Vnd = 2 /\ Sig \in Kind /\ Vnd \in Kind
    BY DEF Sig, Vnd, Kind
  <2> QED
    BY <1>2, <1>3, <2>1, <2>2, CommandFacts
<1>4. CASE q \in Model
  <2> DEFINE plan == Plan(q)
             apps == <<"apps", q>>
             subs == <<"subs", q>>
  <2>1. /\ plan[1] = Ask("mod_app") /\ plan[2] = Malloc(apps)
        /\ plan[3] = Ask("mod_sub") /\ plan[4] = Malloc(subs)
        /\ Len(plan) = 4 \/ (Len(plan) = 5 /\ plan[5] = Ask("mod_pub"))
    BY <1>4, Plans
  <2>2. /\ apps \in Piece /\ PartWith(apps) = q /\ StepOf(apps) = 2
        /\ subs \in Piece /\ PartWith(subs) = q /\ StepOf(subs) = 4
    BY <1>4 DEF Piece, PartWith, StepOf
  <2>3. \A p \in Piece : PartWith(p) = q => p = apps \/ p = subs
    BY <1>4, PieceSteps, PartCases
  <2>4. "mod_app" \notin OnOffStates /\ "mod_sub" \notin OnOffStates /\ "mod_pub" \notin OnOffStates
    BY DEF OnOffStates
  <2> HIDE DEF plan, apps, subs
  <2>5. \A n \in 1..Len(plan) : n = 1 \/ n = 2 \/ n = 3 \/ n = 4 \/ (n = 5 /\ Len(plan) = 5)
    <3>1. Len(plan) = 4 \/ Len(plan) = 5
      BY <2>1
    <3>2. \A n \in 1..4 : n = 1 \/ n = 2 \/ n = 3 \/ n = 4
      OBVIOUS
    <3>3. \A n \in 1..5 : n \in 1..4 \/ n = 5
      OBVIOUS
    <3> QED
      BY <3>1, <3>2, <3>3
  <2>6. \A n \in 1..Len(plan) :
          \/ plan[n].do = "ask" /\ plan[n].of \notin OnOffStates
          \/ /\ plan[n].do = "malloc" /\ plan[n].of \in Piece
             /\ PartWith(plan[n].of) = q /\ StepOf(plan[n].of) = n
    BY <2>1, <2>2, <2>4, <2>5, CommandFacts
  <2>7. Len(plan) \in Nat \ {0} /\ 2 \in 1..Len(plan) /\ 4 \in 1..Len(plan)
    BY <2>1
  <2>8. \A p \in Piece :
          PartWith(p) = q => StepOf(p) \in 1..Len(plan) /\ plan[StepOf(p)] = Malloc(p)
    BY <2>1, <2>2, <2>3, <2>7
  <2> QED
    BY <2>6, <2>7, <2>8 DEF plan
<1> QED
  <2>1. CASE \E i \in 1..Len(Element) : q = TheElement(i)
    <3>1. PICK i \in 1..Len(Element) : q = TheElement(i)
      BY <2>1
    <3> QED
      BY <1>3, <3>1
  <2> QED
    BY <1>1, <1>4, <2>1 DEF Part

-----------------------------------------------------------------------------
(* How far a discovery has come determines pointers and allocations: what has been    *)
(* passed is allocated, a pointer held by it is null, and all others are wild.     *)
Here(p) == PartWith(p) = part /\ StepOf(p) = step
Pointer(p) ==
    IF Passed(p) THEN "block"
    ELSE IF Holder(p) = Stack \/ Passed(Holder(p)) THEN "null"
    ELSE "wild"

DiscTyped ==
    /\ part \in Part
    /\ step \in 0..Len(Plan(part))
    /\ step = 0 => part = TheNode
    /\ ptr \in [Piece -> {"wild", "null", "block"}]
    /\ live \in [Piece -> {0, 1}]
    /\ result \in {"none", "failed", "refused", "described"}

Progress ==
    Under => \A p \in Piece : ptr[p] = Pointer(p) /\ live[p] = IF Passed(p) THEN 1 ELSE 0

DiscInv == DiscTyped /\ Progress /\ FailureReleases /\ DescribedIsWhole

LEMMA StepFacts ==
    ASSUME NEW p \in Piece
    PROVE  PartWith(p) \in Part /\ StepOf(p) \in Nat /\ StepOf(p) > 0
<1>1. PartWith(p) \in Part
  BY PieceFacts
<1>2. StepOf(p) \in 1..Len(Plan(PartWith(p)))
  BY <1>1, PlanFacts
<1> QED
  BY <1>1, <1>2, PlanFacts

(* A piece is allocated after the piece that holds it. *)
LEMMA HereFacts ==
    ASSUME DiscTyped, Under
    PROVE  /\ \A p \in Piece : Here(p) => ~Passed(p)
           /\ \A p \in Piece : Holder(p) # Stack /\ (Passed(p) \/ Here(p)) => Passed(Holder(p))
           /\ Now.do \in {"ask", "malloc"}
           /\ Now.do = "ask" => \A p \in Piece : ~Here(p)
           /\ Now.do = "malloc" => Now.of \in Piece /\ \A p \in Piece : Here(p) <=> p = Now.of
<1>1. part \in Part /\ step \in 1..Len(Plan(part)) /\ step \in Nat
  BY PlanFacts DEF DiscTyped, Under
<1>2. ASSUME NEW p \in Piece, Here(p) PROVE ~Passed(p)
  BY <1>1, <1>2, AfterIsNext DEF Here, Passed, Reached
<1>3. ASSUME NEW p \in Piece, Holder(p) # Stack, Passed(p) \/ Here(p)
      PROVE  Passed(Holder(p))
  <2>1. /\ Holder(p) \in Piece /\ PartWith(Holder(p)) \in Part /\ PartWith(p) \in Part
        /\ Before(PartWith(Holder(p)), PartWith(p))
    BY <1>3, PieceFacts
  <2>2. PartWith(p) = part \/ Before(PartWith(p), part)
    BY <1>3 DEF Here, Passed, Reached
  <2>3. Before(PartWith(Holder(p)), part)
    BY <1>1, <2>1, <2>2, BeforeIsOrder
  <2> QED
    BY <2>3 DEF Passed, Reached
<1>4. Now.do \in {"ask", "malloc"}
  BY <1>1, PlanFacts DEF Now
<1>5. ASSUME NEW p \in Piece, Here(p) PROVE Now.do = "malloc" /\ p = Now.of
  <2>1. Now = Malloc(p)
    BY <1>1, <1>5, PlanFacts DEF Now, Here
  <2> QED
    BY <2>1, CommandFacts
<1>6. ASSUME Now.do = "malloc" PROVE Now.of \in Piece /\ Here(Now.of)
  BY <1>1, <1>6, PlanFacts DEF Now, Here
<1> QED
  BY <1>2, <1>3, <1>4, <1>5, <1>6

(* A step that does not fail passes the piece that is allocated by it. *)
LEMMA MovesOnPasses ==
    ASSUME DiscTyped, Under, MovesOn
    PROVE  /\ part' \in Part /\ step' \in 0..Len(Plan(part')) /\ (step' = 0 => part' = TheNode)
           /\ step' # 0 => result' = "none" /\ \A p \in Piece : Passed(p)' <=> Passed(p) \/ Here(p)
           /\ step' = 0 => result' = "described" /\ \A p \in Piece : Passed(p) \/ Here(p)
<1>1. /\ part \in Part /\ step \in 1..Len(Plan(part)) /\ step \in Nat
      /\ Len(Plan(part)) \in Nat \ {0}
  BY PlanFacts DEF DiscTyped, Under
<1>2. CASE step < Len(Plan(part)) /\ step' = step + 1 /\ result' = "none" /\ part' = part
  <2>1. \A p \in Piece : Passed(p)' <=> Passed(p) \/ Here(p)
    <3> TAKE p \in Piece
    <3>1. StepOf(p) < step + 1 <=> StepOf(p) < step \/ StepOf(p) = step
      BY <1>1, StepFacts
    <3>2. Passed(p)' <=> Reached(p, part, step + 1)
      BY <1>2 DEF Passed
    <3> QED
      BY <3>1, <3>2 DEF Passed, Reached, Here
  <2> QED
    BY <1>1, <1>2, <2>1
<1>3. CASE /\ step = Len(Plan(part)) /\ ~IsLast(part) /\ step' = 1
           /\ part' = PartAfter(part) /\ result' = "none"
  <2>1. part' \in Part /\ \A r \in Part : Before(r, part') <=> r = part \/ Before(r, part)
    BY <1>1, <1>3, AfterIsNext
  <2>2. \A p \in Piece : Passed(p)' <=> Passed(p) \/ Here(p)
    <3> TAKE p \in Piece
    <3>1. Passed(p)' <=> Reached(p, part', 1)
      BY <1>3 DEF Passed
    <3>2. ~(StepOf(p) < 1)
      BY StepFacts
    <3>3. PartWith(p) = part => StepOf(p) < step \/ StepOf(p) = step
      BY <1>1, <1>3, PlanFacts
    <3>4. Reached(p, part', 1) <=> PartWith(p) = part \/ Before(PartWith(p), part)
      BY <2>1, <3>2, StepFacts DEF Reached
    <3> QED
      BY <3>1, <3>3, <3>4 DEF Passed, Reached, Here
  <2>3. 1 \in 0..Len(Plan(part'))
    BY <2>1, PlanFacts
  <2> QED
    BY <1>3, <2>1, <2>2, <2>3
<1>4. CASE step = Len(Plan(part)) /\ IsLast(part) /\ Ends("described")
  <2>1. part' = TheNode /\ step' = 0 /\ result' = "described"
    BY <1>4 DEF Ends
  <2>2. TheNode \in Part /\ 0 \in 0..Len(Plan(TheNode))
    BY PlanFacts DEF Part
  <2>3. \A p \in Piece : Passed(p) \/ Here(p)
    <3> TAKE p \in Piece
    <3>1. PartWith(p) = part \/ Before(PartWith(p), part)
      BY <1>1, <1>4, AfterIsNext, StepFacts
    <3>2. PartWith(p) = part => StepOf(p) < step \/ StepOf(p) = step
      BY <1>1, <1>4, PlanFacts
    <3> QED
      BY <3>1, <3>2 DEF Passed, Reached, Here
  <2> QED
    BY <2>1, <2>2, <2>3
<1> QED
  BY <1>2, <1>3, <1>4 DEF MovesOn

(* Pointers and allocations after such a step. *)
LEMMA PassesPieces ==
    ASSUME DiscTyped, Under, Progress, Answered \/ Malloced
    PROVE  \A p \in Piece :
             /\ live'[p] = IF Passed(p) \/ Here(p) THEN 1 ELSE 0
             /\ ptr'[p] = IF Passed(p) \/ Here(p) THEN "block"
                          ELSE IF Holder(p) = Stack \/ Passed(Holder(p)) \/ Here(Holder(p)) THEN "null"
                          ELSE "wild"
<1>1. CASE Answered
  <2>1. \A p \in Piece : ~Here(p)
    BY <1>1, HereFacts DEF Answered
  <2>2. \A p \in Piece : Holder(p) = Stack \/ ~Here(Holder(p))
    BY <2>1, PieceFacts
  <2>3. ptr' = ptr /\ live' = live
    BY <1>1 DEF Answered
  <2> QED
    BY <2>1, <2>2, <2>3 DEF Progress, Pointer
<1>2. CASE Malloced
  <2>1. Now.of \in Piece /\ \A p \in Piece : Here(p) <=> p = Now.of
    BY <1>2, HereFacts DEF Malloced
  <2>2. \A p \in Piece : p \in PartsOf(Now.of) <=> Holder(p) = Now.of
    BY DEF PartsOf
  <2>3. Now.of # Stack
    BY <2>1, PieceFacts
  <2>4. \A p \in Piece : Holder(p) = Stack \/ Holder(p) \in Piece
    BY PieceFacts
  <2>5. ASSUME NEW p \in Piece, Holder(p) = Now.of PROVE ~Passed(p) /\ ~Here(p)
    BY <2>1, <2>3, <2>5, HereFacts
  <2>6. ~Passed(Now.of) /\ live[Now.of] = 0
    BY <2>1, HereFacts DEF Progress
  <2>7. \A p \in Piece : live'[p] = IF p = Now.of THEN 1 ELSE live[p]
    BY <1>2, <2>1, <2>6 DEF Malloced, DiscTyped
  <2>8. \A p \in Piece :
          ptr'[p] = IF p = Now.of THEN "block" ELSE IF Holder(p) = Now.of THEN "null" ELSE ptr[p]
    BY <1>2, <2>2 DEF Malloced
  <2> TAKE p \in Piece
  <2>9. live'[p] = IF Passed(p) \/ Here(p) THEN 1 ELSE 0
    BY <2>1, <2>7 DEF Progress
  <2>10. ptr'[p] = IF Passed(p) \/ Here(p) THEN "block"
                   ELSE IF Holder(p) = Stack \/ Passed(Holder(p)) \/ Here(Holder(p)) THEN "null"
                   ELSE "wild"
    <3>1. CASE p = Now.of
      BY <2>1, <2>8, <3>1
    <3>2. CASE Holder(p) = Now.of
      BY <2>1, <2>5, <2>8, <3>2
    <3>3. CASE p # Now.of /\ Holder(p) # Now.of
      <4>1. ptr'[p] = Pointer(p) /\ ~Here(p)
        BY <2>1, <2>8, <3>3 DEF Progress
      <4>2. Holder(p) = Stack \/ ~Here(Holder(p))
        BY <2>1, <2>4, <3>3
      <4> QED
        BY <4>1, <4>2 DEF Pointer
    <3> QED
      BY <3>1, <3>2, <3>3
  <2> QED
    BY <2>9, <2>10
<1> QED
  BY <1>1, <1>2

(* btmesh_free_node releases what is allocated, but for the subnets. *)
LEMMA FreeNodeFrees ==
    ASSUME DiscTyped, Under, Progress,
           IF ptr[Elems] = "block" THEN FreeNode ELSE UNCHANGED live
    PROVE  /\ live' \in [Piece -> {0, 1}]
           /\ \A p \in Piece \ {Subnets} : live'[p] = 0
<1>1. Elems \in Piece /\ Subnets \in Piece /\ Elems # Stack
  BY PieceFacts DEF Piece
<1>2. \A p \in Piece : Holder(p) = Stack \/ Holder(p) \in Piece
  BY PieceFacts
<1>3. \A p \in Piece : Holder(p) # Stack /\ Passed(p) => Passed(Holder(p))
  BY HereFacts
<1>4. ASSUME NEW p \in Piece \ {Subnets}, Passed(p) PROVE Passed(Elems)
  <2>1. CASE Holder(p) = Stack
    BY <1>4, <2>1, PieceFacts
  <2>2. CASE Holder(p) = Elems
    BY <1>1, <1>3, <1>4, <2>2
  <2>3. CASE Holder(Holder(p)) = Elems /\ Holder(p) # Stack
    BY <1>1, <1>2, <1>3, <1>4, <2>3
  <2> QED
    BY <2>1, <2>2, <2>3, PieceFacts
<1>5. CASE ptr[Elems] # "block"
  BY <1>1, <1>4, <1>5 DEF Progress, Pointer, DiscTyped
<1>6. CASE ptr[Elems] = "block"
  <2>1. Passed(Elems)
    BY <1>1, <1>6 DEF Progress, Pointer
  <2>2. \A p, q \in Piece : p \in Parts(q) <=> Holder(p) = q /\ ptr[p] # "null"
    BY DEF Parts, PartsOf
  <2>3. \A p, q \in Piece : Passed(q) => (p \in Parts(q) <=> Holder(p) = q /\ Passed(p))
    BY <1>1, <2>2 DEF Progress, Pointer
  <2>4. \A p \in Piece :
          p \in Released <=> p = Elems \/ p \in Parts(Elems) \/ \E q \in Parts(Elems) : p \in Parts(q)
    BY <1>6 DEF Released
  <2>5. Parts(Elems) \subseteq Piece
    BY DEF Parts, PartsOf
  <2>6. Subnets \notin Released
    <3>1. Holder(Subnets) = Stack /\ Subnets # Elems /\ Stack \notin Piece
      BY <1>1, PieceFacts DEF Subnets, Elems
    <3>2. \A q \in Piece : Subnets \notin Parts(q)
      BY <1>1, <2>2, <3>1
    <3> QED
      BY <1>1, <2>4, <2>5, <3>1, <3>2
  <2>7. ASSUME NEW p \in Piece \ {Subnets} PROVE p \in Released <=> Passed(p)
    <3>1. CASE Holder(p) = Stack
      <4>1. p = Elems
        BY <3>1, PieceFacts
      <4> QED
        BY <2>1, <2>4, <4>1
    <3>2. CASE Holder(p) = Elems
      <4>1. p \in Parts(Elems) <=> Passed(p)
        BY <1>1, <2>1, <2>3, <3>2
      <4>2. p # Elems
        BY <1>1, <3>2, PieceFacts
      <4>3. \A q \in Parts(Elems) : p \in Parts(q) => p \in Parts(Elems)
        BY <2>2, <2>5, <3>2
      <4> QED
        BY <2>4, <4>1, <4>2, <4>3
    <3>3. CASE Holder(p) \notin {Stack, Elems} /\ Holder(Holder(p)) = Elems
      <4>1. Holder(p) \in Piece
        BY <1>2, <3>3
      <4>2. p # Elems /\ p \notin Parts(Elems)
        BY <1>1, <2>2, <3>3, PieceFacts
      <4>3. (\E q \in Parts(Elems) : p \in Parts(q)) <=> Holder(p) \in Parts(Elems) /\ p \in Parts(Holder(p))
        BY <2>2, <2>5, <4>1
      <4>4. Holder(p) \in Parts(Elems) <=> Passed(Holder(p))
        BY <1>1, <2>1, <2>3, <3>3, <4>1
      <4>5. Passed(Holder(p)) => (p \in Parts(Holder(p)) <=> Passed(p))
        BY <2>3, <4>1
      <4>6. Passed(p) => Passed(Holder(p))
        BY <1>3, <3>3
      <4> QED
        BY <2>4, <4>2, <4>3, <4>4, <4>5, <4>6
    <3> QED
      BY <3>1, <3>2, <3>3, PieceFacts
  <2>8. live' = [p \in Piece |-> IF p \in Released THEN live[p] - 1 ELSE live[p]]
    BY <1>6 DEF FreeNode
  <2>9. \A p \in Piece \ {Subnets} : live'[p] = 0
    BY <2>7, <2>8 DEF Progress
  <2>10. live'[Subnets] = live[Subnets]
    BY <1>1, <2>6, <2>8
  <2> QED
    BY <1>1, <2>8, <2>9, <2>10 DEF DiscTyped
<1> QED
  BY <1>5, <1>6

LEMMA DiscoveryInit == DiscInit => DiscInv
<1> SUFFICES ASSUME DiscInit PROVE DiscInv
  OBVIOUS
<1>1. TheNode \in Part /\ 0 \in 0..Len(Plan(TheNode))
  BY PlanFacts DEF Part
<1> QED
  BY <1>1 DEF DiscInit, DiscInv, DiscTyped, Progress, Under, FailureReleases, DescribedIsWhole

(* A discovery that has ended. *)
LEMMA EndKeeps ==
    ASSUME step' = 0, part' = TheNode, ptr' \in [Piece -> {"wild", "null", "block"}],
           live' \in [Piece -> {0, 1}], result' \in {"failed", "refused", "described"},
           result' # "described" => \A p \in Piece \ {Subnets} : live'[p] = 0,
           result' = "described" =>
               \/ \A p \in Piece : live'[p] = 1 /\ ptr'[p] = "block"
               \/ \A p \in Piece : live'[p] = 0
    PROVE  DiscInv'
<1>1. TheNode \in Part /\ 0 \in 0..Len(Plan(TheNode))
  BY PlanFacts DEF Part
<1>2. DiscTyped'
  <2>1. 0 \in 0..Len(Plan(part'))
    BY <1>1
  <2> QED
    BY <1>1, <2>1 DEF DiscTyped, Plan, NodePlan, ElementPlan, ModelPlan
<1> QED
  BY <1>2 DEF DiscInv, Progress, Under, FailureReleases, DescribedIsWhole

LEMMA DiscoverStartsKeeps == ASSUME DiscInv, DiscoverStarts PROVE DiscInv'
<1> DEFINE start == [p \in Piece |-> IF p \in PartsOf(Stack) THEN "null" ELSE "wild"]
<1>1. part' = TheNode /\ ptr' = start /\ live' = [p \in Piece |-> 0]
  BY DEF DiscInv, DiscTyped, DiscoverStarts
<1>2. \A p \in Piece : start[p] = IF Holder(p) = Stack THEN "null" ELSE "wild"
  BY DEF PartsOf
<1>3. start \in [Piece -> {"wild", "null", "block"}] /\ live' \in [Piece -> {0, 1}]
  BY <1>1
<1>4. CASE step' = 1 /\ result' = "none"
  <2>1. TheNode \in Part /\ 1 \in 0..Len(Plan(TheNode))
    BY PlanFacts DEF Part
  <2>2. \A p \in Piece : ~Passed(p)'
    <3> TAKE p \in Piece
    <3>1. Passed(p)' <=> Reached(p, TheNode, 1)
      BY <1>1, <1>4 DEF Passed
    <3> QED
      BY <3>1, NodeIsFirst, StepFacts DEF Reached
  <2>3. DiscTyped'
    BY <1>1, <1>3, <1>4, <2>1 DEF DiscTyped
  <2>4. Progress'
    <3> SUFFICES ASSUME NEW p \in Piece
                 PROVE  ptr'[p] = Pointer(p)' /\ live'[p] = IF Passed(p)' THEN 1 ELSE 0
      BY DEF Progress
    <3>1. Holder(p) = Stack \/ ~Passed(Holder(p))'
      BY <2>2, PieceFacts
    <3> QED
      BY <1>1, <1>2, <2>2, <3>1 DEF Pointer
  <2> QED
    BY <1>4, <2>3, <2>4 DEF DiscInv, FailureReleases, DescribedIsWhole
<1>5. CASE step' = 0 /\ result' = "failed"
  BY <1>1, <1>3, <1>5, EndKeeps
<1> QED
  BY <1>4, <1>5 DEF DiscoverStarts

LEMMA PassesKeeps == ASSUME DiscInv, Answered \/ Malloced PROVE DiscInv'
<1>1. DiscTyped /\ Under /\ Progress /\ MovesOn
  BY DEF DiscInv, Answered, Malloced
<1>2. \A p \in Piece :
        /\ live'[p] = IF Passed(p) \/ Here(p) THEN 1 ELSE 0
        /\ ptr'[p] = IF Passed(p) \/ Here(p) THEN "block"
                     ELSE IF Holder(p) = Stack \/ Passed(Holder(p)) \/ Here(Holder(p)) THEN "null"
                     ELSE "wild"
  BY <1>1, PassesPieces
<1>3. ptr' \in [Piece -> {"wild", "null", "block"}] /\ live' \in [Piece -> {0, 1}]
  <2>1. ptr' = [p \in Piece |-> ptr'[p]] /\ live' = [p \in Piece |-> live'[p]]
    BY <1>1 DEF DiscTyped, Answered, Malloced
  <2> QED
    BY <1>2, <2>1
<1>4. CASE step' = 0
  BY <1>1, <1>2, <1>3, <1>4, MovesOnPasses, EndKeeps
<1>5. CASE step' # 0
  <2>1. /\ part' \in Part /\ step' \in 0..Len(Plan(part')) /\ result' = "none"
        /\ \A p \in Piece : Passed(p)' <=> Passed(p) \/ Here(p)
    BY <1>1, <1>5, MovesOnPasses
  <2>2. DiscTyped'
    BY <1>3, <1>5, <2>1 DEF DiscTyped
  <2>3. Progress'
    <3> SUFFICES ASSUME NEW p \in Piece
                 PROVE  ptr'[p] = Pointer(p)' /\ live'[p] = IF Passed(p)' THEN 1 ELSE 0
      BY DEF Progress
    <3>1. Holder(p) = Stack \/ (Passed(Holder(p))' <=> Passed(Holder(p)) \/ Here(Holder(p)))
      BY <2>1, PieceFacts
    <3> QED
      BY <1>2, <2>1, <3>1 DEF Pointer
  <2> QED
    BY <1>5, <2>1, <2>2, <2>3 DEF DiscInv, FailureReleases, DescribedIsWhole
<1> QED
  BY <1>4, <1>5

LEMMA FailsKeeps == ASSUME DiscInv, NotAnswered \/ NoMemory PROVE DiscInv'
<1>1. /\ DiscTyped /\ Under /\ Progress
      /\ IF ptr[Elems] = "block" THEN FreeNode ELSE UNCHANGED live
      /\ ptr' = ptr /\ step' = 0 /\ part' = TheNode /\ result' \in {"failed", "refused"}
  BY DEF DiscInv, NotAnswered, NoMemory, Ends
<1>2. live' \in [Piece -> {0, 1}] /\ \A p \in Piece \ {Subnets} : live'[p] = 0
  BY <1>1, FreeNodeFrees
<1>3. ptr' \in [Piece -> {"wild", "null", "block"}]
  BY <1>1 DEF DiscTyped
<1> QED
  BY <1>1, <1>2, <1>3, EndKeeps

(* The states of features are asked for before anything is allocated. *)
LEMMA StateUnknownKeeps == ASSUME DiscInv, StateUnknown PROVE DiscInv'
<1>1. /\ DiscTyped /\ Under /\ Progress /\ Now.do = "ask" /\ Now.of \in OnOffStates
      /\ ptr' = ptr /\ live' = live /\ step' = 0 /\ part' = TheNode /\ result' = "described"
  BY DEF DiscInv, StateUnknown, Ends
<1>2. part = TheNode /\ step \in Nat /\ step < 10
  BY <1>1, PlanFacts DEF DiscTyped, Under, Now
<1>3. \A p \in Piece : ~Passed(p)
  <2> TAKE p \in Piece
  <2>1. PartWith(p) = TheNode => StepOf(p) = 10 \/ StepOf(p) = 11
    BY PieceSteps, PartCases
  <2> QED
    BY <1>2, <2>1, NodeIsFirst, StepFacts DEF Passed, Reached
<1>4. \A p \in Piece : live'[p] = 0
  BY <1>1, <1>3 DEF Progress
<1> QED
  BY <1>1, <1>4, EndKeeps DEF DiscTyped

LEMMA DiscoveryNext == DiscInv /\ [DiscNext]_discVars => DiscInv'
<1> SUFFICES ASSUME DiscInv, [DiscNext]_discVars PROVE DiscInv'
  OBVIOUS
<1>1. CASE DiscoverStarts
  BY <1>1, DiscoverStartsKeeps
<1>2. CASE Answered \/ Malloced
  BY <1>2, PassesKeeps
<1>3. CASE NotAnswered \/ NoMemory
  BY <1>3, FailsKeeps
<1>4. CASE StateUnknown
  BY <1>4, StateUnknownKeeps
<1>5. CASE UNCHANGED discVars
  <2> USE <1>5 DEF discVars
  <2>1. DiscTyped' /\ FailureReleases' /\ DescribedIsWhole'
    BY DEF DiscInv, DiscTyped, FailureReleases, DescribedIsWhole
  <2>2. Progress'
    BY DEF DiscInv, Progress, Under, Pointer, Passed
  <2> QED
    BY <2>1, <2>2 DEF DiscInv
<1> QED
  BY <1>1, <1>2, <1>3, <1>4, <1>5 DEF DiscNext, DiscoveryStep

LEMMA DiscoveryAlways == DiscSpec => []DiscInv
<1> QED
  BY DiscoveryInit, DiscoveryNext, PTL DEF DiscSpec

LEMMA DiscInvProperties == DiscInv => ReleasesValid /\ FailureReleases /\ DescribedIsWhole
<1> QED
  BY DEF DiscInv, DiscTyped, ReleasesValid

(* Of the queue's actions two are steps of the discovery, and no other changes it. *)
LEMMA NextIsDiscoveryStep == [Next]_vars => [DiscNext]_discVars
<1> SUFFICES ASSUME [Next]_vars PROVE DiscNext \/ UNCHANGED discVars
  OBVIOUS
<1>1. CASE BeginsDiscovery \/ Discovers
  BY <1>1 DEF BeginsDiscovery, Discovers, DiscNext
<1>2. CASE \/ Takes \/ GivesUp \/ ListsOrAsks \/ ChangesKeys \/ DiscoveryEnds \/ NoAddresses
           \/ BadAddresses \/ ChangesSubscriptions \/ Relays \/ Answers \/ ReleasesOwn \/ Releases
  BY <1>2 DEF Takes, GivesUp, ListsOrAsks, ChangesKeys, DiscoveryEnds, NoAddresses, BadAddresses,
     ChangesSubscriptions, Relays, Answers, ReleasesOwn, Releases
<1>3. CASE \/ MessageIgnored \/ MessageParsed \/ HandlerThread \/ ShellThread
           \/ \E kind \in CallbackKind : CallbackQueued(kind)
  BY <1>3 DEF MessageIgnored, MessageParsed, HandlerThread, MessageRefused, EntryAllocated,
     UnknownOperation, MessageDeleted, RequestQueued, OnlyHandler, CallbackQueued, ShellThread
<1>4. CASE UNCHANGED vars
  BY <1>4 DEF vars
<1> QED
  BY <1>1, <1>2, <1>3, <1>4 DEF Next, GatewayThread

(* GatewayDiscovers: Gateway implements Discovery.  What the queue's handlers do to a  *)
(* description are the steps of a discovery; none touches it in between or begins     *)
(* another before one has ended.                                             *)
THEOREM GatewayDiscovers == Spec => DiscSpec
<1>1. Init => DiscInit
  BY DEF Init
<1> QED
  BY <1>1, NextIsDiscoveryStep, PTL DEF Spec, DiscSpec

LEMMA DiscoveryHolds == Spec => []DiscInv
<1> QED
  BY GatewayDiscovers, DiscoveryAlways, PTL

(* ReleasesOnce: for any node, at whatever command a discovery ends, no piece of the   *)
(* description is released twice, or through a pointer that was never set.        *)
THEOREM ReleasesOnce == Spec => []ReleasesValid
<1> QED
  BY DiscoveryHolds, DiscInvProperties, PTL

(* NothingLeft: for any node, a discovery that fails has released all elements and     *)
(* models that it had stored.                                               *)
THEOREM NothingLeft == Spec => []FailureReleases
<1> QED
  BY DiscoveryHolds, DiscInvProperties, PTL

(* DescribedWhole: for any node, a description that is passed on is complete, or it    *)
(* has nothing that could be released.                                        *)
THEOREM DescribedWhole == Spec => []DescribedIsWhole
<1> QED
  BY DiscoveryHolds, DiscInvProperties, PTL

-----------------------------------------------------------------------------
(* Memory.  HeapExact says that the blocks that are allocated are those somebody has   *)
(* a pointer to (Held).  It is not inductive: that a new block is not held yet, and    *)
(* that a released one is not held by another, rests on every message and every       *)
(* entry having an identity of its own, and on no addresses of an entry being lost     *)
(* before it is handled.                                                      *)
Held == Needed \cup Leaked

QueueTyped ==
    /\ items \in 0..MaxItems
    /\ fifo \in Seq(EntryType)
    /\ entry \in EntryType \cup {None}
    /\ message \in [id : Item, at : {"parsed", "stored", "refused"}] \cup {NoMessage}
    /\ pc \in {"sleep", "handle", "discover", "answer", "release"}
    /\ heap \in [Block -> Int]
    /\ leaked \subseteq Item

Distinct ==
    /\ \A n \in 1..Len(fifo) : fifo[n].id <= items
    /\ \A m, n \in 1..Len(fifo) : fifo[m].id = fifo[n].id => m = n
    /\ entry # None => entry.id <= items /\ \A n \in 1..Len(fifo) : fifo[n].id # entry.id
    /\ message # NoMessage =>
        /\ message.id <= items
        /\ \A n \in 1..Len(fifo) : fifo[n].id # message.id
        /\ entry # None => entry.id # message.id

NotLostYet ==
    /\ \A id \in leaked : id <= items
    /\ \A n \in 1..Len(fifo) : fifo[n].id \notin leaked
    /\ message # NoMessage => message.id \notin leaked
    /\ pc = "handle" => Me \notin leaked

Handling ==
    /\ pc = "sleep" <=> entry = None
    /\ pc \in {"sleep", "handle", "discover"} => own = {}
    /\ pc = "discover" => entry.json = TRUE
    /\ own \subseteq {<<Me, "addrs">>, <<Me, "data">>}
    /\ own # {} => Me \notin leaked

QueueInv ==
    /\ QueueTyped
    /\ Distinct
    /\ NotLostYet
    /\ Handling
    /\ HeapExact

-----------------------------------------------------------------------------
LEMMA EntryFacts ==
    ASSUME NEW e \in EntryType
    PROVE  /\ e.id \in Item /\ e.id \in Nat /\ e # None
           /\ (e.kind \in RequestKind /\ e.json = TRUE) \/ (e.kind \in CallbackKind /\ e.json = FALSE)
<1>1. e.id \in Item
  BY DEF EntryType
<1>2. (e.kind \in RequestKind /\ e.json = TRUE) \/ (e.kind \in CallbackKind /\ e.json = FALSE)
  <2>1. CASE e \in [id : Item, kind : RequestKind, json : {TRUE}]
    <3>1. e.kind \in RequestKind
      BY <2>1
    <3>2. e.json = TRUE
      BY <2>1
    <3> QED
      BY <3>1, <3>2
  <2>2. CASE e \in [id : Item, kind : CallbackKind, json : {FALSE}]
    <3>1. e.kind \in CallbackKind
      BY <2>2
    <3>2. e.json = FALSE
      BY <2>2
    <3> QED
      BY <3>1, <3>2
  <2> QED
    BY <2>1, <2>2 DEF EntryType
<1>3. e.id \in Nat /\ e.id > 0
  BY <1>1, ItemsIsNat DEF Item
<1>4. None.id = 0
  BY DEF None
<1> QED
  BY <1>1, <1>2, <1>3, <1>4

LEMMA IdFacts ==
    ASSUME QueueInv
    PROVE  /\ Len(fifo) \in Nat /\ items \in Nat /\ leaked \subseteq Item
           /\ \A n \in 1..Len(fifo) : fifo[n] \in EntryType /\ fifo[n].id \in Item
           /\ entry # None => entry \in EntryType /\ entry.id \in Item
           /\ message # NoMessage => message.id \in Item
           /\ \A id \in Item : id \in Nat
<1>1. fifo \in Seq(EntryType) /\ entry \in EntryType \cup {None} /\ items \in Nat
  BY ItemsIsNat DEF QueueInv, QueueTyped
<1>2. Len(fifo) \in Nat /\ \A n \in 1..Len(fifo) : fifo[n] \in EntryType
  BY <1>1
<1>3. message # NoMessage => message.id \in Item
  BY DEF QueueInv, QueueTyped
<1>4. \A id \in Item : id \in Nat
  BY ItemsIsNat DEF Item
<1>5. leaked \subseteq Item
  BY DEF QueueInv, QueueTyped
<1> QED
  BY <1>1, <1>2, <1>3, <1>4, <1>5, EntryFacts

(* Whose blocks the parts of Held are. *)
LEMMA PartsOfHeld ==
    /\ \A b \in HandlerBlocks :
         /\ message # NoMessage /\ b[1] = message.id
         /\ b = <<message.id, "json">> \/ (b = <<message.id, "entry">> /\ message.at = "stored")
    /\ \A b \in QueuedBlocks : \E n \in 1..Len(fifo) : b \in BlocksOf(fifo[n])
    /\ \A n \in 1..Len(fifo) : BlocksOf(fifo[n]) \subseteq QueuedBlocks
    /\ \A b \in EntryBlocks : pc # "sleep" /\ b[1] = Me /\ b[2] \in {"json", "entry", "data"}
    /\ \A e : \A b \in BlocksOf(e) : b[1] = e.id /\ b[2] \in {"json", "entry", "data"}
    /\ \A b \in Leaked : b[1] \in leaked /\ b[2] = "addrs" /\ b = <<b[1], "addrs">>
    /\ \A id \in leaked : <<id, "addrs">> \in Leaked
    /\ Held = HandlerBlocks \cup QueuedBlocks \cup EntryBlocks \cup own \cup Leaked
<1>1. \A b \in HandlerBlocks :
         /\ message # NoMessage /\ b[1] = message.id
         /\ b = <<message.id, "json">> \/ (b = <<message.id, "entry">> /\ message.at = "stored")
  BY DEF HandlerBlocks
<1>2. /\ \A b \in QueuedBlocks : \E n \in 1..Len(fifo) : b \in BlocksOf(fifo[n])
      /\ \A n \in 1..Len(fifo) : BlocksOf(fifo[n]) \subseteq QueuedBlocks
  BY DEF QueuedBlocks
<1>3. \A b \in EntryBlocks : pc # "sleep" /\ b[1] = Me /\ b[2] \in {"json", "entry", "data"}
  BY DEF EntryBlocks
<1>4. \A e : \A b \in BlocksOf(e) : b[1] = e.id /\ b[2] \in {"json", "entry", "data"}
  BY DEF BlocksOf
<1>5. /\ \A b \in Leaked : b[1] \in leaked /\ b[2] = "addrs" /\ b = <<b[1], "addrs">>
      /\ \A id \in leaked : <<id, "addrs">> \in Leaked
  BY DEF Leaked
<1>6. Held = HandlerBlocks \cup QueuedBlocks \cup EntryBlocks \cup own \cup Leaked
  BY DEF Held, Needed
<1> QED
  BY <1>1, <1>2, <1>3, <1>4, <1>5, <1>6

(* Everything that is held belongs to a message that has arrived. *)
LEMMA HeldHasId ==
    ASSUME QueueInv, NEW b \in Held
    PROVE  b[1] \in Item /\ b[1] <= items
<1>1. CASE b \in HandlerBlocks
  BY <1>1, PartsOfHeld, IdFacts DEF QueueInv, Distinct
<1>2. CASE b \in QueuedBlocks
  <2>1. PICK n \in 1..Len(fifo) : b[1] = fifo[n].id
    BY <1>2, PartsOfHeld
  <2> QED
    BY <2>1, IdFacts DEF QueueInv, Distinct
<1>3. CASE b \in EntryBlocks \/ b \in own
  <2>1. entry # None /\ b[1] = Me
    BY <1>3, PartsOfHeld DEF QueueInv, QueueTyped, Handling
  <2> QED
    BY <2>1, IdFacts DEF QueueInv, Distinct, Me
<1>4. CASE b \in Leaked
  BY <1>4, PartsOfHeld, IdFacts DEF QueueInv, NotLostYet
<1> QED
  BY <1>1, <1>2, <1>3, <1>4, PartsOfHeld

(* A step that allocates what was not held, or releases what was, and changes Held in *)
(* the same way keeps the heap exact.                                           *)
LEMMA HeapChanges ==
    ASSUME QueueInv, NEW B
    PROVE  /\ heap' = Alloc(B) /\ Held' = Held \cup B /\ B \cap Held = {}
                => HeapExact' /\ heap' \in [Block -> Int]
           /\ heap' = Release(B) /\ Held' = Held \ B /\ B \subseteq Held
                => HeapExact' /\ heap' \in [Block -> Int]
           /\ heap' = heap /\ Held' = Held => HeapExact' /\ heap' \in [Block -> Int]
<1>1. heap \in [Block -> Int] /\ \A b \in Block : heap[b] = IF b \in Held THEN 1 ELSE 0
  BY DEF QueueInv, QueueTyped, HeapExact, Held
<1>2. HeapExact' <=> \A b \in Block : heap'[b] = IF b \in Held' THEN 1 ELSE 0
  BY DEF HeapExact, Held
<1>3. ASSUME heap' = Alloc(B), Held' = Held \cup B, B \cap Held = {}
      PROVE  HeapExact' /\ heap' \in [Block -> Int]
  BY <1>1, <1>2, <1>3 DEF Alloc
<1>4. ASSUME heap' = Release(B), Held' = Held \ B, B \subseteq Held
      PROVE  HeapExact' /\ heap' \in [Block -> Int]
  BY <1>1, <1>2, <1>4 DEF Release
<1> QED
  BY <1>1, <1>2, <1>3, <1>4

(* What a step leaves alone. *)
LEMMA PartsStay ==
    /\ message' = message => HandlerBlocks' = HandlerBlocks
    /\ fifo' = fifo => QueuedBlocks' = QueuedBlocks
    /\ entry' = entry /\ pc' = pc => EntryBlocks' = EntryBlocks
    /\ leaked' = leaked => Leaked' = Leaked
    /\ Held' = HandlerBlocks' \cup QueuedBlocks' \cup EntryBlocks' \cup own' \cup Leaked'
BY DEF HandlerBlocks, QueuedBlocks, BlocksOf, EntryBlocks, Me, Leaked, Held, Needed

LEMMA QueueInit == Init => QueueInv
<1> SUFFICES ASSUME Init PROVE QueueInv
  OBVIOUS
<1>1. QueueTyped
  BY ItemsIsNat DEF Init, QueueTyped
<1>2. Distinct /\ NotLostYet /\ Handling
  BY DEF Init, Distinct, NotLostYet, Handling
<1>3. Held = {}
  BY DEF Init, Held, Needed, HandlerBlocks, QueuedBlocks, EntryBlocks, Leaked
<1>4. HeapExact
  BY <1>3 DEF Init, HeapExact, Held
<1> QED
  BY <1>1, <1>2, <1>4 DEF QueueInv

-----------------------------------------------------------------------------
(* gateway_handler.  A message is new, or nothing happens but that it is counted. *)
LEMMA ParsedKeeps == ASSUME QueueInv, MessageParsed PROVE QueueInv'
<1> DEFINE id == items + 1  B == {<<id, "json">>}
<1>1. /\ items < MaxItems /\ items' = id /\ message = NoMessage /\ message' = Message(id, "parsed")
      /\ heap' = Alloc(B)
      /\ UNCHANGED <<fifo, entry, pc, own, leaked>>
  BY DEF MessageParsed, Arrives
<1>2. id \in Item /\ items \in Nat /\ id \in Nat /\ items < id /\ id <= MaxItems
  BY <1>1, ItemsIsNat DEF QueueInv, QueueTyped, Item
<1>3. message'.id = id /\ message'.at = "parsed" /\ message' # NoMessage
  BY <1>1 DEF Message, NoMessage
<1>4. HandlerBlocks = {} /\ HandlerBlocks' = B
  BY <1>1, <1>3 DEF HandlerBlocks
<1>5. B \cap Held = {}
  BY <1>2, HeldHasId, IdFacts
<1>6. Held' = Held \cup B
  BY <1>1, <1>4, PartsStay, PartsOfHeld
<1>7. HeapExact' /\ heap' \in [Block -> Int]
  BY <1>1, <1>5, <1>6, HeapChanges
<1>8. QueueTyped'
  <2>1. message' \in [id : Item, at : {"parsed", "stored", "refused"}]
    BY <1>1, <1>2 DEF Message
  <2>2. items' \in 0..MaxItems
    BY <1>1, <1>2, ItemsIsNat
  <2> QED
    BY <1>1, <1>7, <2>1, <2>2 DEF QueueInv, QueueTyped
<1>9. Distinct'
  <2>1. \A n \in 1..Len(fifo) : fifo[n].id <= items /\ fifo[n].id \in Nat
    BY IdFacts DEF QueueInv, Distinct
  <2>2. entry # None => entry.id \in Nat /\ entry.id <= items
    BY IdFacts DEF QueueInv, Distinct
  <2>3. \A n \in 1..Len(fifo) : fifo[n].id <= id /\ fifo[n].id # id
    BY <1>2, <2>1
  <2>4. entry # None => entry.id <= id /\ entry.id # id
    BY <1>2, <2>2
  <2>5. /\ \A m, n \in 1..Len(fifo) : fifo[m].id = fifo[n].id => m = n
        /\ entry # None => \A n \in 1..Len(fifo) : fifo[n].id # entry.id
    BY DEF QueueInv, Distinct
  <2>6. message'.id <= items'
    BY <1>1, <1>2, <1>3
  <2> QED
    BY <1>1, <1>3, <2>3, <2>4, <2>5, <2>6 DEF Distinct
<1>10. NotLostYet'
  <2>1. id \notin leaked /\ \A x \in leaked : x <= id
    BY <1>2, IdFacts DEF QueueInv, NotLostYet
  <2> QED
    BY <1>1, <1>3, <2>1 DEF QueueInv, NotLostYet, Me
<1>11. Handling'
  BY <1>1 DEF QueueInv, Handling, Me
<1> QED
  BY <1>7, <1>8, <1>9, <1>10, <1>11 DEF QueueInv

(* The handler at work on its message. *)
LEMMA HandlerKeeps ==
    ASSUME QueueInv, MessageRefused \/ EntryAllocated \/ UnknownOperation \/ MessageDeleted
    PROVE  QueueInv'
<1> DEFINE json == <<message.id, "json">>  ent == <<message.id, "entry">>
<1>1. /\ message # NoMessage /\ message.id \in Item /\ message.at \in {"parsed", "stored", "refused"}
      /\ UNCHANGED <<fifo, entry, pc, own, items, leaked>>
      /\ \/ message' = NoMessage
         \/ /\ message' = Message(message.id, message'.at)
            /\ message'.at \in {"stored", "refused"}
  <2>1. message.at \in {"parsed", "stored", "refused"}
    BY DEF MessageRefused, EntryAllocated, UnknownOperation, MessageDeleted, HandlerAt
  <2>2. message # NoMessage
    BY <2>1 DEF NoMessage, Message
  <2>3. UNCHANGED <<fifo, entry, pc, own, items, leaked>>
    BY DEF MessageRefused, EntryAllocated, UnknownOperation, MessageDeleted, OnlyHandler
  <2>4. \/ message' = NoMessage
        \/ message' = Message(message.id, "stored") \/ message' = Message(message.id, "refused")
    BY DEF MessageRefused, EntryAllocated, UnknownOperation, MessageDeleted, HandlerGoes
  <2>5. \A p : Message(message.id, p).at = p
    BY DEF Message
  <2> QED
    BY <2>1, <2>2, <2>3, <2>4, <2>5, IdFacts
<1>2. message' # NoMessage => message'.id = message.id
  BY <1>1 DEF Message
<1>3. Held' = HandlerBlocks' \cup QueuedBlocks \cup EntryBlocks \cup own \cup Leaked
  BY <1>1, PartsStay
<1>4. /\ json \in HandlerBlocks /\ (ent \in HandlerBlocks <=> message.at = "stored")
      /\ \A b \in HandlerBlocks : b = json \/ b = ent
      /\ json # ent
  BY <1>1 DEF HandlerBlocks
<1>5. \A b \in {json, ent} : b \notin QueuedBlocks \cup EntryBlocks \cup own \cup Leaked
  <2> SUFFICES ASSUME NEW b \in {json, ent}
               PROVE  b \notin QueuedBlocks \cup EntryBlocks \cup own \cup Leaked
    OBVIOUS
  <2>0. b[1] = message.id /\ b[2] # "addrs" /\ b[2] # "data"
    OBVIOUS
  <2>1. b \notin QueuedBlocks
    BY <1>1, <2>0, PartsOfHeld DEF QueueInv, Distinct
  <2>2. ASSUME b \in EntryBlocks PROVE FALSE
    <3>1. entry # None /\ b[1] = entry.id
      BY <2>2, PartsOfHeld DEF QueueInv, QueueTyped, Handling, Me
    <3> QED
      BY <1>1, <2>0, <3>1 DEF QueueInv, Distinct
  <2>3. b \notin own
    BY <2>0 DEF QueueInv, Handling
  <2>4. b \notin Leaked
    BY <2>0, PartsOfHeld
  <2> QED
    BY <2>1, <2>2, <2>3, <2>4
<1>6. HeapExact' /\ heap' \in [Block -> Int]
  <2>1. CASE MessageRefused
    <3>1. message.at = "parsed" /\ message' = Message(message.id, "refused") /\ heap' = heap
      BY <2>1 DEF MessageRefused, HandlerAt, HandlerGoes
    <3>2. HandlerBlocks' = {json} /\ HandlerBlocks = {json}
      BY <1>1, <3>1 DEF HandlerBlocks, Message, NoMessage
    <3> QED
      BY <1>3, <3>1, <3>2, PartsOfHeld, HeapChanges
  <2>2. CASE EntryAllocated
    <3>1. message.at = "parsed" /\ message' = Message(message.id, "stored") /\ heap' = Alloc({ent})
      BY <2>2 DEF EntryAllocated, HandlerAt, HandlerGoes
    <3>2. HandlerBlocks' = {json, ent} /\ HandlerBlocks = {json}
      BY <1>1, <3>1 DEF HandlerBlocks, Message, NoMessage
    <3>3. Held' = Held \cup {ent} /\ {ent} \cap Held = {}
      BY <1>3, <1>4, <1>5, <3>2, PartsOfHeld
    <3> QED
      BY <3>1, <3>3, HeapChanges
  <2>3. CASE UnknownOperation
    <3>1. message.at = "stored" /\ message' = Message(message.id, "refused") /\ heap' = Release({ent})
      BY <2>3 DEF UnknownOperation, HandlerAt, HandlerGoes
    <3>2. HandlerBlocks' = {json} /\ HandlerBlocks = {json, ent}
      BY <1>1, <3>1 DEF HandlerBlocks, Message, NoMessage
    <3>3. Held' = Held \ {ent} /\ {ent} \subseteq Held
      BY <1>3, <1>4, <1>5, <3>2, PartsOfHeld
    <3> QED
      BY <3>1, <3>3, HeapChanges
  <2>4. CASE MessageDeleted
    <3>1. message.at = "refused" /\ message' = NoMessage /\ heap' = Release({json})
      BY <2>4 DEF MessageDeleted, HandlerAt
    <3>2. HandlerBlocks' = {} /\ HandlerBlocks = {json}
      BY <1>1, <3>1 DEF HandlerBlocks
    <3>3. Held' = Held \ {json} /\ {json} \subseteq Held
      BY <1>3, <1>5, <3>2, PartsOfHeld
    <3> QED
      BY <3>1, <3>3, HeapChanges
  <2> QED
    BY <2>1, <2>2, <2>3, <2>4
<1>7. QueueTyped'
  <2>1. message' \in [id : Item, at : {"parsed", "stored", "refused"}] \cup {NoMessage}
    BY <1>1 DEF Message
  <2> QED
    BY <1>1, <1>6, <2>1 DEF QueueInv, QueueTyped
<1>8. Distinct' /\ NotLostYet' /\ Handling'
  BY <1>1, <1>2 DEF QueueInv, Distinct, NotLostYet, Handling, Me
<1> QED
  BY <1>6, <1>7, <1>8 DEF QueueInv

-----------------------------------------------------------------------------
(* An entry that nobody has yet is appended to the queue. *)
LEMMA Appended ==
    ASSUME QueueInv, NEW e \in EntryType, fifo' = Append(fifo, e)
    PROVE  /\ fifo' \in Seq(EntryType) /\ Len(fifo') = Len(fifo) + 1
           /\ \A n \in 1..Len(fifo) + 1 :
                \/ n \in 1..Len(fifo) /\ fifo'[n] = fifo[n]
                \/ n = Len(fifo) + 1 /\ fifo'[n] = e
           /\ QueuedBlocks' = QueuedBlocks \cup BlocksOf(e)
<1>1. fifo \in Seq(EntryType) /\ Len(fifo) \in Nat
  BY DEF QueueInv, QueueTyped
<1>2. /\ fifo' \in Seq(EntryType) /\ Len(fifo') = Len(fifo) + 1
      /\ fifo'[Len(fifo) + 1] = e
      /\ \A n \in 1..Len(fifo) : fifo'[n] = fifo[n]
  BY <1>1
<1>3. \A n \in 1..Len(fifo) + 1 : n \in 1..Len(fifo) \/ n = Len(fifo) + 1
  BY <1>1
<1>4. QueuedBlocks' = QueuedBlocks \cup BlocksOf(e)
  <2>1. QueuedBlocks' = UNION {BlocksOf(fifo'[n]) : n \in 1..Len(fifo')}
    BY DEF QueuedBlocks, BlocksOf
  <2>2. \A b : b \in QueuedBlocks' <=> \E n \in 1..Len(fifo) + 1 : b \in BlocksOf(fifo'[n])
    BY <1>2, <2>1
  <2>3. \A b : b \in QueuedBlocks <=> \E n \in 1..Len(fifo) : b \in BlocksOf(fifo[n])
    BY DEF QueuedBlocks
  <2>4. Len(fifo) + 1 \in 1..Len(fifo) + 1 /\ \A n \in 1..Len(fifo) : n \in 1..Len(fifo) + 1
    BY <1>1
  <2>5. ASSUME NEW b PROVE b \in QueuedBlocks' <=> b \in QueuedBlocks \/ b \in BlocksOf(e)
    <3>1. ASSUME NEW n \in 1..Len(fifo) + 1, b \in BlocksOf(fifo'[n])
          PROVE  b \in QueuedBlocks \/ b \in BlocksOf(e)
      BY <1>2, <1>3, <2>3, <3>1
    <3>2. b \in QueuedBlocks => b \in QueuedBlocks'
      BY <1>2, <2>2, <2>3, <2>4
    <3>3. b \in BlocksOf(e) => b \in QueuedBlocks'
      BY <1>2, <2>2, <2>4
    <3> QED
      BY <2>2, <3>1, <3>2, <3>3
  <2> QED
    BY <2>5
<1> QED
  BY <1>1, <1>2, <1>3, <1>4

LEMMA RequestKeeps == ASSUME QueueInv, NEW kind \in RequestKind, RequestQueued(kind) PROVE QueueInv'
<1> DEFINE e == Queued(message.id, kind, TRUE)
<1>1. /\ message.at = "stored" /\ message' = NoMessage /\ fifo' = Append(fifo, e) /\ heap' = heap
      /\ UNCHANGED <<entry, pc, own, items, leaked>>
  BY DEF RequestQueued, HandlerAt, OnlyHandler
<1>2. message # NoMessage /\ message.id \in Item
  <2>1. message # NoMessage
    BY <1>1 DEF NoMessage, Message
  <2> QED
    BY <2>1, IdFacts
<1>3. e \in EntryType /\ e.id = message.id /\ e.json = TRUE
  BY <1>2 DEF Queued, EntryType
<1> HIDE DEF e
<1>4. HandlerBlocks = BlocksOf(e) /\ HandlerBlocks' = {}
  BY <1>1, <1>2, <1>3 DEF HandlerBlocks, BlocksOf
<1>5. Held' = Held
  BY <1>1, <1>3, <1>4, Appended, PartsStay, PartsOfHeld
<1>6. HeapExact' /\ heap' \in [Block -> Int]
  BY <1>1, <1>5, HeapChanges
<1>7. QueueTyped'
  BY <1>1, <1>3, <1>6, Appended DEF QueueInv, QueueTyped
<1>8. Distinct'
  <2>1. \A m, n \in 1..Len(fifo) + 1 : fifo'[m].id = fifo'[n].id => m = n
    BY <1>1, <1>2, <1>3, Appended DEF QueueInv, Distinct
  <2>2. \A n \in 1..Len(fifo) + 1 : fifo'[n].id <= items /\ (entry # None => fifo'[n].id # entry.id)
    BY <1>1, <1>2, <1>3, Appended DEF QueueInv, Distinct
  <2> QED
    BY <1>1, <1>3, <2>1, <2>2, Appended DEF QueueInv, Distinct
<1>9. NotLostYet' /\ Handling'
  BY <1>1, <1>2, <1>3, Appended DEF QueueInv, NotLostYet, Handling, Me
<1> QED
  BY <1>6, <1>7, <1>8, <1>9 DEF QueueInv

LEMMA CallbackKeeps ==
    ASSUME QueueInv, NEW kind \in CallbackKind, CallbackQueued(kind), faulted' = faulted
    PROVE  QueueInv' \/ UNCHANGED <<fifo, heap>>
<1> DEFINE id == items + 1  e == Queued(id, kind, FALSE)  B == {<<id, "data">>, <<id, "entry">>}
<1> SUFFICES ASSUME ~UNCHANGED <<fifo, heap>> PROVE QueueInv'
  OBVIOUS
<1>1. /\ items < MaxItems /\ items' = id /\ fifo' = Append(fifo, e) /\ heap' = Alloc(B)
      /\ UNCHANGED <<entry, pc, own, message, leaked>>
  BY DEF CallbackQueued, Arrives
<1>2. id \in Item /\ items \in Nat /\ id \in Nat /\ items < id /\ id <= MaxItems
  BY <1>1, ItemsIsNat DEF QueueInv, QueueTyped, Item
<1>3. e \in EntryType /\ e.id = id /\ e.json = FALSE
  BY <1>2 DEF Queued, EntryType
<1> HIDE DEF e
<1>4. BlocksOf(e) = B
  BY <1>3 DEF BlocksOf
<1>5. B \cap Held = {}
  BY <1>2, HeldHasId, IdFacts
<1>6. Held' = Held \cup B
  BY <1>1, <1>3, <1>4, Appended, PartsStay, PartsOfHeld
<1>7. HeapExact' /\ heap' \in [Block -> Int]
  BY <1>1, <1>5, <1>6, HeapChanges
<1>8. QueueTyped'
  <2>1. items' \in 0..MaxItems
    BY <1>1, <1>2, ItemsIsNat
  <2> QED
    BY <1>1, <1>3, <1>7, <2>1, Appended DEF QueueInv, QueueTyped
<1>9. Distinct'
  <2>1. \A n \in 1..Len(fifo) : fifo[n].id <= items /\ fifo[n].id \in Nat
    BY IdFacts DEF QueueInv, Distinct
  <2>2. \A m, n \in 1..Len(fifo) + 1 : fifo'[m].id = fifo'[n].id => m = n
    BY <1>1, <1>2, <1>3, <2>1, Appended DEF QueueInv, Distinct
  <2>3. entry # None => entry.id \in Nat /\ entry.id <= items
    BY IdFacts DEF QueueInv, Distinct
  <2>4. message # NoMessage => message.id \in Nat /\ message.id <= items
    BY IdFacts DEF QueueInv, Distinct
  <2>5. \A n \in 1..Len(fifo) + 1 :
          /\ fifo'[n].id <= id
          /\ entry # None => fifo'[n].id # entry.id
          /\ message # NoMessage => fifo'[n].id # message.id
    BY <1>1, <1>2, <1>3, <2>1, <2>3, <2>4, Appended DEF QueueInv, Distinct
  <2>6. entry # None /\ message # NoMessage => entry.id # message.id
    BY DEF QueueInv, Distinct
  <2> QED
    BY <1>1, <1>2, <1>3, <2>2, <2>3, <2>4, <2>5, <2>6, Appended DEF Distinct
<1>10. NotLostYet' /\ Handling'
  <2>1. id \notin leaked /\ \A x \in leaked : x <= id
    BY <1>2, IdFacts DEF QueueInv, NotLostYet
  <2> QED
    BY <1>1, <1>3, <2>1, Appended DEF QueueInv, NotLostYet, Handling, Me
<1> QED
  BY <1>7, <1>8, <1>9, <1>10 DEF QueueInv

(* Steps that are not about the queue's memory, but may count a message. *)
LEMMA CountingKeeps ==
    ASSUME QueueInv, UNCHANGED <<fifo, entry, pc, own, heap, message, leaked>>,
           items' = items \/ (items < MaxItems /\ items' = items + 1)
    PROVE  QueueInv'
<1>1. items' \in Nat /\ items \in Nat /\ items <= items' /\ items' \in 0..MaxItems
  BY ItemsIsNat DEF QueueInv, QueueTyped
<1>2. QueueTyped'
  BY <1>1 DEF QueueInv, QueueTyped
<1>3. Distinct'
  BY <1>1, IdFacts DEF QueueInv, Distinct
<1>4. NotLostYet'
  <2>1. \A x \in leaked : x <= items'
    BY <1>1, IdFacts DEF QueueInv, NotLostYet
  <2> QED
    BY <2>1 DEF QueueInv, NotLostYet, Me
<1>5. Handling'
  BY DEF QueueInv, Handling, Me
<1>6. HeapExact'
  BY PartsStay, PartsOfHeld, HeapChanges
<1> QED
  BY <1>2, <1>3, <1>4, <1>5, <1>6 DEF QueueInv

-----------------------------------------------------------------------------
(* gateway_process *)
LEMMA TakesKeeps == ASSUME QueueInv, Takes PROVE QueueInv'
<1> DEFINE L == Len(fifo)
<1>1. /\ pc = "sleep" /\ fifo # <<>> /\ entry' = Head(fifo) /\ fifo' = Tail(fifo) /\ pc' = "handle"
      /\ UNCHANGED <<own, heap, items, message, leaked>>
  BY DEF Takes
<1>2. fifo \in Seq(EntryType) /\ L \in Nat \ {0}
  BY <1>1 DEF QueueInv, QueueTyped
<1>3. /\ entry' = fifo[1] /\ 1 \in 1..L /\ fifo' \in Seq(EntryType) /\ Len(fifo') = L - 1
      /\ \A n \in 1..L - 1 : fifo'[n] = fifo[n + 1] /\ n + 1 \in 1..L /\ n + 1 # 1
      /\ \A n \in 1..L : n = 1 \/ (n - 1 \in 1..L - 1 /\ (n - 1) + 1 = n)
  BY <1>1, <1>2
<1>4. entry' \in EntryType /\ entry' # None /\ entry = None /\ own = {}
  BY <1>1, <1>3, IdFacts, EntryFacts DEF QueueInv, Handling
<1>5. QueueTyped'
  BY <1>1, <1>3, <1>4 DEF QueueInv, QueueTyped
<1>6. Distinct'
  <2>1. \A m, n \in 1..L : fifo[m].id = fifo[n].id => m = n
    BY DEF QueueInv, Distinct
  <2>2. \A n \in 1..L - 1 :
          /\ fifo'[n].id <= items'
          /\ message # NoMessage => fifo'[n].id # message.id
          /\ fifo'[n].id # entry'.id
    BY <1>1, <1>3, <2>1 DEF QueueInv, Distinct
  <2>3. ASSUME NEW m \in 1..L - 1, NEW n \in 1..L - 1, fifo'[m].id = fifo'[n].id PROVE m = n
    <3>1. m + 1 = n + 1
      BY <1>3, <2>1, <2>3
    <3> QED
      BY <1>2, <3>1
  <2>4. entry'.id <= items' /\ (message # NoMessage => entry'.id # message.id)
    BY <1>1, <1>3 DEF QueueInv, Distinct
  <2>5. message # NoMessage => message.id <= items
    BY DEF QueueInv, Distinct
  <2> QED
    BY <1>1, <1>3, <2>2, <2>3, <2>4, <2>5 DEF Distinct
<1>7. NotLostYet'
  <2>1. \A n \in 1..L : fifo[n].id \notin leaked
    BY DEF QueueInv, NotLostYet
  <2> QED
    BY <1>1, <1>3, <2>1 DEF QueueInv, NotLostYet, Me
<1>8. Handling'
  BY <1>1, <1>4 DEF Handling
<1>9. Held' = Held
  <2>1. EntryBlocks = {} /\ EntryBlocks' = BlocksOf(fifo[1])
    <3>1. entry'.json = TRUE \/ entry'.json = FALSE
      BY <1>4, EntryFacts
    <3>2. EntryBlocks' = {<<entry'.id, "entry">>}
                         \cup (IF entry'.json THEN {<<entry'.id, "json">>} ELSE {})
                         \cup (IF ~entry'.json THEN {<<entry'.id, "data">>} ELSE {})
      BY <1>1 DEF EntryBlocks, Me
    <3>3. EntryBlocks' = {<<entry'.id, "entry">>}
                         \cup (IF entry'.json THEN {<<entry'.id, "json">>}
                                              ELSE {<<entry'.id, "data">>})
      BY <3>1, <3>2
    <3> QED
      BY <1>1, <1>3, <3>3 DEF EntryBlocks, BlocksOf
  <2>2. \A b : b \in QueuedBlocks' <=> \E n \in 1..L - 1 : b \in BlocksOf(fifo[n + 1])
    <3>1. \A b : b \in QueuedBlocks' <=> \E n \in 1..L - 1 : b \in BlocksOf(fifo'[n])
      BY <1>3 DEF QueuedBlocks, BlocksOf
    <3> QED
      BY <1>3, <3>1
  <2>3. \A b : b \in QueuedBlocks <=> b \in BlocksOf(fifo[1]) \/ b \in QueuedBlocks'
    <3>1. \A b : b \in QueuedBlocks <=> \E n \in 1..L : b \in BlocksOf(fifo[n])
      BY DEF QueuedBlocks
    <3>2. ASSUME NEW b, NEW n \in 1..L, b \in BlocksOf(fifo[n]), n # 1 PROVE b \in QueuedBlocks'
      <4>1. n - 1 \in 1..L - 1 /\ fifo[(n - 1) + 1] = fifo[n]
        BY <1>3, <3>2
      <4> QED
        BY <2>2, <3>2, <4>1
    <3> QED
      BY <1>3, <2>2, <3>1, <3>2
  <2> QED
    BY <1>1, <2>1, <2>3, PartsStay, PartsOfHeld
<1>10. HeapExact'
  BY <1>1, <1>9, HeapChanges
<1> QED
  BY <1>5, <1>6, <1>7, <1>8, <1>10 DEF QueueInv

(* Steps that only move the handler of a request on. *)
LEMMA MovesOnKeeps ==
    ASSUME QueueInv, UNCHANGED <<fifo, entry, items, message, leaked, own, heap>>,
           pc \in {"handle", "discover", "answer"},
           pc' = pc \/ pc' \in {"discover", "answer", "release"},
           pc = "handle" => entry.kind \in RequestKind,
           pc' = "discover" => pc \in {"handle", "discover"},
           pc' = "handle" => pc = "handle"
    PROVE  QueueInv'
<1>1. QueueTyped' /\ Distinct' /\ NotLostYet'
  BY DEF QueueInv, QueueTyped, Distinct, NotLostYet, Me
<1>2. entry # None /\ entry \in EntryType
  BY IdFacts DEF QueueInv, Handling
<1>3. RequestKind \cap CallbackKind = {}
  BY DEF RequestKind, CallbackKind
<1>4. pc \in {"handle", "discover"} => entry.json = TRUE
  BY <1>2, <1>3, EntryFacts DEF QueueInv, Handling
<1>5. Handling'
  BY <1>2, <1>4 DEF QueueInv, Handling, Me
<1>6. EntryBlocks' = EntryBlocks
  BY <1>4 DEF EntryBlocks, Me
<1>7. HeapExact'
  BY <1>6, PartsStay, PartsOfHeld, HeapChanges
<1> QED
  BY <1>1, <1>5, <1>7 DEF QueueInv

(* The list of addresses: a good one is held by the handler, a bad one is lost. *)
LEMMA AddressesKeep == ASSUME QueueInv, BadAddresses \/ ChangesSubscriptions PROVE QueueInv'
<1> DEFINE block == <<Me, "addrs">>
<1>1. /\ pc = "handle" /\ entry.kind \in RequestKind /\ heap' = Alloc({block})
      /\ pc' \in {"answer", "release"}
      /\ \/ leaked' = leaked \cup {Me} /\ own' = own
         \/ leaked' = leaked /\ own' = {block}
      /\ pc' = "answer" => leaked' = leaked
      /\ UNCHANGED <<fifo, entry, items, message>>
  BY DEF BadAddresses, ChangesSubscriptions, Handles, Goes, QueueStays, RequestKind
<1>2. entry # None /\ entry \in EntryType /\ own = {} /\ Me \notin leaked /\ Me \in Item /\ Me <= items
  BY <1>1, IdFacts DEF QueueInv, Handling, NotLostYet, Distinct, Me
<1>3. entry.json = TRUE
  <2>1. RequestKind \cap CallbackKind = {}
    BY DEF RequestKind, CallbackKind
  <2> QED
    BY <1>1, <1>2, <2>1, EntryFacts
<1>4. {block} \cap Held = {}
  BY <1>2, PartsOfHeld
<1>5. EntryBlocks' = EntryBlocks
  BY <1>1, <1>3 DEF EntryBlocks, Me
<1>6. own' \cup Leaked' = own \cup Leaked \cup {block}
  <2>1. CASE leaked' = leaked \cup {Me} /\ own' = own
    BY <2>1 DEF Leaked
  <2>2. CASE leaked' = leaked /\ own' = {block}
    BY <1>2, <2>2 DEF Leaked
  <2> QED
    BY <1>1, <2>1, <2>2
<1>7. Held' = Held \cup {block}
  BY <1>1, <1>5, <1>6, PartsStay, PartsOfHeld
<1>8. HeapExact' /\ heap' \in [Block -> Int]
  BY <1>1, <1>4, <1>7, HeapChanges
<1>9. QueueTyped' /\ Distinct'
  BY <1>1, <1>2, <1>8 DEF QueueInv, QueueTyped, Distinct
<1>10. NotLostYet'
  <2>1. /\ \A n \in 1..Len(fifo) : fifo[n].id # Me
        /\ message # NoMessage => message.id # Me
    BY <1>2 DEF QueueInv, Distinct, Me
  <2> QED
    BY <1>1, <1>2, <2>1 DEF QueueInv, NotLostYet
<1>11. Handling'
  BY <1>1, <1>2 DEF Handling, Me
<1> QED
  BY <1>8, <1>9, <1>10, <1>11 DEF QueueInv

LEMMA RelaysKeeps == ASSUME QueueInv, Relays PROVE QueueInv'
<1>1. /\ pc = "handle" /\ entry.kind \in CallbackKind /\ own' = {<<Me, "data">>}
      /\ pc' = "answer" /\ UNCHANGED <<fifo, entry, items, message, leaked, heap>>
  BY DEF Relays, Handles, Goes, QueueStays
<1>2. entry # None /\ entry \in EntryType /\ own = {} /\ Me \notin leaked
  BY <1>1, IdFacts DEF QueueInv, Handling, NotLostYet
<1>3. entry.json = FALSE
  <2>1. RequestKind \cap CallbackKind = {}
    BY DEF RequestKind, CallbackKind
  <2> QED
    BY <1>1, <1>2, <2>1, EntryFacts
<1>4. QueueTyped' /\ Distinct' /\ NotLostYet'
  BY <1>1 DEF QueueInv, QueueTyped, Distinct, NotLostYet, Me
<1>5. Handling'
  BY <1>1, <1>2 DEF Handling, Me
<1>6. EntryBlocks' \cup own' = EntryBlocks \cup own
  BY <1>1, <1>2, <1>3 DEF EntryBlocks, Me
<1>7. Held' = Held
  BY <1>1, <1>6, PartsStay, PartsOfHeld
<1>8. HeapExact'
  BY <1>1, <1>7, HeapChanges
<1> QED
  BY <1>4, <1>5, <1>8 DEF QueueInv

LEMMA ReleasesOwnKeeps == ASSUME QueueInv, ReleasesOwn PROVE QueueInv'
<1>1. /\ pc = "release" /\ own # {} /\ heap' = Release(own) /\ own' = {}
      /\ UNCHANGED <<pc, fifo, entry, items, message, leaked>>
  BY DEF ReleasesOwn, QueueStays
<1>2. entry # None /\ Me = entry.id /\ Me \notin leaked
  BY <1>1 DEF QueueInv, Handling, Me
<1>3. ASSUME NEW b \in own PROVE b \notin HandlerBlocks \cup QueuedBlocks \cup EntryBlocks \cup Leaked
  <2>1. b[1] = Me /\ (b[2] = "addrs" \/ b[2] = "data")
    BY <1>3 DEF QueueInv, Handling
  <2>2. b \notin HandlerBlocks
    BY <2>1, PartsOfHeld
  <2>3. b \notin QueuedBlocks
    BY <1>2, <2>1, PartsOfHeld DEF QueueInv, Distinct
  <2>4. b \notin EntryBlocks
    BY <1>1, <2>1 DEF EntryBlocks
  <2>5. b \notin Leaked
    BY <1>2, <2>1, PartsOfHeld
  <2> QED
    BY <2>2, <2>3, <2>4, <2>5
<1>4. Held' = Held \ own /\ own \subseteq Held
  BY <1>1, <1>3, PartsStay, PartsOfHeld
<1>5. HeapExact' /\ heap' \in [Block -> Int]
  BY <1>1, <1>4, HeapChanges
<1>6. QueueTyped' /\ Distinct' /\ NotLostYet'
  BY <1>1, <1>5 DEF QueueInv, QueueTyped, Distinct, NotLostYet, Me
<1>7. Handling'
  BY <1>1 DEF QueueInv, Handling, Me
<1> QED
  BY <1>5, <1>6, <1>7 DEF QueueInv

LEMMA ReleasesKeeps == ASSUME QueueInv, Releases PROVE QueueInv'
<1> DEFINE B == (IF entry.json THEN {<<Me, "json">>} ELSE {}) \cup {<<Me, "entry">>}
<1>1. /\ pc = "release" /\ own = {} /\ heap' = Release(B) /\ entry' = None /\ pc' = "sleep"
      /\ UNCHANGED <<fifo, own, items, message, leaked>>
  BY DEF Releases, Goes
<1>2. entry # None /\ Me = entry.id
  BY <1>1 DEF QueueInv, Handling, Me
<1>3. EntryBlocks = B /\ EntryBlocks' = {}
  BY <1>1 DEF EntryBlocks
<1>4. \A b \in B : b[1] = Me /\ b[2] # "addrs"
  OBVIOUS
<1> HIDE DEF B
<1>5. ASSUME NEW b \in B PROVE b \notin HandlerBlocks \cup QueuedBlocks \cup Leaked
  <2>1. b \notin HandlerBlocks
    BY <1>2, <1>4, <1>5, PartsOfHeld DEF QueueInv, Distinct
  <2>2. b \notin QueuedBlocks
    BY <1>2, <1>4, <1>5, PartsOfHeld DEF QueueInv, Distinct
  <2>3. b \notin Leaked
    BY <1>4, <1>5, PartsOfHeld
  <2> QED
    BY <2>1, <2>2, <2>3
<1>6. Held' = Held \ B /\ B \subseteq Held
  BY <1>1, <1>3, <1>5, PartsStay, PartsOfHeld
<1>7. HeapExact' /\ heap' \in [Block -> Int]
  BY <1>1, <1>6, HeapChanges
<1>8. QueueTyped' /\ Distinct' /\ NotLostYet'
  BY <1>1, <1>7 DEF QueueInv, QueueTyped, Distinct, NotLostYet
<1>9. Handling'
  BY <1>1 DEF Handling
<1> QED
  BY <1>7, <1>8, <1>9 DEF QueueInv

LEMMA QueueNext == QueueInv /\ [Next]_vars => QueueInv'
<1> SUFFICES ASSUME QueueInv, [Next]_vars PROVE QueueInv'
  OBVIOUS
<1> USE DEF QueueStays, Goes, Handles
<1>1. CASE MessageIgnored
  BY <1>1, CountingKeeps DEF MessageIgnored, Arrives
<1>2. CASE MessageParsed
  BY <1>2, ParsedKeeps
<1>3. CASE HandlerThread
  BY <1>3, HandlerKeeps, RequestKeeps DEF HandlerThread
<1>4. ASSUME NEW kind \in CallbackKind, CallbackQueued(kind) PROVE QueueInv'
  <2>1. CASE UNCHANGED <<fifo, heap>>
    BY <1>4, <2>1, CountingKeeps DEF CallbackQueued, Arrives
  <2>2. CASE faulted' = faulted /\ ~UNCHANGED <<fifo, heap>>
    BY <1>4, <2>2, CallbackKeeps
  <2> QED
    BY <1>4, <2>1, <2>2 DEF CallbackQueued
<1>5. CASE Takes
  BY <1>5, TakesKeeps
<1>6. CASE GivesUp \/ ListsOrAsks \/ ChangesKeys \/ BeginsDiscovery \/ NoAddresses
  <2>1. /\ pc = "handle" /\ entry.kind \in RequestKind
        /\ pc' \in {"discover", "answer", "release"}
        /\ UNCHANGED <<fifo, entry, items, message, leaked, own, heap>>
    BY <1>6 DEF GivesUp, ListsOrAsks, ChangesKeys, BeginsDiscovery, NoAddresses, RequestKind
  <2> QED
    BY <2>1, MovesOnKeeps
<1>7. CASE Discovers \/ DiscoveryEnds
  <2>1. /\ pc = "discover" /\ (pc' = pc \/ pc' \in {"answer", "release"})
        /\ UNCHANGED <<fifo, entry, items, message, leaked, own, heap>>
    BY <1>7 DEF Discovers, DiscoveryEnds
  <2> QED
    BY <2>1, MovesOnKeeps
<1>8. CASE BadAddresses \/ ChangesSubscriptions
  BY <1>8, AddressesKeep
<1>9. CASE Relays
  BY <1>9, RelaysKeeps
<1>10. CASE Answers
  BY <1>10, MovesOnKeeps DEF Answers
<1>11. CASE ReleasesOwn \/ Releases
  BY <1>11, ReleasesOwnKeeps, ReleasesKeeps
<1>12. CASE ShellThread \/ UNCHANGED vars
  BY <1>12, CountingKeeps DEF ShellThread, vars, queueVars
<1> QED
  BY <1>1, <1>2, <1>3, <1>4, <1>5, <1>6, <1>7, <1>8, <1>9, <1>10, <1>11, <1>12
     DEF Next, GatewayThread

(* MemoryAccounted: HeapExact, however many messages arrive.  Every block of a message, *)
(* an entry, a callback or a good list of addresses is allocated exactly as long as    *)
(* somebody has a pointer to it; the addresses of a bad list, whose pointer the code    *)
(* drops, stay allocated, and these are the only blocks that do.                   *)
THEOREM MemoryAccounted == Spec => []HeapExact
<1>1. QueueInv => HeapExact
  BY DEF QueueInv
<1> QED
  BY <1>1, QueueInit, QueueNext, PTL DEF Spec

-----------------------------------------------------------------------------
FaultType == faulted \in BOOLEAN

LEMMA FaultTyped == FaultType /\ [Next]_vars => FaultType'
<1> SUFFICES ASSUME faulted \in BOOLEAN, [Next]_vars PROVE faulted' \in BOOLEAN
  BY DEF FaultType
<1>1. CASE \E kind \in CallbackKind : CallbackQueued(kind)
  BY <1>1 DEF CallbackQueued
<1>2. CASE MessageIgnored \/ MessageParsed \/ HandlerThread \/ ShellThread \/ UNCHANGED vars
  BY <1>2 DEF MessageIgnored, MessageParsed, HandlerThread, MessageRefused, EntryAllocated,
     UnknownOperation, MessageDeleted, RequestQueued, OnlyHandler, ShellThread, vars, queueVars
<1>3. CASE GatewayThread
  BY <1>3 DEF GatewayThread, Takes, GivesUp, ListsOrAsks, ChangesKeys, BeginsDiscovery, Discovers,
     DiscoveryEnds, NoAddresses, BadAddresses, ChangesSubscriptions, Relays, Answers, ReleasesOwn,
     Releases, QueueStays
<1> QED
  BY <1>1, <1>2, <1>3 DEF Next

LEMMA OwnTyped == QueueInv => own \subseteq Block
<1> SUFFICES ASSUME QueueInv, own # {} PROVE own \subseteq Block
  OBVIOUS
<1>1. entry # None /\ Me \in Item
  BY IdFacts DEF QueueInv, QueueTyped, Handling, Me
<1> QED
  BY <1>1 DEF QueueInv, Handling, Block

(* GatewayTyped: the gateway's queue, the database, the stack and the description     *)
(* always have values of their types; a discovery is at a command that its plan has.  *)
THEOREM GatewayTyped == Spec => []TypeOK
<1>1. Init => FaultType
  BY DEF Init, FaultType
<1>2. Spec => []KeyTypeOK
  BY SpecImpliesKeySpec, TypeCorrect, PTL
<1>3. QueueInv /\ FaultType /\ DiscInv /\ KeyTypeOK => TypeOK
  <2> SUFFICES ASSUME QueueInv, FaultType, DiscInv, KeyTypeOK PROVE TypeOK
    OBVIOUS
  <2>1. items \in Item \cup {0}
    BY ItemsIsNat DEF QueueInv, QueueTyped, Item
  <2>2. part \in Part /\ step \in 0..Len(Plan(part))
    BY DEF DiscInv, DiscTyped
  <2>3. own \subseteq Block
    BY OwnTyped
  <2>4. /\ fifo \in Seq(EntryType) /\ entry \in EntryType \cup {None}
        /\ pc \in {"sleep", "handle", "discover", "answer", "release"}
        /\ heap \in [Block -> Int] /\ leaked \subseteq Item
        /\ message \in [id : Item, at : {"parsed", "stored", "refused"}] \cup {NoMessage}
    BY DEF QueueInv, QueueTyped
  <2> QED
    BY <2>1, <2>2, <2>3, <2>4 DEF TypeOK, FaultType
<1> QED
  BY <1>1, <1>2, <1>3, QueueInit, QueueNext, FaultTyped, DiscoveryHolds, PTL DEF Spec

=============================================================================
