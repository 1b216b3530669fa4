-------------------------------- MODULE Discovery --------------------------------
(***************************************************************************)
(* What a node says of itself: btmesh_discover_node asks it for one thing  *)
(* after the other and stores the answers in a description that is         *)
(* allocated piece by piece; btmesh_free_node frees one                    *)
(* (src/src/btmesh.c).                                                     *)
(*                                                                         *)
(* The pieces of a description: the subnets, the elements, the SIG and the *)
(* vendor models of each element, and the keys and subscriptions of each   *)
(* model.  The values in them are left out.                                *)
(***************************************************************************)
EXTENDS Integers, Sequences

CONSTANT
    Element  \* the node's elements: the number of SIG and of vendor models of each

ASSUME ElementsAreCounts == Element \in Seq(Nat \X Nat)

VARIABLES
    part,    \* the part of the node that is being asked for
    step,    \* position in the plan of this part; 0: no discovery is under way
    ptr,     \* the pointer to each piece: "wild" as long as it has not been set
    live,    \* for each piece, allocations less releases
    result   \* how the last discovery ended

discVars == <<part, step, ptr, live, result>>

Own == 0
Sig == 1
Vnd == 2
Kind == {Sig, Vnd}

(* The parts of a node, by the variables of the loops: the node itself, then each    *)
(* element and behind it its SIG and its vendor models.                        *)
TheNode == <<0, Own, 0>>
TheElement(i) == <<i, Own, 0>>
Model == UNION {{<<i, k, j>> : j \in 1..Element[i][k]} : i \in 1..Len(Element), k \in Kind}
Part == {TheNode} \cup {TheElement(i) : i \in 1..Len(Element)} \cup Model

(* The pieces, each with the part it belongs to. *)
Subnets == <<"subnets", TheNode>>
Elems == <<"elems", TheNode>>
Models(i, k) == <<"models", <<i, k, 0>>>>
Piece ==
    {Subnets, Elems}
        \cup {Models(i, k) : i \in 1..Len(Element), k \in Kind}
        \cup {<<p, m>> : p \in {"apps", "subs"}, m \in Model}

(* What holds the pointer to a piece: another piece, or the caller's stack. *)
Stack == <<"stack", TheNode>>
Holder(p) ==
    IF p[1] = "models" THEN Elems
    ELSE IF p[1] \in {"apps", "subs"} THEN Models(p[2][1], p[2][2])
    ELSE Stack
PartsOf(p) == {q \in Piece : Holder(q) = p}

(* The configuration server, which has no publication. *)
IsConfigServer(m) == m = <<1, Sig, 1>>

Ask(what) == [do |-> "ask", of |-> what]
Malloc(piece) == [do |-> "malloc", of |-> piece]

NodePlan ==
    <<Ask("comp"), Ask("beacon"), Ask("ttl"), Ask("hb_sub"), Ask("hb_pub"), Ask("relay"),
      Ask("proxy"), Ask("friend"), Ask("net_key"), Malloc(Subnets), Malloc(Elems)>>

ElementPlan(i) == <<Malloc(Models(i, Sig)), Malloc(Models(i, Vnd))>>

(* Mutation: the configuration server's subscriptions are left out as well. *)
Bug_ModelPlan(m) ==
    <<Ask("mod_app"), Malloc(<<"apps", m>>)>>
        \o IF IsConfigServer(m) THEN <<>>
           ELSE <<Ask("mod_sub"), Malloc(<<"subs", m>>), Ask("mod_pub")>>

ModelPlan(m) ==
    <<Ask("mod_app"), Malloc(<<"apps", m>>), Ask("mod_sub"), Malloc(<<"subs", m>>)>>
        \o IF IsConfigServer(m) THEN <<>> ELSE <<Ask("mod_pub")>>

Plan(q) ==
    IF q = TheNode THEN NodePlan
    ELSE IF q[2] = Own THEN ElementPlan(q[1])
    ELSE ModelPlan(q)

(* Mutation: the loops over models run once too often. *)
Bug_HasSuccessor(q) == q[2] \in Kind /\ q[3] <= Element[q[1]][q[2]]

(* The loops: to the next model of the same kind ... *)
HasSuccessor(q) == q[2] \in Kind /\ q[3] < Element[q[1]][q[2]]

(* ... else to the first model of another kind, else to the next element. *)
Has(q, k) == q[1] # 0 /\ q[2] < k /\ Element[q[1]][k] > 0
PartAfter(q) ==
    IF HasSuccessor(q) THEN <<q[1], q[2], q[3] + 1>>
    ELSE IF Has(q, Sig) THEN <<q[1], Sig, 1>>
    ELSE IF Has(q, Vnd) THEN <<q[1], Vnd, 1>>
    ELSE TheElement(q[1] + 1)
IsLast(q) == PartAfter(q)[1] > Len(Element)

(* States of a feature that the gateway knows; for others it stops without an error. *)
OnOffStates == {"beacon", "relay", "proxy", "friend"}

DiscInit ==
    /\ part = TheNode
    /\ step = 0
    /\ ptr = [p \in Piece |-> "wild"]
    /\ live = [p \in Piece |-> 0]
    /\ result = "none"

-----------------------------------------------------------------------------
(* The parts of p that btmesh_free_node releases, p being allocated: it passes them *)
(* to k_free unless they are NULL.                                           *)
Parts(p) == {q \in PartsOf(p) : ptr[q] # "null"}
Released ==
    IF ptr[Elems] = "null" THEN {}
    ELSE {Elems} \cup Parts(Elems) \cup UNION {Parts(q) : q \in Parts(Elems)}

(* Mutation: what vendor models hold is not released. *)
Bug_FreeNode ==
    live' = [p \in Piece |->
        IF p \in Released /\ ~(p[1] \in {"apps", "subs"} /\ p[2][2] = Vnd)
        THEN live[p] - 1 ELSE live[p]]

FreeNode == live' = [p \in Piece |-> IF p \in Released THEN live[p] - 1 ELSE live[p]]

Ends(r) ==
    /\ step' = 0
    /\ part' = TheNode
    /\ result' = r

Now == Plan(part)[step]
Under == step # 0

(* The description on the caller's stack starts with two pointers set.  A node that  *)
(* is not in the database is not asked.                                      *)
DiscoverStarts ==
    /\ step = 0
    /\ ptr' = [p \in Piece |-> IF p \in PartsOf(Stack) THEN "null" ELSE "wild"]
    /\ live' = [p \in Piece |-> 0]
    /\ \/ step' = 1 /\ result' = "none"
       \/ step' = 0 /\ result' = "failed"
    /\ UNCHANGED part

MovesOn ==
    \/ /\ step < Len(Plan(part))
       /\ step' = step + 1
       /\ result' = "none"
       /\ UNCHANGED part
    \/ /\ step = Len(Plan(part)) /\ ~IsLast(part)
       /\ step' = 1
       /\ part' = PartAfter(part)
       /\ result' = "none"
    \/ /\ step = Len(Plan(part)) /\ IsLast(part)
       /\ Ends("described")

Answered ==
    /\ Under /\ Now.do = "ask"
    /\ MovesOn
    /\ UNCHANGED <<ptr, live>>

(* Answers that have a status; it is passed on, without an error. *)
WithStatus == {"comp", "hb_sub", "hb_pub", "mod_app", "mod_sub", "mod_pub"}

(* An error or a status.  Once there are elements everything is released. *)
NotAnswered ==
    /\ Under /\ Now.do = "ask"
    /\ IF ptr[Elems] = "block" THEN FreeNode ELSE UNCHANGED live
    /\ Ends("failed") \/ (Now.of \in WithStatus /\ Ends("refused"))
    /\ UNCHANGED ptr

(* A feature in a state that the gateway does not know: neither error nor status. *)
StateUnknown ==
    /\ Under /\ Now.do = "ask" /\ Now.of \in OnOffStates
    /\ Ends("described")
    /\ UNCHANGED <<ptr, live>>

(* Mutation: the pointers in a new piece are not initialised. *)
Bug_Malloced ==
    /\ Under /\ Now.do = "malloc"
    /\ live' = [live EXCEPT ![Now.of] = @ + 1]
    /\ ptr' = [ptr EXCEPT ![Now.of] = "block"]
    /\ MovesOn

(* "Initialize all pointers so they can be free'd later even if unused" *)
Malloced ==
    /\ Under /\ Now.do = "malloc"
    /\ live' = [live EXCEPT ![Now.of] = @ + 1]
    /\ ptr' = [p \in Piece |->
                 IF p = Now.of THEN "block" ELSE IF p \in PartsOf(Now.of) THEN "null" ELSE ptr[p]]
    /\ MovesOn

NoMemory ==
    /\ Under /\ Now.do = "malloc"
    /\ IF ptr[Elems] = "block" THEN FreeNode ELSE UNCHANGED live
    /\ Ends("failed")
    /\ UNCHANGED ptr

DiscoveryStep == Answered \/ NotAnswered \/ StateUnknown \/ Malloced \/ NoMemory

DiscNext == DiscoverStarts \/ DiscoveryStep

DiscSpec == DiscInit /\ [][DiscNext]_discVars

-----------------------------------------------------------------------------
(* ReleasesValid: btmesh_free_node releases every piece at most once and never       *)
(* follows a pointer that was not set, however far the discovery has come.     *)
ReleasesValid == \A p \in Piece : live[p] \in {0, 1}

(* FailureReleases: a discovery that fails has released all that it stored of        *)
(* elements and models; only the list of subnets is never released.            *)
FailureReleases ==
    step = 0 /\ result \in {"failed", "refused"} =>
        \A p \in Piece \ {Subnets} : live[p] = 0

(* DescribedIsWhole: a description that is passed on has either all of its pieces, or *)
(* none, when the node reported an unknown state.                             *)
DescribedIsWhole ==
    step = 0 /\ result = "described" =>
        \/ \A p \in Piece : live[p] = 1 /\ ptr[p] = "block"
        \/ \A p \in Piece : live[p] = 0

=============================================================================
