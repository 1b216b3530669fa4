------------------------------- MODULE Subscriptions -------------------------------
(***************************************************************************)
(* A subscription list (src/src/btmesh.c) and the requests that change it  *)
(* (change_subscribe_list of src/src/gateway.c).                           *)
(*                                                                         *)
(* There are two such lists, one for the cloud and one for the shell; the  *)
(* functions are the same and each list is changed by one preemptible      *)
(* thread only, so one list is modelled.  Between any two slots that the   *)
(* thread looks at, the Bluetooth thread may relay a message, for which it *)
(* reads the whole list at once.                                           *)
(*                                                                         *)
(* Left out: the encoding of the requests and of the subscribe_list event. *)
(***************************************************************************)
EXTENDS Integers, Sequences

CONSTANTS
    Addr,        \* mesh addresses
    Unassigned,  \* BT_MESH_ADDR_UNASSIGNED, the mark of a free slot
    ListLen,     \* CONFIG_BT_MESH_GATEWAY_SUB_LIST_LEN
    MaxAddrs     \* bound: addresses in one request

ASSUME UnassignedIsNoAddr == Unassigned \notin Addr
ASSUME ListLenIsPos == ListLen \in Nat \ {0}
ASSUME MaxAddrsIsNat == MaxAddrs \in Nat

VARIABLES
    sub_list,  \* gateway_sub_list
    op,        \* the request that gateway_proc_thread serves
    todo,      \* its addresses that remain, the current one first
    at,        \* the slot that the loop over the list is at
    heard,     \* history: the last message, and whether it was relayed
    held       \* history: addresses that the requests so far have subscribed to

vars == <<sub_list, op, todo, at, heard, held>>

Slot == 1..ListLen
Requests == UNION {[1..n -> Addr] : n \in 0..MaxAddrs}

TypeOK ==
    /\ sub_list \in [Slot -> Addr \cup {Unassigned}]
    /\ op \in {"none", "subscribe", "unsubscribe"}
    /\ todo \in Seq(Addr)
    /\ at \in 1..ListLen + 1
    /\ heard \in [dst : Addr, relayed : BOOLEAN]
    /\ held \subseteq Addr

Init ==
    /\ sub_list = [i \in Slot |-> Unassigned]
    /\ op = "none"
    /\ todo = <<>>
    /\ at = 1
    /\ heard \in [dst : Addr, relayed : {FALSE}]
    /\ held = {}

Listed == {sub_list[i] : i \in Slot} \ {Unassigned}

-----------------------------------------------------------------------------
(* change_subscribe_list has parsed the addresses of a request. *)
Begin ==
    /\ op = "none"
    /\ op' \in {"subscribe", "unsubscribe"}
    /\ todo' \in Requests
    /\ UNCHANGED <<sub_list, at, heard, held>>

(* Its loop is over: it reports the list and returns. *)
End ==
    /\ op # "none"
    /\ todo = <<>>
    /\ op' = "none"
    /\ UNCHANGED <<sub_list, todo, at, heard, held>>

(* btmesh_subscribe looks at one slot of the list. *)
SubscribeAt == op = "subscribe" /\ todo # <<>> /\ at <= ListLen

SubscribeReturns ==
    /\ todo' = Tail(todo)
    /\ at' = 1
    /\ held' = held \cup {Head(todo)}
    /\ UNCHANGED <<op, heard>>

(* Mutation: the slot is taken whether or not it is free. *)
Bug_TakesSlot ==
    /\ SubscribeAt
    /\ sub_list' = [sub_list EXCEPT ![at] = Head(todo)]
    /\ SubscribeReturns

(* The address is there, or the slot is free: btmesh_subscribe returns 0. *)
SubscribeTakes ==
    /\ SubscribeAt
    /\ sub_list[at] \in {Head(todo), Unassigned}
    /\ sub_list' = [sub_list EXCEPT ![at] = Head(todo)]
    /\ SubscribeReturns

SubscribeMovesOn ==
    /\ SubscribeAt
    /\ sub_list[at] \notin {Head(todo), Unassigned}
    /\ at' = at + 1
    /\ UNCHANGED <<sub_list, op, todo, heard, held>>

(* Past the last slot: -ENOMEM, and change_subscribe_list gives the request up. *)
SubscribeFull ==
    /\ op = "subscribe"
    /\ todo # <<>>
    /\ at > ListLen
    /\ op' = "none"
    /\ todo' = <<>>
    /\ at' = 1
    /\ UNCHANGED <<sub_list, heard, held>>

(* Mutation: the loop of btmesh_unsubscribe goes one slot too far. *)
Bug_UnsubscribesPastEnd ==
    /\ op = "unsubscribe"
    /\ todo # <<>>
    /\ at <= ListLen + 1
    /\ sub_list' = [i \in Slot |->
            IF i = at /\ sub_list[i] = Head(todo) THEN Unassigned ELSE sub_list[i]]
    /\ at' = at + 1
    /\ UNCHANGED <<op, todo, heard, held>>

(* Mutation: btmesh_unsubscribe returns at the first slot that matches. *)
Bug_UnsubscribesOnce ==
    /\ op = "unsubscribe"
    /\ todo # <<>>
    /\ at <= ListLen
    /\ IF sub_list[at] = Head(todo)
       THEN /\ sub_list' = [sub_list EXCEPT ![at] = Unassigned]
            /\ at' = ListLen + 1
       ELSE at' = at + 1 /\ UNCHANGED sub_list
    /\ UNCHANGED <<op, todo, heard, held>>

(* btmesh_unsubscribe looks at one slot of the list and frees it if it matches. *)
UnsubscribeAt ==
    /\ op = "unsubscribe"
    /\ todo # <<>>
    /\ at <= ListLen
    /\ sub_list' = [sub_list EXCEPT ![at] = IF @ = Head(todo) THEN Unassigned ELSE @]
    /\ at' = at + 1
    /\ UNCHANGED <<op, todo, heard, held>>

UnsubscribeReturns ==
    /\ op = "unsubscribe"
    /\ todo # <<>>
    /\ at > ListLen
    /\ todo' = Tail(todo)
    /\ at' = 1
    /\ held' = held \ {Head(todo)}
    /\ UNCHANGED <<sub_list, op, heard>>

(* btmesh_msg_cb, for a message that a model of this node does not handle. *)
Message(a) ==
    /\ heard' = [dst |-> a, relayed |-> \E i \in Slot : sub_list[i] = a]
    /\ UNCHANGED <<sub_list, op, todo, at, held>>

Next ==
    \/ Begin \/ End
    \/ SubscribeTakes \/ SubscribeMovesOn \/ SubscribeFull
    \/ UnsubscribeAt \/ UnsubscribeReturns
    \/ \E a \in Addr : Message(a)

Spec == Init /\ [][Next]_vars

-----------------------------------------------------------------------------
(* ListExact: between two addresses of a request, the list holds exactly the        *)
(* addresses that were subscribed to and not unsubscribed since, although            *)
(* btmesh_subscribe stops at the first free slot and so may enter an address twice.  *)
ListExact == at = 1 => Listed = held

Abstract == INSTANCE SubscriptionSet WITH set <- Listed

(* ImplementsSet: the array with its holes and duplicates behaves like a set of       *)
(* addresses: each request adds or removes exactly its addresses, a refused one keeps *)
(* what it had added, and at every step of the loops a message is relayed if and only *)
(* if its destination is in the set.                                                *)
ImplementsSet == Abstract!Spec

=============================================================================
