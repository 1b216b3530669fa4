------------------------------ MODULE SubscriptionSet ------------------------------
(***************************************************************************)
(* What a subscription list promises: it is a set of mesh addresses.  A    *)
(* request adds or removes its addresses one by one; while it is being     *)
(* served, a message is relayed exactly if its destination is in the set.  *)
(***************************************************************************)
EXTENDS Sequences

CONSTANT Addr   \* mesh addresses

VARIABLES
    set,    \* the addresses subscribed to
    op,     \* the request being served
    todo,   \* its addresses that remain
    heard   \* destination of the last message, and whether it was relayed

vars == <<set, op, todo, heard>>

Init ==
    /\ set = {}
    /\ op = "none"
    /\ todo = <<>>
    /\ heard \in [dst : Addr, relayed : {FALSE}]

Begin ==
    /\ op = "none"
    /\ op' \in {"subscribe", "unsubscribe"}
    /\ todo' \in Seq(Addr)
    /\ UNCHANGED <<set, heard>>

Add ==
    /\ op = "subscribe"
    /\ todo # <<>>
    /\ set' = set \cup {Head(todo)}
    /\ todo' = Tail(todo)
    /\ UNCHANGED <<op, heard>>

(* No room: the request ends here, what was added before stays. *)
Refuse ==
    /\ op = "subscribe"
    /\ todo # <<>>
    /\ Head(todo) \notin set
    /\ op' = "none"
    /\ todo' = <<>>
    /\ UNCHANGED <<set, heard>>

Remove ==
    /\ op = "unsubscribe"
    /\ todo # <<>>
    /\ set' = set \ {Head(todo)}
    /\ UNCHANGED <<op, todo, heard>>

Removed ==
    /\ op = "unsubscribe"
    /\ todo # <<>>
    /\ Head(todo) \notin set
    /\ todo' = Tail(todo)
    /\ UNCHANGED <<set, op, heard>>

End ==
    /\ op # "none"
    /\ todo = <<>>
    /\ op' = "none"
    /\ UNCHANGED <<set, todo, heard>>

Message(a) ==
    /\ heard' = [dst |-> a, relayed |-> a \in set]
    /\ UNCHANGED <<set, op, todo>>

Next == Begin \/ Add \/ Refuse \/ Remove \/ Removed \/ End \/ \E a \in Addr : Message(a)

Spec == Init /\ [][Next]_vars

=============================================================================
