--------------------------------- MODULE Gateway ---------------------------------
(***************************************************************************)
(* The gateway thread, from the reception of a cloud message to its        *)
(* answer: gateway_handler checks and queues a request, callbacks of the   *)
(* mesh queue messages and faults, and gateway_process handles one entry   *)
(* after the other (src/src/gateway.c).  The subject is memory, which      *)
(* three threads allocate and one releases, and that nothing stays in the  *)
(* queue.                                                                  *)
(*                                                                         *)
(* Requests are abstracted to how they are handled.  What they change is   *)
(* in KeyDb, Discovery, Subscriptions, Shell and Provisioning; the wait    *)
(* for prov_sem is Provisioning's.  The content of answers is left out.    *)
(***************************************************************************)
EXTENDS KeyDb, Discovery

CONSTANT
    MaxItems  \* bound: messages from the cloud and from the mesh

ASSUME ItemsIsNat == MaxItems \in Nat

VARIABLES
    fifo,   \* gateway_proc_fifo
    entry,  \* proc_data: the entry being handled
    pc,     \* where gateway_process is
    own,    \* blocks that the handler will release before it returns
    heap,   \* for each block, allocations less releases
    items,  \* number of messages so far
    message,\* the message that gateway_handler is working on
    leaked, \* history: entries whose addresses were forgotten, not released
    faulted \* a write through a null pointer has stopped the device

queueVars == <<fifo, entry, pc, own, heap, items, message, leaked, faulted>>
vars == <<queueVars, keyVars, discVars>>

Item == 1..MaxItems
Block == Item \X {"json", "entry", "data", "addrs"}

(* How a request of an operation's type is handled.                            *)
(*   list: the list requests                                                *)
(*   ask: provision, send_model_message and the health requests: parsed and    *)
(*        relayed                                                          *)
(*   subscribe: subscribe and unsubscribe, by whether the list is well formed   *)
(*   nothing: node_reset                                                    *)
RequestKind ==
    {"list", "ask", "keys", "discover", "configure", "subscribe", "subscribe_bad", "nothing"}
CallbackKind == {"model_msg", "fault"}

Queued(id, kind, hasJson) == [id |-> id, kind |-> kind, json |-> hasJson]
EntryType ==
    [id : Item, kind : RequestKind, json : {TRUE}] \cup [id : Item, kind : CallbackKind, json : {FALSE}]
None == [id |-> 0]
Message(id, p) == [id |-> id, at |-> p]
NoMessage == Message(0, "returned")

Init ==
    /\ KeyInit
    /\ DiscInit
    /\ fifo = <<>>
    /\ entry = None
    /\ pc = "sleep"
    /\ own = {}
    /\ heap = [b \in Block |-> 0]
    /\ items = 0
    /\ message = NoMessage
    /\ leaked = {}
    /\ faulted = FALSE

Alloc(B) == [b \in Block |-> IF b \in B THEN heap[b] + 1 ELSE heap[b]]
Release(B) == [b \in Block |-> IF b \in B THEN heap[b] - 1 ELSE heap[b]]

Running == ~faulted
Arrives == Running /\ items < MaxItems /\ items' = items + 1
Me == entry.id

-----------------------------------------------------------------------------
(* gateway_handler, on the connection poll thread, which the gateway thread and the  *)
(* Bluetooth thread may preempt.  Shadow messages, and those that are no JSON,     *)
(* allocate nothing.                                                        *)
HandlerAt(p) == Running /\ message.at = p
HandlerGoes(p) == message' = Message(message.id, p)
OnlyHandler == UNCHANGED <<entry, pc, own, items, leaked, faulted, keyVars, discVars>>

MessageIgnored ==
    /\ Arrives
    /\ message = NoMessage
    /\ UNCHANGED <<fifo, entry, pc, own, heap, message, leaked, faulted, keyVars, discVars>>

MessageParsed ==
    /\ Arrives
    /\ message = NoMessage
    /\ message' = Message(items', "parsed")
    /\ heap' = Alloc({<<items', "json">>})
    /\ UNCHANGED <<fifo, entry, pc, own, leaked, faulted, keyVars, discVars>>

(* No type, another type, no operation, an operation without a type; or no memory    *)
(* for an entry.                                                            *)
MessageRefused ==
    /\ HandlerAt("parsed")
    /\ HandlerGoes("refused")
    /\ OnlyHandler /\ UNCHANGED <<fifo, heap>>

EntryAllocated ==
    /\ HandlerAt("parsed")
    /\ HandlerGoes("stored")
    /\ heap' = Alloc({<<message.id, "entry">>})
    /\ OnlyHandler /\ UNCHANGED fifo

(* Mutation: the entry of an operation of an unknown type is not released. *)
Bug_UnknownOperation ==
    /\ HandlerAt("stored")
    /\ HandlerGoes("refused")
    /\ OnlyHandler /\ UNCHANGED <<fifo, heap>>

(* An operation of an unknown type. *)
UnknownOperation ==
    /\ HandlerAt("stored")
    /\ HandlerGoes("refused")
    /\ heap' = Release({<<message.id, "entry">>})
    /\ OnlyHandler /\ UNCHANGED fifo

(* handler_err: the message is deleted. *)
MessageDeleted ==
    /\ HandlerAt("refused")
    /\ message' = NoMessage
    /\ heap' = Release({<<message.id, "json">>})
    /\ OnlyHandler /\ UNCHANGED fifo

RequestQueued(kind) ==
    /\ HandlerAt("stored")
    /\ message' = NoMessage
    /\ fifo' = Append(fifo, Queued(message.id, kind, TRUE))
    /\ OnlyHandler /\ UNCHANGED heap

HandlerThread ==
    \/ MessageRefused \/ EntryAllocated \/ UnknownOperation \/ MessageDeleted
    \/ \E kind \in RequestKind : RequestQueued(kind)

(* gateway_msg_callback, gateway_hlth_cb: payload or faults are copied.  The results  *)
(* of k_malloc are not checked; a copy to a null pointer faults.               *)
CallbackQueued(kind) ==
    /\ Arrives
    /\ \/ /\ heap' = Alloc({<<items', "data">>, <<items', "entry">>})
          /\ fifo' = Append(fifo, Queued(items', kind, FALSE))
          /\ UNCHANGED faulted
       \/ faulted' = TRUE /\ UNCHANGED <<fifo, heap>>
    /\ UNCHANGED <<entry, pc, own, message, leaked, keyVars, discVars>>

-----------------------------------------------------------------------------
(* gateway_process *)
Handles(kinds) == Running /\ pc = "handle" /\ entry.kind \in kinds

Takes ==
    /\ Running
    /\ pc = "sleep"
    /\ fifo # <<>>
    /\ entry' = Head(fifo)
    /\ fifo' = Tail(fifo)
    /\ pc' = "handle"
    /\ UNCHANGED <<own, heap, items, message, leaked, faulted, keyVars, discVars>>

Goes(to) == pc' = to
QueueStays == UNCHANGED <<fifo, entry, items, message, faulted>>

(* The arguments do not parse, the operation fails, or nothing is to be done. *)
GivesUp ==
    /\ Handles({"ask", "keys", "discover", "nothing"})
    /\ Goes("release")
    /\ QueueStays /\ UNCHANGED <<leaked, own, heap, keyVars, discVars>>

ListsOrAsks ==
    /\ Handles({"list", "ask"})
    /\ Goes("answer")
    /\ QueueStays /\ UNCHANGED <<leaked, own, heap, keyVars, discVars>>

(* The list of keys is sent unless the key could not be added or was not there. *)
ChangesKeys ==
    /\ Handles({"keys"})
    /\ GatewayKeys
    /\ Goes("answer") \/ Goes("release")
    /\ QueueStays /\ UNCHANGED <<leaked, own, heap, discVars>>

(* node_disc, and node_cfg whether or not the configuration has succeeded. *)
BeginsDiscovery ==
    /\ Handles({"discover", "configure"})
    /\ DiscoverStarts
    /\ Goes("discover")
    /\ QueueStays /\ UNCHANGED <<leaked, own, heap, keyVars>>

Discovers ==
    /\ Running /\ pc = "discover"
    /\ DiscoveryStep
    /\ QueueStays /\ UNCHANGED <<leaked, pc, own, heap, keyVars>>

(* The description is encoded if there was no error.  Without a status its elements   *)
(* are read, also when there are none: reading them through the null pointer faults, *)
(* or finds something.                                                      *)
DiscoveryEnds ==
    /\ Running /\ pc = "discover"
    /\ step = 0
    /\ IF result = "failed" THEN Goes("release") /\ UNCHANGED faulted
       ELSE \/ Goes("answer") /\ UNCHANGED faulted
            \/ /\ result = "described" /\ ptr[Elems] = "null"
               /\ faulted' = TRUE /\ UNCHANGED pc
    /\ UNCHANGED <<fifo, entry, items, message, leaked, own, heap, keyVars, discVars>>

(* change_subscribe_list: without memory for the addresses, or when the message has  *)
(* none, it returns ...                                                     *)
NoAddresses ==
    /\ Handles({"subscribe", "subscribe_bad"})
    /\ Goes("release")
    /\ QueueStays /\ UNCHANGED <<leaked, own, heap, keyVars, discVars>>

(* ... as it does in the middle of a bad list, which it does not release ... *)
BadAddresses ==
    /\ Handles({"subscribe_bad"})
    /\ heap' = Alloc({<<Me, "addrs">>})
    /\ leaked' = leaked \cup {Me}
    /\ Goes("release")
    /\ QueueStays /\ UNCHANGED <<own, keyVars, discVars>>

(* ... and a good list is released, sent or not. *)
ChangesSubscriptions ==
    /\ Handles({"subscribe"})
    /\ heap' = Alloc({<<Me, "addrs">>})
    /\ own' = {<<Me, "addrs">>}
    /\ Goes("answer") \/ Goes("release")
    /\ QueueStays /\ UNCHANGED <<leaked, keyVars, discVars>>

Relays ==
    /\ Handles(CallbackKind)
    /\ own' = {<<Me, "data">>}
    /\ Goes("answer")
    /\ QueueStays /\ UNCHANGED <<leaked, heap, keyVars, discVars>>

(* The answer does not fit buf, or it is sent, which may take a while. *)
Answers ==
    /\ Running /\ pc = "answer"
    /\ Goes("release")
    /\ QueueStays /\ UNCHANGED <<leaked, own, heap, keyVars, discVars>>

(* What the handler has allocated, or payload and faults of a callback. *)
ReleasesOwn ==
    /\ Running /\ pc = "release"
    /\ own # {}
    /\ heap' = Release(own)
    /\ own' = {}
    /\ QueueStays /\ UNCHANGED <<pc, leaked, keyVars, discVars>>

(* Mutation: the entry of a request that needs nothing done is not released. *)
Bug_Releases ==
    /\ Running /\ pc = "release"
    /\ own = {}
    /\ heap' = Release((IF entry.json THEN {<<Me, "json">>} ELSE {})
                        \cup (IF entry.kind = "nothing" THEN {} ELSE {<<Me, "entry">>}))
    /\ entry' = None
    /\ Goes("sleep")
    /\ UNCHANGED <<fifo, own, items, message, leaked, faulted, keyVars, discVars>>

(* The message and the entry; cJSON_Delete takes the null pointer that callbacks have  *)
(* for a message.                                                           *)
Releases ==
    /\ Running /\ pc = "release"
    /\ own = {}
    /\ heap' = Release((IF entry.json THEN {<<Me, "json">>} ELSE {}) \cup {<<Me, "entry">>})
    /\ entry' = None
    /\ Goes("sleep")
    /\ UNCHANGED <<fifo, own, items, message, leaked, faulted, keyVars, discVars>>

GatewayThread ==
    \/ Takes \/ GivesUp \/ ListsOrAsks \/ ChangesKeys
    \/ BeginsDiscovery \/ Discovers \/ DiscoveryEnds
    \/ NoAddresses \/ BadAddresses \/ ChangesSubscriptions
    \/ Relays \/ Answers \/ ReleasesOwn \/ Releases

ShellThread == Running /\ ShellKeys /\ UNCHANGED <<queueVars, discVars>>

Next ==
    \/ MessageIgnored \/ MessageParsed \/ HandlerThread
    \/ \E kind \in CallbackKind : CallbackQueued(kind)
    \/ GatewayThread
    \/ ShellThread

(* The threads get their turns, and every operation on the mesh and every transmission *)
(* ends, if with an error.                                                  *)
Spec == Init /\ [][Next]_vars /\ WF_vars(GatewayThread) /\ WF_vars(HandlerThread)

-----------------------------------------------------------------------------
TypeOK ==
    /\ KeyTypeOK
    /\ part \in Part
    /\ step \in 0..Len(Plan(part))
    /\ fifo \in Seq(EntryType)
    /\ entry \in EntryType \cup {None}
    /\ pc \in {"sleep", "handle", "discover", "answer", "release"}
    /\ own \subseteq Block
    /\ heap \in [Block -> Int]
    /\ items \in Item \cup {0}
    /\ message \in [id : Item, at : {"parsed", "stored", "refused"}] \cup {NoMessage}
    /\ leaked \subseteq Item
    /\ faulted \in BOOLEAN

(* Who still has a pointer to a block: gateway_handler, an entry in the queue, the   *)
(* entry in hand, or its handler.                                            *)
HandlerBlocks ==
    IF message = NoMessage THEN {}
    ELSE {<<message.id, "json">>}
         \cup (IF message.at = "stored" THEN {<<message.id, "entry">>} ELSE {})
BlocksOf(e) ==
    {<<e.id, "entry">>} \cup (IF e.json THEN {<<e.id, "json">>} ELSE {<<e.id, "data">>})
QueuedBlocks == UNION {BlocksOf(fifo[n]) : n \in 1..Len(fifo)}
EntryBlocks ==
    IF pc = "sleep" THEN {}
    ELSE {<<Me, "entry">>}
         \cup (IF entry.json THEN {<<Me, "json">>} ELSE {})
         \cup (IF ~entry.json /\ pc = "handle" THEN {<<Me, "data">>} ELSE {})
Needed == HandlerBlocks \cup QueuedBlocks \cup EntryBlocks \cup own
Leaked == leaked \X {"addrs"}

(* HeapExact: at every moment a block is allocated once if someone still has a       *)
(* pointer to it, and not at all otherwise: whichever way a message, a request or     *)
(* a callback takes, nothing is released early, twice or not at all.  The one        *)
(* exception is stated, not exempt: the addresses of a malformed subscription list    *)
(* stay allocated, and nothing else does (codec.c 1582-1584, gateway.c 627-630).    *)
HeapExact == \A b \in Block : heap[b] = IF b \in Needed \cup Leaked THEN 1 ELSE 0

(* RequestsEnd: whatever the mesh does, all that was queued is taken out, handled and  *)
(* released, unless the device has stopped; with MaxItems messages the queue is      *)
(* empty again and again.                                                   *)
RequestsEnd == []<>(faulted \/ \A id \in Item : heap[<<id, "entry">>] = 0)

=============================================================================
