------------------------------- MODULE Provisioning -------------------------------
(***************************************************************************)
(* Cloud-requested provisioning of mesh devices (src/src/gateway.c).       *)
(*                                                                         *)
(* Five actors share the state below:                                      *)
(*   - the cloud client's thread, in gateway_handler, which queues requests*)
(*   - gateway_proc_thread, which takes them off gateway_proc_fifo one at a*)
(*     time and may sleep up to 60 s in k_sem_take(&prov_sem);             *)
(*   - the application work queue, which runs prov_timeout;                *)
(*   - the Bluetooth thread, which calls gateway_node_added;               *)
(*   - the shell thread, whose `provision' command starts a provisioning   *)
(*     of its own without touching prov_sem.                               *)
(*                                                                         *)
(* What is abstracted: the net index, address and element count of a       *)
(* result; the other requests the gateway thread serves (to this protocol  *)
(* they are delays); the text of the messages.  A prov_result call is two  *)
(* steps, reporting and k_sem_give, because g2c_send between them blocks.  *)
(***************************************************************************)
EXTENDS Naturals, Sequences

CONSTANTS
    Uuid,         \* the UUIDs of the devices
    ZeroUuid,     \* the all-zero UUID a static struct starts with; no device has it
    MaxRequests,  \* bound: provision requests the cloud sends
    MaxCli        \* bound: `provision' commands typed at the shell

ASSUME ZeroIsNoDevice == ZeroUuid \notin Uuid
ASSUME BoundsAreNat == MaxRequests \in Nat /\ MaxCli \in Nat

VARIABLES
    fifo,       \* gateway_proc_fifo
    sem,        \* count of prov_sem
    prov,       \* the static struct prov: what PROV_RESP will report
    work,       \* prov_timeout_work: its delay runs / it is queued
    gw,         \* gateway_proc_thread: where it is, and the item it holds
    bt,         \* Bluetooth thread: "give" inside gateway_node_added's prov_result
    link,       \* the mesh stack's one provisioning link, and who opened it
    reqs, clis, \* requests and shell commands so far
    requested,  \* history: UUIDs the cloud asked for
    added,      \* history: UUIDs the mesh stack reported as provisioned
    reported    \* history: results handed to the cloud

history == <<requested, added, reported>>
vars == <<fifo, sem, prov, work, gw, bt, link, reqs, clis, history>>

Errors == {"OK", "ETIMEDOUT", "EDEADLK", "EOP"}
AnyUuid == Uuid \cup {ZeroUuid}

ProvItem(u) == [proc |-> "PROV", uuid |-> u]
RespItem == [proc |-> "PROV_RESP", uuid |-> ZeroUuid]
Item == [proc : {"PROV"}, uuid : Uuid] \cup {RespItem}

NoLink == [uuid |-> ZeroUuid, by |-> "none"]
LinkOf(u, who) == [uuid |-> u, by |-> who]

NoWork == [delayed |-> FALSE, queued |-> FALSE]
GwAt(p, item) == [pc |-> p, item |-> item]

TypeOK ==
    /\ fifo \in Seq(Item)
    /\ sem \in {0, 1}
    /\ prov \in [err : Errors, uuid : AnyUuid]
    /\ work \in [delayed : BOOLEAN, queued : BOOLEAN]
    /\ gw \in [pc : {"poll", "take", "op", "copy", "arm", "give"}, item : Item]
    /\ gw.pc \in {"take", "op", "copy", "arm"} => gw.item.proc = "PROV"
    /\ bt \in {"idle", "give"}
    /\ link \in [uuid : Uuid, by : {"gateway", "cli"}] \cup {NoLink}
    /\ reqs \in 0..MaxRequests
    /\ clis \in 0..MaxCli
    /\ requested \in SUBSET Uuid
    /\ added \in SUBSET Uuid
    /\ reported \in SUBSET [err : Errors, uuid : AnyUuid]

(***************************************************************************)
(* The state after boot.  A fault of the firmware comes back here, with    *)
(* only the histories kept.                                                *)
(***************************************************************************)
Booted(fifo_, sem_, prov_, work_, gw_, bt_, link_) ==
    /\ fifo_ = <<>>
    /\ sem_ = 1
    /\ prov_ = [err |-> "OK", uuid |-> ZeroUuid]
    /\ work_ = NoWork
    /\ gw_ = GwAt("poll", RespItem)
    /\ bt_ = "idle"
    /\ link_ = NoLink

Init ==
    /\ Booted(fifo, sem, prov, work, gw, bt, link)
    /\ reqs = 0
    /\ clis = 0
    /\ requested = {}
    /\ added = {}
    /\ reported = {}

-----------------------------------------------------------------------------
(* prov_result, first half: encode and send.  Its k_sem_give is the step    *)
(* GwGive or BtGive of the thread that called it.                           *)
Report(err, u) == reported' = reported \cup {[err |-> err, uuid |-> u]}

(* k_work_cancel_delayable: stops the delay and unqueues the work. *)
CancelTimeout == work' = NoWork

-----------------------------------------------------------------------------
(* gateway_handler on a "provision" operation: the request is queued, or     *)
(* dropped when no memory is left for the queue entry.                      *)
CloudRequest(u) ==
    /\ reqs < MaxRequests
    /\ reqs' = reqs + 1
    /\ requested' = requested \cup {u}
    /\ \/ fifo' = Append(fifo, ProvItem(u))
       \/ UNCHANGED fifo
    /\ UNCHANGED <<sem, prov, work, gw, bt, link, clis, added, reported>>

(* gateway_process takes a provision request: prov_dev parses it.  A parse   *)
(* error ends prov_dev; otherwise it goes on to k_sem_take.                 *)
GwPollProv ==
    /\ gw.pc = "poll"
    /\ fifo # <<>>
    /\ Head(fifo).proc = "PROV"
    /\ fifo' = Tail(fifo)
    /\ \/ gw' = GwAt("take", Head(fifo))
       \/ UNCHANGED gw
    /\ UNCHANGED <<sem, prov, work, bt, link, reqs, clis, history>>

(* gateway_process takes the entry prov_timeout queued and reports whatever  *)
(* the struct prov says by now.                                             *)
GwPollResp ==
    /\ gw.pc = "poll"
    /\ fifo # <<>>
    /\ Head(fifo).proc = "PROV_RESP"
    /\ fifo' = Tail(fifo)
    /\ Report(prov.err, prov.uuid)
    /\ gw' = GwAt("give", Head(fifo))
    /\ UNCHANGED <<sem, prov, work, bt, link, reqs, clis, requested, added>>

(* k_sem_take succeeds. *)
GwTake ==
    /\ gw.pc = "take"
    /\ sem = 1
    /\ sem' = 0
    /\ gw' = GwAt("op", gw.item)
    /\ UNCHANGED <<fifo, prov, work, bt, link, reqs, clis, history>>

(* Mutation: k_sem_take waits K_FOREVER. *)
Bug_TakeForever == FALSE /\ UNCHANGED vars

(* k_sem_take gives up after PROV_TIMEOUT_SEC.  prov_timeout_work is given   *)
(* the same delay, by this same thread and before it came here, so a delay   *)
(* still running would have ended first.                                    *)
GwTakeTimeout ==
    /\ gw.pc = "take"
    /\ sem = 0
    /\ ~work.delayed
    /\ Report("EDEADLK", gw.item.uuid)
    /\ gw' = GwAt("give", gw.item)
    /\ UNCHANGED <<fifo, sem, prov, work, bt, link, reqs, clis, requested, added>>

(* btmesh_perform_op(BTMESH_OP_PROV_ADV): the stack opens its only link ...  *)
GwOpStarted ==
    /\ gw.pc = "op"
    /\ link = NoLink
    /\ link' = LinkOf(gw.item.uuid, "gateway")
    /\ gw' = GwAt("copy", gw.item)
    /\ UNCHANGED <<fifo, sem, prov, work, bt, reqs, clis, history>>

(* ... or every try fails: the link is busy, the address is taken, ...       *)
GwOpFailed ==
    /\ gw.pc = "op"
    /\ Report("EOP", gw.item.uuid)
    /\ gw' = GwAt("give", gw.item)
    /\ UNCHANGED <<fifo, sem, prov, work, bt, link, reqs, clis, requested, added>>

(* util_uuid_cpy(prov.uuid, ...), after the provisioning has been started.   *)
GwCopy ==
    /\ gw.pc = "copy"
    /\ prov' = [prov EXCEPT !.uuid = gw.item.uuid]
    /\ gw' = GwAt("arm", gw.item)
    /\ UNCHANGED <<fifo, sem, work, bt, link, reqs, clis, history>>

(* Mutation: prov_dev returns without arming the timeout. *)
Bug_NoArm ==
    /\ gw.pc = "arm"
    /\ gw' = GwAt("poll", gw.item)
    /\ UNCHANGED <<fifo, sem, prov, work, bt, link, reqs, clis, history>>

(* k_work_reschedule_for_queue(prov_timeout_work) ends prov_dev. *)
GwArm ==
    /\ gw.pc = "arm"
    /\ work' = [work EXCEPT !.delayed = TRUE]
    /\ gw' = GwAt("poll", gw.item)
    /\ UNCHANGED <<fifo, sem, prov, bt, link, reqs, clis, history>>

(* Mutation: a semaphore without the limit of 1. *)
Bug_GiveNoLimit ==
    /\ gw.pc = "give"
    /\ sem' = sem + 1
    /\ gw' = GwAt("poll", gw.item)
    /\ UNCHANGED <<fifo, prov, work, bt, link, reqs, clis, history>>

(* The k_sem_give at the end of prov_result; then gateway_process frees the   *)
(* entry.                                                                   *)
GwGive ==
    /\ gw.pc = "give"
    /\ sem' = 1
    /\ gw' = GwAt("poll", gw.item)
    /\ UNCHANGED <<fifo, prov, work, bt, link, reqs, clis, history>>

(* Freeing a PROV_RESP entry calls cJSON_Delete on the root_obj that          *)
(* prov_timeout never set.  Besides passing unnoticed (GwGive) this may      *)
(* fault, and a fault restarts the firmware.                                *)
GwFreeFaults ==
    /\ gw.pc = "give"
    /\ gw.item.proc = "PROV_RESP"
    /\ Booted(fifo', sem', prov', work', gw', bt', link')
    /\ UNCHANGED <<reqs, clis, history>>

GwNext ==
    \/ GwPollProv \/ GwPollResp \/ GwTake \/ GwTakeTimeout
    \/ GwOpStarted \/ GwOpFailed \/ GwCopy \/ GwArm
    \/ GwGive \/ GwFreeFaults

-----------------------------------------------------------------------------
(* The 60 s pass: the kernel queues prov_timeout_work. *)
DelayEnds ==
    /\ work.delayed
    /\ work' = [work EXCEPT !.delayed = FALSE, !.queued = TRUE]
    /\ UNCHANGED <<fifo, sem, prov, gw, bt, link, reqs, clis, history>>

(* The end of prov_timeout: the response is queued, or without memory the      *)
(* semaphore is given back and nothing is reported.                         *)
RespQueued ==
    \/ fifo' = Append(fifo, RespItem) /\ UNCHANGED sem
    \/ sem' = 1 /\ UNCHANGED fifo

(* Mutation: prov_timeout forgets prov.err. *)
Bug_TimeoutKeepsErr ==
    /\ work.queued
    /\ work' = [work EXCEPT !.queued = FALSE]
    /\ RespQueued
    /\ UNCHANGED <<prov, gw, bt, link, reqs, clis, history>>

(* prov_timeout.  The application work queue is cooperative and nothing in the *)
(* handler blocks.                                                          *)
TimeoutRuns ==
    /\ work.queued
    /\ work' = [work EXCEPT !.queued = FALSE]
    /\ prov' = [prov EXCEPT !.err = "ETIMEDOUT"]
    /\ RespQueued
    /\ UNCHANGED <<gw, bt, link, reqs, clis, history>>

WorkNext == DelayEnds \/ TimeoutRuns

-----------------------------------------------------------------------------
(* Mutation: the timeout is cancelled before the UUIDs are compared. *)
Bug_CancelFirst ==
    /\ link # NoLink
    /\ bt = "idle"
    /\ link' = NoLink
    /\ added' = added \cup {link.uuid}
    /\ CancelTimeout
    /\ IF link.uuid = prov.uuid
       THEN Report("OK", link.uuid) /\ bt' = "give"
       ELSE UNCHANGED <<reported, bt>>
    /\ UNCHANGED <<fifo, sem, prov, gw, reqs, clis, requested>>

(* Mutation: the UUIDs are not compared. *)
Bug_NoCompare ==
    /\ link # NoLink
    /\ bt = "idle"
    /\ link' = NoLink
    /\ added' = added \cup {link.uuid}
    /\ CancelTimeout
    /\ Report("OK", link.uuid)
    /\ bt' = "give"
    /\ UNCHANGED <<fifo, sem, prov, gw, reqs, clis, requested>>

(* gateway_node_added for the device on the link.  A UUID other than         *)
(* prov.uuid is ignored.  The Bluetooth thread is cooperative: nobody runs   *)
(* between its comparison and the blocking send in prov_result.             *)
NodeAdded ==
    /\ link # NoLink
    /\ bt = "idle"
    /\ link' = NoLink
    /\ added' = added \cup {link.uuid}
    /\ IF link.uuid = prov.uuid
       THEN /\ CancelTimeout
            /\ Report("OK", link.uuid)
            /\ bt' = "give"
       ELSE UNCHANGED <<work, reported, bt>>
    /\ UNCHANGED <<fifo, sem, prov, gw, reqs, clis, requested>>

(* The k_sem_give at the end of that prov_result. *)
BtGive ==
    /\ bt = "give"
    /\ bt' = "idle"
    /\ sem' = 1
    /\ UNCHANGED <<fifo, prov, work, gw, link, reqs, clis, history>>

(* The link closes before the device is provisioned; provision_link_close    *)
(* only logs it.                                                            *)
LinkLost ==
    /\ link # NoLink
    /\ bt = "idle"
    /\ link' = NoLink
    /\ UNCHANGED <<fifo, sem, prov, work, gw, bt, reqs, clis, history>>

(* The shell's `provision' command gets the link. *)
CliProvision(u) ==
    /\ clis < MaxCli
    /\ link = NoLink
    /\ clis' = clis + 1
    /\ link' = LinkOf(u, "cli")
    /\ UNCHANGED <<fifo, sem, prov, work, gw, bt, reqs, history>>

-----------------------------------------------------------------------------
Next ==
    \/ \E u \in Uuid : CloudRequest(u) \/ CliProvision(u)
    \/ GwNext
    \/ WorkNext
    \/ NodeAdded \/ BtGive \/ LinkLost

Spec == Init /\ [][Next]_vars

(***************************************************************************)
(* The threads of the firmware run when they can and a 60 s delay ends.    *)
(* Nothing is assumed of the cloud, the shell user or the devices.         *)
(***************************************************************************)
FairSpec == Spec /\ WF_vars(GwNext) /\ WF_vars(WorkNext) /\ WF_vars(BtGive)

-----------------------------------------------------------------------------
(***************************************************************************)
(* Properties.                                                             *)
(***************************************************************************)

Holds(q, proc) == \E i \in 1..Len(q) : q[i].proc = proc

RespPending == Holds(fifo, "PROV_RESP")

(* Someone is on the way to a k_sem_give(&prov_sem). *)
GiverExists ==
    \/ gw.pc \in {"op", "copy", "arm", "give"}
    \/ bt = "give"
    \/ work.delayed \/ work.queued
    \/ RespPending

(* SemNotLost: whenever prov_sem is taken, some thread, timer or queue entry  *)
(* is still bound to give it back, whatever the order in which the timeout,  *)
(* gateway_node_added and the requests meet.  No path of gateway.c loses the *)
(* semaphore for good.                                                      *)
SemNotLost == sem = 0 => GiverExists

(* NoFalseSuccess: the cloud is told that a device was provisioned (error 0)  *)
(* only if the mesh stack reported that device as added; PROV_RESP, which    *)
(* reports the shared struct prov, never carries the 0 that prov.err starts  *)
(* with.                                                                    *)
NoFalseSuccess ==
    \A r \in reported : r.err = "OK" => r.uuid \in added

(* ReportsOnlyRequested: every provision_result names a device the cloud asked *)
(* for; devices provisioned from the shell, and the all-zero UUID prov        *)
(* starts with, are never reported unasked.                                 *)
ReportsOnlyRequested ==
    \A r \in reported : r.uuid \in requested

(* ThreadReturns: gateway_proc_thread always gets back to its queue, although  *)
(* prov_dev sleeps on a semaphore that an entry behind it in the same queue  *)
(* may have to give.                                                        *)
ThreadReturns == (gw.pc # "poll") ~> (gw.pc = "poll")

(* SemReleased: a taken prov_sem is given back sooner or later, also when the  *)
(* device never answers.                                                    *)
SemReleased == (sem = 0) ~> (sem = 1)

(* ReportsOnlyGatewayAttempts: gateway_node_added goes past its comparison only *)
(* for a provisioning that the gateway started, as the comment above that     *)
(* comparison says.                                                         *)
ReportsOnlyGatewayAttempts ==
    [][bt = "idle" /\ bt' = "give" => link.by = "gateway"]_vars

=============================================================================
