---------------------------------- MODULE CloudConn ----------------------------------
(***************************************************************************)
(* The connection to nRF Cloud (src/src/gw_cloud.c) and the way it ends in *)
(* a reboot (error_handler of src/src/main.c).                             *)
(*                                                                         *)
(* Two threads share the state.  The application work queue runs the three *)
(* delayable works cloud_connect_work, cycle_cloud_connection_work and     *)
(* cloud_reboot_work; it is cooperative and of higher priority than the    *)
(* connection poll thread of the nRF Cloud library, which calls            *)
(* cloud_event_handler.  So a work handler runs to its end unless it       *)
(* blocks, and an event handler may be interrupted by a work handler       *)
(* between any two of its steps.                                           *)
(*                                                                         *)
(* Delays end at any time: their lengths (10 s, 15 s, 30 s, 5 min) are left *)
(* out.  Left out as well: carrier_requested_disconnect (never set), the   *)
(* semaphore cloud_disconnected (never waited for), the data events.       *)
(***************************************************************************)
EXTENDS Integers, SequencesExt

CONSTANT
    ConnectMax  \* CONFIG_CLOUD_CONNECT_COUNT_MAX

ASSUME ConnectMaxIsPos == ConnectMax \in Nat \ {0}

VARIABLES
    association, \* cloud_association
    attempts,    \* cloud_connect_attempts
    delayed,     \* works whose delay is running
    queue,       \* works in the application work queue
    wq,          \* application work queue thread
    poll,        \* connection poll thread
    conn,        \* the library's connection to the cloud (external)
    closing,     \* history: cloud_disconnect was called since the last request to connect
    calls        \* history: cloud_connect calls since boot or CONNECTED

workVars == <<delayed, queue>>
vars == <<association, attempts, workVars, wq, poll, conn, closing, calls>>

Work == {"connect", "cycle", "reboot"}
Connected == {"up", "paired", "ready"}

TypeOK ==
    /\ association \in {"INIT", "REQUESTED", "PAIRED", "RECONNECT", "READY"}
    /\ attempts \in 0..ConnectMax + 1
    /\ delayed \subseteq Work
    /\ queue \in Seq(Work)
    /\ wq \in {"idle", "disconnecting", "shutdown", "error", "suspended"}
    /\ poll \in {"idle", "cancel", "schedule", "shutdown", "error", "suspended"}
    /\ conn \in {"down", "requested", "connecting"} \cup Connected
    /\ closing \in BOOLEAN
    /\ calls \in 0..ConnectMax + 1

(***************************************************************************)
(* The state in which gw_cloud_init leaves the device: connect_to_cloud(0) *)
(* counts the first attempt and submits cloud_connect_work.                *)
(***************************************************************************)
Booted(association_, attempts_, delayed_, queue_, wq_, poll_, conn_, closing_, calls_) ==
    /\ association_ = "INIT"
    /\ attempts_ = 1
    /\ delayed_ = {}
    /\ queue_ = <<"connect">>
    /\ wq_ = "idle"
    /\ poll_ = "idle"
    /\ conn_ = "down"
    /\ closing_ = FALSE
    /\ calls_ = 0

Init == Booted(association, attempts, delayed, queue, wq, poll, conn, closing, calls)

-----------------------------------------------------------------------------
(* Delayable works: k_work_reschedule_for_queue with a delay starts the delay   *)
(* anew and leaves a work in the queue there; with K_NO_WAIT it submits the   *)
(* work; k_work_cancel_delayable stops the delay and unqueues the work.      *)

Queued(w) == Contains(queue, w)
Pending(w) == w \in delayed \/ Queued(w)
Submitted(q, w) == IF Contains(q, w) THEN q ELSE Append(q, w)

(* A work is in the queue at most once. *)
Without(q, w) ==
    IF Contains(q, w) THEN RemoveAt(q, CHOOSE i \in 1..Len(q) : q[i] = w) ELSE q

Reschedule(w) == delayed' = delayed \cup {w} /\ UNCHANGED queue
Cancel(w) == delayed' = delayed \ {w} /\ queue' = Without(queue, w)

DelayEnds(w) ==
    /\ w \in delayed
    /\ delayed' = delayed \ {w}
    /\ queue' = Submitted(queue, w)
    /\ UNCHANGED <<association, attempts, wq, poll, conn, closing, calls>>

-----------------------------------------------------------------------------
(* The work queue takes its next work. *)
Runs(w) == wq = "idle" /\ queue # <<>> /\ Head(queue) = w

(* cloud_connect_work_fn: the request is sent, and cloud_reboot_work waits for   *)
(* the CONNACK ...                                                          *)
ConnectRuns ==
    /\ Runs("connect")
    /\ conn = "down"
    /\ conn' = "requested"
    /\ queue' = Tail(queue)
    /\ delayed' = delayed \cup {"reboot"}
    /\ calls' = calls + 1
    /\ closing' = FALSE
    /\ UNCHANGED <<association, attempts, wq, poll>>

(* ... or cloud_connect fails: cloud_connect_error_handler, called by the work  *)
(* queue thread, arms cloud_reboot_work unless the backend was not           *)
(* initialized, and shuts the modem down.                                   *)
ConnectFails ==
    /\ Runs("connect")
    /\ \E reboot \in BOOLEAN :
        /\ delayed' = IF reboot THEN delayed \cup {"reboot"} ELSE delayed \ {"reboot"}
        /\ queue' = Without(Tail(queue), "reboot")
    /\ wq' = "shutdown"
    /\ calls' = calls + 1
    /\ UNCHANGED <<association, attempts, poll, conn, closing>>

(* k_thread_suspend(k_current_get()) *)
WorkQueueSuspends ==
    /\ wq = "shutdown"
    /\ wq' = "suspended"
    /\ UNCHANGED <<association, attempts, workVars, poll, conn, closing, calls>>

(* cycle_cloud_connection calls cloud_disconnect, which blocks ... *)
CycleRuns ==
    /\ Runs("cycle")
    /\ queue' = Tail(queue)
    /\ wq' = "disconnecting"
    /\ closing' = TRUE
    /\ UNCHANGED <<association, attempts, delayed, poll, conn, calls>>

(* Mutation: cloud_disconnect reports success, and the fail-safe is cancelled. *)
Bug_CycleCancelsReboot ==
    /\ wq = "disconnecting"
    /\ wq' = "idle"
    /\ Reschedule("reboot") \/ Cancel("reboot")
    /\ UNCHANGED <<association, attempts, poll, conn, closing, calls>>

(* ... and then arms cloud_reboot_work, whether it succeeded or not. *)
CycleEnds ==
    /\ wq = "disconnecting"
    /\ wq' = "idle"
    /\ Reschedule("reboot")
    /\ UNCHANGED <<association, attempts, poll, conn, closing, calls>>

(* cloud_reboot_handler calls error_handler, which resets the association and  *)
(* shuts the modem down ...                                                 *)
RebootRuns ==
    /\ Runs("reboot")
    /\ queue' = Tail(queue)
    /\ association' = "INIT"
    /\ wq' = "error"
    /\ UNCHANGED <<attempts, delayed, poll, conn, closing, calls>>

(* ... and reboots, in whichever thread it was called. *)
Reboot ==
    /\ wq = "error" \/ poll = "error"
    /\ Booted(association', attempts', delayed', queue', wq', poll', conn', closing', calls')

(* nrf_modem_recoverable_error_handler calls error_handler, which reboots at    *)
(* once when the error is not ERROR_CLOUD.                                  *)
ModemError ==
    Booted(association', attempts', delayed', queue', wq', poll', conn', closing', calls')

WorkNext == ConnectRuns \/ ConnectFails \/ WorkQueueSuspends \/ CycleRuns \/ CycleEnds \/ RebootRuns

-----------------------------------------------------------------------------
(* The poll thread runs when the work queue has nothing to do or is blocked. *)
PollRuns == wq # "idle" \/ queue = <<>>
PollIdle == PollRuns /\ poll = "idle"

(* CLOUD_EVT_CONNECTING without an error. *)
Connecting ==
    /\ PollIdle
    /\ conn = "requested"
    /\ conn' = "connecting"
    /\ Cancel("reboot")
    /\ UNCHANGED <<association, attempts, wq, poll, closing, calls>>

(* CLOUD_EVT_CONNECTING with an error: cloud_connect_error_handler, called by    *)
(* the poll thread, arms cloud_reboot_work unless the backend was not         *)
(* initialized, and shuts the modem down.                                   *)
ConnectingFails ==
    /\ PollIdle
    /\ conn \in {"requested", "connecting"}
    /\ conn' = "down"
    /\ \E reboot \in BOOLEAN :
        /\ delayed' = IF reboot THEN delayed \cup {"reboot"} ELSE delayed \ {"reboot"}
        /\ queue' = Without(queue, "reboot")
    /\ poll' = "shutdown"
    /\ UNCHANGED <<association, attempts, wq, closing, calls>>

PollSuspends ==
    /\ poll = "shutdown"
    /\ PollRuns
    /\ poll' = "suspended"
    /\ UNCHANGED <<association, attempts, workVars, wq, conn, closing, calls>>

(* Mutation: CONNECTED leaves cloud_reboot_work alone. *)
Bug_ConnectedNoCancel ==
    /\ PollIdle
    /\ conn \in {"requested", "connecting"}
    /\ conn' = "up"
    /\ attempts' = 0
    /\ calls' = 0
    /\ UNCHANGED <<association, workVars, wq, poll, closing>>

(* CLOUD_EVT_CONNECTED.  A CONNECTING event before it is not relied upon. *)
ConnectedEvt ==
    /\ PollIdle
    /\ conn \in {"requested", "connecting"}
    /\ conn' = "up"
    /\ Cancel("reboot")
    /\ attempts' = 0
    /\ calls' = 0
    /\ UNCHANGED <<association, wq, poll, closing>>

(* CLOUD_EVT_PAIR_REQUEST, on_user_pairing_req. *)
PairRequest ==
    /\ PollIdle
    /\ conn = "up"
    /\ association # "REQUESTED"
    /\ association' = "REQUESTED"
    /\ Reschedule("cycle")
    /\ UNCHANGED <<attempts, wq, poll, conn, closing, calls>>

(* CLOUD_EVT_PAIR_DONE, on_pairing_done. *)
PairDone ==
    /\ PollIdle
    /\ conn = "up"
    /\ conn' = "paired"
    /\ \/ /\ association = "REQUESTED"
          /\ association' = "RECONNECT"
          /\ delayed' = delayed \ {"cycle"}
          /\ queue' = Append(Without(queue, "cycle"), "cycle")
       \/ /\ association # "REQUESTED"
          /\ association' = "PAIRED"
          /\ UNCHANGED workVars
    /\ UNCHANGED <<attempts, wq, poll, closing, calls>>

(* CLOUD_EVT_READY *)
ReadyEvt ==
    /\ PollIdle
    /\ conn = "paired"
    /\ conn' = "ready"
    /\ association' = "READY"
    /\ UNCHANGED <<attempts, workVars, wq, poll, closing, calls>>

(* Mutation: connect_to_cloud does not reset the association. *)
Bug_DisconnectedKeepsAssociation ==
    /\ PollIdle
    /\ conn \notin {"down", "requested"}
    /\ conn' = "down"
    /\ attempts' = attempts + 1
    /\ poll' = IF attempts' > ConnectMax THEN "error" ELSE "cancel"
    /\ UNCHANGED <<association, workVars, wq, closing, calls>>

(* Mutation: only the disconnections of an established session are counted. *)
Bug_DisconnectedNoCount ==
    /\ PollIdle
    /\ conn \notin {"down", "requested"}
    /\ conn' = "down"
    /\ association' = "INIT"
    /\ attempts' = IF conn \in Connected THEN attempts + 1 ELSE attempts
    /\ poll' = IF attempts' > ConnectMax THEN "error" ELSE "cancel"
    /\ UNCHANGED <<workVars, wq, closing, calls>>

(* CLOUD_EVT_DISCONNECTED and connect_to_cloud, up to its check of the maximum:  *)
(* one attempt too many ends in error_handler.                              *)
DisconnectedEvt ==
    /\ PollIdle
    /\ conn \notin {"down", "requested"}
    /\ conn' = "down"
    /\ association' = "INIT"
    /\ attempts' = attempts + 1
    /\ poll' = IF attempts' > ConnectMax THEN "error" ELSE "cancel"
    /\ UNCHANGED <<workVars, wq, closing, calls>>

(* The rest of connect_to_cloud: cancel cloud_reboot_work ... *)
ReconnectCancels ==
    /\ poll = "cancel"
    /\ PollRuns
    /\ poll' = "schedule"
    /\ Cancel("reboot")
    /\ UNCHANGED <<association, attempts, wq, conn, closing, calls>>

(* Mutation: no new attempt while cloud_reboot_work is pending. *)
Bug_NoReconnectIfReboot ==
    /\ poll = "schedule"
    /\ PollRuns
    /\ poll' = "idle"
    /\ IF Pending("reboot") THEN UNCHANGED workVars ELSE Reschedule("connect")
    /\ UNCHANGED <<association, attempts, wq, conn, closing, calls>>

(* ... and schedule cloud_connect_work. *)
ReconnectSchedules ==
    /\ poll = "schedule"
    /\ PollRuns
    /\ poll' = "idle"
    /\ Reschedule("connect")
    /\ UNCHANGED <<association, attempts, wq, conn, closing, calls>>

PollSteps == PollSuspends \/ ReconnectCancels \/ ReconnectSchedules

CloudEvents ==
    \/ Connecting \/ ConnectingFails \/ ConnectedEvt
    \/ PairRequest \/ PairDone \/ ReadyEvt \/ DisconnectedEvt

Next ==
    \/ \E w \in Work : DelayEnds(w)
    \/ WorkNext
    \/ PollSteps
    \/ CloudEvents
    \/ Reboot \/ ModemError

Spec == Init /\ [][Next]_vars

(***************************************************************************)
(* Delays end, both threads run when they can, and shutting the modem down *)
(* for a reboot takes finite time.  The cloud and the network owe nothing. *)
(***************************************************************************)
FairSpec ==
    /\ Spec
    /\ \A w \in Work : WF_vars(DelayEnds(w))
    /\ WF_vars(WorkNext) /\ WF_vars(PollSteps) /\ WF_vars(Reboot)

-----------------------------------------------------------------------------
(***************************************************************************)
(* Properties.                                                             *)
(***************************************************************************)

(* AttemptsBounded: cloud_connect is called at most CONFIG_CLOUD_CONNECT_COUNT_MAX *)
(* times without a CONNECTED event in between, however the connection fails.   *)
AttemptsBounded == calls <= ConnectMax

(* SessionState: the association leaves INIT only within a connection and is back *)
(* in INIT when that connection has ended; no association of an earlier          *)
(* connection is taken for one of the present connection.                       *)
SessionState ==
    /\ association # "INIT" => conn \in Connected
    /\ association = "READY" => conn = "ready"

(* NoStaleReboot: while the cloud is connected no fail-safe of an earlier step is  *)
(* left that would reboot the device, except after a requested disconnect.      *)
NoStaleReboot == conn \in Connected /\ Pending("reboot") => closing

(* NeverStranded: whenever the connection is down, a new attempt is scheduled, is  *)
(* about to be, or the device is on its way into a reboot or a suspended error.  *)
NeverStranded ==
    conn = "down" =>
        \/ Pending("connect")
        \/ poll # "idle"
        \/ wq \in {"shutdown", "error", "suspended"}

(* ReassociationEnds: after the user has associated the device it is reconnected    *)
(* or rebooted, also when the disconnect event never arrives.                   *)
ReassociationEnds == (association = "RECONNECT") ~> (association = "INIT")

(* EventErrorReboots: when the cloud reports a connect error, the reboot that was    *)
(* announced takes place although the thread that announced it is suspended.      *)
EventErrorReboots ==
    (poll = "suspended" /\ Pending("reboot")) ~> (poll # "suspended")

(* AnnouncedReboot: a device that has announced its reboot after a connect error,    *)
(* "Device will reboot in %d seconds", does reboot, whichever thread announced it. *)
AnnouncedReboot ==
    (wq = "suspended" /\ Pending("reboot")) ~> (wq # "suspended")

(* CycleOnlyUnassociated: a connection that nobody has asked to close yet is cycled      *)
(* only "if association was not completed": the timer of an association request does    *)
(* not outlive the connection it was made in.                                         *)
CycleOnlyUnassociated ==
    [][closing' /\ ~closing => association \notin {"PAIRED", "READY"}]_vars

=============================================================================
