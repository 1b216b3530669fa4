# nRF mesh gateway: TLA+ verification project

The gateway connects a Bluetooth Mesh network to nRF Cloud over LTE. It runs on
Zephyr: the program is a set of handlers called by threads that the kernel, the
mesh stack and the nRF Cloud library own. This project models the parts of it
whose correctness depends on the order in which those threads run, checks them
with TLC, and proves the main invariants with TLAPS for every value of the
constants.

## 1. Inventory

| Component | Source | State | Operations | Module |
|---|---|---|---|---|
| Cloud-requested provisioning | `gateway.c` 147-276, 1020-1051, 1198-1243 | `prov_sem`, `prov`, `prov_timeout_work`, `gateway_proc_fifo` | `prov_dev`, `prov_timeout`, `prov_result`, `gateway_node_added` | Provisioning |
| Unprovisioned beacons | `btmesh.c` 535-552, 639-757 | `beacon_list`, `beacon_tail`, `beacon_timer_list`, `beacon_work` | `beacon_recv`, `beacon_timer_handler`, `beacon_remove_inactive` | Devices, BeaconList, BeaconRefresh |
| Blocked beacons | `btmesh.c` 554-637 | `blocked_list`, `blocked_tail` | `btmesh_block_beacon`, `btmesh_unblock_beacon` | BlockedList, Beacons |
| Beacon listings | `cli.c` 3448-3477, `codec.c` 259-345 | the index of the loop | `beacon list`, `codec_encode_beacon_list` | BeaconListing |
| Cloud connection | `gw_cloud.c`, `main.c` 25-72 | `cloud_association`, `cloud_connect_attempts`, three delayable works | connection and pairing events, `connect_to_cloud`, error handlers | CloudConn |
| Subscriptions | `btmesh.c` 474-533, 962-996, `gateway.c` 619-658 | `gateway_sub_list`, `cli_sub_list` | `btmesh_subscribe`, `btmesh_unsubscribe`, relaying of messages | Subscriptions |
| Gateway queue | `gateway.c` 277-1525 | `gateway_proc_fifo`, ownership of `root_obj`, `payload`, `faults`, `addr_list` | `gateway_handler`, `gateway_process` and its handlers, callbacks | Gateway |
| Subnets and application keys | `gateway.c` 292-558, `cli.c` 288-987 | configuration database (CDB) and the stack's keys | add, generate, delete, report | KeyDb, Gateway |
| Mesh operations | `btmesh.c` 998-1422 | none of its own | up to `MESH_RETRY_COUNT` tries | Shell |
| Key clean-up | `btmesh.c` 1424-1538 | a node's key lists | `btmesh_clean_node_key` | Shell |
| Discovery | `btmesh.c` 833-862, 1541-1911 | the pieces of a `btmesh_node` | `btmesh_discover_node`, `btmesh_free_node` | Discovery, Gateway |
| Health client | `gateway.c`, `cli.c`, `btmesh.c` | the client's timeout | relayed requests, faults, commands | Gateway, Shell (partly) |
| Codec | `codec.c` | message counter | JSON to C and back | BeaconListing, Gateway, Shell (partly) |
| Shell | `cli.c` | the static `cmd` | words, numbers, arguments, `cmd_handler` | Numbers, ShellCommands, Shell; the rows above (partly) |
| LTE, modem | `lte.c` | registration semaphore | `lte_init`, `lte_shutdown_modem`, modem errors | CloudConn (partly) |
| Start-up | `main.c` | - | initialisation order, `error_handler` | CloudConn (partly) |
| Watchdog | `watchdog/watchdog.c` | feed work | feeds and re-arms itself | not modelled |
| UUID helpers | `util.c` | - | comparison, text to bytes | not modelled (the order is in Devices) |
| Mesh stack, nRF Cloud library, kernel | not in the repository | - | - | external, inside each module |

Files are relative to `src/src`.

### Threads

| Thread | Kind | Runs |
|---|---|---|
| Bluetooth RX | cooperative | `beacon_recv`, `node_added`, `btmesh_msg_cb` |
| System work queue | cooperative | `beacon_remove_inactive` |
| `application_work_q` | cooperative (`Kconfig` 7-9) | `prov_timeout`, the three works of `gw_cloud.c` |
| `gateway_proc_thread` | preemptible, priority 5 | everything the cloud asks for |
| Shell | preemptible | every command |
| nRF Cloud connection poll | preemptible | `cloud_event_handler`, and in it `gateway_handler` |
| Kernel timers | interrupt | `beacon_timer_handler` |

A cooperative thread is not interrupted by another thread before it blocks;
a preemptible one may be, between any two of its accesses. That decides the grain of
every action below: what a cooperative thread does up to a blocking call is
one action, what a preemptible thread does to shared data is one action for each write
that another thread can see.

### How the components interact

The cloud's JSON requests arrive in `gateway_handler`, which checks and queues them;
`gateway_proc_thread` serves the queue, one entry each 500 ms at most, and calls the mesh
stack and the lists of `btmesh.c`. Results go back with `g2c_send`, which may block.
The mesh stack calls back into `gateway_node_added`, `gateway_msg_callback` and
`gateway_hlth_cb`; the first reports at once, the others queue an entry.
The shell uses the same functions of `btmesh.c`, and the same mesh stack, without
any lock shared with the gateway. `error_handler` is called by every
component that cannot go on; in the shipped configuration it reboots.

### What is hard here

* A semaphore that is taken by one thread and given back by whichever of four
  comes first (provisioning).
* Lists in static memory that a cooperative thread reads in the middle of a preemptible
  thread's change (blocked beacons, subscriptions, listings).
* Timers and delayed works that outlive what they were armed for (beacon timers,
  the reboot and cycle works of the cloud connection).
* Error handlers that suspend the thread they run in.
* Two copies of every key, changed one after the other, by two threads.
* Memory that three threads allocate and one releases, on paths with many early returns.
* Operations over the air that are repeated although the first try may have been effective.
* A static command record that carries the arguments of one shell line into the next.

`PROJECT.json` lists each of these with its line ("hazards").

### What makes each component correct

* Provisioning: the semaphore always comes back; the cloud hears of success only when
  it is true, and only of devices it asked for; the gateway thread never sleeps for good.
* Beacon list: sorted, one timer for one entry, nobody who is silent stays.
* Blocked list: exact between commands; while it is being changed it still keeps out every blocked device,
  but for the largest one while a smaller UUID is entered before it.
* Listing: shows what was there all the time.
* Cloud connection: bounded attempts, state that belongs to the present connection,
  no reboot of a good connection, and always something scheduled in a bad one.
* Subscriptions: a set, in spite of holes and duplicates, at every moment a message
  may arrive.
* Gateway queue: at every moment exactly those blocks are allocated that somebody still points to, and the
  addresses of malformed subscription lists, which are lost; whatever is queued is handled.
* Keys: between two shell commands a key is in both copies or in neither, and no place of the
  database is lost.
* Discovery: however far it comes, nothing is released twice, no pointer is followed
  that was not set, and what is passed on is complete.
* Shell: what is performed is the line's own command with its own arguments; a reported success has happened; a key in use is not
  cleaned up; a provisioned node keeps its record in the database.

## 2. Modules

`MC<module>.tla` and `MC<module>*.cfg` are the instances for TLC.

**Provisioning** (`ProvisioningProofs`). `gw` is the place of `gateway_proc_thread` in
`prov_dev` or in the `prov_result` it called, with the entry it holds. `prov_dev` is
cut where others can come in between: after the semaphore, after
`btmesh_perform_op` has opened the link, after the copy to `prov.uuid`, after the
timeout is armed. `prov_result` is two steps, because `g2c_send` blocks before the
`k_sem_give`. `prov_timeout` is one (`TimeoutRuns`): its queue is cooperative and it does not block. `NodeAdded` is
`gateway_node_added` up to that send. The mesh stack is one provisioning link that opens, ends with
`NodeAdded` or with `LinkLost`, and that the shell may take (`CliProvision`).
`GwFreeFaults`: `prov_timeout` leaves `root_obj` unset and `gateway_process` passes it to
`cJSON_Delete`; the outcomes are going on as if nothing had happened (`GwGive`) and a fault,
which restarts the firmware. `~work.delayed` in `GwTakeTimeout` stands for
time: both delays are 60 s and the timeout was armed earlier by the same thread, so it
ends first.

**BeaconList** (`BeaconListProofs`). `list` is `beacon_list` up to `beacon_tail`; a timer
is its number, with its user data (`owned`), its run (`running`) and its status (`expired`).
`beacon_recv` is one action in three cases; `beacon_remove_inactive` is one action for each
turn of its loop, since timers expire in between. It excludes `beacon_recv` (`scan = 0`): both
threads are cooperative. `FallsSilent` is the environment.

**BlockedList** has the array, the tail and the shell thread in the middle of a command.
`blocked` is what the completed commands amount to. Unblocking from a full list reads the
slot behind the array: any value. **Beacons** (`BeaconsProofs`) puts the two lists together: `BeaconRecv` is the
whole of `beacon_recv`, with its checks in their order. `Displaced` is the one UUID that a block command has
moved behind the tail, where `beacon_is_blocked` does not look. **BeaconListing** adds a reader to
BeaconList; getting the pointer to an entry and showing the text behind it are one step.
**BeaconRefresh** adds to Beacons a memory of the beacons dropped although their device is listed.

**CloudConn** (`CloudConnProofs`). Three works with their delays and the queue of `application_work_q`; the
connection poll thread with its position in a handler that can be interrupted; `conn` is
the library's connection (external), an order of events that includes CONNECTED without
CONNECTING, and failures everywhere. Delays end at any time.
`wq` and `poll` show which thread has suspended itself in `cloud_connect_error_handler`.
`Reboot` and `ModemError` go back to the state after `gw_cloud_init`. `calls` and `closing` are
histories.

**SubscriptionSet** is the abstract specification: a set, a request that goes through
its addresses, and for each message whether it was relayed. **Subscriptions**
(`SubscriptionsProofs`) is the array, one action for each slot that the loops of
`btmesh_subscribe` and `btmesh_unsubscribe` look at; it implements SubscriptionSet with
`set <- Listed`.

**KeyDb** (`KeyDbProofs`). `cdb` is the database, place by place; `stack` are the keys of the mesh stack.
The gateway thread has the higher priority and does not block between the calls of a key request:
each request is one action, which may come between any two steps of a shell command. The shell is cut at each call.
`Deleted` is the half-deleted place that `bt_mesh_cdb_app_key_del` leaves and that the code then
repairs (`ShellFrees`, `RolledBack`). A refused `..._add` of the stack is rolled back. `raced` and `gone` are histories: the indices that both
threads changed at once, and the networks that were deleted.

**Discovery**. `part` is the part of the node that `btmesh_discover_node` is asking for, by the variables of its loops: the node, an
element, or a model of it; `Plan(part)` is what it asks and allocates there, `step` the position in that, and `PartAfter` where
the loops go next. `Holder` says which piece has the pointer to another. `ptr` distinguishes pointers that were never written ("wild") from NULL and from a block. Every answer
may fail, every allocation too; `FreeNode` releases what `btmesh_free_node` reaches from there.

**Gateway** (`GatewayProofs`) extends both. `fifo` and `entry` are the queue and the
entry in hand, `heap` counts allocations less releases of the four blocks a message may have. `gateway_handler` runs step by
step (`message`): the message is parsed (`MessageParsed`); refused before or without an entry (`MessageRefused`), or an entry is allocated for it
(`EntryAllocated`); an operation of an unknown type releases the entry (`UnknownOperation`); a refused message is deleted (`MessageDeleted`), any other queued.
Each handler of `gateway_process` is an action by what it does to
memory, keys and the description, with failures at each point. What it has allocated itself (`own`) it releases first (`ReleasesOwn`), then
`Releases` is the end of the loop of `gateway_process`. `leaked` is a history: the entries whose addresses were forgotten. What a request changes elsewhere is in
the module of that part. `k_malloc` results are not checked in the two message callbacks: `faulted`.

**Numbers**, **ShellCommands**, **Shell** (`ShellProofs`). Numbers is `str_to_uint8` and its siblings with
`strtoul`'s wrap and the comparison of a signed `long`, at any widths. ShellCommands is the table: words, arguments in
their order, operation, the argument counts registered with the shell. Shell parses a line into the static `cmd`/`args`
(arguments up to the first bad one are overwritten, the others keep older values; the heartbeat commands read one token too far
to the right, so they accept a line that has one more: `Shifted`) and performs it: `act`
is the command's own operation; `get_keys` and `add_key` precede a binding; `comp`, `visit` and `del_key` are
`btmesh_clean_node_key` after an unbinding; `asleep` is the sleep of `node reset`, with a pointer to the node's record in hand, and `deleted`
is between the deletion of that record and the second look at it, by which time it may be another node's (`reused`). `device` is the UUID of each
record, `slept` the nodes that were provisioned when the sleep began. Each attempt of `btmesh_perform_op` is a step; it may
fail before or after the node has acted (`Lost`). `conf` is each node's configuration as a set of facts. `EnterLine` is the user;
`GatewayBinds` and `GatewayProvisions` are what the gateway thread may do to the same nodes; a device that was reset may be provisioned again, under
any address that the database does not hold.

`Bug_...` operators are plausible mistakes in the definition that follows them;
`PROJECT.json` ("mutants") names the property each of them breaks. No specification uses them.

## 3. Runs

| Config | Shows | States |
|---|---|---|
| MCProvisioning | six properties of the provisioning protocol hold | 122 274 |
| MCProvisioningCli | a shell provisioning passes for a gateway attempt | violation |
| MCBeacons | both beacon lists together: order, timers, no entry forgotten, silent devices leave, the blocked list exact and, but for a displaced UUID, effective | 200 032 |
| MCBeaconRefresh | a full list stops refreshing its entries | violation |
| MCBeaconListing | a listing may skip an active beacon | violation |
| MCCloudConn | attempts, session state, fail-safes, progress | 1 573 |
| MCCloudConnReboot | an announced reboot that does not happen | violation |
| MCCloudConnCycle | a cycle timer that outlives its connection | violation |
| MCSubscriptions | the array implements a set | 118 520 |
| MCGateway | memory, keys and discovery under requests, mesh messages and a shell command | 549 582 |
| MCShell | lines, retries, clean-up and reset of nodes | 150 974 |
| MCShellUnrecognised | a line reported as unrecognised performs the previous command | violation |

### Bounds, and why they are enough

* MCProvisioning: two devices, three cloud requests, one shell command. A request
  waits behind one being served while a third arrives behind a queued `PROV_RESP`; a
  device is provisioned twice, and the shell takes the link or the device.
* MCBeacons: three devices, two places in each list. Both lists fill up, insertions and
  removals happen at every position, and timers expire during scans and between the writes of a command.
* MCCloudConn: `ConnectMax = 8` is the value of `Kconfig`; the instance is the
  program's own. The violation runs use 2 for a short trace.
* MCSubscriptions: four addresses for three slots, at most two in a request: full lists, holes,
  duplicates, requests refused half way.
* MCGateway: two messages and one shell command; two networks, two application keys, two key values, two places for
  networks and one for application keys, so that the database is full, an index is taken, and a
  key differs from the one the stack has. A node with the configuration server, another SIG and a vendor model on its first
  element and with a second element without models: every branch and every way from one part to the next. Two messages are enough for one to be queued while
  another is handled, in the middle of the shell's command.
* MCShell: numbers of 2, 3 and 5 bits stand for 8, 16 and 32 (`Numbers` is the same for all widths);
  31 lines of every shape (too many and too few arguments, heartbeats with one token more than they have arguments, out of range, misspelt, vendor and SIG models); any two of them
  in a row, for arguments kept from the first; two nodes, one possibly
  unprovisioned; both reset; three models; three attempts, the value in `btmesh.c:30`; one step of the gateway thread, which may provision a node
  that has just been reset.
  The elements of both nodes have the same names, and the sets of keys in the gateway's own database are constant.

### Fairness

Only threads, timers and delays of the firmware are fair; the cloud, the devices, the network and
the user never have to do anything.

* Provisioning: `WF(GwNext)`, `WF(WorkNext)`, `WF(BtGive)`: threads run when they can, a 60 s delay
  ends, a send returns.
* Beacons: every running timer expires unless it is restarted for ever; the system work
  queue runs.
* CloudConn: delays end, both threads run when they can (the poll thread only while the work
  queue is idle or blocked), shutting the modem down takes finite time.
* Gateway: `WF(GatewayThread)`, `WF(HandlerThread)`: the threads run; each operation over the air ends, with an answer or a
  timeout; a send returns. The wait for `prov_sem` is not part of it: Provisioning shows that it ends.
* Shell: `WF(ShellStep)`: an attempt ends, with an answer or a timeout, and the sleep ends;
  `WF(Expires(d))`: the beacon list entry of a device that no longer beacons expires (MCBeacons shows that it does).

`SilentForgotten`, `ThreadReturns`, `SemReleased`, `ReassociationEnds`, `EventErrorReboots`,
`RequestsEnd` and `LineEnds` use it; so does the violation of `AnnouncedReboot`, which is therefore not a device that
merely stops.

### What the violations show

1. `ReportsOnlyGatewayAttempts` (`gateway.c:1213`): `prov.uuid` outlives its request.
   A node of that UUID provisioned from the shell is reported to the cloud, and the report
   gives `prov_sem` and cancels the timeout of whatever request is under way.
   `ReportsOnlyRequested` holds nevertheless: the device *was* asked for once.
2. `RefreshKeepsListed` (`btmesh.c:699`): with 32 beacons listed, no timer is restarted any more, so
   active devices disappear after 6 s and come back.
3. `ListingComplete` (`cli.c:3463`, `codec.c:284`): an entry removed before the index hides its
   successor.
4. `AnnouncedReboot` (`gw_cloud.c:138`): when `cloud_connect` itself fails, the handler
   suspends the work queue thread on which the reboot it scheduled would run. When the same
   error comes as an event the reboot does take place (`EventErrorReboots`).
5. `CycleOnlyUnassociated` (`gw_cloud.c:285`): a disconnection between the association
   request and its completion resets the state but leaves `cycle_cloud_connection_work`
   armed; it later closes a good connection.
6. `UnrecognisedDoesNothing` (`cli.c:2285`): for a misspelt last word of `node configured`, `model publish`
   or `model subscribe` the shell reports "Unrecognized command" but goes on; `cmd` still
   names the command of an earlier line, which is performed with the arguments of this one.

### Observed as well

No run is about the following; each is visible in the model or was left out of it.

* While `beacon block` enters a UUID (`btmesh.c` 596-609), the largest blocked UUID is behind `blocked_tail`, and a beacon of that
  device is listed, against `cli_cmd_def.md:25`, "Block an unprovisioned device beacon from appearing in the unprovisioned device beacon list."
  (`Displaced` in Beacons; `BlockedNotAdmitted` says that it happens to no other UUID and at no other time.)
* After a hole an address may be in a subscription list twice, so its messages are relayed twice and the
  list is full earlier than it has to be.
* Numbers from 2^31 on pass the shell's range check and wrap: `node ttl set 1 4294967295` stores 255 (`cli.c:112`;
  `TooLong` in Shell).
* `model subscribe overwrite-vnd` performs the operation for SIG models, and `delete-vnd` passes the model
  identifier as the company (`Misdirected` in Shell).
* The heartbeat lines documented in `cli_cmd_def.md:184,195` have more arguments than their registration allows, or are parsed from the
  wrong position (`Shifted` in Shell). These three kinds of lines are what `ActsAsTyped` and `SuccessMeansDone` do not promise to be performed as
  typed; for them, too, what is performed and what success means is the line's own reading.
* `model subscribe get-vnd` takes the low byte of the company for the status of the answer (`cli.c:4571`; `btmesh.h` 398-407 have `cid` before
  `status`), so it fails for most companies and succeeds for the others whatever the node says (`Misread` in Shell).
* `node reset` reads the record once more after deleting it (`cli.c:3552`). When the place has been given to another node by then, "Successfully
  reset" may be followed by "Node NOT reset" (`ResetChecked` in Shell).
* The application keys of a deleted subnet leave the stack and stay in the database (`gone` in KeyDb).
* `gateway.c` never frees a node's description after `node_disc` or `node_cfg`; the list of subnets is not
  released by `btmesh_free_node` either; the addresses of a malformed subscription list are lost (`leaked` in Gateway).
* A node that reports a feature state other than those known ends the discovery without an error, and the
  encoder then reads elements through a null pointer (`StateUnknown`, `DiscoveryEnds`).
* `node_cfg` goes on after a parse error; the SIG unbinding of the codec demands a company and
  the vendor unbinding does not read it (`codec.c` 1366 and following); only the SIG unbinding cleans up keys.

## 4. Proofs

TLAPS checks every leaf of these theorems, for all values of the constants.

| Module | Theorem | Establishes, for every reachable state (or step) |
|---|---|---|
| ProvisioningProofs | `TypeCorrect` | `TypeOK` |
| | `SemSafe` | `SemNotLost`: whoever holds `prov_sem` is still able to give it back |
| | `TruthfulSuccess` | `NoFalseSuccess` |
| | `OnlyRequested` | `ReportsOnlyRequested` |
| BeaconListProofs | `ListTyped`, `TimersAreOwned` | `ListTypeOK`, `TimersMatch` |
| | `TimerSearchSucceeds` | `FreeTimerFound`: the search without a bound stays in the array |
| | `AlwaysSorted`, `NeverForgotten` | `ListSorted`, `NoneForgotten` |
| BeaconsProofs | `EachListAlone` | Beacons implements BeaconList and BlockedList |
| | `Typed` | `TypeOK` of both lists |
| | `AlwaysExact` | `BlockedExact`, between two commands |
| | `NeverAdmitted` | `BlockedNotAdmitted`, a property of steps: what enters is not blocked, or displaced by a block command |
| CloudConnProofs | `TypeCorrect` | `TypeOK` |
| | `AttemptLimit`, `SessionOwnsState` | `AttemptsBounded`, `SessionState` |
| | `FailSafesGone`, `AlwaysScheduled` | `NoStaleReboot`, `NeverStranded` |
| SubscriptionsProofs | `TypeCorrect`, `ExactList` | `TypeOK`, `ListExact` |
| | `Implements` | `ImplementsSet`: the array implements SubscriptionSet |
| KeyDbProofs | `TypeCorrect` | `KeyTypeOK` |
| | `AlwaysAgree`, `NoSlotLost` | `KeysAgree`, `SlotsNotLost` |
| GatewayProofs | `GatewayTyped` | `TypeOK` |
| | `GatewayAgrees` | both of them for requests that come out of the queue: Gateway implements KeyDb |
| | `GatewayDiscovers` | Gateway implements Discovery: `Spec => DiscSpec` |
| | `ReleasesOnce`, `NothingLeft`, `DescribedWhole` | `ReleasesValid`, `FailureReleases`, `DescribedIsWhole` |
| | `MemoryAccounted` | `HeapExact`: what is allocated is what somebody points to, and the addresses of malformed lists |
| ShellProofs | `ShellTyped` | `TypeOK` |
| | `AlwaysAsTyped` | `ActsAsTyped`: every recognised line is performed with its own arguments; as typed, unless misread |
| | `SuccessIsTrue` | `SuccessMeansDone`, a property of steps: for every recognised line |
| | `RecordsKept` | `ProvisionedIsKnown` |
| | `CleanUpSound` | `CleanUpKeepsUsed`, a property of steps |

### From which assumptions

The named ASSUMEs of the modules and nothing else: `ConnectMax`, `MaxBeacon`, `MaxBlocked`, `MeshRetryCount`
and `ListLen` are positive, the bounds (`MaxRequests`, `MaxCli`, `MaxAddrs`, `MaxItems`, `MaxCommands`) are natural
numbers, UUIDs are positive numbers (`util_uuid_cmp` is a total order), and the values for "no device", "no key" and
"no address" are not devices, keys or addresses. Network indices are natural numbers with the primary network among them; the places of the
database are numbered from a least one on; a node's elements have a number of models each; a composition is a
non-empty sequence of models; the addresses of nodes are numbers and have a greatest one. Of the shell's numbers: `ULONG_MAX` is odd;
`UINT8_MAX <= UINT16_MAX <= ULONG_MAX`, which is at least 4; a payload of the greatest length has a length that `uint16_t` can hold; lines consist of words and of tokens that are numbers
or words. The sets of devices, addresses, keys and lines may be infinite. The table of commands is no parameter: it is the code's.

### Along which arguments

* **Provisioning.** `SemNotLost` is inductive together with `TypeOK`. `NoFalseSuccess` is not:
  a `PROV_RESP` entry reports `prov.err`, which is 0 until `prov_timeout` has run. `TruthInv` adds that
  it has run whenever such an entry exists. `AskedInv` follows the UUID through every place a
  report may take it from: the queue, the entry in the thread's hands, `prov.uuid`.
* **BeaconList.** `ListInv` is `ListTypeOK` with `TimersMatch`; neither is inductive alone, since
  only a search that succeeds gives a timer of the array. It does because the list's
  entries and their timers are in bijection: fewer entries than timers leave a timer free (a
  cardinality argument, `FreeTimerExists`). `ListSorted` follows from what the insertion loop
  knows when it stops, `IsInsertPos`. `NoneForgotten` needs that timers are not shared, or a refresh
  would clear another entry's status.
* **Beacons.** `BlockedExact` says nothing in the middle of a command. `GapInv` does:
  the slot the shell thread has reached is a hole, the other slots are sorted and complete, and moving
  a neighbour into the hole moves the hole (`HoleMoves`). When a gap is closed in a full list, what is copied from behind
  the array stays in the hole, and the hole is outside the list when the tail is lowered.
  `NeverAdmitted` is the same invariant read by `beacon_is_blocked` in the middle of either command: a blocked UUID that it does not find
  is the one being unblocked, or lies at the tail behind the hole of a block command and is then the largest (`UnfoundIsDisplaced`); and only `BeaconRecv` adds
  to the list (`OnlyUnblockedEnter`).
* **CloudConn.** The four properties are proved together. `OneAttempt`: a new attempt is pending
  once, and only while the connection is down. Therefore every call of `cloud_connect` is counted
  before it is made (`Counted`). `CloseRequested`: the work that disconnects runs only after the request. `Unique(queue)`
  is what makes cancelling a work sufficient.
* **Subscriptions.** `LoopInv` says what the loops know of the slots they have passed, and that in the
  middle of an unsubscription the list and the set differ by the address in hand at most. With it each step
  of a loop maps to a step of SubscriptionSet or to a stutter.
* **KeyDb.** `KeysAgree` speaks of the time between two commands. In the middle of one, `IInv` says what
  the command's place holds for each position of the thread (`PlaceUntouched`), as long as the gateway thread has not
  touched the command's index; once it has, the place may have been freed and given to another index, and all that
  remains is that this index is raced as well (`PlaceRaced`). With that, at most one place lacks a key
  (`KeyMissing`) or an index (`IndexMissing`), no index has two places (`OneEach`), and what only one of
  stack and database has is what the command is working on.
* **Gateway.** `NextIsKeyStep`: of the queue's actions only `ChangesKeys` changes keys, by one step of KeyDb, so
  its theorems carry over. `QueueInv`: the message of `gateway_handler`, the queued entries and the entry in hand have identities of their own, the
  handler's own blocks belong to the entry in hand, and the addresses of none of them are lost yet; without these a second
  release of a block could not be excluded. Every step then moves blocks from one holder to another, or allocates or releases those of one identity (`HeapChanges`).
* **Discovery.** `DiscInv`. Which pieces are allocated and which pointers are set follows from the position (`Progress`): a
  piece is allocated once if the loops have passed its allocation, its pointer is set by then and NULL from the moment its holder
  was allocated. The places of the allocations are ordered as the loops visit them (`Before`), and `PartAfter` goes to the least part above (`AfterIsNext`),
  so "passed" grows by what is allocated and by nothing else; a holder comes before what it holds (`PieceFacts`). `FreeNode` then
  releases exactly what is allocated, except the list of subnets. Gateway adds that no handler touches a description but by these steps (`GatewayDiscovers`).
* **Shell, the operation.** `Table` is what all commands have in common (`Regular`), proved family by family: the arguments that an
  operation needs are among those the command has, no two commands have the same words, and only the heartbeat commands are read
  from another argument than their first. `HoldsLine`: while a command is under way, the static `cmd` is the command the line names, all its
  arguments fitted, and each is the conversion of its token (`ArgsAfterOk`); outside of that time, `cmd` and `args` are whatever earlier lines left, which is why
  `ActsAsTyped` alone is not inductive. So the arguments are the line's own (`OwnArguments`), and with them the operation, for every recognised line (`OwnOperation`).
  Only then comes what was typed, for lines without one of the three misreadings (`ClearLine`, `ClearOperation`): a number in the range of a signed long that passes the range check is stored as it is (`NumberFacts`,
  `ConvertedIsTyped`), at any widths.
* **Shell, success.** The verdict "ok" leaves `act` in three ways: the node has applied the operation (`AppliedFacts`), a reset, or an answer whose
  status is not looked at, or misread. The last are harmless because the commands they concern change nothing (`UncheckedIsHarmless`).
* **Shell, node reset.** `RecordInv`: during the sleep the record stays in the database, so no other node can get it, and its node, if provisioned, was so when the
  sleep began. If its device beacons when the sleep ends, the node is therefore not provisioned (`SleptEnough`), and deleting its record takes it from nobody.
* **Shell, clean-up.** `CleanInv`: the models already visited do not use the key or were bound since the clean-up
  began, and the node of the clean-up does not change. An operation changes at most the node it is for (`ReachesFacts`).

### Only model-checked

The liveness properties `ThreadReturns`, `SemReleased`, `SilentForgotten`, `ReassociationEnds`, `EventErrorReboots`, `RequestsEnd` and `LineEnds`
(fairness and ENABLED are out of the prover's reach) and the violations of section 3. Every safety property that a passing run checks
has a theorem.
No module declares a RECURSIVE operator.

## 5. Abstractions and what is not modelled

* Message texts, JSON, logging, and addresses, net indices and element counts of results.
* The static buffer `buf` that the Bluetooth thread and the gateway thread both
  encode into: a torn message is possible in the code and not represented.
* In Provisioning the gateway thread's other requests; to the protocol they are delays.
* In CloudConn `carrier_requested_disconnect` (never set), the semaphore `cloud_disconnected` (never waited
  for), the lengths of delays, and the data events. CONNECTING cancels the CONNACK fail-safe;
  what that means depends on when the library sends it (listed as a hazard).
* In KeyDb calls of the library are atomic; the database is taken to refuse an index that
  it already has; what a free place still contains is `NoIdx` and `NoKey`.
* In Discovery the values a node reports; in Shell everything a command only prints, publication
  parameters other than the address, and the contents of messages. `SleptEnough` stands for time:
  an entry of the beacon list lives 6 s, `node reset` sleeps 5 s, and provisioning a device takes more than one, so that of the nodes provisioned when
  the sleep begins no entry is left when it ends. What a device that is provisioned during the sleep left in the list may still be there.
  The NULL pointer `cmd.arg_list` of a first, unrecognised line and the unchecked key look-up of the clean-up
  (`btmesh.c` around 1527) are left out.
* The codec's conversions of JSON numbers (`codec.c:133`): a double out of range of the integer it is converted
  to has no defined result. The shell's conversions, which have the same missing lower bound, are in Numbers.
* Watchdog: one work that feeds and re-arms itself, switched off in `prj.conf`. UUID helpers: pure conversions; the
  order of UUIDs is in Devices. `lte_init` and `main` run before any other thread acts.
* Help texts, completion and output of the shell, credentials and client identifiers.
* The mesh stack, the kernel and the nRF Cloud library are not in the repository; each module
  says what it takes from them.

## 6. Plan

Done: Provisioning, BeaconList, BlockedList, Beacons, BeaconListing, CloudConn,
Subscriptions over SubscriptionSet, KeyDb, Discovery, Gateway, Numbers, ShellCommands and Shell. What is left, in this order:

1. The writers of `buf` (`gateway.c:159`).
2. CodecNumbers: the conversions of the codec against reference definitions.
3. What liveness rests on and can be proved without fairness: that whoever waits in Provisioning and Gateway always has a step left that ends the wait.
