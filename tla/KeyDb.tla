---------------------------------- MODULE KeyDb ----------------------------------
(***************************************************************************)
(* Network and application keys.  Every key is kept twice: in the          *)
(* configuration database (CDB), from which it is listed and distributed,  *)
(* and in the mesh stack of the gateway itself, which uses it.  Two        *)
(* threads change both: the gateway thread for the cloud (add_subnet,      *)
(* add_app_key, subnet_del, app_key_del of src/src/gateway.c) and the shell *)
(* (create_subnet, create_app_key, subnet_remove, appkey_rem of            *)
(* src/src/cli.c).                                                         *)
(*                                                                         *)
(* The gateway thread has the higher priority and does not block between   *)
(* its calls: each of its requests is one action.  It preempts the shell   *)
(* between any two steps.  Calls of the library are atomic.                *)
(***************************************************************************)
EXTENDS Integers, FiniteSets

CONSTANTS
    NetIdx,       \* network key indices
    AppIdx,       \* application key indices
    Key,          \* keys
    PrimaryKey,   \* the key of the primary network
    NetSlot,      \* places of the CDB for network keys, numbered
    AppSlot,      \* ... and for application keys
    NoKey,        \* a key that has been cleared
    MaxCommands   \* bound: commands typed

ASSUME PrimaryIsIdx == 0 \in NetIdx /\ NetIdx \subseteq Nat
ASSUME SlotsAreNumbered ==
    NetSlot \cup AppSlot \subseteq Nat /\ \E n \in NetSlot : \A m \in NetSlot : n <= m
ASSUME KeysAreKeys == PrimaryKey \in Key /\ NoKey \notin Key
ASSUME CommandsAreNat == MaxCommands \in Nat

VARIABLES
    cdb,      \* the database: for each place, what it holds
    stack,    \* keys of the mesh stack
    shell,    \* the shell thread: where it is and its variables
    commands, \* number of commands typed
    raced,    \* history: indices the gateway changed while a shell command was under way
    gone      \* history: network indices that have been deleted

keyVars == <<cdb, stack, shell, commands, raced, gone>>

Unused == -1            \* BT_MESH_KEY_UNUSED
Primary == 0            \* BT_MESH_PRIMARY_NET_IDX, and BT_MESH_ADDR_UNASSIGNED too

NoIdx == <<"none", 0>>

(* A key index: of an application key or of a network key. *)
Idx == ({"net"} \X NetIdx) \cup ({"app"} \X AppIdx)
Slot == ({"net"} \X NetSlot) \cup ({"app"} \X AppSlot)
SlotsOf(i) == {s \in Slot : s[1] = i[1]}

(* What a place holds: the network index (which says whether it is free), the   *)
(* index of the key, and the key.                                            *)
Holds(net, i, k) == [net |-> net, idx |-> i, key |-> k]
Content == [net : NetIdx \cup {Unused}, idx : Idx \cup {NoIdx}, key : Key \cup {NoKey}]
Empty == Holds(Unused, NoIdx, NoKey)
InUse(s) == cdb[s].net # Unused

(* The shell thread: its program counter and the variables of a command. *)
Working(pc, net, i, k, s) == [pc |-> pc, net |-> net, idx |-> i, key |-> k, slot |-> s]
NoSlot == <<"none", 0>>
Idle == Working("idle", Primary, NoIdx, NoKey, NoSlot)

(* The network that the gateway was set up with. *)
FirstSlot == <<"net", CHOOSE n \in NetSlot : \A m \in NetSlot : n <= m>>
PrimaryEntry == Holds(Primary, <<"net", Primary>>, PrimaryKey)

KeyInit ==
    /\ cdb = [s \in Slot |-> IF s = FirstSlot THEN PrimaryEntry ELSE Empty]
    /\ stack = {PrimaryEntry}
    /\ shell = Idle
    /\ commands = 0
    /\ raced = {}
    /\ gone = {}

-----------------------------------------------------------------------------
(* The library: what src/ relies on. *)

(* bt_mesh_cdb_subnet_get, bt_mesh_cdb_app_key_get *)
Found(i) == {s \in SlotsOf(i) : InUse(s) /\ cdb[s].idx = i}

(* bt_mesh_cdb_subnet_alloc, bt_mesh_cdb_app_key_alloc: the first free place, unless *)
(* the index is there already.                                              *)
Allocable(i) ==
    {s \in SlotsOf(i) :
        /\ Found(i) = {}
        /\ ~InUse(s)
        /\ \A t \in SlotsOf(i) : ~InUse(t) => s[2] <= t[2]}

(* bt_mesh_cdb_subnet_del frees the place; bt_mesh_cdb_app_key_del "sets the        *)
(* net_idx to BT_MESH_ADDR_UNASSIGNED which is not the same as the default state". *)
Deleted(s) == IF s[1] = "net" THEN Empty ELSE Holds(Primary, cdb[s].idx, NoKey)

(* bt_mesh_subnet_add, bt_mesh_app_key_add: a key that is there already is accepted, *)
(* another one with its index or an unknown network is refused; a new key may be  *)
(* refused for other reasons.                                                *)
Known(i) == {k \in stack : k.idx = i}
MayAdd(net, i, k) ==
    /\ Known(i) \subseteq {Holds(net, i, k)}
    /\ i[1] = "app" => Known(<<"net", net>>) # {}
MayRefuse(net, i, k) == Holds(net, i, k) \notin stack

(* bt_mesh_subnet_del, bt_mesh_app_key_del.  The application keys of a network go   *)
(* with it.                                                                  *)
StackWithout(net, i) ==
    {k \in stack : ~(k.idx = i /\ k.net = net) /\ ~(i[1] = "net" /\ k.net = net)}

Forget(net, i) == gone' = IF i[1] = "net" THEN gone \cup {net} ELSE gone

(* The network index of a key: a network key's is its own index. *)
NetOf(i) == IF i[1] = "net" THEN {i[2]} ELSE NetIdx

-----------------------------------------------------------------------------
(* The gateway thread.  A request that comes while the shell is at work is noted.  *)
Races(i) == raced' = IF shell.pc = "idle" THEN raced ELSE raced \cup {i}

GatewayAddFails(i) ==
    /\ Allocable(i) = {}
    /\ UNCHANGED <<cdb, stack>>

GatewayAdds(net, i, k) ==
    \E s \in Allocable(i) :
        /\ MayAdd(net, i, k)
        /\ cdb' = [cdb EXCEPT ![s] = Holds(net, i, k)]
        /\ stack' = stack \cup {Holds(net, i, k)}

(* Mutation: the place of an application key is left as the database leaves it. *)
Bug_RolledBack(s, i) ==
    [cdb EXCEPT ![s] = IF i[1] = "app" THEN Holds(Primary, i, NoKey) ELSE Empty]

(* The database after an allocation has been undone. *)
RolledBack(s, i) == [cdb EXCEPT ![s] = Empty]

GatewayRollsBack(net, i, k) ==
    \E s \in Allocable(i) :
        /\ MayRefuse(net, i, k)
        /\ cdb' = RolledBack(s, i)
        /\ UNCHANGED stack

GatewayAdd(net, i, k) ==
    /\ GatewayAddFails(i) \/ GatewayAdds(net, i, k) \/ GatewayRollsBack(net, i, k)
    /\ Races(i)
    /\ UNCHANGED <<shell, commands, gone>>

GatewayDelete(i) ==
    /\ \E s \in Found(i) :
        /\ cdb' = [cdb EXCEPT ![s] = Empty]
        /\ stack' = StackWithout(cdb[s].net, i)
        /\ Forget(cdb[s].net, i)
    /\ Races(i)
    /\ UNCHANGED <<shell, commands>>

GatewayDeleteFails(i) ==
    /\ Found(i) = {}
    /\ Races(i)
    /\ UNCHANGED <<cdb, stack, shell, commands, gone>>

GatewayKeys ==
    \E i \in Idx :
        \/ \E net \in NetOf(i), k \in Key : GatewayAdd(net, i, k)
        \/ GatewayDelete(i)
        \/ GatewayDeleteFails(i)

-----------------------------------------------------------------------------
(* The shell thread. *)
At(pc) == [shell EXCEPT !.pc = pc]
CommandEnds == shell' = Idle
NotAlone == UNCHANGED <<commands, raced>>

(* The checks of subnet_add, subnet_generate, appkey_add and appkey_gen; the lowest  *)
(* index available is one that passes them.                                  *)
ShellAdd(net, i, k) ==
    /\ shell.pc = "idle"
    /\ commands < MaxCommands
    /\ Found(i) = {}
    /\ commands' = commands + 1
    /\ shell' = Working("alloc", net, i, k, NoSlot)
    /\ UNCHANGED <<cdb, stack, raced, gone>>

ShellAllocFails ==
    /\ shell.pc = "alloc"
    /\ Allocable(shell.idx) = {}
    /\ CommandEnds
    /\ NotAlone /\ UNCHANGED <<cdb, stack, gone>>

ShellAllocs ==
    /\ shell.pc = "alloc"
    /\ \E s \in Allocable(shell.idx) :
        /\ cdb' = [cdb EXCEPT ![s] = Holds(shell.net, shell.idx, NoKey)]
        /\ shell' = Working("write", shell.net, shell.idx, shell.key, s)
    /\ NotAlone /\ UNCHANGED <<stack, gone>>

(* memcpy of the key through the pointer of the allocation, and the store.  What a    *)
(* free place holds does not matter.                                        *)
ShellWrites ==
    /\ shell.pc = "write"
    /\ cdb' = IF InUse(shell.slot) THEN [cdb EXCEPT ![shell.slot].key = shell.key] ELSE cdb
    /\ shell' = At("stack_add")
    /\ NotAlone /\ UNCHANGED <<stack, gone>>

ShellStackAdds ==
    /\ shell.pc = "stack_add"
    /\ MayAdd(shell.net, shell.idx, shell.key)
    /\ stack' = stack \cup {Holds(shell.net, shell.idx, shell.key)}
    /\ CommandEnds
    /\ NotAlone /\ UNCHANGED <<cdb, gone>>

(* Mutation: a refused key stays in the database. *)
Bug_ShellStackRefuses ==
    /\ shell.pc = "stack_add"
    /\ MayRefuse(shell.net, shell.idx, shell.key)
    /\ CommandEnds
    /\ NotAlone /\ UNCHANGED <<cdb, stack, gone>>

ShellStackRefuses ==
    /\ shell.pc = "stack_add"
    /\ MayRefuse(shell.net, shell.idx, shell.key)
    /\ shell' = At("rollback")
    /\ NotAlone /\ UNCHANGED <<cdb, stack, gone>>

(* The place is deleted, to undo an addition or for a removal ... *)
ShellDeletes ==
    /\ shell.pc \in {"rollback", "delete"}
    /\ cdb' = [cdb EXCEPT ![shell.slot] = Deleted(shell.slot)]
    /\ shell' = IF shell.idx[1] = "app" THEN At(IF shell.pc = "rollback" THEN "undone" ELSE "free")
                ELSE IF shell.pc = "rollback" THEN Idle ELSE At("stack_del")
    /\ NotAlone /\ UNCHANGED <<stack, gone>>

(* ... and that of an application key is made usable again. *)
ShellFrees ==
    /\ shell.pc \in {"undone", "free"}
    /\ cdb' = [cdb EXCEPT ![shell.slot] = Empty]
    /\ shell' = IF shell.pc = "undone" THEN Idle ELSE At("stack_del")
    /\ NotAlone /\ UNCHANGED <<stack, gone>>

(* subnet_remove, appkey_rem *)
ShellRemove(i) ==
    /\ shell.pc = "idle"
    /\ commands < MaxCommands
    /\ commands' = commands + 1
    /\ \E s \in Found(i) :
        shell' = Working("delete", cdb[s].net, i, NoKey, s)
    /\ UNCHANGED <<cdb, stack, raced, gone>>

ShellStackDeletes ==
    /\ shell.pc = "stack_del"
    /\ stack' = StackWithout(shell.net, shell.idx)
    /\ Forget(shell.net, shell.idx)
    /\ CommandEnds
    /\ NotAlone /\ UNCHANGED cdb

ShellKeys ==
    \/ \E i \in Idx : ShellRemove(i) \/ \E net \in NetOf(i), k \in Key : ShellAdd(net, i, k)
    \/ ShellAllocFails \/ ShellAllocs \/ ShellWrites
    \/ ShellStackAdds \/ ShellStackRefuses
    \/ ShellDeletes \/ ShellFrees \/ ShellStackDeletes

KeyNext == GatewayKeys \/ ShellKeys

KeySpec == KeyInit /\ [][KeyNext]_keyVars

-----------------------------------------------------------------------------
KeyTypeOK ==
    /\ cdb \in [Slot -> Content]
    /\ stack \subseteq Content
    /\ shell \in [pc : {"idle", "alloc", "write", "stack_add", "rollback", "undone", "delete",
                        "free", "stack_del"},
                  net : NetIdx, idx : Idx \cup {NoIdx}, key : Key \cup {NoKey},
                  slot : Slot \cup {NoSlot}]
    /\ commands \in 0..MaxCommands
    /\ raced \subseteq Idx
    /\ gone \subseteq NetIdx

(* KeysAgree: between two commands of the shell, database and stack hold the same   *)
(* keys, but for indices that the cloud changed in the middle of a shell command  *)
(* and for the application keys of a network that was deleted, which only the    *)
(* database keeps.                                                          *)
Listed == {cdb[s] : s \in {t \in Slot : InUse(t)}}

KeysAgree ==
    shell.pc = "idle" =>
        /\ \A k \in stack \ Listed : k.idx \in raced
        /\ \A k \in Listed \ stack : k.idx \in raced \/ (k.idx[1] = "app" /\ k.net \in gone)

(* SlotsNotLost: between two commands every place of the database is free or holds a *)
(* key; none is left reserved by an addition that failed or a removal.         *)
SlotsNotLost == shell.pc = "idle" => \A s \in Slot : InUse(s) => cdb[s].key # NoKey

=============================================================================
