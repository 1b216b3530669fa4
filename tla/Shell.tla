---------------------------------- MODULE Shell ----------------------------------
(***************************************************************************)
(* The shell's beacon, node, model, message and health commands            *)
(* (cmd_handler of src/src/cli.c), the mesh operations they perform with   *)
(* their retries (btmesh_perform_op of src/src/btmesh.c) and the removal   *)
(* of an application key that a node no longer needs                       *)
(* (btmesh_clean_node_key).                                                *)
(*                                                                         *)
(* A node's configuration is a set of facts <<attribute, place, value>>,   *)
(* the place being a model or, as <<>>, the node.  Requests and answers    *)
(* may be lost; a node that has been reset is silent.  Everything the      *)
(* commands only print is left out, and so are heartbeat intervals,        *)
(* transmit parameters and the other arguments that travel unchanged.      *)
(***************************************************************************)
EXTENDS ShellCommands, Numbers, FiniteSetsExt

CONSTANTS
    Line,          \* lines the user may type
    MaxLines,      \* bound: lines typed
    Node,          \* unicast addresses of nodes; a device has the name of the first it gets
    Composition,   \* the models of a node, in the order of its composition data
    U8Max, U16Max, \* UINT8_MAX, UINT16_MAX
    MinGroup,      \* 0xC000
    MaxPeriod,     \* 63
    MaxPayload,    \* MAX_PAYLOAD_LEN, in hexadecimal digits
    MeshRetryCount,\* MESH_RETRY_COUNT
    CdbSubnet,     \* subnets of the configuration database
    CdbAppKey,     \* its application keys
    MaxOther       \* bound: configurations by the gateway thread

PeriodKeys == <<"100ms", "1s", "10s", "10m">>

ASSUME RetryIsPos == MeshRetryCount \in Nat \ {0}
ASSUME NodesAreBounded == Node \subseteq Nat /\ \E n \in Node : \A m \in Node : n >= m
ASSUME CompositionIsSeq == Composition \in Seq(Nat \X Nat \X Nat) /\ Composition # <<>>
ASSUME WidthsAreOrdered ==
    /\ U8Max \in Nat /\ U16Max \in U8Max..ULongMax /\ ULongMax >= Len(PeriodKeys)
    /\ MaxPayload \in Nat /\ (MaxPayload + 1) \div 2 <= U16Max
ASSUME LinesAreTokens ==
    Line \subseteq [words : Seq(STRING), toks : Seq(({"num"} \X Int) \cup ({"word"} \X STRING))]
ASSUME BoundsAreNat == MaxLines \in Nat /\ MaxOther \in Nat

VARIABLES
    cmd,       \* cmd.cmd and cmd.arg_list
    args,      \* cmd.args
    line,      \* history: the line being executed
    lines,     \* number of lines typed
    pc,        \* where cmd_handler waits
    try,       \* i of btmesh_perform_op
    next,      \* btmesh_clean_node_key: position in the composition data
    err,       \* node reset: how the operation ended
    verdict,   \* what the user has been told of the last line
    conf,      \* configuration of each node
    alive,     \* nodes that are provisioned
    device,    \* the device (its UUID) that was last provisioned as each node
    known,     \* nodes of the configuration database
    flagged,   \* those with the flag BT_MESH_CDB_NODE_CONFIGURED
    listed,    \* devices whose UUID is in the beacon list
    slept,     \* node reset: nodes that were provisioned when its sleep began
    reused,    \* node reset: the record it has deleted is in use again
    others,    \* number of configurations by the gateway thread
    rebound    \* history: models bound by the gateway thread since a clean-up began

shellVars == <<cmd, args, line, lines, pc, try, next, err, verdict>>
nodeVars == <<conf, alive>>
cdbVars == <<known, flagged, device>>
resetVars == <<slept, reused>>
vars == <<shellVars, nodeVars, cdbVars, resetVars, listed, others, rebound>>

NoCommand == Row(<<>>, <<>>, "none", "none", "NONE")
NoLine == [words |-> <<>>, toks |-> <<>>]

ArgType == UNION {{c.args[j] : j \in 1..Len(c.args)} : c \in Commands}
Model == {Composition[i] : i \in 1..Len(Composition)}

-----------------------------------------------------------------------------
(* cmd_parse_args.  A token is a number <<"num", n>> or a word <<"word", w>>. *)
Width(t) ==
    CASE t \in {"TTL", "COUNT", "TEST_ID", "DIV", "ATTN", "PERIOD",
                "HB_PERIOD", "HB_COUNT", "HB_MIN", "HB_MAX"} -> U8Max
      [] t \in {"TIMEOUT", "OPCODE"} -> ULongMax
      [] OTHER -> U16Max

IsState(t) ==
    t \in {"STATE", "CRED_FLAG", "HB_RELAY_STATE", "HB_PROXY_STATE", "HB_FRIEND_STATE",
           "HB_LPN_STATE"}

(* The token is converted and stored in cmd.args. *)
Converts(t, tok) ==
    CASE IsState(t) -> tok \in {<<"word", "enable">>, <<"word", "disable">>,
                                <<"num", 0>>, <<"num", 1>>}
      [] t = "PERIOD_KEY" -> \E i \in 1..4 : tok = <<"word", PeriodKeys[i]>>
      [] t = "PAYLOAD" -> tok[1] = "num" /\ tok[2] \in 0..MaxPayload
      [] OTHER -> tok[1] = "num" /\ Accepts(tok[2], Width(t))

Converted(t, tok) ==
    CASE IsState(t) -> IF tok \in {<<"word", "enable">>, <<"num", 1>>} THEN 1 ELSE 0
      [] t = "PERIOD_KEY" -> CHOOSE i \in 1..4 : tok = <<"word", PeriodKeys[i]>>
      [] t = "PAYLOAD" -> (tok[2] + 1) \div 2
      [] OTHER -> Stored(tok[2], Width(t))

(* Two arguments have a range of their own, checked after they are stored. *)
InRange(t, v) == (t = "SUB_ADDR" => v >= MinGroup) /\ (t = "PERIOD" => v <= MaxPeriod)

(* argv[i + j], counted in tokens: what a line has for argument j of command c. *)
TokenFor(c, l, j) == ArgsFrom(c) + j - Len(l.words) + 1
Token(c, l, j) ==
    LET k == TokenFor(c, l, j) IN IF k < 1 THEN <<"word", "verb">> ELSE l.toks[k]

Missing(c, l, j) == TokenFor(c, l, j) > Len(l.toks)

Fits(c, l, j) ==
    IF Missing(c, l, j) THEN c.args[j] = "PAYLOAD"
    ELSE /\ Converts(c.args[j], Token(c, l, j))
         /\ InRange(c.args[j], Converted(c.args[j], Token(c, l, j)))

(* Mutation: an argument that does not fit is skipped. *)
Bug_ArgsOk(c, l) == \A j \in 1..Len(c.args) : ~Missing(c, l, j)

ArgsOk(c, l) == \A j \in 1..Len(c.args) : Fits(c, l, j)

(* The arguments stored by the time cmd_parse_args returns: those up to the first *)
(* that does not fit; all others keep the value of an earlier line.           *)
Reached(c, l) == {j \in 1..Len(c.args) : \A i \in 1..j - 1 : Fits(c, l, i)}

ArgsAfter(c, l) ==
    [t \in ArgType |->
        LET found == {j \in Reached(c, l) : c.args[j] = t}
            taken == {j \in found : ~Missing(c, l, j) /\ Converts(t, Token(c, l, j))}
        IN IF t = "PAYLOAD" /\ \E j \in found : Missing(c, l, j) THEN 0
           ELSE IF taken # {} THEN Converted(t, Token(c, l, CHOOSE j \in taken : TRUE))
           ELSE args[t]]

-----------------------------------------------------------------------------
(* The operation that the handler has in hand. *)
Has(c, t) == \E j \in 1..Len(c.args) : c.args[j] = t
LastWord(c) == c.words[Len(c.words)]

(* Which model a command's operation addresses.  A SIG model has company 0.     *)
(* `subscribe delete-vnd' passes the model identifier as the company, and      *)
(* `subscribe overwrite-vnd' performs the operation for SIG models.            *)
Company(c, a) ==
    CASE LastWord(c) = "delete-vnd" -> a["MODEL_ID"]
      [] LastWord(c) = "overwrite-vnd" -> 0
      [] OTHER -> IF Has(c, "CID") THEN a["CID"] ELSE 0

Place(c, a) ==
    IF Has(c, "ELEM_ADDR") THEN <<a["ELEM_ADDR"], a["MODEL_ID"], Company(c, a)>> ELSE <<>>

Op(verb, attr, place, val) == [verb |-> verb, attr |-> attr, place |-> place, val |-> val]

CommandOp(c, a) ==
    Op(CASE c.verb = "bind" -> "add" [] c.verb = "unbind" -> "del" [] OTHER -> c.verb,
       c.attr, Place(c, a), IF c.val = "NONE" THEN 0 ELSE a[c.val])

CurrentOp ==
    CASE pc = "get_keys" -> Op("get", "key", <<>>, 0)
      [] pc = "add_key" -> Op("add", "key", <<>>, args["APP_IDX"])
      [] pc = "comp" -> Op("get", "comp", <<>>, 0)
      [] pc = "visit" -> Op("get", "bound", Composition[next], 0)
      [] pc = "del_key" -> Op("del", "key", <<>>, args["APP_IDX"])
      [] OTHER -> CommandOp(cmd, args)

Addr == args["ADDR"]

-----------------------------------------------------------------------------
(* A node, as far as the operations go: what they do to its configuration, and *)
(* what it must and what it may refuse.                                     *)
Applied(o, c) ==
    CASE o.verb = "set" ->
            {f \in c : f[1] # o.attr \/ f[2] # o.place} \cup {<<o.attr, o.place, o.val>>}
      [] o.verb = "add" -> c \cup {<<o.attr, o.place, o.val>>}
      [] o.verb = "del" ->
            {f \in c : /\ f # <<o.attr, o.place, o.val>>
                       /\ ~(o.attr = "key" /\ f[1] = "bound" /\ f[3] = o.val)}
      [] o.verb = "reset" -> {}
      [] OTHER -> c

MustRefuse(o, c) ==
    \/ o.place # <<>> /\ o.place \notin Model
    \/ o.verb = "add" /\ o.attr = "bound" /\ <<"key", <<>>, o.val>> \notin c

(* A fault test is answered with the faults or not at all. *)
MayRefuse(o) == o.verb \in {"add", "set"} /\ o.attr # "fault_test"

Alive == Addr \in alive

(* The request has reached the node. *)
Reaches(o) ==
    /\ Alive
    /\ IF MustRefuse(o, conf[Addr]) THEN UNCHANGED nodeVars
       ELSE /\ conf' = [conf EXCEPT ![Addr] = Applied(o, @)]
            /\ alive' = IF o.verb = "reset" THEN alive \ {Addr} ELSE alive

(* An attempt ends with an error: the request or its answer is lost (-EAGAIN), or  *)
(* the stack refuses to send (another operation is under way).                *)
Lost(o) == UNCHANGED nodeVars \/ Reaches(o)

-----------------------------------------------------------------------------
TypeOK ==
    /\ cmd \in Commands \cup {NoCommand}
    /\ args \in [ArgType -> 0..ULongMax]
    /\ line \in Line \cup {NoLine}
    /\ lines \in 0..MaxLines
    /\ pc \in {"idle", "get_keys", "add_key", "act", "comp", "visit", "del_key", "asleep",
              "deleted"}
    /\ try \in 1..MeshRetryCount
    /\ next \in 1..Len(Composition)
    /\ err \in {"none", "timeout", "other"}
    /\ verdict \in {"none", "ok", "failed", "silent"}
    /\ DOMAIN conf = Node
    /\ alive \subseteq Node
    /\ device \in [Node -> Node]
    /\ known \subseteq Node
    /\ flagged \subseteq Node
    /\ listed \subseteq Node
    /\ slept \subseteq Node
    /\ reused \in BOOLEAN
    /\ others \in 0..MaxOther
    /\ rebound \subseteq Model

(* Some nodes are provisioned, the others beacon. *)
Init ==
    /\ cmd = NoCommand
    /\ args = [t \in ArgType |-> 0]
    /\ line = NoLine
    /\ lines = 0
    /\ pc = "idle"
    /\ try = 1
    /\ next = 1
    /\ err = "none"
    /\ verdict = "none"
    /\ conf = [n \in Node |-> {}]
    /\ alive \in {{Max(Node)}, Node}
    /\ device = [n \in Node |-> n]
    /\ known = alive
    /\ flagged = {}
    /\ listed = Node \ alive
    /\ slept = {}
    /\ reused = FALSE
    /\ others = 0
    /\ rebound = {}

-----------------------------------------------------------------------------
(* The line has a number of strings that the shell lets through, counted from    *)
(* the subcommand.                                                          *)
LetThrough(l) ==
    LET argc == Len(l.words) - 1 + Len(l.toks)
        range == Registered(l.words[1], l.words[2])
    IN argc \in range[1]..range[2]

(* Environment: what the user types next. *)
Types(l) ==
    /\ pc = "idle"
    /\ lines < MaxLines
    /\ lines' = lines + 1
    /\ line' = l

Ends(v) ==
    /\ pc' = "idle"
    /\ verdict' = v

(* The shell rejects the line, or cmd_parse_cmd returns an error. *)
LineRejected(l) ==
    /\ Types(l)
    /\ ~LetThrough(l) \/ (Named(l.words) = {} /\ ~KeepsCommand(l.words))
    /\ Ends("failed")
    /\ UNCHANGED <<cmd, args, try, next, err, nodeVars, cdbVars, resetVars, listed, others, rebound>>

(* cmd_parse_cmd chooses c: the command named, or the previous one. *)
Chooses(l, c) ==
    /\ LetThrough(l)
    /\ IF Named(l.words) # {} THEN c \in Named(l.words)
       ELSE KeepsCommand(l.words) /\ cmd # NoCommand /\ c = cmd

ArgsRejected(l, c) ==
    /\ Types(l)
    /\ Chooses(l, c)
    /\ ~ArgsOk(c, l)
    /\ cmd' = c
    /\ args' = ArgsAfter(c, l)
    /\ Ends("failed")
    /\ UNCHANGED <<try, next, err, nodeVars, cdbVars, resetVars, listed, others, rebound>>

(* What cmd_handler does before its first mesh operation.  Application key and   *)
(* subnet must be in the gateway's database.                                 *)
GatewayRefuses(c, a) ==
    \/ c.verb = "bind" /\ a["APP_IDX"] \notin CdbAppKey
    \/ c.verb = "add" /\ c.attr = "subnet" /\ a["NET_IDX"] \notin CdbSubnet
    \/ c.verb \in {"flag", "unflag"} /\ a["ADDR"] \notin known
    \/ c.verb = "send" /\ a["OPCODE"] = 0

(* Commands that send nothing to a node, or wait for no answer, and may fail. *)
MayFail == {<<"beacon", "block">>, <<"beacon", "unblock">>, <<"message", "subscribe">>,
            <<"message", "send">>}

Remote == {"get", "set", "add", "del", "bind", "unbind", "reset"}

Starts(l, c) ==
    /\ Types(l)
    /\ Chooses(l, c)
    /\ ArgsOk(c, l)
    /\ cmd' = c
    /\ args' = ArgsAfter(c, l)
    /\ try' = 1
    /\ IF GatewayRefuses(c, args') THEN Ends("failed") /\ UNCHANGED flagged
       ELSE \/ c.verb = "flag" /\ Ends("silent") /\ flagged' = flagged \cup {args'["ADDR"]}
            \/ c.verb = "unflag" /\ Ends("silent") /\ flagged' = flagged \ {args'["ADDR"]}
            \/ /\ c.verb \in Remote
               /\ pc' = IF c.verb = "bind" THEN "get_keys" ELSE "act"
               /\ verdict' = "none"
               /\ UNCHANGED flagged
            \/ /\ c.verb \in {"local", "send"}
               /\ Ends("ok") \/ (c.words \in MayFail /\ Ends("failed"))
               /\ UNCHANGED flagged
    /\ UNCHANGED <<next, err, nodeVars, known, device, resetVars, listed, others, rebound>>

EnterLine(l) ==
    \/ LineRejected(l)
    \/ \E c \in Named(l.words) \cup {cmd} : ArgsRejected(l, c) \/ Starts(l, c)

-----------------------------------------------------------------------------
Waits == pc \notin {"idle", "asleep", "deleted"}

(* Mutation: one attempt more than there may be. *)
Bug_Retry ==
    /\ Waits
    /\ try <= MeshRetryCount
    /\ Lost(CurrentOp)
    /\ try' = try + 1
    /\ UNCHANGED <<cmd, args, line, lines, pc, next, err, verdict, cdbVars, resetVars, listed, others, rebound>>

(* btmesh_perform_op: an operation that fails is tried again. *)
Retry ==
    /\ Waits
    /\ try < MeshRetryCount
    /\ Lost(CurrentOp)
    /\ try' = try + 1
    /\ UNCHANGED <<cmd, args, line, lines, pc, next, err, verdict, cdbVars, resetVars, listed, others, rebound>>

Resets == pc = "act" /\ cmd.verb = "reset"

(* Mutation: the loop only ends with an answer. *)
Bug_GiveUp ==
    /\ Waits
    /\ ~Resets
    /\ try = MeshRetryCount
    /\ Lost(CurrentOp)
    /\ try' = 1
    /\ UNCHANGED <<cmd, args, line, lines, pc, next, err, verdict, cdbVars, resetVars, listed, others, rebound>>

(* The last attempt has failed.  A clean-up that fails leaves the verdict on the  *)
(* unbinding as it is.                                                      *)
GiveUp ==
    /\ Waits
    /\ ~Resets
    /\ try = MeshRetryCount
    /\ Lost(CurrentOp)
    /\ Ends(IF pc \in {"comp", "visit", "del_key"} THEN verdict ELSE "failed")
    /\ UNCHANGED <<cmd, args, line, lines, try, next, err, cdbVars, resetVars, listed, others, rebound>>

(* An answer has come, and the operation's status says that it was refused. *)
Refused(o) ==
    /\ Alive
    /\ MustRefuse(o, conf[Addr]) \/ MayRefuse(o)
    /\ UNCHANGED nodeVars

Accepted(o) ==
    /\ Alive
    /\ ~MustRefuse(o, conf[Addr])
    /\ Reaches(o)

(* Mutation: cmd_err_handler takes subnet and model statuses for good. *)
Bug_StatusUnchecked(c) == c.verb # "bind"

(* The commands for which neither cmd_err_handler nor the command itself looks at  *)
(* the status, or at the value that the node has answered with.               *)
StatusUnchecked(c) ==
    \/ c.attr \in {"fault", "fault_test"}
    \/ c.verb = "get" /\ c.attr \in {"beacon", "ttl", "friend", "proxy", "relay", "subnet",
                                    "period", "attention"}

(* `subscribe get-vnd' fills mod_sub_get_vnd, but the status is read from mod_sub_get: *)
(* the low byte of the company is there.                                       *)
Misread(c) == c.verb = "get" /\ c.attr = "sub" /\ Has(c, "CID")

(* What the user is told of an answer. *)
Told(refused) ==
    LET bad == IF Misread(cmd) THEN args["CID"] % (U8Max + 1) # 0
               ELSE refused /\ ~StatusUnchecked(cmd)
    IN IF bad THEN "failed" ELSE "ok"

AnswerRefuses ==
    /\ pc \in {"get_keys", "add_key", "act"}
    /\ ~Resets
    /\ Refused(CurrentOp)
    /\ Ends(Told(TRUE))
    /\ UNCHANGED <<cmd, args, line, lines, try, next, err, cdbVars, resetVars, listed, others, rebound>>

(* Binding: the node's keys are known; the key is added unless it is there. *)
KeysKnown ==
    /\ pc = "get_keys"
    /\ Accepted(CurrentOp)
    /\ pc' = IF <<"key", <<>>, args["APP_IDX"]>> \in conf[Addr] THEN "act" ELSE "add_key"
    /\ try' = 1
    /\ UNCHANGED <<cmd, args, line, lines, next, err, verdict, cdbVars, resetVars, listed, others, rebound>>

KeyAdded ==
    /\ pc = "add_key"
    /\ Accepted(CurrentOp)
    /\ pc' = "act"
    /\ try' = 1
    /\ UNCHANGED <<cmd, args, line, lines, next, err, verdict, cdbVars, resetVars, listed, others, rebound>>

(* The operation of the command itself has succeeded. *)
Acted ==
    /\ pc = "act"
    /\ ~Resets
    /\ Accepted(CurrentOp)
    /\ verdict' = Told(FALSE)
    /\ pc' = IF cmd.verb = "unbind" THEN "comp" ELSE "idle"
    /\ rebound' = {}
    /\ try' = 1
    /\ UNCHANGED <<cmd, args, line, lines, next, err, cdbVars, resetVars, listed, others>>

-----------------------------------------------------------------------------
(* btmesh_clean_node_key: composition data, then every model's keys in turn. *)
CompKnown ==
    /\ pc = "comp"
    /\ Accepted(CurrentOp)
    /\ next' = 1
    /\ pc' = "visit"
    /\ try' = 1
    /\ UNCHANGED <<cmd, args, line, lines, err, verdict, cdbVars, resetVars, listed, others, rebound>>

UsesKey(m) == <<"bound", m, args["APP_IDX"]>> \in conf[Addr]

(* A model uses the key: it stays. *)
ModelUsesKey ==
    /\ pc = "visit"
    /\ Accepted(CurrentOp)
    /\ UsesKey(Composition[next])
    /\ Ends(verdict)
    /\ UNCHANGED <<cmd, args, line, lines, try, next, err, cdbVars, resetVars, listed, others, rebound>>

(* Mutation: the last model is not asked. *)
Bug_ModelWithoutKey ==
    /\ pc = "visit"
    /\ Accepted(CurrentOp)
    /\ ~UsesKey(Composition[next])
    /\ IF next + 1 < Len(Composition) THEN next' = next + 1 /\ pc' = pc
       ELSE next' = next /\ pc' = "del_key"
    /\ try' = 1
    /\ UNCHANGED <<cmd, args, line, lines, err, verdict, cdbVars, resetVars, listed, others, rebound>>

ModelWithoutKey ==
    /\ pc = "visit"
    /\ Accepted(CurrentOp)
    /\ ~UsesKey(Composition[next])
    /\ IF next < Len(Composition) THEN next' = next + 1 /\ pc' = pc
       ELSE next' = next /\ pc' = "del_key"
    /\ try' = 1
    /\ UNCHANGED <<cmd, args, line, lines, err, verdict, cdbVars, resetVars, listed, others, rebound>>

(* The status of the deletion is not looked at. *)
KeyCleaned ==
    /\ pc = "del_key"
    /\ Accepted(CurrentOp)
    /\ Ends(verdict)
    /\ UNCHANGED <<cmd, args, line, lines, try, next, err, cdbVars, resetVars, listed, others, rebound>>

-----------------------------------------------------------------------------
(* node reset: the operation has ended, with an answer, after the last attempt or *)
(* because nothing could be sent; the handler gets a pointer to the node's record *)
(* and sleeps for five seconds.                                             *)
ResetPerformed ==
    /\ Resets
    /\ \/ Reaches(CurrentOp) /\ err' = "none"
       \/ try = MeshRetryCount /\ Lost(CurrentOp) /\ err' \in {"timeout", "other"}
    /\ IF Addr \in known
       THEN pc' = "asleep" /\ slept' = alive' /\ UNCHANGED verdict
       ELSE Ends("failed") /\ UNCHANGED slept
    /\ UNCHANGED <<cmd, args, line, lines, try, next, cdbVars, reused, listed, others, rebound>>

(* An entry of the beacon list lives for six seconds and provisioning takes longer *)
(* than one: of the nodes that were provisioned when the sleep began, no entry  *)
(* from before is left.                                                     *)
SleptEnough == \A n \in slept : device[n] \notin listed

Wakes ==
    /\ pc = "asleep"
    /\ SleptEnough
    /\ slept' = {}

(* Mutation: the records of the device are looked up by its UUID. *)
Bug_ResetSeen ==
    /\ Wakes
    /\ device[Addr] \in listed
    /\ known' = {n \in known : device[n] # device[Addr]}
    /\ flagged' = flagged \cap known'
    /\ pc' = "deleted"
    /\ reused' = FALSE
    /\ UNCHANGED <<cmd, args, line, lines, try, next, err, verdict, nodeVars, device, listed, others,
                   rebound>>

(* The device of the record is in the beacon list: the record is deleted. *)
ResetSeen ==
    /\ Wakes
    /\ device[Addr] \in listed
    /\ known' = known \ {Addr}
    /\ flagged' = flagged \ {Addr}
    /\ pc' = "deleted"
    /\ reused' = FALSE
    /\ UNCHANGED <<cmd, args, line, lines, try, next, err, verdict, nodeVars, device, listed, others,
                   rebound>>

(* An error other than -EAGAIN, or the status, which the stack sets when it gets an *)
(* answer, is reported as a failure; -EAGAIN is not reported at all.            *)
ResetResult == IF err = "timeout" THEN "silent" ELSE "failed"

(* It is not. *)
ResetNotSeen ==
    /\ Wakes
    /\ device[Addr] \notin listed
    /\ Ends(ResetResult)
    /\ UNCHANGED <<cmd, args, line, lines, try, next, err, nodeVars, cdbVars, reused, listed, others,
                   rebound>>

(* Success has been printed and the deleted record is read once more: by now it may *)
(* be the record of another node, and then the result of the operation counts.  *)
ResetChecked ==
    /\ pc = "deleted"
    /\ Ends(IF reused THEN ResetResult ELSE "ok")
    /\ reused' = FALSE
    /\ UNCHANGED <<cmd, args, line, lines, try, next, err, nodeVars, cdbVars, slept, listed, others,
                   rebound>>

-----------------------------------------------------------------------------
(* Beacons of a device that is not provisioned are listed; entries expire. *)
Provisioned(d) == \E n \in alive : device[n] = d

Beacons(d) ==
    /\ d \notin listed /\ ~Provisioned(d)
    /\ listed' = listed \cup {d}
    /\ UNCHANGED <<shellVars, nodeVars, cdbVars, resetVars, others, rebound>>

Expires(d) ==
    /\ d \in listed /\ Provisioned(d)
    /\ listed' = listed \ {d}
    /\ UNCHANGED <<shellVars, nodeVars, cdbVars, resetVars, others, rebound>>

(* The gateway thread provisions a listed device as node n, for which the database  *)
(* has no record yet.  Its new record may be the one that node reset has deleted. *)
GatewayProvisions(d, n) ==
    /\ d \in listed /\ ~Provisioned(d)
    /\ n \notin known
    /\ others < MaxOther
    /\ others' = others + 1
    /\ alive' = alive \cup {n}
    /\ known' = known \cup {n}
    /\ device' = [device EXCEPT ![n] = d]
    /\ reused' \in IF pc = "deleted" THEN {reused, TRUE} ELSE {reused}
    /\ UNCHANGED <<shellVars, conf, flagged, slept, listed, rebound>>

(* The gateway thread's node_configure binds a key to a model, adding the key first *)
(* (codec_parse_node_cfg); the shell thread waits for an answer or is idle.      *)
GatewayBinds(n, m, k) ==
    /\ n \in alive
    /\ others < MaxOther
    /\ others' = others + 1
    /\ conf' = [conf EXCEPT ![n] = @ \cup {<<"key", <<>>, k>>, <<"bound", m, k>>}]
    /\ rebound' = IF n = Addr THEN rebound \cup {m} ELSE rebound
    /\ UNCHANGED <<shellVars, alive, cdbVars, resetVars, listed>>

Environment ==
    \/ \E d \in Node : Beacons(d) \/ Expires(d)
    \/ \E d \in Node, n \in Node : GatewayProvisions(d, n)
    \/ \E n \in Node, m \in Model, k \in CdbAppKey : GatewayBinds(n, m, k)

(* The steps of a command once its line has been accepted. *)
ShellStep ==
    \/ Retry \/ GiveUp \/ AnswerRefuses
    \/ KeysKnown \/ KeyAdded \/ Acted
    \/ CompKnown \/ ModelUsesKey \/ ModelWithoutKey \/ KeyCleaned
    \/ ResetPerformed \/ ResetSeen \/ ResetNotSeen \/ ResetChecked

Next == (\E l \in Line : EnterLine(l)) \/ ShellStep \/ Environment

Spec == Init /\ [][Next]_vars

(* Operations time out and the thread gets its turn; entries of devices that have *)
(* stopped beaconing expire.                                                *)
FairSpec ==
    /\ Spec
    /\ WF_vars(ShellStep)
    /\ \A d \in Node : WF_vars(Expires(d))

-----------------------------------------------------------------------------
(* What a line says.  The command that it names; the operation that the code makes of *)
(* this line alone, from its own tokens; and the one that the user has asked for,    *)
(* with the arguments in the order of the help texts, as the numbers that were typed. *)
Asked(l) == CHOOSE c \in Commands : c.words = l.words
Where(c, t) == {j \in 1..Len(c.args) : c.args[j] = t}
ArgsOf(c) == {c.args[j] : j \in 1..Len(c.args)} \ {"PAYLOAD"}

LineArgs(l) ==
    [t \in ArgsOf(Asked(l)) |->
        Converted(t, Token(Asked(l), l, CHOOSE j \in Where(Asked(l), t) : TRUE))]

LineOp(l) == CommandOp(Asked(l), LineArgs(l))

TypedNum(tok) == IF tok[1] = "num" THEN tok[2] ELSE IF tok = <<"word", "enable">> THEN 1 ELSE 0
Typed(l, t) == TypedNum(l.toks[CHOOSE j \in Where(Asked(l), t) : TRUE])

TypedPlace(l) ==
    IF Has(Asked(l), "ELEM_ADDR")
    THEN <<Typed(l, "ELEM_ADDR"), Typed(l, "MODEL_ID"),
           IF Has(Asked(l), "CID") THEN Typed(l, "CID") ELSE 0>>
    ELSE <<>>

TypedOp(l) ==
    Op(LineOp(l).verb, Asked(l).attr, TypedPlace(l),
       IF Asked(l).val = "NONE" THEN 0 ELSE Typed(l, Asked(l).val))

(* Two commands address another model than they are given (see Company). *)
Misdirected(l) == LastWord(l) \in {"delete-vnd", "overwrite-vnd"}

(* A number beyond the range of a signed long may pass for a small one. *)
TooLong(l) == \E j \in 1..Len(l.toks) : l.toks[j][1] = "num" /\ l.toks[j][2] \notin 0..LongMax

(* The heartbeat commands skip the first argument that is typed (see ArgsFrom): a line *)
(* is accepted when it has one more at the end, and all others are taken for the     *)
(* argument before.                                                         *)
Shifted(l) == Asked(l) \in HeartbeatCommands /\ Len(l.toks) > Len(Asked(l).args)

Recognised(l) == Named(l.words) # {}

(* The lines of which the code makes what the user has asked for. *)
Clear(l) == ~Misdirected(l) /\ ~TooLong(l) /\ ~Shifted(l)

(* ActsAsTyped: until a recognised line is done, the command in hand is the one that it *)
(* names, and every argument is what the code makes of this line's own token: none is *)
(* left over from before, although all of them pass through the static cmd that      *)
(* keeps the arguments of earlier lines and of lines rejected half way.  So it is for *)
(* lines that the code reads wrongly, too; for all others, node, operation, model    *)
(* and value are those that were typed.                                          *)
ActsAsTyped ==
    pc # "idle" /\ Recognised(line) =>
        /\ cmd = Asked(line)
        /\ \A t \in ArgsOf(cmd) : args[t] = LineArgs(line)[t]
        /\ Clear(line) =>
             Addr = Typed(line, "ADDR") /\ CommandOp(cmd, args) = TypedOp(line)

(* UnrecognisedDoesNothing: a line that is answered with "Unrecognized command: "  *)
(* has no effect on any node.                                               *)
UnrecognisedDoesNothing == pc # "idle" => Named(line.words) # {}

(* SuccessMeansDone: when the user is told that a setting, an addition or a deletion *)
(* was successful, then the node of this very line is configured as the operation    *)
(* that the code makes of the line says, however many requests and answers were lost, *)
(* repeated or refused on the way; and unless the line is one that the code reads      *)
(* wrongly, it is configured as the line asks.                                     *)
Done(o, c) ==
    LET fact == <<o.attr, o.place, o.val>> IN
    /\ o.verb \in {"set", "add"} => fact \in c
    /\ o.verb = "del" => fact \notin c

SuccessMeansDone ==
    [][pc = "act" /\ pc' # "act" /\ verdict' = "ok" /\ Recognised(line) =>
        /\ Done(LineOp(line), conf'[LineArgs(line)["ADDR"]])
        /\ Clear(line) => Done(TypedOp(line), conf'[Typed(line, "ADDR")])]_vars

(* CleanUpKeepsUsed: the key that a clean-up deletes from a node is used by none of its *)
(* models, but for those that the gateway thread has bound since the clean-up    *)
(* began.                                                                   *)
CleanUpKeepsUsed ==
    [][pc = "del_key" => \A m \in Model : UsesKey(m) /\ ~UsesKey(m)' => m \in rebound]_vars

(* ProvisionedIsKnown: every provisioned node has its record, without which its device *)
(* key is lost.  So node reset deletes only the record of a node that really was     *)
(* reset, and the record it has found before its sleep is still that node's, even if  *)
(* the device has been provisioned as another node meanwhile.                     *)
ProvisionedIsKnown == alive \subseteq known

(* LineEnds: every command ends, whatever the mesh loses. *)
LineEnds == pc # "idle" ~> pc = "idle"

=============================================================================
