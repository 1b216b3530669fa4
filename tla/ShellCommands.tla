------------------------------ MODULE ShellCommands ------------------------------
(***************************************************************************)
(* The table behind cmd_handler (src/src/cli.c): which words name a        *)
(* command, which arguments it takes and in which order, how many of them  *)
(* the shell lets through, and which mesh operation the command performs.  *)
(*                                                                         *)
(* The configuration is that of prj.conf: SIG and vendor models, messages, *)
(* health client and heartbeats are compiled in.                           *)
(***************************************************************************)
EXTENDS Sequences, FiniteSets, Integers

(* A command: its words from the root on, its arg_list, and what its case of  *)
(* cmd_handler does, as a verb on an attribute of the node.  val is the       *)
(* argument that the attribute is set to.                                   *)
Row(w, a, v, attr, val) ==
    [words |-> w, args |-> a, verb |-> v, attr |-> attr, val |-> val]

FeatureCommands ==
    LET Get(f) == Row(<<"node", f, "get">>, <<"ADDR">>, "get", f, "NONE")
        Set(f) == Row(<<"node", f, "set">>, <<"ADDR", "STATE">>, "set", f, "STATE")
    IN {Get(f) : f \in {"beacon", "ttl", "friend", "proxy", "relay"}}
       \cup {Set(f) : f \in {"beacon", "friend", "proxy"}}
       \cup {Row(<<"node", "ttl", "set">>, <<"ADDR", "TTL">>, "set", "ttl", "TTL"),
             Row(<<"node", "relay", "set">>, <<"ADDR", "STATE", "COUNT", "INTERVAL">>,
                 "set", "relay", "STATE")}

HeartbeatCommands ==
    {Row(<<"node", "hb-sub-set">>,
         <<"ADDR", "HB_SRC", "HB_DST", "HB_PERIOD", "HB_COUNT", "HB_MIN", "HB_MAX">>,
         "set", "hb_sub", "HB_DST"),
     Row(<<"node", "hb-pub-set">>,
         <<"NET_IDX", "ADDR", "HB_DST", "HB_COUNT", "HB_PERIOD", "TTL", "HB_RELAY_STATE",
           "HB_PROXY_STATE", "HB_FRIEND_STATE", "HB_LPN_STATE">>,
         "set", "hb_pub", "HB_DST")}

BeaconCommands ==
    {Row(<<"beacon", "list">>, <<>>, "local", "beacons", "NONE"),
     Row(<<"beacon", "block">>, <<"UUID">>, "local", "beacons", "UUID"),
     Row(<<"beacon", "unblock">>, <<"UUID">>, "local", "beacons", "UUID")}

NodeCommands ==
    {Row(<<"node", "list">>, <<>>, "local", "nodes", "NONE"),
     Row(<<"node", "reset">>, <<"ADDR">>, "reset", "all", "NONE"),
     Row(<<"node", "discover">>, <<"ADDR">>, "get", "all", "NONE"),
     Row(<<"node", "comp">>, <<"ADDR">>, "get", "comp", "NONE"),
     Row(<<"node", "subnet", "add">>, <<"ADDR", "NET_IDX">>, "add", "subnet", "NET_IDX"),
     Row(<<"node", "subnet", "get">>, <<"ADDR">>, "get", "subnet", "NONE"),
     Row(<<"node", "subnet", "delete">>, <<"ADDR", "NET_IDX">>, "del", "subnet", "NET_IDX"),
     Row(<<"node", "configured", "set">>, <<"ADDR">>, "flag", "configured", "NONE"),
     Row(<<"node", "configured", "unset">>, <<"ADDR">>, "unflag", "configured", "NONE")}

(* The commands on models, by their last words and the argument that names a   *)
(* vendor model's company.                                                   *)
ModelCommandsOf(w, cid) ==
    LET model == <<"ELEM_ADDR", "MODEL_ID">> \o cid
        key == <<"ADDR", "APP_IDX">> \o model
        sub == <<"ADDR">> \o model \o <<"SUB_ADDR">>
    IN {Row(<<"model", "appkey", w.bind>>, key, "bind", "bound", "APP_IDX"),
        Row(<<"model", "appkey", w.unbind>>, key, "unbind", "bound", "APP_IDX"),
        Row(<<"model", "appkey", w.get>>, <<"ADDR">> \o model, "get", "bound", "NONE"),
        Row(<<"model", "publish", w.get>>, <<"ADDR">> \o model, "get", "pub", "NONE"),
        Row(<<"model", "publish", w.set>>,
            <<"ADDR">> \o model \o <<"PUB_ADDR", "PUB_APP_IDX", "CRED_FLAG", "TTL",
                                     "PERIOD_KEY", "PERIOD", "COUNT", "INTERVAL">>,
            "set", "pub", "PUB_ADDR"),
        Row(<<"model", "subscribe", w.add>>, sub, "add", "sub", "SUB_ADDR"),
        Row(<<"model", "subscribe", w.delete>>, sub, "del", "sub", "SUB_ADDR"),
        Row(<<"model", "subscribe", w.overwrite>>, sub, "set", "sub", "SUB_ADDR"),
        Row(<<"model", "subscribe", w.get>>, <<"ADDR">> \o model, "get", "sub", "NONE")}

SigModelCommands ==
    ModelCommandsOf([bind |-> "bind", unbind |-> "unbind", get |-> "get", set |-> "set",
                     add |-> "add", delete |-> "delete", overwrite |-> "overwrite"], <<>>)

VendorModelCommands ==
    ModelCommandsOf([bind |-> "bind-vnd", unbind |-> "unbind-vnd", get |-> "get-vnd",
                     set |-> "set-vnd", add |-> "add-vnd", delete |-> "delete-vnd",
                     overwrite |-> "overwrite-vnd"], <<"CID">>)

MessageCommands ==
    {Row(<<"message", "subscribe">>, <<"ADDR">>, "local", "subscriptions", "ADDR"),
     Row(<<"message", "unsubscribe">>, <<"ADDR">>, "local", "subscriptions", "ADDR"),
     Row(<<"message", "send">>, <<"NET_IDX", "APP_IDX", "ADDR", "OPCODE", "PAYLOAD">>,
         "send", "message", "OPCODE")}

HealthCommands ==
    LET client == <<"ADDR", "APP_IDX">> IN
    {Row(<<"health", "fault", "get">>, client \o <<"CID">>, "get", "fault", "NONE"),
     Row(<<"health", "fault", "clear">>, client \o <<"CID">>, "set", "fault_cleared", "CID"),
     Row(<<"health", "fault", "test">>, client \o <<"CID", "TEST_ID">>, "set", "fault_test", "TEST_ID"),
     Row(<<"health", "period", "get">>, client, "get", "period", "NONE"),
     Row(<<"health", "period", "set">>, client \o <<"DIV">>, "set", "period", "DIV"),
     Row(<<"health", "attention", "get">>, client, "get", "attention", "NONE"),
     Row(<<"health", "attention", "set">>, client \o <<"ATTN">>, "set", "attention", "ATTN"),
     Row(<<"health", "timeout", "get">>, <<>>, "local", "timeout", "NONE"),
     Row(<<"health", "timeout", "set">>, <<"TIMEOUT">>, "local", "timeout", "TIMEOUT")}

Commands ==
    BeaconCommands \cup NodeCommands \cup FeatureCommands \cup HeartbeatCommands
        \cup SigModelCommands \cup VendorModelCommands \cup MessageCommands \cup HealthCommands

-----------------------------------------------------------------------------
(* SHELL_CMD_ARG: the fewest and the most strings that the shell hands to      *)
(* cmd_handler for a root command and its subcommand, the latter included.   *)
Registered(root, sub) ==
    CASE root = "beacon" -> IF sub = "list" THEN <<1, 1>> ELSE <<2, 2>>
      [] root = "node" /\ sub = "list" -> <<1, 1>>
      [] root = "node" /\ sub \in {"reset", "discover", "comp"} -> <<2, 2>>
      [] root = "node" /\ sub \in {"beacon", "ttl", "friend", "proxy", "subnet"} -> <<3, 4>>
      [] root = "node" /\ sub = "relay" -> <<3, 6>>
      [] root = "node" /\ sub = "hb-sub-set" -> <<3, 12>>
      [] root = "node" /\ sub = "hb-pub-set" -> <<3, 8>>
      [] root = "node" /\ sub = "configured" -> <<3, 3>>
      [] root = "model" -> IF sub = "publish" THEN <<5, 14>> ELSE <<5, 7>>
      [] root = "message" -> IF sub = "send" THEN <<5, 6>> ELSE <<2, 2>>
      [] root = "health" /\ sub = "fault" -> <<5, 6>>
      [] root = "health" /\ sub = "timeout" -> <<2, 3>>
      [] OTHER -> <<4, 5>>

(* Where cmd_parse_args looks for the first argument, counted from the        *)
(* subcommand.  The heartbeat commands have no third word, but are looked at *)
(* as if they had.                                                         *)
ArgsFrom(c) ==
    IF c.words[1] \in {"beacon", "message"}
       \/ c.words[2] \in {"list", "reset", "discover", "comp"}
    THEN 1 ELSE 2

(* cmd_parse_cmd, as far as it recognises the words. *)
Named(words) == {c \in Commands : c.words = words}

(* Its branches for a wrong last word that print the message for unrecognised  *)
(* commands but return no error: cmd is left as the previous line has set it. *)
KeepsCommand(words) ==
    /\ Len(words) = 3
    /\ <<words[1], words[2]>> \in
        {<<"node", "configured">>, <<"model", "publish">>, <<"model", "subscribe">>}

=============================================================================
