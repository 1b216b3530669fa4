------------------------------- MODULE ShellProofs -------------------------------
(***************************************************************************)
(* Proofs about Shell, for any nodes, lines, widths of numbers, attempts   *)
(* and configurations by the gateway thread: what the table of commands    *)
(* has in common; that the static cmd keeps its types; that the operation  *)
(* performed is the one typed and a success reported is a success; that    *)
(* the clean-up of a key leaves a key that is in use alone.                *)
(***************************************************************************)
EXTENDS Shell, SequenceTheorems, TLAPS

(* What holds of every row of the table of commands. *)
In(s, x) == \E j \in 1..Len(s) : s[j] = x

(* The arguments that a remote command sets its attribute to. *)
ValArg ==
    {"STATE", "TTL", "HB_DST", "NET_IDX", "APP_IDX", "PUB_ADDR", "SUB_ADDR", "CID", "TEST_ID",
     "DIV", "ATTN"}

Regular(c) ==
    /\ Len(c.args) \in Nat
    /\ c.verb \in Remote \cup {"flag", "unflag", "local", "send"}
    /\ c.verb \in Remote => In(c.args, "ADDR")
    /\ c.verb \in {"get", "reset"} => c.val = "NONE"
    /\ c.verb \in Remote \ {"get", "reset"} => c.val \in ValArg /\ In(c.args, c.val)
    /\ In(c.args, "ELEM_ADDR") => In(c.args, "MODEL_ID")
    /\ c.attr = "fault" => c.verb = "get"
    /\ c.attr = "fault_test" => ~In(c.args, "ELEM_ADDR")

LEMMA InTuple ==
    /\ \A x : ~In(<<>>, x)
    /\ \A a, x : In(<<a>>, x) <=> x = a
    /\ \A a, b, x : In(<<a, b>>, x) <=> x = a \/ x = b
<1>1. \A x : ~In(<<>>, x)
  BY DEF In
<1>2. \A a, x : In(<<a>>, x) <=> x = a
  BY DEF In
<1>3. \A a, b, x : In(<<a, b>>, x) <=> x = a \/ x = b
  BY DEF In
<1> QED
  BY <1>1, <1>2, <1>3

LEMMA InTuple4 ==
    ASSUME NEW a, NEW b, NEW c, NEW d, NEW x
    PROVE  In(<<a, b, c, d>>, x) <=> x = a \/ x = b \/ x = c \/ x = d
BY DEF In

LEMMA InTuple5 ==
    ASSUME NEW a, NEW b, NEW c, NEW d, NEW e, NEW x
    PROVE  In(<<a, b, c, d, e>>, x) <=> x = a \/ x = b \/ x = c \/ x = d \/ x = e
BY DEF In

LEMMA InTuple7 ==
    ASSUME NEW a, NEW b, NEW c, NEW d, NEW e, NEW f, NEW g, NEW x
    PROVE  In(<<a, b, c, d, e, f, g>>, x) <=>
               x = a \/ x = b \/ x = c \/ x = d \/ x = e \/ x = f \/ x = g
BY DEF In

LEMMA InTuple10 ==
    ASSUME NEW a, NEW b, NEW c, NEW d, NEW e, NEW f, NEW g, NEW h, NEW i, NEW j, NEW x
    PROVE  In(<<a, b, c, d, e, f, g, h, i, j>>, x) <=>
               \/ x = a \/ x = b \/ x = c \/ x = d \/ x = e
               \/ x = f \/ x = g \/ x = h \/ x = i \/ x = j
BY DEF In

LEMMA BeaconRegular ==
    ASSUME NEW c \in BeaconCommands
    PROVE  /\ Regular(c)
           /\ Len(c.words) = 2 /\ c.words[1] = "beacon"
           /\ ArgsFrom(c) = Len(c.words) - 1
<1>1. Len(c.words) = 2 /\ c.words[1] = "beacon"
  BY DEF BeaconCommands, Row
<1>2. ArgsFrom(c) = Len(c.words) - 1
  <2>1. ArgsFrom(c) = 1
    BY <1>1 DEF ArgsFrom
  <2> QED
    BY <1>1, <2>1
<1>3. Len(c.args) \in Nat
  BY DEF BeaconCommands, Row
<1>4. c.verb \in Remote \cup {"flag", "unflag", "local", "send"}
  BY DEF BeaconCommands, Row, Remote
<1>5. c.verb \in Remote => In(c.args, "ADDR")
  BY InTuple DEF BeaconCommands, Row, Remote
<1>6. c.verb \in {"get", "reset"} => c.val = "NONE"
  BY DEF BeaconCommands, Row
<1>7. c.verb \in Remote \ {"get", "reset"} => c.val \in ValArg /\ In(c.args, c.val)
  BY InTuple DEF BeaconCommands, Row, Remote, ValArg
<1>8. ~In(c.args, "ELEM_ADDR")
  BY InTuple DEF BeaconCommands, Row
<1>9. c.attr \notin {"fault", "fault_test"}
  BY DEF BeaconCommands, Row
<1> QED
  BY <1>1, <1>2, <1>3, <1>4, <1>5, <1>6, <1>7, <1>8, <1>9 DEF Regular

LEMMA BeaconUnique == \A c, d \in BeaconCommands : c.words = d.words => c = d
BY DEF BeaconCommands, Row

LEMMA FeatureRegular ==
    ASSUME NEW c \in FeatureCommands
    PROVE  /\ Regular(c)
           /\ /\ Len(c.words) = 3 /\ c.words[1] = "node"
              /\ c.words[2] \in {"beacon", "ttl", "friend", "proxy", "relay"}
           /\ ArgsFrom(c) = Len(c.words) - 1
<1>1. /\ Len(c.words) = 3 /\ c.words[1] = "node"
              /\ c.words[2] \in {"beacon", "ttl", "friend", "proxy", "relay"}
  BY DEF FeatureCommands, Row
<1>2. ArgsFrom(c) = Len(c.words) - 1
  <2>1. ArgsFrom(c) = 2
    BY <1>1 DEF ArgsFrom
  <2> QED
    BY <1>1, <2>1
<1>3. Len(c.args) \in Nat
  BY DEF FeatureCommands, Row
<1>4. c.verb \in Remote \cup {"flag", "unflag", "local", "send"}
  BY DEF FeatureCommands, Row, Remote
<1>5. c.verb \in Remote => In(c.args, "ADDR")
  BY InTuple, InTuple4 DEF FeatureCommands, Row, Remote
<1>6. c.verb \in {"get", "reset"} => c.val = "NONE"
  BY DEF FeatureCommands, Row
<1>7. c.verb \in Remote \ {"get", "reset"} => c.val \in ValArg /\ In(c.args, c.val)
  BY InTuple, InTuple4 DEF FeatureCommands, Row, Remote, ValArg
<1>8. ~In(c.args, "ELEM_ADDR")
  BY InTuple, InTuple4 DEF FeatureCommands, Row
<1>9. c.attr \notin {"fault", "fault_test"}
  BY DEF FeatureCommands, Row
<1> QED
  BY <1>1, <1>2, <1>3, <1>4, <1>5, <1>6, <1>7, <1>8, <1>9 DEF Regular

LEMMA FeatureUnique == \A c, d \in FeatureCommands : c.words = d.words => c = d
BY DEF FeatureCommands, Row

LEMMA HeartbeatRegular ==
    ASSUME NEW c \in HeartbeatCommands
    PROVE  /\ Regular(c)
           /\ /\ Len(c.words) = 2 /\ c.words[1] = "node"
              /\ c.words[2] \in {"hb-sub-set", "hb-pub-set"}
           /\ ArgsFrom(c) = Len(c.words)
<1>1. /\ Len(c.words) = 2 /\ c.words[1] = "node"
              /\ c.words[2] \in {"hb-sub-set", "hb-pub-set"}
  BY DEF HeartbeatCommands, Row
<1>2. ArgsFrom(c) = Len(c.words)
  <2>1. ArgsFrom(c) = 2
    BY <1>1 DEF ArgsFrom
  <2> QED
    BY <1>1, <2>1
<1>3. Len(c.args) \in Nat
  BY DEF HeartbeatCommands, Row
<1>4. c.verb \in Remote \cup {"flag", "unflag", "local", "send"}
  BY DEF HeartbeatCommands, Row, Remote
<1>5. c.verb \in Remote => In(c.args, "ADDR")
  BY InTuple7, InTuple10 DEF HeartbeatCommands, Row, Remote
<1>6. c.verb \in {"get", "reset"} => c.val = "NONE"
  BY DEF HeartbeatCommands, Row
<1>7. c.verb \in Remote \ {"get", "reset"} => c.val \in ValArg /\ In(c.args, c.val)
  BY InTuple7, InTuple10 DEF HeartbeatCommands, Row, Remote, ValArg
<1>8. ~In(c.args, "ELEM_ADDR")
  BY InTuple7, InTuple10 DEF HeartbeatCommands, Row
<1>9. c.attr \notin {"fault", "fault_test"}
  BY DEF HeartbeatCommands, Row
<1> QED
  BY <1>1, <1>2, <1>3, <1>4, <1>5, <1>6, <1>7, <1>8, <1>9 DEF Regular

LEMMA HeartbeatUnique == \A c, d \in HeartbeatCommands : c.words = d.words => c = d
BY DEF HeartbeatCommands, Row

LEMMA NodeRegular ==
    ASSUME NEW c \in NodeCommands
    PROVE  /\ Regular(c)
           /\ /\ c.words[1] = "node"
              /\ \/ Len(c.words) = 2 /\ c.words[2] \in {"list", "reset", "discover", "comp"}
                 \/ Len(c.words) = 3 /\ c.words[2] \in {"subnet", "configured"}
           /\ ArgsFrom(c) = Len(c.words) - 1
<1>1. /\ c.words[1] = "node"
              /\ \/ Len(c.words) = 2 /\ c.words[2] \in {"list", "reset", "discover", "comp"}
                 \/ Len(c.words) = 3 /\ c.words[2] \in {"subnet", "configured"}
  BY DEF NodeCommands, Row
<1>2. ArgsFrom(c) = Len(c.words) - 1
  <2>1. CASE Len(c.words) = 2
    BY <1>1, <2>1 DEF ArgsFrom
  <2>2. CASE Len(c.words) = 3
    <3>1. ArgsFrom(c) = 2
      BY <1>1, <2>2 DEF ArgsFrom
    <3> QED
      BY <2>2, <3>1
  <2> QED
    BY <1>1, <2>1, <2>2
<1>3. Len(c.args) \in Nat
  BY DEF NodeCommands, Row
<1>4. c.verb \in Remote \cup {"flag", "unflag", "local", "send"}
  BY DEF NodeCommands, Row, Remote
<1>5. c.verb \in Remote => In(c.args, "ADDR")
  BY InTuple DEF NodeCommands, Row, Remote
<1>6. c.verb \in {"get", "reset"} => c.val = "NONE"
  BY DEF NodeCommands, Row
<1>7. c.verb \in Remote \ {"get", "reset"} => c.val \in ValArg /\ In(c.args, c.val)
  BY InTuple DEF NodeCommands, Row, Remote, ValArg
<1>8. ~In(c.args, "ELEM_ADDR")
  BY InTuple DEF NodeCommands, Row
<1>9. c.attr \notin {"fault", "fault_test"}
  BY DEF NodeCommands, Row
<1> QED
  BY <1>1, <1>2, <1>3, <1>4, <1>5, <1>6, <1>7, <1>8, <1>9 DEF Regular

LEMMA NodeUnique == \A c, d \in NodeCommands : c.words = d.words => c = d
BY DEF NodeCommands, Row

LEMMA MessageRegular ==
    ASSUME NEW c \in MessageCommands
    PROVE  /\ Regular(c)
           /\ Len(c.words) = 2 /\ c.words[1] = "message"
           /\ ArgsFrom(c) = Len(c.words) - 1
<1>1. Len(c.words) = 2 /\ c.words[1] = "message"
  BY DEF MessageCommands, Row
<1>2. ArgsFrom(c) = Len(c.words) - 1
  <2>1. ArgsFrom(c) = 1
    BY <1>1 DEF ArgsFrom
  <2> QED
    BY <1>1, <2>1
<1>3. Len(c.args) \in Nat
  BY DEF MessageCommands, Row
<1>4. c.verb \in Remote \cup {"flag", "unflag", "local", "send"}
  BY DEF MessageCommands, Row, Remote
<1>5. c.verb \in Remote => In(c.args, "ADDR")
  BY InTuple, InTuple5 DEF MessageCommands, Row, Remote
<1>6. c.verb \in {"get", "reset"} => c.val = "NONE"
  BY DEF MessageCommands, Row
<1>7. c.verb \in Remote \ {"get", "reset"} => c.val \in ValArg /\ In(c.args, c.val)
  BY InTuple, InTuple5 DEF MessageCommands, Row, Remote, ValArg
<1>8. ~In(c.args, "ELEM_ADDR")
  BY InTuple, InTuple5 DEF MessageCommands, Row
<1>9. c.attr \notin {"fault", "fault_test"}
  BY DEF MessageCommands, Row
<1> QED
  BY <1>1, <1>2, <1>3, <1>4, <1>5, <1>6, <1>7, <1>8, <1>9 DEF Regular

LEMMA MessageUnique == \A c, d \in MessageCommands : c.words = d.words => c = d
BY DEF MessageCommands, Row

LEMMA InConcat ==
    ASSUME NEW S, NEW s \in Seq(S), NEW t \in Seq(S)
    PROVE  /\ s \o t \in Seq(S) /\ Len(s \o t) \in Nat
           /\ \A x : In(s \o t, x) <=> In(s, x) \/ In(t, x)
<1>1. /\ s \o t \in Seq(S) /\ Len(s \o t) = Len(s) + Len(t)
      /\ Len(s) \in Nat /\ Len(t) \in Nat
      /\ \A j \in 1..Len(s) + Len(t) : (s \o t)[j] = IF j <= Len(s) THEN s[j] ELSE t[j - Len(s)]
  BY ConcatProperties
<1>2. ASSUME NEW x, NEW j \in 1..Len(s \o t), (s \o t)[j] = x PROVE In(s, x) \/ In(t, x)
  <2>1. CASE j <= Len(s)
    BY <1>1, <1>2, <2>1 DEF In
  <2>2. CASE ~(j <= Len(s))
    <3>1. j - Len(s) \in 1..Len(t) /\ t[j - Len(s)] = x
      BY <1>1, <1>2, <2>2
    <3> QED
      BY <3>1 DEF In
  <2> QED
    BY <2>1, <2>2
<1>3. ASSUME NEW x, NEW j \in 1..Len(s), s[j] = x PROVE In(s \o t, x)
  <2>1. j \in 1..Len(s \o t) /\ (s \o t)[j] = x
    BY <1>1, <1>3
  <2> QED
    BY <2>1 DEF In
<1>4. ASSUME NEW x, NEW j \in 1..Len(t), t[j] = x PROVE In(s \o t, x)
  <2>1. j + Len(s) \in 1..Len(s \o t) /\ (s \o t)[j + Len(s)] = x
    BY <1>1, <1>4
  <2> QED
    BY <2>1 DEF In
<1>5. ASSUME NEW x PROVE In(s \o t, x) <=> In(s, x) \/ In(t, x)
  <2>1. In(s \o t, x) => In(s, x) \/ In(t, x)
    BY <1>2 DEF In
  <2>2. In(s, x) => In(s \o t, x)
    BY <1>3 DEF In
  <2>3. In(t, x) => In(s \o t, x)
    BY <1>4 DEF In
  <2> QED
    BY <2>1, <2>2, <2>3
<1> QED
  BY <1>1, <1>5

LEMMA HealthRegular ==
    ASSUME NEW c \in HealthCommands
    PROVE  /\ Regular(c)
           /\ Len(c.words) = 3 /\ c.words[1] = "health"
           /\ ArgsFrom(c) = Len(c.words) - 1
<1> DEFINE client == <<"ADDR", "APP_IDX">>
           S == {"ADDR", "APP_IDX", "CID", "TEST_ID", "DIV", "ATTN"}
<1>1. /\ Len(c.words) = 3 /\ c.words[1] = "health"
      /\ c.words[2] \in {"fault", "period", "attention", "timeout"}
  BY DEF HealthCommands, Row
<1>2. ArgsFrom(c) = Len(c.words) - 1
  <2>1. ArgsFrom(c) = 2
    BY <1>1 DEF ArgsFrom
  <2> QED
    BY <1>1, <2>1
<1>3. /\ client \in Seq(S) /\ <<"CID">> \in Seq(S) /\ <<"CID", "TEST_ID">> \in Seq(S)
      /\ <<"DIV">> \in Seq(S) /\ <<"ATTN">> \in Seq(S)
  OBVIOUS
<1>4. \A x : In(client, x) <=> x = "ADDR" \/ x = "APP_IDX"
  BY InTuple
<1>a. \A t \in Seq(S) :
        /\ Len(client \o t) \in Nat
        /\ \A x : In(client \o t, x) <=> x = "ADDR" \/ x = "APP_IDX" \/ In(t, x)
  <2> HIDE DEF client, S
  <2> QED
    BY <1>3, <1>4, InConcat
<1>b. \/ c.args = client
      \/ \E t \in {<<"CID">>, <<"CID", "TEST_ID">>, <<"DIV">>, <<"ATTN">>} : c.args = client \o t
      \/ c.args \in {<<>>, <<"TIMEOUT">>} /\ c.verb = "local"
  BY DEF HealthCommands, Row
<1>c. c.verb = "set" =>
        \/ c.args = client \o <<"CID">> /\ c.val = "CID"
        \/ c.args = client \o <<"CID", "TEST_ID">> /\ c.val = "TEST_ID"
        \/ c.args = client \o <<"DIV">> /\ c.val = "DIV"
        \/ c.args = client \o <<"ATTN">> /\ c.val = "ATTN"
  BY DEF HealthCommands, Row
<1>d. Len(client) \in Nat /\ Len(<<"TIMEOUT">>) \in Nat /\ Len(<<>>) \in Nat
  OBVIOUS
<1>e. /\ In(<<"CID">>, "CID") /\ In(<<"CID", "TEST_ID">>, "TEST_ID")
      /\ In(<<"DIV">>, "DIV") /\ In(<<"ATTN">>, "ATTN")
      /\ ~In(<<"CID">>, "ELEM_ADDR") /\ ~In(<<"CID", "TEST_ID">>, "ELEM_ADDR")
      /\ ~In(<<"DIV">>, "ELEM_ADDR") /\ ~In(<<"ATTN">>, "ELEM_ADDR")
      /\ ~In(<<>>, "ELEM_ADDR") /\ ~In(<<"TIMEOUT">>, "ELEM_ADDR")
  BY InTuple
<1> HIDE DEF client, S
<1>5. Len(c.args) \in Nat
  BY <1>3, <1>a, <1>b, <1>d
<1>6. c.verb \in {"get", "set", "local"}
  BY DEF HealthCommands, Row
<1>7. c.verb \in Remote => In(c.args, "ADDR")
  BY <1>3, <1>4, <1>a, <1>b DEF Remote
<1>8. c.verb \in {"get", "reset"} => c.val = "NONE"
  BY DEF HealthCommands, Row
<1>9. c.verb = "set" => c.val \in ValArg /\ In(c.args, c.val)
  <2>1. /\ In(client \o <<"CID">>, "CID") /\ In(client \o <<"CID", "TEST_ID">>, "TEST_ID")
        /\ In(client \o <<"DIV">>, "DIV") /\ In(client \o <<"ATTN">>, "ATTN")
    BY <1>3, <1>a, <1>e
  <2> QED
    BY <1>c, <2>1 DEF ValArg
<1>10. ~In(c.args, "ELEM_ADDR")
  <2>1. ~In(client, "ELEM_ADDR")
    BY <1>4
  <2>2. /\ ~In(client \o <<"CID">>, "ELEM_ADDR") /\ ~In(client \o <<"CID", "TEST_ID">>, "ELEM_ADDR")
        /\ ~In(client \o <<"DIV">>, "ELEM_ADDR") /\ ~In(client \o <<"ATTN">>, "ELEM_ADDR")
    BY <1>3, <1>a, <1>e
  <2> QED
    BY <1>b, <1>e, <2>1, <2>2
<1>11. c.attr = "fault" => c.verb = "get"
  BY DEF HealthCommands, Row
<1> QED
  BY <1>1, <1>2, <1>5, <1>6, <1>7, <1>8, <1>9, <1>10, <1>11 DEF Regular, Remote

LEMMA HealthUnique == \A c, d \in HealthCommands : c.words = d.words => c = d
BY DEF HealthCommands, Row

(* The commands on models, SIG or vendor, by the tuples that make up their arguments. *)
LEMMA ModelRegular ==
    ASSUME NEW w, NEW cid \in {<<>>, <<"CID">>}, NEW c \in ModelCommandsOf(w, cid)
    PROVE  /\ Regular(c)
           /\ Len(c.words) = 3 /\ c.words[1] = "model"
           /\ c.words[3] \in {w.bind, w.unbind, w.get, w.set, w.add, w.delete, w.overwrite}
           /\ ArgsFrom(c) = Len(c.words) - 1
<1> DEFINE S == {"ADDR", "APP_IDX", "ELEM_ADDR", "MODEL_ID", "CID", "SUB_ADDR", "PUB_ADDR",
                 "PUB_APP_IDX", "CRED_FLAG", "TTL", "PERIOD_KEY", "PERIOD", "COUNT", "INTERVAL"}
           of == <<"ELEM_ADDR", "MODEL_ID">>
           at == <<"ADDR">>
           atKey == <<"ADDR", "APP_IDX">>
           toSub == <<"SUB_ADDR">>
           toPub == <<"PUB_ADDR", "PUB_APP_IDX", "CRED_FLAG", "TTL", "PERIOD_KEY", "PERIOD",
                      "COUNT", "INTERVAL">>
           model == of \o cid
           get == at \o model
           key == atKey \o model
           sub == at \o model \o toSub
           pub == at \o model \o toPub
<1>1. /\ Len(c.words) = 3 /\ c.words[1] = "model"
      /\ c.words[2] \in {"appkey", "publish", "subscribe"}
      /\ c.words[3] \in {w.bind, w.unbind, w.get, w.set, w.add, w.delete, w.overwrite}
  BY DEF ModelCommandsOf, Row
<1>2. ArgsFrom(c) = Len(c.words) - 1
  <2>1. ArgsFrom(c) = 2
    BY <1>1 DEF ArgsFrom
  <2> QED
    BY <1>1, <2>1
<1>3. /\ of \in Seq(S) /\ at \in Seq(S) /\ atKey \in Seq(S) /\ toSub \in Seq(S) /\ cid \in Seq(S)
      /\ In(of, "ELEM_ADDR") /\ In(of, "MODEL_ID") /\ In(at, "ADDR") /\ In(atKey, "ADDR")
      /\ In(atKey, "APP_IDX") /\ In(toSub, "SUB_ADDR")
  <2>1. /\ of \in Seq(S) /\ at \in Seq(S) /\ atKey \in Seq(S) /\ toSub \in Seq(S)
        /\ <<>> \in Seq(S) /\ <<"CID">> \in Seq(S)
    OBVIOUS
  <2>2. /\ In(of, "ELEM_ADDR") /\ In(of, "MODEL_ID") /\ In(at, "ADDR") /\ In(atKey, "ADDR")
        /\ In(atKey, "APP_IDX") /\ In(toSub, "SUB_ADDR")
    BY InTuple
  <2> QED
    BY <2>1, <2>2
<1>4. toPub \in Seq(S) /\ In(toPub, "PUB_ADDR")
  <2>1. toPub \in Seq(S)
    OBVIOUS
  <2>2. 1 \in 1..Len(toPub) /\ toPub[1] = "PUB_ADDR"
    OBVIOUS
  <2> QED
    BY <2>1, <2>2 DEF In
<1>5. \/ c.args = get /\ c.verb = "get" /\ c.val = "NONE"
      \/ c.args = key /\ c.verb \in {"bind", "unbind"} /\ c.val = "APP_IDX"
      \/ c.args = sub /\ c.verb \in {"add", "del", "set"} /\ c.val = "SUB_ADDR"
      \/ c.args = pub /\ c.verb = "set" /\ c.val = "PUB_ADDR"
  <2>1. c \in
             {Row(<<"model", "appkey", w.bind>>, key, "bind", "bound", "APP_IDX"),
              Row(<<"model", "appkey", w.unbind>>, key, "unbind", "bound", "APP_IDX"),
              Row(<<"model", "appkey", w.get>>, get, "get", "bound", "NONE"),
              Row(<<"model", "publish", w.get>>, get, "get", "pub", "NONE"),
              Row(<<"model", "publish", w.set>>, pub, "set", "pub", "PUB_ADDR"),
              Row(<<"model", "subscribe", w.add>>, sub, "add", "sub", "SUB_ADDR"),
              Row(<<"model", "subscribe", w.delete>>, sub, "del", "sub", "SUB_ADDR"),
              Row(<<"model", "subscribe", w.overwrite>>, sub, "set", "sub", "SUB_ADDR"),
              Row(<<"model", "subscribe", w.get>>, get, "get", "sub", "NONE")}
    BY DEF ModelCommandsOf
  <2> HIDE DEF get, key, sub, pub
  <2> QED
    BY <2>1 DEF Row
<1>6. c.attr \notin {"fault", "fault_test"}
  BY DEF ModelCommandsOf, Row
<1> HIDE DEF S, of, at, atKey, toSub, toPub
<1>7. model \in Seq(S) /\ In(model, "MODEL_ID")
  BY <1>3, InConcat
<1> HIDE DEF model
<1>8. /\ get \in Seq(S) /\ Len(get) \in Nat
      /\ In(get, "ADDR") /\ In(get, "MODEL_ID")
  BY <1>3, <1>7, InConcat
<1>9. /\ Len(key) \in Nat
      /\ In(key, "ADDR") /\ In(key, "MODEL_ID") /\ In(key, "APP_IDX")
  BY <1>3, <1>7, InConcat
<1>10. /\ sub = get \o toSub /\ pub = get \o toPub
  OBVIOUS
<1> HIDE DEF get, key, sub, pub
<1>11. /\ Len(sub) \in Nat /\ Len(pub) \in Nat
       /\ In(sub, "ADDR") /\ In(sub, "MODEL_ID") /\ In(sub, "SUB_ADDR")
       /\ In(pub, "ADDR") /\ In(pub, "MODEL_ID") /\ In(pub, "PUB_ADDR")
  BY <1>3, <1>4, <1>8, <1>10, InConcat
<1> QED
  BY <1>1, <1>2, <1>5, <1>6, <1>8, <1>9, <1>11 DEF Regular, Remote, ValArg

LEMMA ModelUnique ==
    ASSUME NEW w, NEW cid,
           w.bind # w.unbind, w.bind # w.get, w.unbind # w.get, w.get # w.set,
           w.add # w.delete, w.add # w.overwrite, w.add # w.get,
           w.delete # w.overwrite, w.delete # w.get, w.overwrite # w.get
    PROVE  \A c, d \in ModelCommandsOf(w, cid) : c.words = d.words => c = d
<1> DEFINE model == <<"ELEM_ADDR", "MODEL_ID">> \o cid
           get == <<"ADDR">> \o model
           key == <<"ADDR", "APP_IDX">> \o model
           sub == <<"ADDR">> \o model \o <<"SUB_ADDR">>
           pub == <<"ADDR">> \o model \o <<"PUB_ADDR", "PUB_APP_IDX", "CRED_FLAG", "TTL",
                                          "PERIOD_KEY", "PERIOD", "COUNT", "INTERVAL">>
           appkeys == {Row(<<"model", "appkey", w.bind>>, key, "bind", "bound", "APP_IDX"),
                       Row(<<"model", "appkey", w.unbind>>, key, "unbind", "bound", "APP_IDX"),
                       Row(<<"model", "appkey", w.get>>, get, "get", "bound", "NONE")}
           pubs == {Row(<<"model", "publish", w.get>>, get, "get", "pub", "NONE"),
                    Row(<<"model", "publish", w.set>>, pub, "set", "pub", "PUB_ADDR")}
           subs == {Row(<<"model", "subscribe", w.add>>, sub, "add", "sub", "SUB_ADDR"),
                    Row(<<"model", "subscribe", w.delete>>, sub, "del", "sub", "SUB_ADDR"),
                    Row(<<"model", "subscribe", w.overwrite>>, sub, "set", "sub", "SUB_ADDR"),
                    Row(<<"model", "subscribe", w.get>>, get, "get", "sub", "NONE")}
<1>1. ModelCommandsOf(w, cid) = appkeys \cup pubs \cup subs
  BY DEF ModelCommandsOf
<1> HIDE DEF get, key, sub, pub
<1>2. \A c, d \in appkeys : c.words = d.words => c = d
  BY DEF Row
<1>3. \A c, d \in pubs : c.words = d.words => c = d
  BY DEF Row
<1>4. \A c, d \in subs : c.words = d.words => c = d
  BY DEF Row
<1>5. \A c \in appkeys : c.words[2] = "appkey"
  BY DEF Row
<1>6. \A c \in pubs : c.words[2] = "publish"
  BY DEF Row
<1>7. \A c \in subs : c.words[2] = "subscribe"
  BY DEF Row
<1> HIDE DEF appkeys, pubs, subs
<1> QED
  BY <1>1, <1>2, <1>3, <1>4, <1>5, <1>6, <1>7

LEMMA SigRegular ==
    /\ \A c \in SigModelCommands :
         /\ Regular(c) /\ Len(c.words) = 3 /\ c.words[1] = "model"
         /\ c.words[3] \in {"bind", "unbind", "get", "set", "add", "delete", "overwrite"}
         /\ ArgsFrom(c) = Len(c.words) - 1
    /\ \A c, d \in SigModelCommands : c.words = d.words => c = d
<1> DEFINE w == [bind |-> "bind", unbind |-> "unbind", get |-> "get", set |-> "set",
                 add |-> "add", delete |-> "delete", overwrite |-> "overwrite"]
<1>1. SigModelCommands = ModelCommandsOf(w, <<>>)
  BY DEF SigModelCommands
<1>2. /\ w.bind = "bind" /\ w.unbind = "unbind" /\ w.get = "get" /\ w.set = "set"
      /\ w.add = "add" /\ w.delete = "delete" /\ w.overwrite = "overwrite"
  OBVIOUS
<1> HIDE DEF w
<1>3. \A c, d \in ModelCommandsOf(w, <<>>) : c.words = d.words => c = d
  BY <1>2, ModelUnique
<1> QED
  BY <1>1, <1>2, <1>3, ModelRegular

LEMMA VendorRegular ==
    /\ \A c \in VendorModelCommands :
         /\ Regular(c) /\ Len(c.words) = 3 /\ c.words[1] = "model"
         /\ c.words[3] \in {"bind-vnd", "unbind-vnd", "get-vnd", "set-vnd", "add-vnd",
                           "delete-vnd", "overwrite-vnd"}
         /\ ArgsFrom(c) = Len(c.words) - 1
    /\ \A c, d \in VendorModelCommands : c.words = d.words => c = d
<1> DEFINE w == [bind |-> "bind-vnd", unbind |-> "unbind-vnd", get |-> "get-vnd", set |-> "set-vnd",
                 add |-> "add-vnd", delete |-> "delete-vnd", overwrite |-> "overwrite-vnd"]
<1>1. VendorModelCommands = ModelCommandsOf(w, <<"CID">>)
  BY DEF VendorModelCommands
<1>2. /\ w.bind = "bind-vnd" /\ w.unbind = "unbind-vnd" /\ w.get = "get-vnd" /\ w.set = "set-vnd"
      /\ w.add = "add-vnd" /\ w.delete = "delete-vnd" /\ w.overwrite = "overwrite-vnd"
  OBVIOUS
<1> HIDE DEF w
<1>3. \A c, d \in ModelCommandsOf(w, <<"CID">>) : c.words = d.words => c = d
  BY <1>2, ModelUnique
<1> QED
  BY <1>1, <1>2, <1>3, ModelRegular

(* Every command is regular, and no two have the same words; only those for heartbeats *)
(* are parsed from another argument than their first.                             *)
LEMMA Table ==
    /\ \A c \in Commands : Regular(c) /\ Len(c.words) \in {2, 3}
    /\ \A c \in Commands \ HeartbeatCommands : ArgsFrom(c) = Len(c.words) - 1
    /\ \A c \in HeartbeatCommands : ArgsFrom(c) = Len(c.words)
    /\ \A c, d \in Commands : c.words = d.words => c = d
<1>1. \A c \in Commands :
        \/ c \in BeaconCommands \/ c \in NodeCommands \/ c \in FeatureCommands
        \/ c \in HeartbeatCommands \/ c \in SigModelCommands \/ c \in VendorModelCommands
        \/ c \in MessageCommands \/ c \in HealthCommands
  BY DEF Commands
<1>2. \A c \in Commands : Regular(c) /\ Len(c.words) \in {2, 3}
  BY <1>1, BeaconRegular, NodeRegular, FeatureRegular, HeartbeatRegular, SigRegular,
     VendorRegular, MessageRegular, HealthRegular
<1>3. \A c \in Commands \ HeartbeatCommands : ArgsFrom(c) = Len(c.words) - 1
  BY <1>1, BeaconRegular, NodeRegular, FeatureRegular, SigRegular,
     VendorRegular, MessageRegular, HealthRegular
<1>4. \A c \in HeartbeatCommands : ArgsFrom(c) = Len(c.words)
  BY HeartbeatRegular
<1>5. ASSUME NEW c \in Commands, NEW d \in Commands, c.words = d.words PROVE c = d
  <2>1. CASE c.words[1] \in {"beacon", "message", "health"}
    BY <1>1, <1>5, <2>1, BeaconRegular, NodeRegular, FeatureRegular, HeartbeatRegular, SigRegular,
       VendorRegular, MessageRegular, HealthRegular, BeaconUnique, MessageUnique,
       HealthUnique
  <2>2. CASE c.words[1] = "model"
    BY <1>1, <1>5, <2>2, BeaconRegular, NodeRegular, FeatureRegular, HeartbeatRegular, SigRegular,
       VendorRegular, MessageRegular, HealthRegular
  <2>3. CASE c.words[1] = "node"
    BY <1>1, <1>5, <2>3, BeaconRegular, NodeRegular, FeatureRegular, HeartbeatRegular, SigRegular,
       VendorRegular, MessageRegular, HealthRegular, NodeUnique, FeatureUnique,
       HeartbeatUnique
  <2>4. c.words[1] \in {"beacon", "message", "health", "model", "node"}
    BY <1>1, BeaconRegular, NodeRegular, FeatureRegular, HeartbeatRegular, SigRegular,
       VendorRegular, MessageRegular, HealthRegular
  <2> QED
    BY <2>1, <2>2, <2>3, <2>4
<1> QED
  BY <1>2, <1>3, <1>4, <1>5

-----------------------------------------------------------------------------
(* Numbers and tokens. *)
LEMMA SmallMod == ASSUME NEW n \in Nat, NEW m \in Nat, n < m PROVE n % m = n
OBVIOUS

LEMMA NumberFacts ==
    ASSUME NEW n \in Int, NEW max \in Nat, max <= ULongMax
    PROVE  /\ Stored(n, max) \in 0..max
           /\ n \in 0..LongMax /\ Accepts(n, max) => Stored(n, max) = n
<1>1. ULongOf(n) \in Int
  BY ULongIsOdd DEF ULongOf
<1>2. LongOf(n) \in Int
  BY <1>1, ULongIsOdd DEF LongOf
<1>3. Stored(n, max) \in 0..max
  BY <1>2 DEF Stored
<1>4. ASSUME n \in 0..LongMax, Accepts(n, max) PROVE Stored(n, max) = n
  <2>1. LongMax \in Nat /\ LongMax <= ULongMax
    BY ULongIsOdd DEF LongMax
  <2>2. ULongOf(n) = n
    BY <1>4, <2>1, ULongIsOdd DEF ULongOf
  <2>3. LongOf(n) = n
    BY <1>4, <2>1, <2>2 DEF LongOf
  <2>4. n <= max
    BY <1>4, <2>1, <2>3, ULongIsOdd DEF Accepts
  <2> QED
    BY <1>4, <2>1, <2>3, <2>4, SmallMod DEF Stored
<1> QED
  BY <1>3, <1>4

LEMMA WidthFacts == \A t : Width(t) \in Nat /\ Width(t) <= ULongMax
<1>1. \A t : Width(t) \in {U8Max, U16Max, ULongMax}
  BY Zenon DEF Width
<1> QED
  BY <1>1, WidthsAreOrdered, ULongIsOdd

(* How an argument is converted, by its kind. *)
LEMMA ConversionOfState ==
    ASSUME NEW t, NEW tok, IsState(t)
    PROVE  /\ Converts(t, tok) <=> tok \in {<<"word", "enable">>, <<"word", "disable">>,
                                           <<"num", 0>>, <<"num", 1>>}
           /\ Converted(t, tok) = IF tok \in {<<"word", "enable">>, <<"num", 1>>} THEN 1 ELSE 0
<1>1. t # "PERIOD_KEY" /\ t # "PAYLOAD"
  BY DEF IsState
<1> QED
  BY <1>1, Zenon DEF Converts, Converted

LEMMA ConversionOfPeriodKey ==
    ASSUME NEW tok
    PROVE  /\ Converts("PERIOD_KEY", tok) <=> \E i \in 1..4 : tok = <<"word", PeriodKeys[i]>>
           /\ Converted("PERIOD_KEY", tok) = CHOOSE i \in 1..4 : tok = <<"word", PeriodKeys[i]>>
<1>1. ~IsState("PERIOD_KEY")
  BY DEF IsState
<1> QED
  BY <1>1, Zenon DEF Converts, Converted

LEMMA ConversionOfPayload ==
    ASSUME NEW tok
    PROVE  /\ Converts("PAYLOAD", tok) <=> tok[1] = "num" /\ tok[2] \in 0..MaxPayload
           /\ Converted("PAYLOAD", tok) = (tok[2] + 1) \div 2
<1>1. ~IsState("PAYLOAD")
  BY DEF IsState
<1> QED
  BY <1>1, Zenon DEF Converts, Converted

LEMMA ConversionOfNumber ==
    ASSUME NEW t, NEW tok, ~IsState(t), t # "PERIOD_KEY", t # "PAYLOAD"
    PROVE  /\ Converts(t, tok) <=> tok[1] = "num" /\ Accepts(tok[2], Width(t))
           /\ Converted(t, tok) = Stored(tok[2], Width(t))
BY Zenon DEF Converts, Converted

LEMMA ConvertedTyped ==
    ASSUME NEW t, NEW tok, Converts(t, tok), tok[1] = "num" => tok[2] \in Int
    PROVE  Converted(t, tok) \in 0..ULongMax
<1>1. ULongMax \in Nat /\ ULongMax >= 4 /\ U16Max \in Nat /\ U16Max <= ULongMax
  BY ULongIsOdd, WidthsAreOrdered DEF PeriodKeys
<1>2. CASE IsState(t)
  BY <1>1, <1>2, ConversionOfState
<1>3. CASE t = "PERIOD_KEY"
  <2>1. Converted(t, tok) \in 1..4
    BY <1>3, ConversionOfPeriodKey
  <2> QED
    BY <1>1, <2>1
<1>4. CASE t = "PAYLOAD"
  <2>1. tok[2] \in 0..MaxPayload /\ Converted(t, tok) = (tok[2] + 1) \div 2
    BY <1>4, ConversionOfPayload
  <2>2. (tok[2] + 1) \div 2 \in Nat /\ (tok[2] + 1) \div 2 <= (MaxPayload + 1) \div 2
    BY <2>1, WidthsAreOrdered
  <2>3. (MaxPayload + 1) \div 2 \in Nat /\ (MaxPayload + 1) \div 2 <= U16Max
    BY WidthsAreOrdered
  <2> QED
    BY <1>1, <2>1, <2>2, <2>3
<1>5. CASE ~IsState(t) /\ t # "PERIOD_KEY" /\ t # "PAYLOAD"
  <2>1. tok[2] \in Int /\ Converted(t, tok) = Stored(tok[2], Width(t))
    BY <1>5, ConversionOfNumber
  <2>2. Converted(t, tok) \in 0..Width(t)
    BY <2>1, NumberFacts, WidthFacts
  <2> QED
    BY <1>1, <2>2, WidthFacts
<1> QED
  BY <1>2, <1>3, <1>4, <1>5

(* What a command is given is what was typed. *)
LEMMA ConvertedIsTyped ==
    ASSUME NEW t, t \notin {"PERIOD_KEY", "PAYLOAD"}, NEW tok, Converts(t, tok),
           tok[1] = "num" => tok[2] \in Int /\ tok[2] \in 0..LongMax
    PROVE  Converted(t, tok) = TypedNum(tok)
<1>1. CASE IsState(t)
  BY <1>1, ConversionOfState DEF TypedNum
<1>2. CASE ~IsState(t)
  <2>1. /\ tok[1] = "num" /\ Accepts(tok[2], Width(t)) /\ tok[2] \in Int
        /\ Converted(t, tok) = Stored(tok[2], Width(t))
    BY <1>2, ConversionOfNumber
  <2>2. Converted(t, tok) = tok[2]
    BY <2>1, NumberFacts, WidthFacts
  <2> QED
    BY <2>1, <2>2 DEF TypedNum
<1> QED
  BY <1>1, <1>2

LEMMA LineFacts ==
    ASSUME NEW l \in Line
    PROVE  /\ Len(l.words) \in Nat /\ Len(l.toks) \in Nat
           /\ \A k \in 1..Len(l.toks) : l.toks[k][1] = "num" => l.toks[k][2] \in Int
<1> DEFINE Tok == ({"num"} \X Int) \cup ({"word"} \X STRING)
<1>1. l.words \in Seq(STRING) /\ l.toks \in Seq(Tok)
  BY LinesAreTokens
<1>2. \A tok \in Tok : tok[1] = "num" => tok[2] \in Int
  OBVIOUS
<1> HIDE DEF Tok
<1> QED
  BY <1>1, <1>2

LEMMA TokenFacts ==
    ASSUME NEW c \in Commands, NEW l \in Line, NEW j \in 1..Len(c.args), ~Missing(c, l, j)
    PROVE  Token(c, l, j)[1] = "num" => Token(c, l, j)[2] \in Int
<1>1. TokenFor(c, l, j) \in Int
  <2>1. ArgsFrom(c) \in Int
    BY DEF ArgsFrom
  <2>2. j \in Int
    BY Table DEF Regular
  <2> QED
    BY <2>1, <2>2, LineFacts DEF TokenFor
<1>2. CASE TokenFor(c, l, j) < 1
  BY <1>2 DEF Token
<1>3. CASE ~(TokenFor(c, l, j) < 1)
  <2>1. TokenFor(c, l, j) \in 1..Len(l.toks)
    BY <1>1, <1>3, LineFacts DEF Missing
  <2> QED
    BY <1>3, <2>1, LineFacts DEF Token
<1> QED
  BY <1>2, <1>3

LEMMA ArgsAfterTyped ==
    ASSUME NEW c \in Commands, NEW l \in Line, args \in [ArgType -> 0..ULongMax]
    PROVE  ArgsAfter(c, l) \in [ArgType -> 0..ULongMax]
<1> DEFINE Found(t) == {j \in Reached(c, l) : c.args[j] = t}
           Taken(t) == {j \in Found(t) : ~Missing(c, l, j) /\ Converts(t, Token(c, l, j))}
           Val(t) == IF t = "PAYLOAD" /\ \E j \in Found(t) : Missing(c, l, j) THEN 0
                     ELSE IF Taken(t) # {}
                     THEN Converted(t, Token(c, l, CHOOSE j \in Taken(t) : TRUE))
                     ELSE args[t]
<1>1. ArgsAfter(c, l) = [t \in ArgType |-> Val(t)]
  BY DEF ArgsAfter
<1>2. ASSUME NEW t \in ArgType, NEW j \in Taken(t)
      PROVE  Converted(t, Token(c, l, j)) \in 0..ULongMax
  <2>1. j \in 1..Len(c.args) /\ ~Missing(c, l, j) /\ Converts(t, Token(c, l, j))
    BY <1>2 DEF Reached
  <2> QED
    BY <2>1, TokenFacts, ConvertedTyped
<1>3. ASSUME NEW t \in ArgType, Taken(t) # {} PROVE (CHOOSE j \in Taken(t) : TRUE) \in Taken(t)
  BY <1>3
<1>4. 0 \in 0..ULongMax
  BY ULongIsOdd
<1> HIDE DEF Taken, Found
<1>5. \A t \in ArgType : Val(t) \in 0..ULongMax
  BY <1>2, <1>3, <1>4
<1> HIDE DEF Val
<1> QED
  BY <1>1, <1>5

-----------------------------------------------------------------------------
(* Types. *)
LEMMA MaxIsNode == Max(Node) \in Node
BY NodesAreBounded DEF Max

LEMMA TypeInit == Init => TypeOK
<1> SUFFICES ASSUME Init PROVE TypeOK
  OBVIOUS
<1>1. alive \subseteq Node
  BY MaxIsNode DEF Init
<1>2. 0 \in 0..ULongMax /\ 0 \in 0..MaxLines /\ 0 \in 0..MaxOther
  BY ULongIsOdd, BoundsAreNat
<1>3. 1 \in 1..MeshRetryCount
  BY RetryIsPos
<1>4. 1 \in 1..Len(Composition)
  <2>1. Len(Composition) \in Nat /\ Len(Composition) # 0
    BY CompositionIsSeq
  <2> QED
    BY <2>1
<1>5. args \in [ArgType -> 0..ULongMax]
  BY <1>2 DEF Init
<1>6. /\ cmd \in Commands \cup {NoCommand} /\ line \in Line \cup {NoLine}
      /\ DOMAIN conf = Node
  BY DEF Init
<1>7. /\ known \subseteq Node /\ flagged \subseteq Node /\ listed \subseteq Node
      /\ rebound \subseteq Model /\ device \in [Node -> Node] /\ slept \subseteq Node
      /\ reused \in BOOLEAN
  BY <1>1 DEF Init
<1> QED
  BY <1>1, <1>2, <1>3, <1>4, <1>5, <1>6, <1>7 DEF Init, TypeOK

(* An operation leaves the nodes what they are. *)
LEMMA OpTyped ==
    ASSUME DOMAIN conf = Node, alive \subseteq Node,
           NEW o, Lost(o) \/ Accepted(o) \/ Refused(o) \/ Reaches(o)
    PROVE  DOMAIN conf' = Node /\ alive' \subseteq Node
<1>1. CASE UNCHANGED nodeVars
  BY <1>1 DEF nodeVars
<1>2. CASE Reaches(o)
  <2>1. CASE UNCHANGED nodeVars
    BY <2>1 DEF nodeVars
  <2>2. CASE /\ conf' = [conf EXCEPT ![Addr] = Applied(o, conf[Addr])]
             /\ alive' = IF o.verb = "reset" THEN alive \ {Addr} ELSE alive
    BY <2>2
  <2> QED
    BY <1>2, <2>1, <2>2 DEF Reaches
<1> QED
  BY <1>1, <1>2 DEF Lost, Accepted, Refused

LEMMA ChosenFacts ==
    ASSUME TypeOK, NEW l \in Line, NEW c, Chooses(l, c)
    PROVE  c \in Commands
BY DEF TypeOK, Chooses, Named

LEMMA TypedTypes ==
    ASSUME TypeOK, NEW l \in Line, Types(l)
    PROVE  lines' \in 0..MaxLines /\ line' \in Line
BY BoundsAreNat DEF TypeOK, Types

LEMMA LineTyped == ASSUME TypeOK, NEW l \in Line, EnterLine(l) PROVE TypeOK'
<1>1. CASE LineRejected(l)
  <2>1. /\ Types(l) /\ pc' = "idle" /\ verdict' = "failed"
        /\ cmd' = cmd /\ args' = args /\ try' = try /\ next' = next /\ err' = err
        /\ conf' = conf /\ alive' = alive /\ known' = known /\ flagged' = flagged
        /\ listed' = listed /\ others' = others /\ rebound' = rebound
        /\ device' = device /\ slept' = slept /\ reused' = reused
    BY <1>1 DEF LineRejected, Ends, nodeVars, cdbVars, resetVars
  <2> QED
    BY <2>1, TypedTypes DEF TypeOK
<1>2. ASSUME NEW c, ArgsRejected(l, c) PROVE TypeOK'
  <2>1. /\ Types(l) /\ Chooses(l, c) /\ pc' = "idle" /\ verdict' = "failed"
        /\ cmd' = c /\ args' = ArgsAfter(c, l) /\ try' = try /\ next' = next /\ err' = err
        /\ conf' = conf /\ alive' = alive /\ known' = known /\ flagged' = flagged
        /\ listed' = listed /\ others' = others /\ rebound' = rebound
        /\ device' = device /\ slept' = slept /\ reused' = reused
    BY <1>2 DEF ArgsRejected, Ends, nodeVars, cdbVars, resetVars
  <2>2. c \in Commands /\ args' \in [ArgType -> 0..ULongMax]
    BY <2>1, ChosenFacts, ArgsAfterTyped DEF TypeOK
  <2> QED
    BY <2>1, <2>2, TypedTypes DEF TypeOK
<1>3. ASSUME NEW c, Starts(l, c) PROVE TypeOK'
  <2>1. /\ Types(l) /\ Chooses(l, c)
        /\ cmd' = c /\ args' = ArgsAfter(c, l) /\ try' = 1 /\ next' = next /\ err' = err
        /\ conf' = conf /\ alive' = alive /\ known' = known
        /\ listed' = listed /\ others' = others /\ rebound' = rebound
        /\ device' = device /\ slept' = slept /\ reused' = reused
    BY <1>3 DEF Starts, nodeVars, resetVars
  <2>2. c \in Commands /\ args' \in [ArgType -> 0..ULongMax]
    BY <2>1, ChosenFacts, ArgsAfterTyped DEF TypeOK
  <2>3. pc' \in {"idle", "get_keys", "act"} /\ verdict' \in {"none", "ok", "failed", "silent"}
    BY <1>3 DEF Starts, Ends
  <2>4. flagged' \subseteq known \cup flagged
    <3>1. c.verb \in {"flag", "unflag"} /\ ~GatewayRefuses(c, args') => args'["ADDR"] \in known
      BY DEF GatewayRefuses
    <3>2. \/ flagged' = flagged
          \/ /\ ~GatewayRefuses(c, args') /\ c.verb \in {"flag", "unflag"}
             /\ flagged' \in {flagged \cup {args'["ADDR"]}, flagged \ {args'["ADDR"]}}
      BY <1>3 DEF Starts
    <3> QED
      BY <3>1, <3>2
  <2>5. 1 \in 1..MeshRetryCount
    BY RetryIsPos
  <2> QED
    BY <2>1, <2>2, <2>3, <2>4, <2>5, TypedTypes DEF TypeOK
<1> QED
  BY <1>1, <1>2, <1>3 DEF EnterLine

(* The steps of a command, by what they leave alone. *)
LEMMA StepTyped ==
    ASSUME TypeOK, UNCHANGED <<cmd, args, line, lines, device, listed, others>>,
           DOMAIN conf' = Node, alive' \subseteq Node,
           try' \in 1..MeshRetryCount, next' \in 1..Len(Composition),
           pc' \in {"idle", "get_keys", "add_key", "act", "comp", "visit", "del_key", "asleep",
                    "deleted"},
           err' \in {"none", "timeout", "other"}, verdict' \in {"none", "ok", "failed", "silent"},
           known' \subseteq known, flagged' \subseteq flagged, rebound' \subseteq rebound,
           slept' \subseteq Node, reused' \in BOOLEAN
    PROVE  TypeOK'
BY DEF TypeOK

LEMMA ShellStepTyped == ASSUME TypeOK, ShellStep PROVE TypeOK'
<1> USE DEF Ends, cdbVars, resetVars
<1>1. 1 \in 1..MeshRetryCount /\ MeshRetryCount \in Nat
  BY RetryIsPos
<1>2. 1 \in 1..Len(Composition) /\ Len(Composition) \in Nat
  <2>1. Len(Composition) \in Nat /\ Len(Composition) # 0
    BY CompositionIsSeq
  <2> QED
    BY <2>1
<1>a. DOMAIN conf = Node /\ alive \subseteq Node
  BY DEF TypeOK
<1>b. ASSUME Lost(CurrentOp) \/ Accepted(CurrentOp) \/ Refused(CurrentOp) \/ Reaches(CurrentOp)
      PROVE  DOMAIN conf' = Node /\ alive' \subseteq Node
  BY <1>a, <1>b, OpTyped
<1>3. CASE Retry
  <2>1. try' \in 1..MeshRetryCount
    BY <1>1, <1>3 DEF Retry, TypeOK
  <2> QED
    BY <1>3, <1>b, <2>1, StepTyped DEF Retry, TypeOK
<1>4. CASE GiveUp
  BY <1>4, <1>b, StepTyped DEF GiveUp, TypeOK
<1>5. CASE AnswerRefuses
  BY <1>5, <1>b, StepTyped DEF AnswerRefuses, Told, TypeOK
<1>6. CASE KeysKnown
  BY <1>1, <1>6, <1>b, StepTyped DEF KeysKnown, TypeOK
<1>7. CASE KeyAdded
  BY <1>1, <1>7, <1>b, StepTyped DEF KeyAdded, TypeOK
<1>8. CASE Acted
  BY <1>1, <1>8, <1>b, StepTyped DEF Acted, Told, TypeOK
<1>9. CASE CompKnown
  BY <1>1, <1>2, <1>9, <1>b, StepTyped DEF CompKnown, TypeOK
<1>10. CASE ModelUsesKey
  BY <1>10, <1>b, StepTyped DEF ModelUsesKey, TypeOK
<1>11. CASE ModelWithoutKey
  <2>1. next' \in 1..Len(Composition)
    BY <1>2, <1>11 DEF ModelWithoutKey, TypeOK
  <2> QED
    BY <1>1, <1>11, <1>b, <2>1, StepTyped DEF ModelWithoutKey, TypeOK
<1>12. CASE KeyCleaned
  BY <1>12, <1>b, StepTyped DEF KeyCleaned, TypeOK
<1>13. CASE ResetPerformed
  BY <1>13, <1>b, StepTyped DEF ResetPerformed, TypeOK
<1>14. CASE ResetSeen
  BY <1>14, <1>a, StepTyped DEF ResetSeen, Wakes, TypeOK, nodeVars
<1>15. CASE ResetNotSeen
  BY <1>15, <1>a, StepTyped DEF ResetNotSeen, ResetResult, Wakes, TypeOK, nodeVars
<1>16. CASE ResetChecked
  BY <1>16, <1>a, StepTyped DEF ResetChecked, ResetResult, TypeOK, nodeVars
<1> QED
  BY <1>3, <1>4, <1>5, <1>6, <1>7, <1>8, <1>9, <1>10, <1>11, <1>12, <1>13, <1>14, <1>15,
     <1>16 DEF ShellStep

LEMMA EnvironmentTyped == ASSUME TypeOK, Environment PROVE TypeOK'
<1> USE DEF shellVars, nodeVars, cdbVars, resetVars
<1>1. ASSUME NEW d \in Node, Beacons(d) PROVE TypeOK'
  BY <1>1 DEF TypeOK, Beacons
<1>2. ASSUME NEW d \in Node, Expires(d) PROVE TypeOK'
  BY <1>2 DEF TypeOK, Expires
<1>3. ASSUME NEW d \in Node, NEW n \in Node, GatewayProvisions(d, n) PROVE TypeOK'
  <2>1. device' \in [Node -> Node] /\ reused' \in BOOLEAN
    BY <1>3 DEF TypeOK, GatewayProvisions
  <2> QED
    BY <1>3, <2>1, BoundsAreNat DEF TypeOK, GatewayProvisions
<1>4. ASSUME NEW n \in Node, NEW m \in Model, NEW k \in CdbAppKey, GatewayBinds(n, m, k)
      PROVE  TypeOK'
  <2>1. DOMAIN conf' = Node
    BY <1>4 DEF TypeOK, GatewayBinds
  <2>2. rebound' \subseteq Model
    BY <1>4 DEF TypeOK, GatewayBinds
  <2> QED
    BY <1>4, <2>1, <2>2, BoundsAreNat DEF TypeOK, GatewayBinds
<1> QED
  BY <1>1, <1>2, <1>3, <1>4 DEF Environment

LEMMA TypeNext == TypeOK /\ [Next]_vars => TypeOK'
<1> SUFFICES ASSUME TypeOK, [Next]_vars PROVE TypeOK'
  OBVIOUS
<1>1. CASE UNCHANGED vars
  BY <1>1 DEF TypeOK, vars, shellVars, nodeVars, cdbVars, resetVars
<1> QED
  BY <1>1, LineTyped, ShellStepTyped, EnvironmentTyped DEF Next

(* ShellTyped: the static cmd holds a command and numbers of their fields' widths, the  *)
(* attempts are counted within their limit and the clean-up stays in the composition *)
(* data, for any lines, including those rejected half way.                        *)
THEOREM ShellTyped == Spec => []TypeOK
BY TypeInit, TypeNext, PTL DEF Spec

-----------------------------------------------------------------------------
(* From the line to the operation. *)
LEMMA HeartbeatLast ==
    ASSUME NEW c \in HeartbeatCommands
    PROVE  Len(c.args) \in Nat \ {0} /\ c.args[Len(c.args)] # "PAYLOAD"
BY DEF HeartbeatCommands, Row

(* Of a line whose arguments all fit, every argument is stored. *)
LEMMA ArgsAfterOk ==
    ASSUME NEW c \in Commands, NEW l \in Line, ArgsOk(c, l), NEW t, t # "PAYLOAD", Where(c, t) # {}
    PROVE  ArgsAfter(c, l)[t] = Converted(t, Token(c, l, CHOOSE j \in Where(c, t) : TRUE))
<1> DEFINE found == {j \in Reached(c, l) : c.args[j] = t}
           taken == {j \in found : ~Missing(c, l, j) /\ Converts(t, Token(c, l, j))}
<1>1. t \in ArgType
  BY DEF ArgType, Where
<1>2. Len(c.args) \in Nat
  BY Table DEF Regular
<1>3. Reached(c, l) = 1..Len(c.args)
  BY <1>2 DEF Reached, ArgsOk
<1>4. found = Where(c, t)
  BY <1>3 DEF Where
<1>5. taken = Where(c, t)
  BY <1>4 DEF Where, ArgsOk, Fits
<1>6. ArgsAfter(c, l)[t] =
        IF t = "PAYLOAD" /\ \E j \in found : Missing(c, l, j) THEN 0
        ELSE IF taken # {} THEN Converted(t, Token(c, l, CHOOSE j \in taken : TRUE))
        ELSE args[t]
  BY <1>1 DEF ArgsAfter
<1> HIDE DEF found, taken
<1> QED
  BY <1>5, <1>6

(* While a command is under way, the static cmd holds what the line says. *)
HoldsLine ==
    pc # "idle" =>
        /\ line \in Line /\ cmd \in Commands /\ cmd.verb \in Remote
        /\ Named(line.words) # {} =>
             /\ cmd.words = line.words
             /\ ArgsOk(cmd, line)
             /\ \A t : t # "PAYLOAD" /\ Where(cmd, t) # {} =>
                  args[t] = Converted(t, Token(cmd, line, CHOOSE j \in Where(cmd, t) : TRUE))

LEMMA LineHolds ==
    ASSUME TypeOK, HoldsLine, NEW l \in Line, EnterLine(l)
    PROVE  HoldsLine'
<1>1. CASE pc' = "idle"
  BY <1>1 DEF HoldsLine
<1>2. ASSUME NEW c, Starts(l, c), pc' # "idle" PROVE HoldsLine'
  <2>1. /\ Types(l) /\ Chooses(l, c) /\ ArgsOk(c, l)
        /\ line' = l /\ cmd' = c /\ args' = ArgsAfter(c, l) /\ c.verb \in Remote
    BY <1>2 DEF Starts, Ends, Types
  <2>2. c \in Commands
    BY <2>1, ChosenFacts
  <2>3. Named(l.words) # {} => c.words = l.words
    BY <2>1 DEF Chooses, Named
  <2>4. \A t : t # "PAYLOAD" /\ Where(c, t) # {} =>
           ArgsAfter(c, l)[t] = Converted(t, Token(c, l, CHOOSE j \in Where(c, t) : TRUE))
    BY <2>1, <2>2, ArgsAfterOk
  <2> HIDE DEF HoldsLine
  <2>5. /\ line' \in Line /\ cmd' \in Commands /\ cmd'.verb \in Remote
        /\ Named(line'.words) # {} => cmd'.words = line'.words /\ ArgsOk(cmd', line')
        /\ \A t : t # "PAYLOAD" /\ Where(cmd', t) # {} =>
             args'[t] = Converted(t, Token(cmd', line', CHOOSE j \in Where(cmd', t) : TRUE))
    BY <2>1, <2>2, <2>3, <2>4
  <2> QED
    BY <2>5 DEF HoldsLine
<1>3. EnterLine(l) => pc' = "idle" \/ \E c : Starts(l, c)
  BY DEF EnterLine, LineRejected, ArgsRejected, Ends
<1> QED
  BY <1>1, <1>2, <1>3

LEMMA HoldsNext == TypeOK /\ HoldsLine /\ [Next]_vars => HoldsLine'
<1> SUFFICES ASSUME TypeOK, HoldsLine, [Next]_vars PROVE HoldsLine'
  OBVIOUS
<1>1. CASE \E l \in Line : EnterLine(l)
  BY <1>1, LineHolds
<1>2. CASE ShellStep \/ Environment \/ UNCHANGED vars
  <2>1. cmd' = cmd /\ args' = args /\ line' = line
    BY <1>2 DEF ShellStep, Retry, GiveUp, AnswerRefuses, KeysKnown, KeyAdded, Acted, CompKnown,
       ModelUsesKey, ModelWithoutKey, KeyCleaned, ResetPerformed, ResetSeen, ResetNotSeen,
       ResetChecked, Environment, Beacons, Expires, GatewayProvisions, GatewayBinds, vars, shellVars
  <2>2. pc' # "idle" => pc # "idle"
    BY <1>2 DEF ShellStep, Waits, Resets, Retry, GiveUp, AnswerRefuses, KeysKnown, KeyAdded, Acted,
       CompKnown, ModelUsesKey, ModelWithoutKey, KeyCleaned, ResetPerformed, ResetSeen,
       ResetNotSeen, ResetChecked, Wakes, Environment, Beacons, Expires, GatewayProvisions, GatewayBinds, vars, shellVars
  <2> QED
    BY <2>1, <2>2 DEF HoldsLine
<1> QED
  BY <1>1, <1>2 DEF Next

LEMMA HoldsAlways == Spec => [](TypeOK /\ HoldsLine)
<1>1. Init => HoldsLine
  BY DEF Init, HoldsLine
<1> QED
  BY <1>1, TypeInit, TypeNext, HoldsNext, PTL DEF Spec

(* The command in hand is the one the line names, with the line's own arguments. *)
LEMMA OwnArguments ==
    ASSUME HoldsLine, pc # "idle", Recognised(line)
    PROVE  /\ Asked(line) = cmd /\ cmd \in Commands /\ cmd.verb \in Remote /\ Regular(cmd)
           /\ \A t \in ArgsOf(cmd) : args[t] = LineArgs(line)[t]
<1>1. /\ line \in Line /\ cmd \in Commands /\ cmd.verb \in Remote
      /\ cmd.words = line.words /\ Regular(cmd)
  BY Table DEF HoldsLine, Recognised
<1>2. Asked(line) = cmd
  BY <1>1, Table DEF Asked
<1>3. ASSUME NEW t \in ArgsOf(cmd) PROVE args[t] = LineArgs(line)[t]
  <2>1. t # "PAYLOAD" /\ Where(cmd, t) # {}
    BY <1>3 DEF ArgsOf, Where
  <2>2. args[t] = Converted(t, Token(cmd, line, CHOOSE j \in Where(cmd, t) : TRUE))
    BY <2>1 DEF HoldsLine, Recognised
  <2> QED
    BY <1>2, <1>3, <2>2 DEF LineArgs
<1> QED
  BY <1>1, <1>2, <1>3

LEMMA HasArg == ASSUME NEW c, NEW t, t # "PAYLOAD" PROVE Has(c, t) <=> t \in ArgsOf(c)
BY DEF Has, ArgsOf

(* Two sets of arguments that agree on those of a command make the same operation. *)
LEMMA OperationOfArgs ==
    ASSUME NEW c, Regular(c), c.verb \in Remote, NEW a, NEW b, \A t \in ArgsOf(c) : a[t] = b[t]
    PROVE  CommandOp(c, a) = CommandOp(c, b) /\ a["ADDR"] = b["ADDR"]
<1>1. \A t : Has(c, t) <=> In(c.args, t)
  BY DEF Has, In
<1>2. Has(c, "ADDR") /\ (Has(c, "ELEM_ADDR") => Has(c, "MODEL_ID"))
  BY <1>1 DEF Regular
<1>3. \A t : t # "PAYLOAD" /\ Has(c, t) => a[t] = b[t]
  BY HasArg
<1>4. Has(c, "ELEM_ADDR") => Company(c, a) = Company(c, b)
  <2>1. CASE LastWord(c) = "delete-vnd"
    <3>1. Company(c, a) = a["MODEL_ID"] /\ Company(c, b) = b["MODEL_ID"]
      BY <2>1, Zenon DEF Company
    <3> QED
      BY <1>2, <1>3, <3>1
  <2>2. CASE LastWord(c) = "overwrite-vnd"
    <3>1. LastWord(c) # "delete-vnd"
      BY <2>2
    <3> QED
      BY <2>2, <3>1, Zenon DEF Company
  <2>3. CASE LastWord(c) # "delete-vnd" /\ LastWord(c) # "overwrite-vnd"
    <3>1. /\ Company(c, a) = IF Has(c, "CID") THEN a["CID"] ELSE 0
          /\ Company(c, b) = IF Has(c, "CID") THEN b["CID"] ELSE 0
      BY <2>3, Zenon DEF Company
    <3> QED
      BY <1>3, <3>1
  <2> QED
    BY <2>1, <2>2, <2>3
<1>5. Place(c, a) = Place(c, b)
  BY <1>2, <1>3, <1>4 DEF Place
<1>6. (IF c.val = "NONE" THEN 0 ELSE a[c.val]) = (IF c.val = "NONE" THEN 0 ELSE b[c.val])
  <2>1. c.val # "NONE" => c.val # "PAYLOAD" /\ Has(c, c.val)
    BY <1>1 DEF Regular, ValArg
  <2> QED
    BY <1>3, <2>1
<1> DEFINE verb == CASE c.verb = "bind" -> "add" [] c.verb = "unbind" -> "del" [] OTHER -> c.verb
<1>7. /\ CommandOp(c, a) = Op(verb, c.attr, Place(c, a), IF c.val = "NONE" THEN 0 ELSE a[c.val])
      /\ CommandOp(c, b) = Op(verb, c.attr, Place(c, b), IF c.val = "NONE" THEN 0 ELSE b[c.val])
  BY DEF CommandOp
<1> HIDE DEF verb
<1>8. CommandOp(c, a) = CommandOp(c, b)
  BY <1>5, <1>6, <1>7
<1> QED
  BY <1>2, <1>3, <1>8

LEMMA OwnOperation ==
    ASSUME HoldsLine, pc # "idle", Recognised(line)
    PROVE  CommandOp(cmd, args) = LineOp(line) /\ Addr = LineArgs(line)["ADDR"]
<1>1. /\ Asked(line) = cmd /\ Regular(cmd) /\ cmd.verb \in Remote
      /\ \A t \in ArgsOf(cmd) : args[t] = LineArgs(line)[t]
  BY OwnArguments
<1> QED
  BY <1>1, OperationOfArgs DEF LineOp, Addr

(* The arguments of a clear line are the numbers typed. *)
LEMMA ClearLine ==
    ASSUME HoldsLine, pc # "idle", Recognised(line), Clear(line)
    PROVE  \A t : t \notin {"PAYLOAD", "PERIOD_KEY"} /\ Has(cmd, t) => args[t] = Typed(line, t)
<1>1. /\ line \in Line /\ cmd \in Commands /\ cmd.verb \in Remote
      /\ cmd.words = line.words /\ ArgsOk(cmd, line)
  BY DEF HoldsLine, Recognised
<1>2. Asked(line) = cmd
  BY <1>1, Table DEF Asked
<1>3. /\ Len(cmd.args) \in Nat /\ Len(line.toks) \in Nat
      /\ Len(line.words) = Len(cmd.words) /\ Len(line.words) \in Nat
  BY <1>1, Table, LineFacts DEF Regular
<1>4. cmd \notin HeartbeatCommands
  <2> SUFFICES ASSUME cmd \in HeartbeatCommands PROVE FALSE
    OBVIOUS
  <2>1. ~(Len(line.toks) > Len(cmd.args))
    BY <1>2 DEF Clear, Shifted
  <2>2. Len(cmd.args) \in 1..Len(cmd.args) /\ cmd.args[Len(cmd.args)] # "PAYLOAD"
    BY HeartbeatLast
  <2>3. TokenFor(cmd, line, Len(cmd.args)) = Len(cmd.args) + 1
    <3>1. ArgsFrom(cmd) = Len(cmd.words)
      BY Table
    <3> QED
      BY <1>3, <3>1 DEF TokenFor
  <2>4. Missing(cmd, line, Len(cmd.args))
    BY <1>3, <2>1, <2>3 DEF Missing
  <2> QED
    BY <1>1, <2>2, <2>4 DEF ArgsOk, Fits
<1>5. ASSUME NEW t, t \notin {"PAYLOAD", "PERIOD_KEY"}, Has(cmd, t)
      PROVE  args[t] = Typed(line, t)
  <2> DEFINE j == CHOOSE i \in Where(cmd, t) : TRUE
  <2>1. Where(cmd, t) # {} /\ j \in Where(cmd, t)
    BY <1>5 DEF Has, Where
  <2>2. j \in 1..Len(cmd.args) /\ cmd.args[j] = t
    BY <2>1 DEF Where
  <2>3. args[t] = Converted(t, Token(cmd, line, j)) /\ Typed(line, t) = TypedNum(line.toks[j])
    BY <1>2, <1>5, <2>1 DEF HoldsLine, Recognised, Typed
  <2> HIDE DEF j
  <2>4. TokenFor(cmd, line, j) = j
    <3>1. ArgsFrom(cmd) = Len(cmd.words) - 1
      BY <1>1, <1>4, Table
    <3> QED
      BY <1>3, <2>2, <3>1 DEF TokenFor
  <2>5. Token(cmd, line, j) = line.toks[j]
    BY <1>3, <2>2, <2>4 DEF Token
  <2>6. ~Missing(cmd, line, j) /\ Converts(t, line.toks[j])
    BY <1>1, <1>5, <2>2, <2>5 DEF ArgsOk, Fits
  <2>7. j \in 1..Len(line.toks)
    BY <1>3, <2>2, <2>4, <2>6 DEF Missing
  <2>8. line.toks[j][1] = "num" => line.toks[j][2] \in Int /\ line.toks[j][2] \in 0..LongMax
    BY <1>1, <2>7, LineFacts DEF Clear, TooLong
  <2> QED
    BY <1>5, <2>3, <2>5, <2>6, <2>8, ConvertedIsTyped
<1> QED
  BY <1>5

(* ... and so are the node, the model and the value of its operation. *)
LEMMA ClearOperation ==
    ASSUME HoldsLine, pc # "idle", Recognised(line), Clear(line)
    PROVE  Addr = Typed(line, "ADDR") /\ CommandOp(cmd, args) = TypedOp(line)
<1>1. /\ Asked(line) = cmd /\ cmd.verb \in Remote /\ Regular(cmd)
      /\ \A t : t \notin {"PAYLOAD", "PERIOD_KEY"} /\ Has(cmd, t) => args[t] = Typed(line, t)
      /\ CommandOp(cmd, args) = LineOp(line)
  BY OwnArguments, OwnOperation, ClearLine
<1>2. \A t : Has(cmd, t) <=> In(cmd.args, t)
  BY DEF Has, In
<1>3. Addr = Typed(line, "ADDR")
  BY <1>1, <1>2 DEF Addr, Regular
<1>4. cmd.val # "NONE" => args[cmd.val] = Typed(line, cmd.val)
  BY <1>1, <1>2 DEF Regular, ValArg
<1>5. Place(cmd, args) = TypedPlace(line)
  <2>1. LastWord(cmd) # "delete-vnd" /\ LastWord(cmd) # "overwrite-vnd"
    <3>1. cmd.words = line.words
      BY DEF HoldsLine, Recognised
    <3> QED
      BY <3>1 DEF Clear, Misdirected, LastWord
  <2>2. Company(cmd, args) = IF Has(cmd, "CID") THEN args["CID"] ELSE 0
    BY <2>1, Zenon DEF Company
  <2>3. Has(cmd, "ELEM_ADDR") => Has(cmd, "MODEL_ID")
    BY <1>1, <1>2 DEF Regular
  <2> QED
    BY <1>1, <2>2, <2>3 DEF Place, TypedPlace
<1> DEFINE verb == CASE cmd.verb = "bind" -> "add" [] cmd.verb = "unbind" -> "del"
                     [] OTHER -> cmd.verb
           val == IF cmd.val = "NONE" THEN 0 ELSE args[cmd.val]
<1>6. CommandOp(cmd, args) = Op(verb, cmd.attr, Place(cmd, args), val)
  BY DEF CommandOp
<1>7. Op(verb, cmd.attr, Place(cmd, args), val).verb = verb
  BY DEF Op
<1> HIDE DEF verb
<1>8. val = IF cmd.val = "NONE" THEN 0 ELSE Typed(line, cmd.val)
  BY <1>4
<1> HIDE DEF val
<1>9. LineOp(line).verb = verb
  BY <1>1, <1>6, <1>7
<1> QED
  BY <1>1, <1>3, <1>5, <1>6, <1>8, <1>9 DEF TypedOp

LEMMA OperationFacts ==
    ASSUME NEW c, NEW a
    PROVE  /\ CommandOp(c, a).attr = c.attr /\ CommandOp(c, a).place = Place(c, a)
           /\ CommandOp(c, a).val = IF c.val = "NONE" THEN 0 ELSE a[c.val]
           /\ c.verb = "bind" => CommandOp(c, a).verb = "add"
           /\ c.verb = "unbind" => CommandOp(c, a).verb = "del"
           /\ c.verb \notin {"bind", "unbind"} => CommandOp(c, a).verb = c.verb
BY DEF CommandOp, Op

(* AlwaysAsTyped: every recognised line is performed with its own arguments, those that *)
(* the code reads from the wrong position or wraps included, and with nothing left of any *)
(* line before; and every line but those, and the two commands that address another model *)
(* than they are given, is performed as typed; for any lines and any widths of numbers.   *)
THEOREM AlwaysAsTyped == Spec => []ActsAsTyped
<1>1. HoldsLine => ActsAsTyped
  BY OwnArguments, ClearOperation DEF ActsAsTyped
<1> QED
  BY <1>1, HoldsAlways, PTL

-----------------------------------------------------------------------------
(* From the operation to the node. *)
LEMMA AppliedFacts ==
    ASSUME NEW o, NEW c
    PROVE  /\ o.verb \in {"set", "add"} => <<o.attr, o.place, o.val>> \in Applied(o, c)
           /\ o.verb = "del" => <<o.attr, o.place, o.val>> \notin Applied(o, c)
BY DEF Applied

LEMMA AcceptedIsApplied ==
    ASSUME TypeOK, NEW o, Accepted(o)
    PROVE  conf'[Addr] = Applied(o, conf[Addr])
BY DEF Accepted, Reaches, Alive, TypeOK

(* What a node may refuse without the user being told leaves nothing undone. *)
LEMMA UncheckedIsHarmless ==
    ASSUME NEW c \in Commands, StatusUnchecked(c), Refused(CommandOp(c, args))
    PROVE  c.verb = "get"
<1>1. Regular(c)
  BY Table
<1>2. c.attr # "fault_test"
  <2> SUFFICES ASSUME c.attr = "fault_test" PROVE FALSE
    OBVIOUS
  <2>1. CommandOp(c, args).place = <<>> /\ CommandOp(c, args).attr = "fault_test"
    BY <1>1, OperationFacts DEF Regular, Place, Has, In
  <2> QED
    BY <2>1 DEF Refused, MustRefuse, MayRefuse
<1> QED
  BY <1>1, <1>2 DEF StatusUnchecked, Regular

LEMMA SuccessStep ==
    ASSUME TypeOK, HoldsLine, [Next]_vars,
           pc = "act", pc' # "act", verdict' = "ok", Recognised(line)
    PROVE  /\ Done(LineOp(line), conf'[LineArgs(line)["ADDR"]])
           /\ Clear(line) => Done(TypedOp(line), conf'[Typed(line, "ADDR")])
<1> DEFINE o == CommandOp(cmd, args)
<1>1. cmd \in Commands /\ cmd.verb \in Remote
  BY OwnArguments
<1>2. CurrentOp = o
  BY Zenon DEF CurrentOp
<1>3. /\ o = LineOp(line) /\ Addr = LineArgs(line)["ADDR"]
      /\ Clear(line) => o = TypedOp(line) /\ Addr = Typed(line, "ADDR")
  BY OwnOperation, ClearOperation
<1>4. cmd.verb \in {"get", "reset"} => o.verb = cmd.verb
  BY OperationFacts
<1> HIDE DEF o
<1> SUFFICES Done(o, conf'[Addr])
  BY <1>3
<1>5. CASE Acted
  <2>1. Accepted(o)
    BY <1>2, <1>5 DEF Acted
  <2>2. conf'[Addr] = Applied(o, conf[Addr])
    BY <2>1, AcceptedIsApplied
  <2> QED
    BY <2>2, AppliedFacts DEF Done
<1>6. CASE AnswerRefuses
  <2>1. /\ Refused(o)
        /\ Misread(cmd) \/ StatusUnchecked(cmd)
    BY <1>2, <1>6 DEF AnswerRefuses, Told, Ends
  <2>2. cmd.verb = "get"
    BY <1>1, <2>1, UncheckedIsHarmless DEF o, Misread
  <2> QED
    BY <1>4, <2>2 DEF Done
<1>7. CASE ResetPerformed
  <2>1. cmd.verb = "reset"
    BY <1>7 DEF ResetPerformed, Resets
  <2> QED
    BY <1>4, <2>1 DEF Done
<1>8. Acted \/ AnswerRefuses \/ ResetPerformed
  <2>1. ~\E l \in Line : EnterLine(l)
    BY DEF EnterLine, LineRejected, ArgsRejected, Starts, Types
  <2>2. ~(Environment \/ UNCHANGED vars)
    BY DEF Environment, Beacons, Expires, GatewayProvisions, GatewayBinds, vars, shellVars
  <2>3. ~GiveUp
    BY DEF GiveUp, Ends
  <2>4. ~Retry
    BY DEF Retry
  <2> QED
    BY <2>1, <2>2, <2>3, <2>4 DEF Next, ShellStep, KeysKnown, KeyAdded, CompKnown, ModelUsesKey,
       ModelWithoutKey, KeyCleaned, ResetSeen, ResetNotSeen, ResetChecked, Wakes
<1> QED
  BY <1>5, <1>6, <1>7, <1>8

(* SuccessIsTrue: whatever recognised line is reported as successful, its node is configured *)
(* as the operation that the code makes of it says, however many requests and answers were  *)
(* lost and whatever the commands are whose status is not looked at; and as the line asks, *)
(* unless the code reads the line wrongly (Misdirected, TooLong, Shifted).               *)
THEOREM SuccessIsTrue == Spec => SuccessMeansDone
<1>1. ASSUME TypeOK, HoldsLine, [Next]_vars
      PROVE  [pc = "act" /\ pc' # "act" /\ verdict' = "ok" /\ Recognised(line) =>
                /\ Done(LineOp(line), conf'[LineArgs(line)["ADDR"]])
                /\ Clear(line) => Done(TypedOp(line), conf'[Typed(line, "ADDR")])]_vars
  BY <1>1, SuccessStep
<1> QED
  BY <1>1, HoldsAlways, PTL DEF Spec, SuccessMeansDone

-----------------------------------------------------------------------------
(* Node reset. *)

(* While node reset sleeps its record stays in the database, and nobody else gets it. *)
RecordInv ==
    /\ ProvisionedIsKnown
    /\ pc = "asleep" => Addr \in known /\ (Addr \in alive => Addr \in slept)

(* Of a command's own steps only two matter. *)
LEMMA AliveShrinks ==
    ASSUME NEW o, Lost(o) \/ Accepted(o) \/ Refused(o) \/ Reaches(o)
    PROVE  alive' \subseteq alive
<1>1. Reaches(o) => alive' \subseteq alive
  BY DEF Reaches, nodeVars
<1> QED
  BY <1>1 DEF Lost, Accepted, Refused, nodeVars

LEMMA ShellStepRecords == ASSUME RecordInv, ShellStep PROVE RecordInv'
<1>1. CASE ResetPerformed
  <2>1. alive' \subseteq alive /\ known' = known /\ Addr' = Addr
    BY <1>1, AliveShrinks DEF ResetPerformed, cdbVars, Addr
  <2>2. pc' = "asleep" => slept' = alive' /\ Addr \in known
    BY <1>1 DEF ResetPerformed, Ends
  <2> QED
    BY <2>1, <2>2 DEF RecordInv, ProvisionedIsKnown
<1>2. CASE ResetSeen
  <2>1. /\ pc = "asleep" /\ pc' = "deleted" /\ known' = known \ {Addr} /\ alive' = alive
        /\ SleptEnough /\ device[Addr] \in listed
    BY <1>2 DEF ResetSeen, Wakes, nodeVars
  <2>2. Addr \notin alive
    BY <2>1 DEF RecordInv, SleptEnough
  <2> QED
    BY <2>1, <2>2 DEF RecordInv, ProvisionedIsKnown
<1>3. CASE ResetNotSeen \/ ResetChecked
  <2>1. pc' = "idle" /\ known' = known /\ alive' = alive
    BY <1>3 DEF ResetNotSeen, ResetChecked, Ends, nodeVars, cdbVars
  <2> QED
    BY <2>1 DEF RecordInv, ProvisionedIsKnown
<1>4. CASE \/ Retry \/ GiveUp \/ AnswerRefuses \/ KeysKnown \/ KeyAdded \/ Acted
           \/ CompKnown \/ ModelUsesKey \/ ModelWithoutKey \/ KeyCleaned
  <2>1. /\ Lost(CurrentOp) \/ Accepted(CurrentOp) \/ Refused(CurrentOp)
        /\ UNCHANGED cdbVars
    BY <1>4 DEF Retry, GiveUp, AnswerRefuses, KeysKnown, KeyAdded, Acted, CompKnown, ModelUsesKey,
       ModelWithoutKey, KeyCleaned
  <2>2. pc' # "asleep"
    BY <1>4 DEF Retry, GiveUp, AnswerRefuses, KeysKnown, KeyAdded, Acted, CompKnown, ModelUsesKey,
       ModelWithoutKey, KeyCleaned, Waits, Ends
  <2>3. alive' \subseteq alive /\ known' = known
    BY <2>1, AliveShrinks DEF cdbVars
  <2> QED
    BY <2>2, <2>3 DEF RecordInv, ProvisionedIsKnown
<1> QED
  BY <1>1, <1>2, <1>3, <1>4 DEF ShellStep

LEMMA RecordNext == RecordInv /\ [Next]_vars => RecordInv'
<1> SUFFICES ASSUME RecordInv, [Next]_vars PROVE RecordInv'
  OBVIOUS
<1>1. CASE \E l \in Line : EnterLine(l)
  <2>1. pc' # "asleep" /\ known' = known /\ alive' = alive
    BY <1>1 DEF EnterLine, LineRejected, ArgsRejected, Starts, Ends, nodeVars, cdbVars
  <2> QED
    BY <2>1 DEF RecordInv, ProvisionedIsKnown
<1>2. CASE ShellStep
  BY <1>2, ShellStepRecords
<1>3. CASE \E d \in Node, n \in Node : GatewayProvisions(d, n)
  <2>1. PICK d \in Node, n \in Node : GatewayProvisions(d, n)
    BY <1>3
  <2>2. /\ n \notin known /\ alive' = alive \cup {n} /\ known' = known \cup {n}
        /\ pc' = pc /\ slept' = slept /\ Addr' = Addr
    BY <2>1 DEF GatewayProvisions, shellVars, Addr
  <2> QED
    BY <2>2 DEF RecordInv, ProvisionedIsKnown
<1>4. CASE \/ UNCHANGED vars
           \/ \E d \in Node : Beacons(d) \/ Expires(d)
           \/ \E n \in Node, m \in Model, k \in CdbAppKey : GatewayBinds(n, m, k)
  <2>1. /\ known' = known /\ alive' = alive /\ pc' = pc /\ slept' = slept /\ Addr' = Addr
    BY <1>4 DEF vars, shellVars, nodeVars, cdbVars, resetVars, Beacons, Expires, GatewayBinds, Addr
  <2> QED
    BY <2>1 DEF RecordInv, ProvisionedIsKnown
<1> QED
  BY <1>1, <1>2, <1>3, <1>4 DEF Next, Environment

(* RecordsKept: no provisioned node is ever without its record, however the sleep of node   *)
(* reset, lost resets, and a gateway thread that provisions the device again meanwhile fall *)
(* together, for any nodes.                                                          *)
THEOREM RecordsKept == Spec => []ProvisionedIsKnown
<1>1. Init => RecordInv
  BY DEF Init, RecordInv, ProvisionedIsKnown
<1>2. RecordInv => ProvisionedIsKnown
  BY DEF RecordInv
<1> QED
  BY <1>1, <1>2, RecordNext, PTL DEF Spec

-----------------------------------------------------------------------------
(* The clean-up of a key. *)

(* A model that the clean-up need not, or no longer can, take into account. *)
Passed(m) == UsesKey(m) => m \in rebound

Cleans == {"comp", "visit", "del_key"}
PlaceOf == 1..Len(Composition)

(* What the clean-up knows of the models it has asked, in the order of the  *)
(* composition data; its node does not change while it is at work.          *)
Shape ==
    /\ conf = [n \in Node |-> conf[n]]
    /\ alive \subseteq Node
    /\ pc \in Cleans => Addr \in Node
    /\ pc = "visit" => next \in PlaceOf
CleanInv ==
    /\ Shape
    /\ pc = "visit" => \A i \in PlaceOf : i < next => Passed(Composition[i])
    /\ pc = "del_key" => \A i \in PlaceOf : Passed(Composition[i])

LEMMA PlaceFacts == 1 \in PlaceOf /\ PlaceOf \subseteq Nat /\ Len(Composition) \in Nat
<1>1. Len(Composition) \in Nat /\ Len(Composition) # 0
  BY CompositionIsSeq
<1> QED
  BY <1>1 DEF PlaceOf

(* An operation changes at most the node it is for ... *)
LEMMA ReachesFacts ==
    ASSUME NEW o, conf = [n \in Node |-> conf[n]], alive \subseteq Node,
           Lost(o) \/ Accepted(o) \/ Refused(o) \/ Reaches(o)
    PROVE  /\ conf' = [n \in Node |-> conf'[n]]
           /\ alive' \subseteq Node
           /\ o.verb = "get" => conf' = conf
           /\ o.verb = "del" /\ o.attr = "key" =>
                  \A n \in Node : conf'[n] \subseteq conf[n]
<1>1. CASE UNCHANGED nodeVars
  BY <1>1 DEF nodeVars
<1>2. CASE Reaches(o)
  <2>1. CASE UNCHANGED nodeVars
    BY <2>1 DEF nodeVars
  <2>2. CASE /\ conf' = [conf EXCEPT ![Addr] = Applied(o, conf[Addr])]
             /\ alive' = IF o.verb = "reset" THEN alive \ {Addr} ELSE alive
             /\ Addr \in alive
    <3>1. Addr \in Node
      BY <2>2
    <3>2. /\ conf'[Addr] = Applied(o, conf[Addr])
          /\ \A n \in Node : n # Addr => conf'[n] = conf[n]
          /\ conf' = [n \in Node |-> conf'[n]]
      BY <2>2, <3>1
    <3>3. o.verb = "get" => Applied(o, conf[Addr]) = conf[Addr]
      BY DEF Applied
    <3>4. o.verb = "del" => Applied(o, conf[Addr]) \subseteq conf[Addr]
      BY DEF Applied
    <3>5. o.verb = "get" => conf' = conf
      BY <3>2, <3>3
    <3> QED
      BY <2>2, <3>2, <3>4, <3>5
  <2> QED
    BY <1>2, <2>1, <2>2 DEF Reaches, Alive
<1> QED
  BY <1>1, <1>2 DEF Lost, Accepted, Refused

(* ... and those of a clean-up bind no key. *)
LEMMA CleanUpOps ==
    /\ pc \in {"comp", "visit", "get_keys"} => CurrentOp.verb = "get"
    /\ pc = "del_key" => CurrentOp.verb = "del" /\ CurrentOp.attr = "key"
BY DEF CurrentOp, Op

(* A step of the command itself binds no model during a clean-up. *)
LEMMA PassedStays ==
    ASSUME CleanInv, pc \in Cleans, args' = args, rebound \subseteq rebound',
           Lost(CurrentOp) \/ Accepted(CurrentOp) \/ Refused(CurrentOp),
           NEW m, Passed(m)
    PROVE  Passed(m)'
<1>1. Addr \in Node
  BY DEF CleanInv, Shape
<1>2. conf'[Addr] \subseteq conf[Addr]
  BY <1>1, ReachesFacts, CleanUpOps DEF CleanInv, Shape, Cleans
<1>3. Addr' = Addr
  BY DEF Addr
<1> QED
  BY <1>2, <1>3 DEF Passed, UsesKey

LEMMA CleanInit == Init => CleanInv
<1> SUFFICES ASSUME Init PROVE CleanInv
  OBVIOUS
<1>1. alive \subseteq Node
  <2>1. alive \in {{Max(Node)}, Node}
    BY DEF Init
  <2> QED
    BY <2>1, MaxIsNode
<1> QED
  BY <1>1 DEF Init, CleanInv, Shape, Cleans

LEMMA LineKeeps == ASSUME CleanInv, NEW l \in Line, EnterLine(l) PROVE CleanInv'
<1>1. conf' = conf /\ alive' = alive
  BY DEF EnterLine, LineRejected, ArgsRejected, Starts, nodeVars
<1>2. pc' \notin Cleans
  BY DEF EnterLine, LineRejected, ArgsRejected, Starts, Ends, Types, Cleans
<1> QED
  BY <1>1, <1>2 DEF CleanInv, Shape, Cleans

(* The steps of other commands, and those with which a clean-up ends. *)
LEMMA NotCleaning ==
    ASSUME CleanInv, pc' \notin {"visit", "del_key"},
           pc' = "comp" => Addr' = Addr /\ Addr \in Node,
           Lost(CurrentOp) \/ Accepted(CurrentOp) \/ Refused(CurrentOp) \/ Reaches(CurrentOp)
    PROVE  CleanInv'
<1>1. conf' = [n \in Node |-> conf'[n]] /\ alive' \subseteq Node
  BY ReachesFacts DEF CleanInv, Shape
<1> QED
  BY <1>1 DEF CleanInv, Shape, Cleans

LEMMA RetryKeeps == ASSUME CleanInv, Retry PROVE CleanInv'
<1>1. /\ pc' = pc /\ args' = args /\ next' = next /\ rebound' = rebound /\ Lost(CurrentOp)
      /\ Addr' = Addr
  BY DEF Retry, Addr
<1>2. conf' = [n \in Node |-> conf'[n]] /\ alive' \subseteq Node
  BY <1>1, ReachesFacts DEF CleanInv, Shape
<1>3. pc \in Cleans => \A m : Passed(m) => Passed(m)'
  BY <1>1, PassedStays
<1>4. Shape'
  BY <1>1, <1>2 DEF CleanInv, Shape
<1> QED
  BY <1>1, <1>3, <1>4 DEF CleanInv, Cleans

LEMMA ActedKeeps == ASSUME CleanInv, Acted PROVE CleanInv'
<1>1. pc' \in {"comp", "idle"} /\ args' = args /\ Accepted(CurrentOp)
  BY DEF Acted
<1>2. Addr \in Node /\ Addr' = Addr
  BY <1>1 DEF Accepted, Alive, CleanInv, Shape, Addr
<1> QED
  BY <1>1, <1>2, NotCleaning

LEMMA CompKnownKeeps == ASSUME CleanInv, CompKnown PROVE CleanInv'
<1>1. pc = "comp" /\ pc' = "visit" /\ next' = 1 /\ args' = args /\ Accepted(CurrentOp)
  BY DEF CompKnown
<1>2. conf' = [n \in Node |-> conf'[n]] /\ alive' \subseteq Node
  BY <1>1, ReachesFacts DEF CleanInv, Shape
<1>3. Shape'
  BY <1>1, <1>2, PlaceFacts DEF CleanInv, Shape, Cleans, Addr
<1>4. \A i \in PlaceOf : ~(i < 1)
  BY DEF PlaceOf
<1> QED
  BY <1>1, <1>3, <1>4 DEF CleanInv

(* The model in hand does not use the key: one more has passed, or all have. *)
LEMMA ModelWithoutKeyKeeps == ASSUME CleanInv, ModelWithoutKey PROVE CleanInv'
<1>1. /\ pc = "visit" /\ args' = args /\ rebound' = rebound /\ Accepted(CurrentOp)
      /\ ~UsesKey(Composition[next]) /\ Addr' = Addr
      /\ IF next < Len(Composition) THEN next' = next + 1 /\ pc' = pc
         ELSE next' = next /\ pc' = "del_key"
  BY DEF ModelWithoutKey, Addr
<1>2. conf' = [n \in Node |-> conf'[n]] /\ alive' \subseteq Node
  BY <1>1, ReachesFacts DEF CleanInv, Shape
<1>3. next \in PlaceOf /\ next \in Nat /\ Len(Composition) \in Nat
  BY <1>1, PlaceFacts DEF CleanInv, Shape
<1>4. Shape'
  BY <1>1, <1>2, <1>3 DEF CleanInv, Shape, Cleans, PlaceOf
<1>5. \A m : Passed(m) => Passed(m)'
  BY <1>1, PassedStays DEF Cleans
<1>6. \A i \in PlaceOf : i <= next => Passed(Composition[i])'
  <2>1. Passed(Composition[next])
    BY <1>1 DEF Passed
  <2>2. \A i \in PlaceOf : i <= next => Passed(Composition[i])
    BY <1>1, <1>3, <2>1 DEF CleanInv, PlaceOf
  <2> QED
    BY <1>5, <2>2
<1>7. CASE next < Len(Composition)
  BY <1>1, <1>3, <1>4, <1>6, <1>7 DEF CleanInv, PlaceOf
<1>8. CASE ~(next < Len(Composition))
  <2>1. \A i \in PlaceOf : i <= next
    BY <1>3, <1>8 DEF PlaceOf
  <2> QED
    BY <1>1, <1>4, <1>6, <1>8, <2>1 DEF CleanInv
<1> QED
  BY <1>7, <1>8

LEMMA ShellStepKeeps == ASSUME CleanInv, ShellStep PROVE CleanInv'
<1>1. CASE Retry
  BY <1>1, RetryKeeps
<1>2. CASE Acted
  BY <1>2, ActedKeeps
<1>3. CASE CompKnown
  BY <1>3, CompKnownKeeps
<1>4. CASE ModelWithoutKey
  BY <1>4, ModelWithoutKeyKeeps
<1>5. CASE GiveUp \/ AnswerRefuses \/ KeysKnown \/ KeyAdded \/ ModelUsesKey \/ KeyCleaned
  <2>1. pc' \in {"idle", "act", "add_key"}
    BY <1>5 DEF GiveUp, AnswerRefuses, KeysKnown, KeyAdded, ModelUsesKey, KeyCleaned, Ends
  <2>2. Lost(CurrentOp) \/ Accepted(CurrentOp) \/ Refused(CurrentOp)
    BY <1>5 DEF GiveUp, AnswerRefuses, KeysKnown, KeyAdded, ModelUsesKey, KeyCleaned
  <2> QED
    BY <2>1, <2>2, NotCleaning
<1>6. CASE ResetPerformed
  <2>1. pc' \in {"asleep", "idle"}
    BY <1>6 DEF ResetPerformed, Ends
  <2>2. Lost(CurrentOp) \/ Reaches(CurrentOp)
    BY <1>6 DEF ResetPerformed
  <2> QED
    BY <2>1, <2>2, NotCleaning
<1>7. CASE ResetSeen \/ ResetNotSeen \/ ResetChecked
  <2>1. pc' \in {"idle", "deleted"} /\ conf' = conf /\ alive' = alive
    BY <1>7 DEF ResetSeen, ResetNotSeen, ResetChecked, Ends, nodeVars
  <2> QED
    BY <2>1 DEF CleanInv, Shape, Cleans
<1> QED
  BY <1>1, <1>2, <1>3, <1>4, <1>5, <1>6, <1>7 DEF ShellStep

(* The gateway thread may bind a model behind the clean-up's back; it is noted. *)
LEMMA BindsKeeps ==
    ASSUME CleanInv, NEW n \in Node, NEW m \in Model, NEW k \in CdbAppKey, GatewayBinds(n, m, k)
    PROVE  CleanInv'
<1>1. /\ conf' = [conf EXCEPT ![n] = conf[n] \cup {<<"key", <<>>, k>>, <<"bound", m, k>>}]
      /\ rebound' = IF n = Addr THEN rebound \cup {m} ELSE rebound
      /\ pc' = pc /\ args' = args /\ next' = next /\ alive' = alive /\ Addr' = Addr
  BY DEF GatewayBinds, shellVars, Addr
<1>2. /\ conf'[n] = conf[n] \cup {<<"key", <<>>, k>>, <<"bound", m, k>>}
      /\ \A x \in Node : x # n => conf'[x] = conf[x]
      /\ conf' = [x \in Node |-> conf'[x]]
  BY <1>1 DEF CleanInv, Shape
<1>3. Shape'
  BY <1>1, <1>2 DEF CleanInv, Shape
<1>4. ASSUME pc \in Cleans, NEW x, Passed(x) PROVE Passed(x)'
  <2>1. Addr \in Node
    BY <1>4 DEF CleanInv, Shape
  <2>2. CASE n = Addr /\ x = m
    BY <1>1, <2>2 DEF Passed
  <2>3. CASE n = Addr /\ x # m
    <3>1. <<"bound", x, args["APP_IDX"]>> # <<"bound", m, k>>
      BY <2>3
    <3>2. <<"bound", x, args["APP_IDX"]>> # <<"key", <<>>, k>>
      OBVIOUS
    <3>3. UsesKey(x)' => UsesKey(x)
      BY <1>1, <1>2, <2>3, <3>1, <3>2 DEF UsesKey
    <3> QED
      BY <1>1, <1>4, <3>3 DEF Passed
  <2>4. CASE n # Addr
    BY <1>1, <1>2, <1>4, <2>1, <2>4 DEF Passed, UsesKey
  <2> QED
    BY <2>2, <2>3, <2>4
<1> QED
  BY <1>1, <1>3, <1>4 DEF CleanInv, Cleans

LEMMA CleanNext == CleanInv /\ [Next]_vars => CleanInv'
<1> SUFFICES ASSUME CleanInv, [Next]_vars PROVE CleanInv'
  OBVIOUS
<1>1. CASE \E l \in Line : EnterLine(l)
  BY <1>1, LineKeeps
<1>2. CASE ShellStep
  BY <1>2, ShellStepKeeps
<1>3. CASE \/ UNCHANGED vars
           \/ \E d \in Node : Beacons(d) \/ Expires(d)
           \/ \E d \in Node, n \in Node : GatewayProvisions(d, n)
  <2>1. /\ pc' = pc /\ args' = args /\ next' = next /\ rebound' = rebound /\ conf' = conf
        /\ Addr' = Addr
    BY <1>3 DEF vars, shellVars, nodeVars, Beacons, Expires, GatewayProvisions, Addr
  <2>2. alive' \subseteq Node
    BY <1>3 DEF vars, nodeVars, Beacons, Expires, GatewayProvisions, CleanInv, Shape
  <2>3. \A m : Passed(m)' <=> Passed(m)
    BY <2>1 DEF Passed, UsesKey
  <2> QED
    BY <2>1, <2>2, <2>3 DEF CleanInv, Shape
<1>4. CASE \E n \in Node, m \in Model, k \in CdbAppKey : GatewayBinds(n, m, k)
  BY <1>4, BindsKeeps
<1> QED
  BY <1>1, <1>2, <1>3, <1>4 DEF Next, Environment

(* CleanUpSound: the key that a clean-up deletes from a node is used by none of its    *)
(* models but those that were bound since the clean-up began, however many models   *)
(* the node has and however often an answer is lost.                            *)
THEOREM CleanUpSound == Spec => CleanUpKeepsUsed
<1>1. ASSUME CleanInv
      PROVE  [pc = "del_key" => \A m \in Model : UsesKey(m) /\ ~UsesKey(m)' => m \in rebound]_vars
  BY <1>1 DEF CleanInv, Passed, Model, PlaceOf
<1> QED
  BY <1>1, CleanInit, CleanNext, PTL DEF Spec, CleanUpKeepsUsed

=============================================================================
