--------------------------------- MODULE MCShell ---------------------------------
(* An instance of Shell for TLC: numbers of 2, 3 and 5 bits, two nodes with two *)
(* SIG models and one vendor model, and lines of every shape.                 *)
EXTENDS Shell

L(words, toks) == [words |-> words, toks |-> toks]
N(n) == <<"num", n>>
W(w) == <<"word", w>>

TwoNodes == 1..2
ThreeModels == <<<<1, 1, 0>>, <<1, 2, 0>>, <<1, 2, 3>>>>

FeatureLines ==
    {L(<<"node", "ttl", "set">>, <<N(1), N(2)>>),
     L(<<"node", "ttl", "set">>, <<N(1), N(9)>>),
     L(<<"node", "ttl", "set">>, <<N(1), N(18)>>),
     L(<<"node", "relay", "set">>, <<N(1), W("enable"), N(1), N(1)>>),
     L(<<"node", "relay", "set">>, <<N(1), W("enable")>>),
     L(<<"node", "beacon", "get">>, <<N(1)>>),
     L(<<"node", "hb-sub-set">>, <<N(1), N(2), N(6), N(1), N(1), N(1), N(2)>>),
     L(<<"node", "hb-sub-set">>, <<N(1), N(2), N(6), N(7), N(1), N(1), N(1), N(2)>>)}

NodeLines ==
    {L(<<"node", "list">>, <<>>),
     L(<<"node", "reset">>, <<N(1)>>),
     L(<<"node", "reset">>, <<N(2)>>),
     L(<<"node", "subnet", "add">>, <<N(1), N(0)>>),
     L(<<"node", "subnet", "add">>, <<N(1), N(5)>>),
     L(<<"node", "subnet", "delete">>, <<N(1), N(0)>>),
     L(<<"node", "subnet", "remove">>, <<N(1), N(0)>>),
     L(<<"node", "configured", "set">>, <<N(1)>>),
     L(<<"node", "configured", "unset">>, <<N(1)>>),
     L(<<"node", "configured", "sett">>, <<N(2)>>)}

ModelLines ==
    {L(<<"model", "appkey", "bind">>, <<N(1), N(0), N(1), N(1)>>),
     L(<<"model", "appkey", "unbind">>, <<N(1), N(0), N(1), N(1)>>),
     L(<<"model", "appkey", "bind-vnd">>, <<N(1), N(0), N(1), N(2), N(3)>>),
     L(<<"model", "publish", "set">>,
       <<N(1), N(1), N(2), N(3), N(0), W("disable"), N(1), W("1s"), N(1), N(1), N(1)>>),
     L(<<"model", "subscribe", "add">>, <<N(1), N(1), N(1), N(6)>>),
     L(<<"model", "subscribe", "delete">>, <<N(1), N(1), N(1), N(6)>>),
     L(<<"model", "subscribe", "dele">>, <<N(1), N(1), N(2), N(7)>>),
     L(<<"model", "subscribe", "delete">>, <<N(1), N(1), N(2), N(3)>>),
     L(<<"model", "subscribe", "get-vnd">>, <<N(1), N(1), N(2), N(3)>>),
     L(<<"model", "subscribe", "overwrite-vnd">>, <<N(1), N(1), N(2), N(3), N(7)>>)}

OtherLines ==
    {L(<<"message", "send">>, <<N(0), N(0), N(1), N(5)>>),
     L(<<"health", "period", "set">>, <<N(1), N(0), N(1)>>),
     L(<<"health", "timeout", "get">>, <<>>)}

AllLines == FeatureLines \cup NodeLines \cup ModelLines \cup OtherLines

=============================================================================
