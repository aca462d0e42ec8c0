------------------------------ MODULE MCHttp1 ------------------------------
(* Instances of Http1 for TLC: what a client sends and what may happen. *)
EXTENDS Http1

Req(line, heads, framing, data, keep, want) ==
  [blank |-> 0, line |-> line, bad |-> FALSE, heads |-> heads, framing |-> framing, data |-> data, keep |-> keep, want |-> want]
Get(keep) == Req(1, <<1>>, "none", <<>>, keep, "static")
X(n) == Repeat("x", n)
Every(s) == [s EXCEPT !.cuts = 1..Len(s.stream)]
\* A chunk of two and the end; with LF only, an extension and a trailer.
CrLf == <<"2", "r", "n", "x", "x", "r", "n", "0", "r", "n", "r", "n">>
Bare == <<"1", ";", "n", "x", "n", "0", ";", "n", "t", "n", "n">>
Long == <<"1", "0", "n">> \o X(16) \o <<"n", "0", "n", "n">>
Wrong == <<"1", "n", "x", "n", "x", "n">>

S(reqs, events) == Every(Client(reqs, FALSE, events))
MCSetups ==
  { S(<<Get(TRUE), Get(TRUE), Get(FALSE)>>, {"block", "exit", "drain"}),
    S(<<Get(TRUE), Get(TRUE), Get(TRUE), Get(TRUE)>>, {"fin"}),
    S(<<Req(5, <<3, 5>>, "none", <<>>, TRUE, "static"), Get(TRUE), Req(3, <<5>>, "none", <<>>, FALSE, "static")>>, {"fin"}),
    S(<<Req(8, <<1>>, "none", <<>>, TRUE, "static")>>, {"fin"}),
    S(<<Req(1, <<8>>, "none", <<>>, TRUE, "static")>>, {"fin"}),
    S(<<Req(5, <<3, 5, 3, 3>>, "none", <<>>, TRUE, "static")>>, {"fin"}),
    S(<<Req(1, <<1>>, "length", X(5), TRUE, "static"), Get(TRUE)>>, {"fin", "time", "block"}),
    S(<<Req(1, <<1>>, "chunked", CrLf, TRUE, "static"), Get(TRUE)>>, {"fin", "time", "block"}),
    S(<<Req(1, <<1>>, "chunked", Bare, TRUE, "proxy"), Get(TRUE)>>, {"fin", "block"}),
    [S(<<Req(1, <<1>>, "chunked", CrLf, TRUE, "stream"), Get(TRUE)>>, {"early", "block"}) EXCEPT !.cuts = {3, 5, 7, 8, 11, 15, 16, 18}],
    S(<<Req(1, <<1>>, "length", X(5), TRUE, "stream"), Get(TRUE)>>, {"early", "fin"}),
    S(<<Req(1, <<1>>, "length", X(5), TRUE, "proxy"), Get(TRUE)>>, {"reset"}),
    S(<<Req(1, <<1>>, "length", X(7), TRUE, "proxy"), Get(TRUE)>>, {"reset"}),
    S(<<Req(1, <<1>>, "chunked", Long, TRUE, "proxy"), Get(TRUE)>>, {"time"}),
    S(<<Req(1, <<1>>, "chunked", Wrong, TRUE, "proxy"), Get(TRUE)>>, {}),
    S(<<Req(1, <<1>>, "chunked", Wrong, TRUE, "static"), Get(TRUE)>>, {}),
    S(<<Req(1, <<1>>, "length", X(3), TRUE, "refuse"), Get(TRUE)>>, {"fin"}),
    S(<<Req(1, <<1>>, "chunked", CrLf, TRUE, "missing"), Get(TRUE)>>, {"fin"}),
    S(<<Req(1, <<1>>, "length", X(3), TRUE, "missing"), Get(TRUE)>>, {}),
    S(<<Req(1, <<1>>, "length", X(3), TRUE, "static"), Get(TRUE)>>, {"reset"}),
    Every(Client(<<[Get(TRUE) EXCEPT !.blank = 3], [Get(TRUE) EXCEPT !.bad = TRUE]>>, TRUE, {"defer", "fin", "drain"})) }
\* A body is too long, or discarded before another error, and the client half-closes.
MCLeakSetups == { S(<<Req(1, <<1>>, "length", X(7), TRUE, "proxy")>>, {"fin"}) }
=============================================================================
