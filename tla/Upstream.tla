------------------------------- MODULE Upstream -------------------------------
(***************************************************************************)
(* Requests that a worker passes on to the servers of an upstream            *)
(* (http/ngx_http_upstream.c), with the connections it keeps to them         *)
(* (ngx_http_upstream_keepalive_module.c).  A worker handles one event of    *)
(* one request at a time; a handler may go from server to server before it   *)
(* returns: until then nothing else happens.                                 *)
(***************************************************************************)
EXTENDS Peers

\* A setup also has: kinds, what a request may be ([post, unbuffered, cacheable,
\* key]); conf, the directives proxy_next_upstream (nextOn, nextTries,
\* nextTimeout), keepalive, proxy_ignore_client_abort, whether the protocol
\* preserves its output (grpc) and whether it is over SSL; and the bounds,
\* requests and maxNow.
CONSTANT Requests   \* 1 .. the most a setup uses
Conf == setup.conf

\* What proxy_next_upstream may name.
NextOn == {"error", "timeout", "invalid", "500", "404", "non_idempotent"}
\* Bound: a setup that resolves a name has one request, whose servers they are.
ASSUME UpstreamAssumption ==
  /\ Requests \subseteq Nat \ {0} /\ IsFiniteSet(Requests)
  /\ \A s \in Setups :
       /\ s.conf.nextTries \in Nat /\ s.conf.keep \in Nat /\ s.maxNow \in Nat /\ s.requests \in Nat
       /\ s.conf.nextOn \subseteq NextOn
       /\ s.conf.resolve => s.requests <= 1
       /\ s.kinds \subseteq [post : BOOLEAN, unbuffered : BOOLEAN, cacheable : BOOLEAN, key : DOMAIN s.orders]

VARIABLES
  req,      \* per request: r->upstream and what became of the request
  tries,    \* per request: u->peer.tries
  peers,    \* the servers' counters
  pool,     \* idle connections, the one used last first
  now,
  hops,     \* how many servers the handler that runs has gone on to
  probes    \* history: when a server that had failed was last asked, twice

vars == <<req, tries, peers, pool, now, hops, probes, setup>>

Fresh(k) ==
  [st |-> "new", kind |-> k, d |-> DataInit(k.key), peer |-> 0, start |-> 0,
   conn |-> "none", reading |-> "header", requestSent |-> FALSE, bodySent |-> FALSE,
   headerSent |-> FALSE, whole |-> FALSE, keepalive |-> FALSE, timer |-> FALSE, stop |-> FALSE,
   gone |-> FALSE, asked |-> {}, result |-> "none"]

\* Not used in this setup.
Never == [Fresh([post |-> FALSE, unbuffered |-> FALSE, cacheable |-> FALSE, key |-> 1]) EXCEPT !.st = "done"]

\* What the outside does: a server refuses, how far a write gets, whether the
\* answer lets the connection be kept.
Env == [refuse : BOOLEAN, send : {"all", "part", "error"}, keep : {FALSE}]
World(env) == [req |-> req, tries |-> tries, peers |-> peers, pool |-> pool, now |-> now, probes |-> probes, env |-> env]
Quiet == [refuse |-> FALSE, send |-> "part", keep |-> FALSE]
Become(w) ==
  \E v \in {w} : /\ req' = v.req /\ tries' = v.tries /\ peers' = v.peers /\ pool' = v.pool
                 /\ now' = v.now /\ probes' = v.probes /\ UNCHANGED setup
                 /\ hops' = IF \E q \in Requests : v.req[q].st = "connect" THEN hops + 1 ELSE 0
Live(q) == req[q].st \notin {"new", "done"}

-----------------------------------------------------------------------------
(* Connections.                                                              *)
\* Mutant: whether the request was sent is not looked at.
MayPoolUnsent(e, how) == Conf.keep > 0 /\ how # "failed" /\ e.conn \in {"fresh", "cached"} /\ e.keepalive
\* May the connection be used again.
MayPool(e, how) ==
  Conf.keep > 0 /\ how # "failed" /\ e.conn \in {"fresh", "cached"} /\ e.keepalive /\ e.bodySent

\* ngx_http_upstream_free_keepalive_peer: the least recently used one makes room.
Pooled(w, e) ==
  LET item == [peer |-> e.peer, eof |-> FALSE, clean |-> e.bodySent /\ e.whole]
  IN SubSeq(<<item>> \o w.pool, 1, IF Len(w.pool) < Conf.keep THEN Len(w.pool) + 1 ELSE Conf.keep)

\* Mutant: the request still holds the server, and frees it again at its end.
ReleaseTwice(w, q, how) ==
  LET e == w.req[q] IN
  IF e.peer = 0 THEN w
  ELSE [w EXCEPT !.peers = FreePeer(@, e.peer, how, w.now), !.tries[q] = TriesAfter(@)]
\* u->peer.free, after which the server is nobody's: u->peer.sockaddr = NULL.
Release(w, q, how) ==
  LET e == w.req[q] IN
  IF e.peer = 0 THEN w
  ELSE [w EXCEPT !.pool = IF MayPool(e, how) THEN Pooled(w, e) ELSE @,
                 !.peers = FreePeer(@, e.peer, how, w.now),
                 !.tries[q] = TriesAfter(@),
                 !.req[q] = [e EXCEPT !.peer = 0, !.conn = IF MayPool(e, how) THEN "none" ELSE @]]

-----------------------------------------------------------------------------
(* The end, and the next server.                                             *)
\* ngx_http_upstream_finalize_request: an answer of our own only if nothing was
\* sent; what the request held is freed.
Finalize(w, q, rc) ==
  LET e == w.req[q] IN
  IF e.st = "done" THEN w
  ELSE [Release(w, q, "ok") EXCEPT !.tries[q] = 0,
          !.req[q] = [Fresh(e.kind) EXCEPT !.st = "done", !.asked = e.asked,
                        !.result = CASE rc = "ok" /\ e.headerSent -> "full"
                                     [] ~e.headerSent -> "error"
                                     [] OTHER -> "broken"]]

\* Mutant: a request that may not be repeated is, when the connection breaks.
MayRepeatAny(e, ft, t) == {ft} \subseteq Conf.nextOn /\ ~(e.requestSent /\ e.kind.unbuffered)
\* May the request go to another server after ft.
MayRepeat(e, ft, t) ==
  /\ {ft} \union (IF e.requestSent /\ e.kind.post THEN {"non_idempotent"} ELSE {}) \subseteq Conf.nextOn
  /\ ~(e.requestSent /\ e.kind.unbuffered)
  /\ ~(Conf.nextTimeout > 0 /\ t - e.start >= Conf.nextTimeout)

\* ngx_http_upstream_next: a connection that was kept and broke costs no try.  A stale answer
\* of the cache (cache_use_stale) in place of the error is an end like the error's.
NextServer(w, q, ft) ==
  LET e == w.req[q]
      refund == e.conn \in {"cached", "stale"} /\ ft = "error"
      r == Release(w, q, IF ft = "404" THEN "next" ELSE "failed")
      a == [r EXCEPT !.tries[q] = IF refund THEN @ + 1 ELSE @]
  IN IF e.gone THEN Finalize(a, q, "499")
     ELSE IF a.tries[q] = 0 \/ ~MayRepeat(e, ft, w.now) THEN Finalize(a, q, ft)
     ELSE [a EXCEPT !.req[q] = [@ EXCEPT !.st = "connect", !.conn = "none"]]

-----------------------------------------------------------------------------
(* Asking a server.                                                          *)
\* ngx_http_upstream_send_request_body: as much as the server, and a client whose
\* body is not buffered, let go.
SendBody(w, q) ==
  [w EXCEPT !.req[q] = [@ EXCEPT !.st = "open", !.requestSent = TRUE, !.asked = w.req[q].asked \union {w.req[q].peer},
                                 !.bodySent = w.env.send = "all"]]

\* ngx_http_upstream_send_request; an idle connection that was closed shows it now.
SendRequest(w, q) ==
  LET a == SendBody(w, q)
      e == a.req[q]
      s == [a EXCEPT !.req[q].timer = ~e.bodySent]
  IN IF w.env.send = "error" \/ (e.bodySent /\ e.conn = "stale" /\ ~e.headerSent)
     THEN NextServer(s, q, "error") ELSE s

\* ngx_http_upstream_reinit.
Reinit(e) == IF e.requestSent THEN [e EXCEPT !.keepalive = FALSE, !.whole = FALSE] ELSE e

\* ngx_http_upstream_connect, on the connection it got.
Opened(w, q, conn, st) ==
  [w EXCEPT !.req[q] =
     [Reinit(@) EXCEPT !.conn = conn, !.st = st, !.reading = "header", !.requestSent = FALSE,
                       !.bodySent = FALSE, !.timer = TRUE, !.stop = FALSE]]

\* ngx_http_upstream_get_keepalive_peer: the idle connections to the server.
Idle(w, i) == {k \in DOMAIN w.pool : w.pool[k].peer = i}

\* The peer that u->peer.get gave; a server that had failed is probed.
Chosen(w, q, g) ==
  LET i == g.peer IN
  [w EXCEPT !.peers = g.p, !.req[q] = [@ EXCEPT !.d = g.d, !.peer = i, !.conn = "none"],
            !.probes = [j \in Index |-> IF j = i /\ Servers[j].maxFails > 0 /\ w.peers[j].fails >= Servers[j].maxFails /\ ~Single
                                        THEN <<Last(@[j]), w.now>> ELSE @[j]]]

\* ngx_event_connect_peer: an idle connection to the chosen server, or a new one.
Connect(w, q) ==
  LET i == w.req[q].peer
      k == Min(Idle(w, i))
  IN IF i = 0 \/ (Idle(w, i) = {} /\ w.env.refuse) THEN NextServer(w, q, IF i = 0 THEN "nolive" ELSE "error")
     ELSE IF Idle(w, i) = {} THEN Opened(w, q, "fresh", "connecting")
     ELSE SendRequest(Opened([w EXCEPT !.pool = RemoveAt(@, k)], q, IF w.pool[k].eof THEN "stale" ELSE "cached", "open"), q)

\* The handler goes on to the next server, until one is asked or it gives up.
Attempt(q) ==
  /\ req[q].st = "connect"
  /\ \E env \in Env : Become(Connect(Chosen(World(env), q, GetPeer(peers, req[q].d, now)), q))

-----------------------------------------------------------------------------
(* The answer.                                                               *)
\* ngx_http_upstream_upgrade.
Upgrade(w, q) == [w EXCEPT !.req[q] = [@ EXCEPT !.reading = "upgraded", !.stop = TRUE]]

\* The answer is complete, and says whether the connection may be kept.
Complete(w, q) ==
  Finalize([w EXCEPT !.req[q] = [@ EXCEPT !.whole = TRUE, !.keepalive = w.env.keep]], q, "ok")

\* ngx_http_upstream_send_response; a: "101" switches protocols, "200" has a body
\* to come, "whole" has not.
SendResponse(w, q, a) ==
  LET s == [w EXCEPT !.req[q] = [@ EXCEPT !.headerSent = TRUE, !.reading = "body"]] IN
  IF w.req[q].headerSent THEN Finalize(s, q, "502")
  ELSE CASE a = "101" -> Upgrade(s, q)
         [] a = "200" -> s
         [] OTHER -> Complete(s, q)

\* ngx_http_upstream_test_next: is there another server to ask after a bad status.
TestNext(w, q, status) == w.tries[q] > 1 /\ MayRepeat(w.req[q], status, w.now)

\* ngx_http_upstream_intercept_errors: an error page of our own.
Intercepted(a) == Conf.intercept /\ a \in {"500", "404"}

\* ngx_http_upstream_process_headers: the answer names another location, which
\* the request goes to without an upstream.
Redirect(w, q) == [Finalize(w, q, "declined") EXCEPT !.req[q].result = "redirected"]

\* ngx_http_upstream_process_header.
ProcessHeader(w, q, a) ==
  CASE a = "eof" -> NextServer(w, q, "error")
    [] a = "invalid" -> NextServer(w, q, "invalid")
    [] a \in {"500", "404"} /\ TestNext(w, q, a) -> NextServer(w, q, a)
    [] Intercepted(a) /\ ~TestNext(w, q, a) -> Finalize(w, q, a)
    [] a = "redirect" -> Redirect(w, q)
    [] OTHER -> SendResponse(w, q, a)

\* ngx_http_upstream_process_request: the pipe has come to an end; a response
\* without a length ends with the connection.
ProcessRequest(w, q, a) ==
  CASE a = "done" -> Complete(w, q)
    [] a = "closed" -> Finalize(w, q, "ok")
    [] a = "client" -> IF w.req[q].kind.cacheable THEN w ELSE Finalize(w, q, "error")
    [] OTHER -> Finalize(w, q, "502")

\* ngx_http_upstream_process_non_buffered_request.
ProcessDirect(w, q, a) ==
  CASE a = "done" -> Complete(w, q)
    [] a = "closed" -> Finalize(w, q, "ok")
    [] OTHER -> Finalize(w, q, IF a = "client" THEN "408" ELSE "502")

\* ngx_http_upstream_process_upgraded: one side has closed, or does nothing.
ProcessUpgraded(w, q, a) == Finalize(w, q, IF a \in {"done", "closed"} THEN "ok" ELSE "504")

-----------------------------------------------------------------------------
(* Events.                                                                   *)
Init ==
  /\ setup \in Setups /\ req \in [Requests -> {Fresh(k) : k \in setup.kinds} \union {Never}]
  /\ \A q \in Requests : req[q] = Never <=> q > setup.requests
  /\ tries = [q \in Requests |-> 0] /\ peers = PeersInit /\ pool = <<>> /\ now = 0 /\ hops = 0
  /\ probes = [i \in Index |-> <<-1, -1>>]

\* u->peer.tries, at most proxy_next_upstream_tries.
TriesAtFirst == IF Conf.nextTries > 0 /\ TriesInit > Conf.nextTries THEN Conf.nextTries ELSE TriesInit
Go(w, q) == [w EXCEPT !.req[q] = [@ EXCEPT !.st = "connect", !.start = now], !.tries[q] = TriesAtFirst]

\* ngx_http_upstream_init_request.  Bound: the requests start in their order.
Start(q) ==
  /\ req[q].st = "new" /\ \A p \in 1 .. (q - 1) : req[p].st # "new"
  /\ Become(IF Conf.resolve THEN [World(Quiet) EXCEPT !.req[q].st = "resolving"] ELSE Go(World(Quiet), q))

\* ngx_http_upstream_resolve_handler: the addresses of the name are the request's
\* own servers.
Resolved(q, ok) ==
  /\ req[q].st = "resolving"
  /\ Become(IF ok THEN Go(World(Quiet), q) ELSE Finalize(World(Quiet), q, "502"))

\* Once the answer has begun the write event is not acted on any more.
Ignored(q) == req[q].headerSent /\ ~Conf.preserve

\* ngx_http_upstream_send_request_handler: the connection is there, or takes more.
Connected(q, ok) ==
  /\ req[q].st \in {"connecting", "handshake"}
  /\ \E env \in Env : Become(
       IF ~ok THEN NextServer(World(env), q, "error")
       ELSE IF Conf.ssl /\ req[q].st = "connecting" THEN [World(env) EXCEPT !.req[q].st = "handshake"]
       ELSE IF Ignored(q) /\ req[q].st = "connecting"
       THEN [World(env) EXCEPT !.req[q] = [@ EXCEPT !.st = "open", !.stop = TRUE]]
       ELSE SendRequest(World(env), q))

Writable(q) ==
  /\ req[q].st = "open" /\ ~req[q].bodySent /\ ~req[q].stop
  /\ IF Ignored(q)
     THEN Become([World(Quiet) EXCEPT !.req[q].stop = TRUE])
     ELSE \E env \in Env : Become(SendRequest(World(env), q))

\* The timer of the write event; it is not removed when the answer begins.
WriteTimeout(q) ==
  /\ Live(q) /\ req[q].timer /\ ~req[q].stop
  /\ Become(NextServer([World(Quiet) EXCEPT !.req[q].timer = FALSE], q, "timeout"))

\* The client has not sent the body in time: ngx_http_upstream_read_request_handler.
ClientTimeout(q) ==
  /\ req[q].st = "open" /\ ~req[q].bodySent /\ req[q].kind.unbuffered /\ req[q].reading # "upgraded"
  /\ Become(Finalize(World(Quiet), q, "408"))

Answers == {"eof", "invalid", "500", "404", "200", "whole", "101", "redirect"}
\* The header of the answer, ngx_http_upstream_process_header.
ReadHeader(q) ==
  /\ req[q].st = "open" /\ req[q].reading = "header"
  /\ \E a \in Answers, k \in BOOLEAN :
       /\ req[q].conn = "stale" => a = "eof"
       /\ k => a = "whole"
       /\ Become(ProcessHeader(World([Quiet EXCEPT !.keep = k]), q, a))

ReadTimeout(q) ==
  /\ req[q].st = "open" /\ req[q].reading = "header" /\ req[q].bodySent /\ ~req[q].headerSent
  /\ Become(NextServer(World(Quiet), q, "timeout"))

\* ngx_http_upstream_process_upstream: the rest of the answer.
ReadBody(q) ==
  /\ req[q].st = "open" /\ req[q].reading \in {"body", "upgraded"}
  /\ \E k \in BOOLEAN, a \in {"done", "closed", "broken"} :
       LET w == World([Quiet EXCEPT !.keep = k]) IN
       Become(IF req[q].reading = "upgraded" THEN ProcessUpgraded(w, q, a)
              ELSE IF Conf.buffering THEN ProcessRequest(w, q, a) ELSE ProcessDirect(w, q, a))

\* ngx_http_upstream_process_downstream: the client does not take the answer.  A write that
\* fails is an error of the connection (c->error, which is gone); one that times out is not.
ClientStops(q) ==
  /\ req[q].st = "open" /\ req[q].reading \in {"body", "upgraded"} /\ ~req[q].gone
  /\ \E error \in BOOLEAN :
       LET w == [World(Quiet) EXCEPT !.req[q].gone = error] IN
       Become(IF req[q].reading = "upgraded" THEN ProcessUpgraded(w, q, "client")
              ELSE IF Conf.buffering THEN ProcessRequest(w, q, "client") ELSE ProcessDirect(w, q, "client"))

\* ngx_http_upstream_check_broken_connection: without a server there is nothing
\* to finish for the cache.
ClientGone(q) ==
  /\ Live(q) /\ ~req[q].gone /\ ~Conf.ignoreAbort /\ req[q].reading = "header"
  /\ LET a == [World(Quiet) EXCEPT !.req[q].gone = TRUE] IN
     Become(IF req[q].kind.cacheable /\ req[q].st # "resolving" THEN a ELSE Finalize(a, q, "499"))

\* A server closes an idle connection; the worker sees it later.
ServerCloses(k) ==
  /\ k \in DOMAIN pool /\ ~pool[k].eof
  /\ Become([World(Quiet) EXCEPT !.pool[k].eof = TRUE])

\* ngx_http_upstream_keepalive_close_handler.
IdleClosed(k) ==
  /\ k \in DOMAIN pool /\ pool[k].eof
  /\ Become([World(Quiet) EXCEPT !.pool = RemoveAt(@, k)])

Tick == now < setup.maxNow /\ Become([World(Quiet) EXCEPT !.now = @ + 1])

Event(q) ==
  \/ Start(q) \/ (\E ok \in BOOLEAN : Resolved(q, ok) \/ Connected(q, ok)) \/ Writable(q) \/ WriteTimeout(q)
  \/ ClientTimeout(q) \/ ReadHeader(q) \/ ReadTimeout(q) \/ ReadBody(q) \/ ClientStops(q)
\* No handler is on its way to another server.
Returned == hops = 0
Next ==
  \/ \E q \in Requests : Attempt(q)
  \/ Returned /\ \E q \in Requests : Event(q) \/ ClientGone(q)
  \/ Returned /\ \E k \in DOMAIN pool : ServerCloses(k) \/ IdleClosed(k)
  \/ Returned /\ Tick

\* For a request under way some timer always runs, or its body is read: the
\* write timer, the read timer, or that of the client.  When it fires the
\* request ends or goes on with one try less.
Timed(q) ==
  \/ req[q].timer /\ ~req[q].stop
  \/ req[q].st = "open" /\ (req[q].reading # "header" \/ (req[q].bodySent /\ ~req[q].headerSent))
  \/ req[q].st = "open" /\ ~req[q].bodySent /\ req[q].kind.unbuffered
Counts == 0 .. TriesInit
Fires(q) == Timed(q) /\ tries' \in [Requests -> Counts] /\ tries'[q] < tries[q]
Begins(q) == req[q].st \in {"new", "resolving"} /\ tries' \in [Requests -> Counts] /\ tries'[q] > 0
\* A handler goes on until it returns.
HopsMax == TriesInit + Conf.keep
GoesOn == hops > 0 /\ hops' \in 0 .. HopsMax + 1 /\ hops' # hops
Spec == /\ Init /\ [][Next]_vars
        /\ \A q \in Requests : WF_tries(Begins(q)) /\ WF_tries(Fires(q))
        /\ WF_hops(GoesOn)

-----------------------------------------------------------------------------
(* Properties.                                                               *)
\* The variables hold values of their types.
TypeOK ==
  /\ Len(pool) <= Conf.keep /\ now \in 0 .. setup.maxNow
  /\ \A i \in Index : peers[i].effective \in 0 .. Servers[i].weight /\ peers[i].conns \in Nat
  /\ \A q \in Requests :
       /\ req[q].st \in {"new", "resolving", "connect", "connecting", "handshake", "open", "done"}
       /\ req[q].peer \in Index \union {0} /\ tries[q] \in Counts

\* A server counts exactly the requests that hold it, whatever way they went:
\* max_conns and least_conn go by that number, and a lost or a double release
\* would never be made good.  A request holds a server from when it is chosen until the next is, or the end.
ConnsAreHeld ==
  /\ \A i \in Index : peers[i].conns = Cardinality({q \in Requests : req[q].peer = i})
  /\ \A q \in Requests : (Live(q) /\ req[q].st \notin {"resolving", "connect"}) <=> req[q].peer # 0

\* The smooth weights always add up to nothing in each list of servers.
WeightsBalance ==
  \A b \in BOOLEAN : Over(Current(peers), Group(b)) = 0

\* A connection is kept only when the request went out as a whole and the answer
\* came in as a whole: no bytes of one exchange meet the next.
PooledAreClean == \A k \in DOMAIN pool : pool[k].clean

\* A handler goes to so many servers only, although an idle connection that
\* turns out to be closed costs no try.
HandlersReturn == hops <= HopsMax

\* Nothing above is ever lost, so that it can be relied on together.
Inv == TypeOK /\ ConnsAreHeld /\ WeightsBalance /\ PooledAreClean /\ HandlersReturn

\* A request that may not be repeated, by its method or because its body is
\* not kept, reaches one server only.
AskedOnce ==
  \A q \in Requests :
    (req[q].kind.post /\ "non_idempotent" \notin Conf.nextOn) \/ req[q].kind.unbuffered
      => Cardinality(req[q].asked) <= 1

\* A server that has failed is asked once in fail_timeout, by whatever request.
Quarantine ==
  \A i \in Index : probes[i][1] >= 0 => probes[i][2] - probes[i][1] > Servers[i].failTimeout

\* A request whose answer had begun and that was passed on by a write timeout
\* all the same: it is not sent and has no timer.
Stranded(q) == req[q].st = "open" /\ req[q].headerSent /\ req[q].reading = "header"

\* Every request is answered or given up, whatever the servers do, but for the
\* stranded ones.
RequestsEnd == \A q \in Requests : <>(req[q].st = "done" \/ Stranded(q))
=============================================================================
