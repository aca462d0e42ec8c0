-------------------------------- MODULE Http1 --------------------------------
(***************************************************************************)
(* One HTTP/1 connection of a visitor: ngx_http_request.c and              *)
(* ngx_http_request_body.c, from accept to close.  The client's stream is  *)
(* a sequence of units, request after request; the server's buffers hold   *)
(* parts of it and are given by positions in it.  A unit of a line is a    *)
(* piece of its text; a unit of a chunked body is a character.             *)
(*                                                                         *)
(* net  the stream on its way: sent by the client, taken by recv, and how  *)
(*      the client has ended                                               *)
(* rev  the read event of the connection and epoll's view of it            *)
(* mem  c->buffer (0) and the large buffers of ngx_http_connection_t       *)
(* r    the request in work                                                *)
(* c    the connection                                                     *)
(* log  history: where requests began, which were answered and whether the *)
(*      client was told to keep the connection, why it was closed          *)
(* at   what the worker does for this connection: the next piece of the    *)
(*      handler it is in, or "loop" when it is in its event loop           *)
(*                                                                         *)
(* An operator on a world w returns the world after the call.              *)
(***************************************************************************)
EXTENDS Integers, Sequences, SequencesExt, FiniteSetsExt, Functions, TLC

CONSTANTS
  HeaderSize,  \* client_header_buffer_size
  LargeSize,   \* large_client_header_buffers: the size of one
  LargeNum,    \* and their number
  BodySize,    \* client_body_buffer_size
  MaxBody,     \* client_max_body_size
  MaxRequests, \* keepalive_requests
  Setups       \* what clients send and what else may happen

ASSUME Http1Assumption ==
  /\ {HeaderSize, LargeSize, LargeNum, BodySize, MaxRequests} \subseteq Nat \ {0} /\ MaxBody \in Nat

VARIABLES setup, net, rev, mem, r, c, log, at
vars == <<setup, net, rev, mem, r, c, log, at>>

Repeat(u, n) == [i \in 1..n |-> u]
\* The units of a request: blank lines, a line, header lines, an empty line, a body.
Units(q) ==
  Repeat("e", q.blank) \o Repeat("l", q.line - 1) \o <<IF q.bad THEN "!" ELSE "L">>
    \o FlattenSeq([i \in DOMAIN q.heads |-> Repeat("h", q.heads[i] - 1) \o <<"H">>])
    \o <<"E">> \o q.data
Opening(reqs, proxy) == IF proxy THEN <<"P">> ELSE <<>>
\* What a client sends: its stream and where each request of it ends.
Client(reqs, proxy, events) ==
  LET lens == [k \in DOMAIN reqs |-> Len(Units(reqs[k]))] IN
  [reqs |-> reqs, proxy |-> proxy, events |-> events, cuts |-> {},
   stream |-> Opening(reqs, proxy) \o FlattenSeq([k \in DOMAIN reqs |-> Units(reqs[k])]),
   ends |-> [k \in DOMAIN reqs |-> FoldFunctionOnSet(+, Len(Opening(reqs, proxy)), lens, 1..k)]]
Begin(k) == IF k = 1 THEN Len(Opening(setup.reqs, setup.proxy)) ELSE setup.ends[k - 1]
Data(k) == Cardinality({i \in Begin(k) + 1..setup.ends[k] : setup.stream[i] = "x"})

NoReq == [n |-> 0]
Empty(p) == [base |-> p, pos |-> p, last |-> p]
World == [net |-> net, rev |-> rev, mem |-> mem, r |-> r, c |-> c, log |-> log, at |-> at]
Q(w) == setup.reqs[w.r.n]
Chunked(w) == Q(w).framing = "chunked"
B(w) == w.mem.buf[w.r.hin]
Size(b) == IF b = 0 THEN HeaderSize ELSE LargeSize
Full(w) == B(w).last - B(w).base = Size(w.r.hin)

-----------------------------------------------------------------------------
(* Events and the socket. *)

\* ngx_handle_read_event with epoll: what is there already makes an edge.
HandleRead(w) ==
  IF w.rev.active \/ w.rev.ready THEN w
  ELSE [w EXCEPT !.rev.active = TRUE, !.rev.edge = w.net.sent > w.net.got \/ w.net.fin # "open"]

\* ngx_unix_recv: n is what it returns, -1 for NGX_AGAIN and -2 for NGX_ERROR.
Recv(w, size) ==
  LET have == w.net.sent - w.net.got
      k == Min({have, size})
  IN IF (~w.rev.available /\ ~w.rev.pending_eof) \/ (have = 0 /\ w.net.fin = "open")
     THEN [n |-> -1, w |-> [w EXCEPT !.rev.ready = FALSE]]
     ELSE IF have = 0 /\ w.net.fin = "reset" THEN [n |-> -2, w |-> [w EXCEPT !.rev.ready = FALSE]]
     ELSE IF have = 0 THEN [n |-> 0, w |-> [w EXCEPT !.rev.ready = FALSE, !.rev.eof = TRUE]]
     ELSE [n |-> k,
           w |-> [w EXCEPT !.net.got = @ + k,
                           !.rev.ready = @ /\ (k = size \/ w.rev.pending_eof),
                           !.rev.available = @ /\ k = size]]

\* ngx_http_close_connection; the answer is cut off when the kernel still holds, or
\* will get, what the client sent before it could read the answer.
Close(w, why) ==
  LET k == Len(w.log.told)
      more == (w.net.sent > w.net.got /\ w.rev.ready) \/ (k > 0 /\ w.net.got < setup.ends[k])
  IN [w EXCEPT !.at = "closed", !.r = NoReq, !.mem = [buf |-> [b \in 0..LargeNum |-> Empty(0)], busy |-> <<>>, free |-> <<>>],
               !.rev = [@ EXCEPT !.handler = "none", !.timer = FALSE, !.posted = FALSE, !.ready = FALSE, !.edge = FALSE],
               !.c.reusable = FALSE, !.log.why = why,
               !.log.cut = k > 0 /\ w.net.fin = "open" /\ more /\ w.r.n > 0 /\ w.r.err \notin {400, 414}]

\* ngx_http_create_request
CreateRequest(w) ==
  LET b == IF w.mem.busy = <<>> THEN 0 ELSE Head(w.mem.busy) IN
  [w EXCEPT !.c.requests = @ + 1, !.log.first = Append(@, w.mem.buf[b].pos),
            !.r = [n |-> Len(w.log.first) + 1, hin |-> b, state |-> 0, old |-> 0, parts |-> {}, err |-> 0,
                   keepalive |-> FALSE, linger |-> FALSE, ltime |-> "none", discard |-> FALSE, reading |-> FALSE,
                   cl |-> -1, chunk |-> [st |-> "start", size |-> 0], rb |-> FALSE, rest |-> -1, held |-> 0,
                   space |-> 0, cap |-> 0, busy |-> FALSE, taken |-> 0, whole |-> FALSE, count |-> 1, rh |-> "block",
                   writer |-> FALSE, due |-> FALSE, app |-> FALSE, next |-> 0]]

-----------------------------------------------------------------------------
(* How a request ends. *)

\* ngx_http_close_request
CloseRequest(w, why) ==
  IF w.r.count > 1 THEN [w EXCEPT !.r.count = @ - 1, !.at = "loop"] ELSE Close(w, why)

\* ngx_http_finalize_request with an error of its own goes on in Special.
Fail(w, err) == [w EXCEPT !.at = "special", !.r.err = err]

\* Of the large buffers the one with pipelined data stays busy.
KeepBuffers(w) ==
  IF w.r.hin = 0 THEN w
  ELSE [w EXCEPT !.mem.free = Reverse(SelectSeq(w.mem.busy, LAMBDA b : b # w.r.hin)) \o @, !.mem.busy = <<w.r.hin>>]

NoBuffers(w) == [buf |-> [b \in 0..LargeNum |-> Empty(w.net.got)], busy |-> <<>>, free |-> <<>>]
\* Mutant: data that came before the connection was idle is left to an event.
SetIdleWaits(w) ==
  [w EXCEPT !.mem = NoBuffers(w), !.r = NoReq, !.rev.handler = "keep", !.rev.timer = TRUE,
            !.c.reusable = TRUE, !.at = "loop"]
\* The connection is idle; what came meanwhile is read at once.
SetIdle(w) ==
  [w EXCEPT !.mem = NoBuffers(w), !.r = NoReq, !.rev.handler = "keep", !.rev.timer = TRUE,
            !.rev.posted = w.rev.ready, !.c.reusable = TRUE, !.at = "loop"]

\* ngx_http_set_keepalive
SetKeepalive(w) ==
  IF w.r.discard THEN [w EXCEPT !.r.ltime = "running", !.rev.timer = TRUE, !.at = "loop"]
  ELSE IF B(w).pos < B(w).last
  THEN [CreateRequest(HandleRead(KeepBuffers(w)))
          EXCEPT !.rev.timer = FALSE, !.rev.handler = "line", !.rev.posted = TRUE, !.at = "loop"]
  ELSE SetIdle(HandleRead(w))

\* The handler of the read event is called; most look at once whether a timer has expired.
ReadEvent(w) ==
  LET h == IF w.rev.handler = "request" THEN w.r.rh ELSE w.rev.handler IN
  IF w.rev.timedout /\ h \notin {"test", "block"} THEN Close(w, "stale")
  ELSE IF h \in {"linger", "discarded"} /\ w.r.ltime = "up" THEN Close(w, IF h = "linger" THEN "linger" ELSE "late")
  ELSE IF h = "test" /\ w.rev.pending_eof THEN Close([w EXCEPT !.rev.eof = TRUE, !.c.error = TRUE], "client")
  ELSE [w EXCEPT !.at = CASE h = "discarded" -> "discard"
                          [] h = "body" \/ (h = "unbuffered" /\ w.r.reading) -> "body"
                          [] w.rev.handler # "request" -> h
                          [] OTHER -> "loop"]

\* Mutant: no timer limits the lingering.
LingersForGood(w) ==
  LET v == HandleRead([w EXCEPT !.rev.handler = "linger", !.r.ltime = "running", !.rev.timer = FALSE]) IN
  IF v.rev.ready THEN ReadEvent(v) ELSE [v EXCEPT !.at = "loop"]
\* ngx_http_set_lingering_close
SetLingeringClose(w) ==
  LET v == HandleRead([w EXCEPT !.rev.handler = "linger", !.r.ltime = "running", !.rev.timer = TRUE]) IN
  IF v.rev.ready THEN ReadEvent(v) ELSE [v EXCEPT !.at = "loop"]

\* Mutant: only the request's own wish counts.
LingersWhenAsked(w) == w.r.linger
Lingers(w) == w.r.linger \/ B(w).pos < B(w).last \/ w.rev.ready

\* ngx_http_finalize_connection
FinalizeConnection(w) ==
  IF w.r.count > 1
  THEN CloseRequest(IF w.r.discard
                    THEN [w EXCEPT !.r.rh = "discarded", !.rev.timer = TRUE,
                                   !.r.ltime = IF @ = "none" THEN "running" ELSE @]
                    ELSE w, "done")
  ELSE LET v == IF w.r.reading THEN [w EXCEPT !.r.keepalive = FALSE, !.r.linger = TRUE] ELSE w IN
       IF v.r.keepalive /\ ~v.c.exiting THEN SetKeepalive(v)
       ELSE IF Lingers(v) THEN SetLingeringClose(v)
       ELSE CloseRequest(v, "done")

\* ngx_http_finalize_request(r, NGX_OK) of a main request that has sent everything.
FinalizeRequest(w) ==
  LET v == [w EXCEPT !.r.rh = "block", !.r.writer = FALSE, !.rev.timer = FALSE] IN
  IF v.rev.eof THEN CloseRequest(v, "client") ELSE FinalizeConnection(v)

-----------------------------------------------------------------------------
(* Bodies. *)

Digits == {"0", "1", "2", "3"}
Value(u) == CHOOSE v \in 0..3 : <<"0", "1", "2", "3">>[v + 1] = u
\* ngx_http_parse_chunked: the state after CR, after LF and after anything else.
AfterCR == [size |-> "ext_lf", zero |-> "last_lf", ext |-> "ext_lf", last |-> "last_lf", after |-> "after_lf",
            trailer |-> "trailer_lf", field |-> "field_lf"]
AfterLF == [size |-> "data", zero |-> "trailer", ext |-> "data", ext_lf |-> "data", last |-> "trailer",
            last_lf |-> "trailer", after |-> "start", after_lf |-> "start", trailer |-> "done",
            trailer_lf |-> "done", field |-> "trailer", field_lf |-> "trailer"]
AfterOther == [ext |-> "ext", last |-> "last", after |-> "after", trailer |-> "field", field |-> "field"]
\* The extension of a chunk.
AfterSign == [size |-> "ext", zero |-> "last"] @@ AfterOther
To(f, st) == IF st \in DOMAIN f THEN f[st] ELSE "bad"

\* One character: what it does to the parser and to the count of the body.
ChunkUnit(x, u) ==
  IF x.st \in {"done", "bad", "big"} THEN x
  ELSE IF x.st = "data"
  THEN IF x.taken + x.size > x.max THEN [x EXCEPT !.st = "big"]
       ELSE [x EXCEPT !.size = @ - 1, !.st = IF x.size = 1 THEN "after" ELSE @, !.taken = @ + 1, !.used = @ + 1]
  ELSE IF x.st \in {"start", "size"} /\ u \in Digits
  THEN [x EXCEPT !.st = "size", !.size = IF x.st = "start" THEN Value(u) ELSE 16 * @ + Value(u), !.used = @ + 1]
  ELSE LET st == IF x.st = "size" /\ x.size = 0 THEN "zero" ELSE x.st
           to == To(CASE u = "r" -> AfterCR [] u = "n" -> AfterLF [] u = ";" -> AfterSign [] OTHER -> AfterOther, st)
       IN [x EXCEPT !.st = to, !.used = IF to = "bad" THEN @ ELSE @ + 1]

\* Mutant: the end of a body is thought to be as long as with CR LF.
LengthWithCR(st, size) ==
  CASE st = "start" -> 5
    [] st = "size" -> IF size > 0 THEN size + 9 ELSE 4
    [] st \in {"ext", "ext_lf"} -> size + 9
    [] st = "data" -> size + 7
    [] st \in {"after", "after_lf"} -> 7
    [] st \in {"last", "last_lf", "field", "field_lf"} -> 4
    [] OTHER -> 2
\* The least number of characters a body may still have.
Length(st, size) ==
  CASE st = "start" -> 3
    [] st = "size" -> IF size > 0 THEN size + 5 ELSE 2
    [] st \in {"ext", "ext_lf"} -> size + 5
    [] st = "data" -> size + 4
    [] st \in {"after", "after_lf"} -> 4
    [] st \in {"last", "last_lf", "field", "field_lf"} -> 2
    [] OTHER -> 1

\* The parser over the units from+1..to
Chunks(q, from, to, max) ==
  LET parsed[i \in from..to] ==
        IF i = from THEN [st |-> q.chunk.st, size |-> q.chunk.size, taken |-> q.taken, used |-> 0, max |-> max]
        ELSE CHOOSE y \in {ChunkUnit(x, setup.stream[i]) : x \in {parsed[i - 1]}} : TRUE
  IN parsed[to]

\* ngx_http_request_body_filter on the units from+1..to; rc is the error, if any.
BodyFilter(w, from, to) ==
  IF Chunked(w)
  THEN LET x == Chunks(w.r, from, to, IF MaxBody = 0 THEN Len(setup.stream) ELSE MaxBody) IN
       [used |-> x.used, rc |-> CASE x.st = "bad" -> 400 [] x.st = "big" -> 413 [] OTHER -> 0,
        w |-> [w EXCEPT !.r.chunk = [st |-> x.st, size |-> x.size], !.r.taken = x.taken,
                        !.r.rest = IF x.st = "done" THEN 0 ELSE Length(x.st, x.size),
                        !.r.linger = @ \/ x.st = "big", !.r.busy = @ \/ x.taken > w.r.taken]]
  ELSE LET rest == IF w.r.rest = -1 THEN w.r.cl ELSE w.r.rest
           k == Min({rest, to - from})
       IN [used |-> k, rc |-> 0,
           w |-> [w EXCEPT !.r.rest = rest - k, !.r.taken = @ + k, !.r.busy = @ \/ k > 0]]

\* ngx_http_discard_request_body_filter
DiscardFilter(w, from, to) ==
  IF Chunked(w)
  THEN LET x == Chunks(w.r, from, to, Len(setup.stream)) IN
       [used |-> x.used, rc |-> IF x.st = "bad" THEN 400 ELSE 0,
        w |-> [w EXCEPT !.r.rb = TRUE, !.r.chunk = [st |-> x.st, size |-> x.size], !.r.taken = x.taken,
                        !.r.cl = IF x.st = "done" THEN 0 ELSE Length(x.st, x.size)]]
  ELSE LET k == Min({w.r.cl, to - from}) IN
       [used |-> k, rc |-> 0, w |-> [w EXCEPT !.r.cl = @ - k, !.r.taken = @ + k]]

\* After the filter has used k units of what header_in holds.
Used(w, k) == [w EXCEPT !.mem.buf[w.r.hin].pos = @ + k]

\* The caller of ngx_http_discard_request_body goes on: it answers, or fails with an error.
After(w, next) == IF next = 0 THEN [w EXCEPT !.at = "answer"] ELSE Fail(w, next)
\* What the caller does when the body is malformed.
Malformed(w, next) ==
  IF w.r.err # 0 THEN [w EXCEPT !.r.keepalive = FALSE, !.at = "answer"] ELSE Fail(w, 400)

\* ngx_http_discard_request_body up to its loop
Discard(w, next) ==
  IF w.r.discard \/ w.r.rb THEN After(w, next)
  ELSE LET v == [w EXCEPT !.rev.timer = FALSE]
           f == DiscardFilter(v, B(v).pos, B(v).last)
           u == Used(f.w, f.used)
       IN IF v.r.cl <= 0 /\ ~Chunked(v) THEN After(v, next)
          ELSE IF f.rc # 0 THEN Malformed(u, next)
          ELSE IF u.r.cl = 0 THEN After(u, next)
          ELSE [u EXCEPT !.r.next = next, !.at = "discard"]

\* ngx_http_read_discarded_request_body is called by ngx_http_discarded_request_body_handler;
\* once that is the handler, it is for every further event of the request.
ByHandler == r.rh = "discarded"
\* The body is discarded, or the client does not send the rest of it.
Discarded(w) ==
  IF ByHandler THEN FinalizeConnection([w EXCEPT !.r.discard = FALSE, !.r.linger = FALSE])
  ELSE After([w EXCEPT !.r.linger = FALSE], w.r.next)
\* There is no more to discard now.
DiscardLater(w) ==
  IF ByHandler
  THEN [HandleRead(w) EXCEPT !.rev.timer = @ \/ w.r.ltime = "running", !.at = "loop"]
  ELSE After([HandleRead(w) EXCEPT !.r.rh = "discarded", !.r.discard = TRUE, !.r.count = @ + 1], w.r.next)

\* ngx_http_special_response_handler
SpecialResponse(w) ==
  IF w.c.error THEN Close(w, "client")
  ELSE Discard([w EXCEPT !.rev.timer = FALSE, !.rev.handler = "request",
                         !.r.keepalive = @ /\ w.r.err \notin {400, 413, 414}, !.r.linger = @ /\ w.r.err # 400], 0)

\* The content handler returns NGX_DONE after it has started to read a body.
Return(w) == IF w.r.due THEN FinalizeConnection([w EXCEPT !.r.due = FALSE, !.at = "loop"]) ELSE [w EXCEPT !.at = "loop"]
BodyError(w, rc) == Fail(IF w.r.due THEN [w EXCEPT !.r.due = FALSE, !.r.count = @ - 1] ELSE w, rc)
\* The whole body is here: the handler is called, or its own call returns NGX_OK.
BodyRead(w) ==
  Return([w EXCEPT !.rev.timer = FALSE, !.r.whole = TRUE, !.r.reading = FALSE, !.r.app = TRUE, !.r.rh = "test"])
Unbuffered(w) == Q(w).want = "stream"
BodyAgain(w) ==
  Return(IF w.r.due /\ Unbuffered(w) THEN [w EXCEPT !.r.reading = TRUE, !.r.app = TRUE, !.r.rh = "unbuffered"] ELSE w)

\* What the buffer of the body holds goes to the filters.
FilterHeld(w) ==
  LET f == BodyFilter(w, w.net.got - w.r.held, w.net.got) IN
  [f EXCEPT !.w.r.held = 0, !.w.r.busy = @ /\ Unbuffered(w)]

\* Mutant: the timer of the body is left as it was.
BodyWaitUntimed(w) ==
  LET f == IF Unbuffered(w) /\ w.r.held > 0 THEN FilterHeld(w) ELSE [rc |-> 0, w |-> w] IN
  IF f.rc # 0 THEN BodyError(f.w, f.rc) ELSE BodyAgain(HandleRead(f.w))
\* No more of the body is here now.
BodyWait(w) ==
  LET f == IF Unbuffered(w) /\ w.r.held > 0 THEN FilterHeld(w) ELSE [rc |-> 0, w |-> w] IN
  IF f.rc # 0 THEN BodyError(f.w, f.rc) ELSE BodyAgain(HandleRead([f.w EXCEPT !.rev.timer = TRUE]))

\* ngx_http_do_read_client_request_body: the buffer is full.
BodyFull(w) ==
  LET f == FilterHeld(w) IN
  IF f.rc # 0 THEN BodyError(f.w, f.rc)
  ELSE IF f.w.r.busy THEN BodyAgain(HandleRead([f.w EXCEPT !.rev.timer = FALSE]))
  ELSE [f.w EXCEPT !.r.space = w.r.cap]

\* and the rest of its loop
BodyRecv(w) ==
  LET rest == w.r.rest - w.r.held
      x == Recv(w, Min({w.r.space, rest}))
      v == [x.w EXCEPT !.r.held = @ + x.n, !.r.space = @ - x.n]
      f == IF x.n = rest THEN FilterHeld(v) ELSE [rc |-> 0, w |-> v]
  IN IF x.n = -1 THEN BodyWait(x.w)
     ELSE IF x.n \in {-2, 0} THEN BodyError([x.w EXCEPT !.c.error = TRUE], 400)
     ELSE IF f.rc # 0 THEN BodyError(f.w, f.rc)
     ELSE IF f.w.r.rest = 0 THEN BodyRead(f.w)
     ELSE IF f.w.r.space = 0 \/ f.w.rev.ready THEN f.w
     ELSE BodyWait(f.w)

\* ngx_http_read_client_request_body
ReadBody(w) ==
  LET a == [w EXCEPT !.r.count = @ + 1, !.r.due = TRUE, !.r.rb = TRUE]
      pre == B(a).last - B(a).pos
      f == BodyFilter(a, B(a).pos, B(a).last)
      u == Used(f.w, f.used)
      tail == Size(a.r.hin) - (B(a).last - B(a).base)
      cap == IF ~Chunked(a) /\ pre > 0 /\ u.r.rest <= tail THEN tail
             ELSE IF ~Chunked(a) /\ u.r.rest < BodySize + BodySize \div 4 THEN u.r.rest
             ELSE BodySize
  IN IF a.r.cl < 0 /\ ~Chunked(a) THEN BodyRead(a)
     ELSE IF f.rc # 0 THEN BodyError(u, f.rc)
     ELSE IF u.r.rest = 0 THEN BodyRead(u)
     ELSE [u EXCEPT !.r.cap = cap, !.r.space = cap, !.r.rh = "body", !.at = "body"]

-----------------------------------------------------------------------------
(* From the first byte to the content handler. *)

\* ngx_http_wait_request_handler
WaitRequest(w) ==
  LET x == Recv(w, HeaderSize)
      v == [x.w EXCEPT !.mem.buf[0] = [base |-> w.net.got, pos |-> w.net.got + (IF w.c.proxy THEN 1 ELSE 0),
                                       last |-> x.w.net.got],
                       !.c.proxy = FALSE]
  IN IF x.n = -1
     THEN [HandleRead([x.w EXCEPT !.rev.timer = TRUE, !.c.reusable = @ \/ ~w.rev.timer]) EXCEPT !.at = "loop"]
     ELSE IF x.n \in {-2, 0} THEN Close(x.w, "client")
     ELSE IF v.mem.buf[0].pos = v.mem.buf[0].last
     THEN [v EXCEPT !.mem.buf[0] = Empty(v.net.got), !.rev.posted = TRUE, !.at = "loop"]
     ELSE [CreateRequest(v) EXCEPT !.c.reusable = FALSE, !.rev.handler = "line", !.at = "line"]

\* ngx_http_keepalive_handler
KeepaliveRead(w) ==
  LET x == Recv(w, HeaderSize)
      v == [x.w EXCEPT !.mem.buf[0] = [base |-> w.net.got, pos |-> w.net.got, last |-> x.w.net.got]]
  IN IF x.n = -1 THEN [HandleRead(x.w) EXCEPT !.at = "loop"]
     ELSE IF x.n \in {-2, 0} THEN Close(x.w, "client")
     ELSE [CreateRequest(v) EXCEPT !.c.reusable = FALSE, !.rev.timer = FALSE, !.rev.handler = "line", !.at = "line"]

\* ngx_http_alloc_large_header_buffer; err # 0 is NGX_DECLINED and the caller's error.
AllocLarge(w, line) ==
  LET b == B(w)
      new == CHOOSE i \in 1..LargeNum : \A j \in DOMAIN w.mem.busy : w.mem.busy[j] # i
      i == IF w.mem.free # <<>> THEN Head(w.mem.free) ELSE new
      from == IF w.r.state = 0 THEN b.pos ELSE w.r.old
  IN IF line /\ w.r.state = 0 THEN [w EXCEPT !.mem.buf[w.r.hin] = Empty(b.pos)]
     ELSE IF (w.r.state # 0 /\ b.pos - w.r.old >= LargeSize) \/ (w.mem.free = <<>> /\ Len(w.mem.busy) >= LargeNum)
     THEN Fail([w EXCEPT !.r.linger = @ \/ ~line], IF line THEN 414 ELSE 494)
     ELSE [w EXCEPT !.mem.free = IF @ # <<>> THEN Tail(@) ELSE @, !.mem.busy = <<i>> \o @, !.r.hin = i,
                    !.mem.buf[i] = [base |-> from, pos |-> b.pos, last |-> b.pos]]

\* ngx_http_read_request_header
ReadHeader(w) ==
  LET x == IF w.rev.ready THEN Recv(w, Size(w.r.hin) - (B(w).last - B(w).base)) ELSE [n |-> -1, w |-> w] IN
  IF B(w).pos < B(w).last THEN [w EXCEPT !.at = "parse"]
  ELSE IF x.n = -1 THEN [HandleRead([x.w EXCEPT !.rev.timer = TRUE]) EXCEPT !.at = "loop"]
  ELSE IF x.n \in {-2, 0} THEN Fail([x.w EXCEPT !.c.error = TRUE], 400)
  ELSE [x.w EXCEPT !.mem.buf[w.r.hin].last = @ + x.n, !.at = "parse"]

\* Where in the buffer a unit of U is first, or 0.
First(w, U) ==
  LET found == {i \in B(w).pos + 1..B(w).last : setup.stream[i] \in U} IN IF found = {} THEN 0 ELSE Min(found)
\* The parsers stop at the end of what is there: the state and the start of the line stay.
ParseAgain(w, begun) ==
  [Used(w, B(w).last - B(w).pos) EXCEPT !.r.state = IF begun = 0 THEN @ ELSE 1,
                                        !.r.old = IF w.r.state = 0 /\ begun # 0 THEN begun - 1 ELSE @]
Part(w, begun, end) == <<w.r.hin, IF w.r.state = 0 THEN begun - 1 ELSE w.r.old, end>>

\* ngx_http_process_request_line after a read
ParseLine(w) ==
  LET end == First(w, {"L", "!"})
      begun == First(w, {"l", "L", "!"})
      v == ParseAgain(w, begun)
  IN IF end = 0
     THEN IF Full(v) THEN AllocLarge([v EXCEPT !.at = "line"], TRUE) ELSE [v EXCEPT !.at = "line"]
     ELSE IF setup.stream[end] = "!" THEN Fail(w, 400)
     ELSE [Used(w, end - B(w).pos) EXCEPT !.r.parts = {Part(w, begun, end)}, !.r.state = 0,
                                          !.rev.handler = "headers", !.at = "headers"]

\* The end of the headers: ngx_http_process_request_header and ngx_http_process_request
Process(w) ==
  [w EXCEPT !.r.cl = IF Q(w).framing = "length" THEN Len(Q(w).data) ELSE -1,
            !.rev.timer = FALSE, !.rev.handler = "request", !.r.rh = "block", !.at = "handler"]
\* One step of ngx_http_process_request_headers: a header, the end of them, or no more data.
ParseHeader(w) ==
  LET end == First(w, {"H", "E"})
      begun == First(w, {"h", "H"})
      v == ParseAgain(w, begun)
      u == Used(w, end - B(w).pos)
  IN IF end = 0 THEN [v EXCEPT !.at = "headers"]
     ELSE IF setup.stream[end] = "E" THEN Process(u)
     ELSE [u EXCEPT !.r.parts = @ \union {Part(w, begun, end)}, !.r.state = 0,
                    !.at = IF B(u).pos < B(u).last THEN "parse" ELSE "headers"]

\* ngx_http_handler, the location's configuration and the content handler
Handle(w) ==
  LET q == Q(w)
      v == [w EXCEPT !.r.keepalive = q.keep /\ w.c.requests < MaxRequests, !.r.linger = w.r.cl > 0 \/ Chunked(w)]
  IN IF MaxBody # 0 /\ v.r.cl > MaxBody THEN Discard(v, 413)
     ELSE CASE q.want = "static" -> Discard(v, 0)
            [] q.want = "missing" -> Discard(v, 404)
            [] q.want = "refuse" -> Fail(v, 403)
            [] q.want \in {"proxy", "stream"} -> ReadBody(v)

-----------------------------------------------------------------------------
(* The worker. *)

Become(w) ==
  \E v \in {w} : /\ net' = v.net /\ rev' = v.rev /\ mem' = v.mem /\ r' = v.r /\ c' = v.c /\ log' = v.log /\ at' = v.at
                 /\ UNCHANGED setup
Loop(w) == [w EXCEPT !.at = "loop"]

\* The handlers called in pieces: each takes from the socket once at most.
Wait == at = "wait" /\ Become(WaitRequest(World))
Keep == at = "keep" /\ Become(KeepaliveRead(World))
Line == at = "line" /\ Become(ReadHeader(World))
Headers ==
  at = "headers" /\ Become(LET v == IF Full(World) /\ B(World).pos = B(World).last THEN AllocLarge(World, FALSE) ELSE World
                           IN IF v.at = "headers" THEN ReadHeader(v) ELSE v)
Parse == at = "parse" /\ Become(IF rev.handler = "line" THEN ParseLine(World) ELSE ParseHeader(World))
Handler == at = "handler" /\ Become(Handle(World))
Special == at = "special" /\ Become(SpecialResponse(World))
Body == at = "body" /\ Become(IF r.space = 0 THEN BodyFull(World) ELSE BodyRecv(World))

\* ngx_http_read_discarded_request_body and what its callers do with the result
ReadDiscarded ==
  /\ at = "discard"
  /\ LET x == Recv(World, r.cl)
         f == DiscardFilter(x.w, net.got, x.w.net.got)
     IN Become(CASE r.cl = 0 -> Discarded([World EXCEPT !.r.rh = "block"])
                 [] r.cl # 0 /\ ~rev.ready -> DiscardLater(World)
                 [] r.cl # 0 /\ rev.ready ->
                      CASE x.n = -1 -> DiscardLater(x.w)
                        [] x.n = -2 -> Discarded([x.w EXCEPT !.c.error = TRUE])
                        [] x.n = 0 -> Discarded(x.w)
                        [] OTHER -> IF f.rc = 0 THEN f.w
                                    ELSE IF ByHandler THEN Close(f.w, "client")
                                    ELSE Malformed(f.w, r.next))

\* The header and the body of the answer go out; a slow client blocks them.
Answer ==
  /\ at = "answer"
  /\ IF c.error \/ net.fin = "reset" THEN Become(Close(World, "client"))
     ELSE LET w == [World EXCEPT !.log.told = Append(@, r.keepalive)] IN
          \/ Become(FinalizeRequest(w))
          \/ /\ "block" \in setup.events
             /\ Become(Loop([w EXCEPT !.r.writer = TRUE, !.r.rh = IF r.discard THEN "discarded" ELSE "test"]))

\* ngx_http_lingering_close_handler
Linger ==
  /\ at = "linger"
  /\ LET x == Recv(World, Len(setup.stream) + 1) IN
     Become(IF x.n \in {-2, 0} THEN Close(x.w, "linger")
            ELSE IF x.w.rev.ready THEN x.w
            ELSE Loop(HandleRead([x.w EXCEPT !.rev.timer = TRUE])))

Idle == at = "loop" /\ ~rev.posted

Deliver ==
  /\ Idle /\ rev.edge
  /\ Become(ReadEvent([World EXCEPT !.rev.edge = FALSE, !.rev.ready = TRUE, !.rev.available = TRUE,
                                    !.rev.pending_eof = @ \/ net.fin # "open"]))
RunPosted == at = "loop" /\ rev.posted /\ Become(ReadEvent([World EXCEPT !.rev.posted = FALSE]))
\* Events come before timers in one turn of the loop.
ReadTimeout ==
  /\ Idle /\ rev.timer /\ ~rev.edge
  /\ Become(IF rev.handler = "request" /\ r.rh \in {"test", "block"}
            THEN [World EXCEPT !.rev.timer = FALSE, !.rev.timedout = TRUE]
            ELSE Close(World, IF rev.handler = "linger" THEN "linger" ELSE "timeout"))
Writable == Idle /\ r.n > 0 /\ r.writer /\ Become(FinalizeRequest(World))
WriteTimeout == Idle /\ r.n > 0 /\ r.writer /\ Become(Close(World, "client"))

\* The content handler's own work: it takes what it was given of a body, and answers.
AppTake ==
  /\ Idle /\ r.n > 0 /\ r.app /\ r.busy /\ Unbuffered(World)
  /\ Become([World EXCEPT !.r.busy = FALSE, !.at = IF r.reading THEN "body" ELSE "loop"])
AppAnswer ==
  /\ Idle /\ r.n > 0 /\ r.app /\ (r.whole \/ "early" \in setup.events)
  /\ Become([World EXCEPT !.r.app = FALSE, !.at = "answer"])

\* ngx_drain_connections, when the worker runs out of connections
Drain == /\ at = "loop" /\ c.reusable /\ "drain" \in setup.events
         /\ Become(Close(World, "idle"))
\* The worker is told to exit: idle connections are closed.
Exit == /\ at = "loop" /\ ~c.exiting /\ "exit" \in setup.events
        /\ Become(LET w == [World EXCEPT !.c.exiting = TRUE] IN IF rev.handler = "keep" THEN Close(w, "idle") ELSE w)
\* lingering_time has passed.
TimeUp == /\ at = "loop" /\ r.n > 0 /\ r.ltime = "running" /\ "time" \in setup.events
          /\ Become([World EXCEPT !.r.ltime = "up"])

\* The client sends, half-closes or resets.
ClientActs ==
  /\ at # "closed" /\ net.fin = "open"
  /\ \/ \E p \in setup.cuts : p > net.sent /\ net' = [net EXCEPT !.sent = p]
     \/ "fin" \in setup.events /\ net' = [net EXCEPT !.fin = "fin"]
     \/ "reset" \in setup.events /\ net' = [net EXCEPT !.fin = "reset"]
  /\ rev' = [rev EXCEPT !.edge = @ \/ rev.active]
  /\ UNCHANGED <<setup, mem, r, c, log, at>>

Init ==
  /\ setup \in Setups
  /\ \E sent \in {0} \union (IF "defer" \in setup.events THEN setup.cuts ELSE {}) :
       net = [sent |-> sent, got |-> 0, fin |-> "open"]
  /\ LET d == "defer" \in setup.events IN
     /\ rev = [active |-> ~d, ready |-> d, available |-> d, pending_eof |-> FALSE, eof |-> FALSE, edge |-> FALSE,
               posted |-> FALSE, timer |-> ~d, timedout |-> FALSE, handler |-> "wait"]
     /\ c = [error |-> FALSE, exiting |-> FALSE, reusable |-> ~d, requests |-> 0, proxy |-> setup.proxy]
     /\ at = IF d THEN "wait" ELSE "loop"
  /\ mem = [buf |-> [b \in 0..LargeNum |-> Empty(0)], busy |-> <<>>, free |-> <<>>]
  /\ r = NoReq
  /\ log = [first |-> <<>>, told |-> <<>>, why |-> "", cut |-> FALSE]

Worker ==
  \/ Wait \/ Keep \/ Line \/ Headers \/ Parse \/ Handler \/ Special \/ Body \/ ReadDiscarded \/ Answer \/ Linger
  \/ Deliver \/ RunPosted
Next ==
  \/ Worker \/ ReadTimeout \/ Writable \/ WriteTimeout \/ AppTake \/ AppAnswer \/ Drain \/ Exit \/ TimeUp
  \/ ClientActs
Spec == Init /\ [][Next]_vars

Places == {"loop", "wait", "keep", "line", "headers", "parse", "handler", "special", "body", "discard", "answer",
           "linger", "closed"}
Unheard == rev.handler = "request" /\ (r.rh \in {"block", "test"} \/ (r.rh = "unbuffered" /\ ~r.reading))
Busy == at \notin {"loop", "closed"} \/ (at = "loop" /\ (rev.posted \/ (rev.edge /\ ~Unheard)))
\* The worker goes on, timers fire, and content handlers take what they are given and answer;
\* clients need do nothing.  Fairness is stated of at, which each of these steps changes.
FairSpec ==
  /\ Spec
  /\ WF_at(Busy /\ at' \in Places \ {at})
  /\ WF_at(Idle /\ rev.timer /\ ~rev.edge /\ ~Unheard /\ at' = "closed")
  /\ WF_at(Idle /\ r.n > 0 /\ r.writer /\ at' = "closed")
  /\ WF_at(Idle /\ r.n > 0 /\ r.app /\ r.whole /\ at' = "answer")
  /\ WF_at(Idle /\ r.n > 0 /\ r.app /\ r.busy /\ r.reading /\ at' = "body")

-----------------------------------------------------------------------------
TypeOK ==
  /\ setup \in Setups /\ net.got \in 0..net.sent /\ net.sent \in 0..Len(setup.stream) /\ net.fin \in {"open", "fin", "reset"}
  /\ rev.handler \in {"wait", "keep", "line", "headers", "request", "linger", "none"}
  /\ {mem.busy[i] : i \in DOMAIN mem.busy} \union {mem.free[i] : i \in DOMAIN mem.free} \subseteq 1..LargeNum
  /\ at \in Places
\* Never more large buffers than configured, and none of them twice.
LargeBuffersFit == IsInjective(mem.busy \o mem.free) /\ Len(mem.busy) + Len(mem.free) <= LargeNum
\* The lines of the request in work are still in the buffers they were parsed in.
Intact ==
  r.n > 0 => \A p \in r.parts : /\ p[1] = 0 \/ \E i \in DOMAIN mem.busy : mem.busy[i] = p[1]
                                /\ mem.buf[p[1]].base <= p[2] /\ p[3] <= mem.buf[p[1]].last
\* While the worker waits, something will come: a timer, an event, the handler's answer.
Guarded ==
  at = "loop" => rev.timer \/ rev.posted \/ rev.edge \/ (r.n > 0 /\ (r.app \/ r.writer))
Inv == TypeOK /\ LargeBuffersFit /\ Intact /\ Guarded

\* Requests begin where the last one ended, however the stream is cut, and a body is what
\* was sent.
InStep ==
  /\ \A k \in DOMAIN log.first : log.first[k] = Begin(k)
  /\ r.n > 0 /\ r.whole => r.taken = Data(r.n)

\* A timeout closes the connection only when every request that was sent wholly has got an
\* answer, or the client was told that no more will be read.
NoneForgotten ==
  at = "closed" /\ log.why = "timeout" =>
    \A k \in DOMAIN setup.ends : setup.ends[k] <= net.sent =>
      k <= Len(log.told) \/ \E j \in DOMAIN log.told : ~log.told[j]

\* A connection closed after an answer does not cut the answer off: nothing of the client's
\* is, or will be, unread.  Answers 400 and 414 are not promised that: their requests have
\* lingering_close cleared or not yet set, and Close leaves them out of cut (Observation 14).
AnswerNotCut == at = "closed" /\ log.why = "done" => ~log.cut

\* Every connection is closed in the end.
Ends == <>(at = "closed")
=============================================================================
