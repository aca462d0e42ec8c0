----------------------------- MODULE Subrequest -----------------------------
(***************************************************************************)
(* One request of a client and its subrequests: ngx_http_subrequest, the     *)
(* postpone filter, posted requests, and how a request is finalized and      *)
(* terminated (http/ngx_http_request.c, ngx_http_postpone_filter_module.c,   *)
(* the includes of ngx_http_ssi_filter_module.c).  A worker handles one      *)
(* event at a time and runs the posted requests before the next one.         *)
(***************************************************************************)
EXTENDS Naturals, Sequences, FiniteSets, SequencesExt

CONSTANTS
  Docs,      \* per name: the kind of its handler and its items
  Mains,     \* names a client asks for
  MaxReq     \* bound: requests of the tree

Kinds == {"static", "upstream", "thread"}
ASSUME SubrequestAssumption ==
  /\ MaxReq \in Nat \ {0} /\ Mains \subseteq DOMAIN Docs
  /\ \A d \in DOMAIN Docs : Docs[d].kind \in Kinds

VARIABLES
  req,     \* per request: see Born
  main,    \* r->main: count, blocked, posted_requests, and the number of requests
  conn     \* the connection: the active request, errors, what was sent, how it
           \* ended, and whether the client's socket takes no more

vars == <<req, main, conn>>

Ids == 1 .. MaxReq
Main == 1
\* An item of a document is a text or the name of a document and how it is included.
Text(t) == [text |-> t, doc |-> "", how |-> ""]
Include(d, how) == [text |-> "", doc |-> d, how |-> how]
IsText(i) == i.doc = ""

\* All texts of a document in order.
Flat == LET flat[d \in DOMAIN Docs] ==
              FlattenSeq([i \in DOMAIN Docs[d].items |->
                LET it == Docs[d].items[i] IN
                IF IsText(it) THEN <<it.text>> ELSE IF it.how = "background" THEN <<>> ELSE flat[it.doc]])
        IN flat

Born(d, parent, how) ==
  [doc |-> d, parent |-> parent, st |-> "handler", rest |-> Docs[d].items, postponed |-> <<>>,
   done |-> FALSE, how |-> how, wait |-> 0, aio |-> FALSE]
\* Entries of r->postponed.
Out(ts) == [texts |-> ts, sub |-> 0]
Sub(n) == [texts |-> <<>>, sub |-> n]

\* The state an event starts from; sl: the client's socket takes no more.
WorldIf(sl) == [req |-> req, main |-> main, conn |-> [conn EXCEPT !.slow = sl]]
Become(w) == \E v \in {w} : req' = v.req /\ main' = v.main /\ conn' = v.conn

-----------------------------------------------------------------------------
(* Output.                                                                   *)
\* ngx_http_write_filter: sent, as far as the client takes it.
Emit(w, ts) == [w EXCEPT !.conn.sent = @ \o ts, !.conn.buffered = w.conn.slow]

AddOut(p, ts) ==
  IF ts = <<>> THEN p
  ELSE IF p # <<>> /\ Last(p).sub = 0 THEN [p EXCEPT ![Len(p)].texts = @ \o ts]
  ELSE Append(p, Out(ts))

Post(w, n) == [w EXCEPT !.main.posted = Append(@, n)]

\* Mutant: only the first subrequest that was postponed keeps its place.
FilterOwnFirst(w, n, ts) ==
  IF w.conn.data # n THEN [w EXCEPT !.req[n].postponed = AddOut(@, ts)]
  ELSE LET p == w.req[n].postponed IN
       IF p = <<>> THEN Emit(w, ts)
       ELSE Post([Emit(w, ts) EXCEPT !.req[n].postponed = Tail(p), !.conn.data = IF p[1].sub = 0 THEN n ELSE p[1].sub], n)
\* ngx_http_postpone_filter: a request that is not the active one keeps its
\* output; the active one sends what it kept up to its first subrequest, which
\* becomes active.
Filter(w, n, ts) ==
  LET p == AddOut(w.req[n].postponed, ts)
      subs == {i \in DOMAIN p : p[i].sub # 0}
      k == IF subs = {} THEN Len(p) + 1 ELSE Min(subs)
      kept == FlattenSeq([i \in 1 .. k - 1 |-> p[i].texts])
      sent == IF kept # <<>> \/ w.conn.buffered THEN Emit(w, kept) ELSE w
  IN IF w.conn.data # n THEN [w EXCEPT !.req[n].postponed = p]
     ELSE IF w.req[n].postponed = <<>> THEN IF ts # <<>> \/ w.conn.buffered THEN Emit(w, ts) ELSE w
     ELSE IF subs = {} THEN [sent EXCEPT !.req[n].postponed = <<>>]
     ELSE Post([sent EXCEPT !.req[n].postponed = SubSeq(p, k + 1, Len(p)), !.conn.data = p[k].sub],
               p[k].sub)

\* ngx_http_subrequest.  Is the new subrequest the next thing to be sent.
Active(w, n) == w.conn.data = n /\ w.req[n].postponed = <<>>
Create(w, n, d, how) ==
  LET s == w.main.next
      a == [w EXCEPT !.req[s] = Born(d, n, how), !.main.next = @ + 1, !.main.count = @ + 1]
  IN Post(IF how = "background" THEN a
          ELSE [a EXCEPT !.conn.data = IF Active(w, n) THEN s ELSE @,
                         !.req[n].postponed = Append(@, Sub(s))], s)

\* The body filter of a page with includes: one item, unless it waits.
ItemOut(w, n, it) ==
  IF IsText(it) THEN Filter(w, n, <<it.text>>)
  ELSE LET a == Create(w, n, it.doc, it.how)
       IN IF it.how = "waited" THEN [a EXCEPT !.req[n].wait = w.main.next] ELSE a
Waits(w, n) == w.req[n].wait # 0 /\ (w.conn.data # n \/ ~w.req[w.req[n].wait].done)
Step(w, n, it) ==
  IF w.req[n].wait # 0 THEN [w EXCEPT !.req[n].rest = Append(@, it)] ELSE ItemOut(w, n, it)
\* The items that are left, up to an include that is waited for.
Body(w, n) ==
  IF w.req[n].aio \/ Waits(w, n) THEN w
  ELSE FoldLeft(LAMBDA a, it : Step(a, n, it),
                [w EXCEPT !.req[n].rest = <<>>, !.req[n].wait = 0], w.req[n].rest)

-----------------------------------------------------------------------------
(* The end of a request.                                                     *)
Free(w, how) == [w EXCEPT !.conn.end = how, !.main.count = 0]

\* ngx_http_close_request.
CloseRequest(w, how) ==
  IF w.main.count > 1 \/ w.main.blocked > 0 THEN [w EXCEPT !.main.count = @ - 1] ELSE Free(w, how)

\* ngx_http_finalize_connection; keepalive and lingering are in module Http1.
FinalizeConnection(w, how) ==
  IF w.main.count # 1 THEN CloseRequest(w, how) ELSE Free(w, how)

\* Mutant: the cleanup handlers are forgotten.
CleanupForgotten(w) == w
\* The cleanup handlers of the requests that wait for an upstream.
Cleanup(w) ==
  FoldSet(LAMBDA n, a : FinalizeConnection([a EXCEPT !.req[n].st = "none"], "broken"),
          w, {n \in Ids : w.req[n].st = "upstream"})

\* Mutant: a thread that reads is not waited for.
TerminateAtOnce(w, n) == [Cleanup(w) EXCEPT !.main.posted = <<Main>>, !.req[Main].st = "terminate"]
\* ngx_http_terminate_request.
Terminate(w, n) ==
  LET a == Cleanup(w) IN
  IF w.main.blocked > 0 THEN [a EXCEPT !.conn.error = TRUE, !.req[n].st = "finalizer"]
  ELSE [a EXCEPT !.main.posted = <<Main>>, !.req[Main].st = "terminate"]

IsActive(w, n) == w.conn.data = n
\* Mutant: the parent is not told.
TellNobody(w, n) == w
Tell(w, n) == Post(w, n)
\* Is a subrequest that is not active done for the one that waits for it.
DoneEarly(e) == e.how = "waited"

FinalizeSub(w, n) ==
  LET e == w.req[n]  pr == e.parent
      isNext == w.req[pr].postponed # <<>> /\ w.req[pr].postponed[1].sub = n
  IN IF e.how = "background" THEN FinalizeConnection([w EXCEPT !.req[n].done = TRUE], "well")
     ELSE IF e.rest # <<>> \/ e.postponed # <<>> THEN [w EXCEPT !.req[n].st = "writer"]
     ELSE IF IsActive(w, n)
     THEN Tell([w EXCEPT !.main.count = @ - 1, !.req[n].done = TRUE, !.conn.data = pr,
                         !.req[pr].postponed = IF isNext THEN Tail(@) ELSE @], pr)
     ELSE Tell([w EXCEPT !.req[n].st = "finalizer", !.req[n].done = @ \/ DoneEarly(e)], pr)

FinalizeMain(w) ==
  LET e == w.req[Main] IN
  IF e.rest # <<>> \/ w.conn.buffered \/ e.postponed # <<>> THEN [w EXCEPT !.req[Main].st = "writer"]
  ELSE IF w.conn.data # Main THEN w
  ELSE FinalizeConnection([w EXCEPT !.req[Main].done = TRUE, !.req[Main].st = "none"], "well")

\* ngx_http_finalize_request with NGX_OK, or with a code that ends it all.
Finalize(w, n) ==
  IF w.conn.error THEN Terminate(w, n)
  ELSE IF n = Main THEN FinalizeMain(w) ELSE FinalizeSub(w, n)

\* ngx_http_writer.
Writer(w, n) ==
  LET a == Filter(Body(w, n), n, <<>>)
      more == a.req[n].rest # <<>> \/ a.req[n].postponed # <<>> \/ (n = Main /\ a.conn.buffered)
  IN IF w.req[n].aio THEN w
     ELSE IF w.conn.error THEN Terminate(w, n)
     ELSE IF more THEN a
     ELSE Finalize([a EXCEPT !.req[n].st = "none"], n)

\* The content handler: a file, one that a thread reads, or an upstream.
Handler(w, n) ==
  CASE Docs[w.req[n].doc].kind = "static" -> Finalize(Body(w, n), n)
    [] Docs[w.req[n].doc].kind = "thread" ->
         Finalize([w EXCEPT !.req[n].aio = TRUE, !.main.blocked = @ + 1], n)
    [] OTHER -> [w EXCEPT !.req[n].st = "upstream"]

\* r->write_event_handler(r).
Run(w, n) ==
  CASE w.req[n].st = "handler" -> Handler(w, n)
    [] w.req[n].st = "writer" -> Writer(w, n)
    [] w.req[n].st = "finalizer" -> Finalize(w, n)
    [] w.req[n].st = "terminate" -> CloseRequest([w EXCEPT !.main.count = 1], "broken")
    [] OTHER -> w

-----------------------------------------------------------------------------
(* Events.                                                                   *)
Init ==
  \E d \in Mains :
    /\ req = [n \in Ids |-> IF n = Main THEN Born(d, 0, "main") ELSE [Born(d, 0, "plain") EXCEPT !.st = "none"]]
    /\ main = [count |-> 1, blocked |-> 0, posted |-> <<Main>>, next |-> 2]
    /\ conn = [data |-> Main, error |-> FALSE, buffered |-> FALSE, slow |-> FALSE, sent |-> <<>>, end |-> "no"]

Live == conn.end = "no"
Idle == Live /\ main.posted = <<>>

\* ngx_http_run_posted_requests.
RunPosted ==
  /\ Live /\ main.posted # <<>>
  /\ \E sl \in BOOLEAN : Become(Run([WorldIf(sl) EXCEPT !.main.posted = Tail(@)], Head(main.posted)))

\* The upstream has answered, or broken off, or a special response takes its
\* place: a text stands for what there was of it.
UpstreamReady(n) ==
  /\ Idle /\ req[n].st = "upstream"
  /\ \E sl \in BOOLEAN : Become(Finalize(Body([WorldIf(sl) EXCEPT !.req[n].st = "none"], n), n))

\* NGX_ERROR while the answer is processed.
UpstreamError(n) ==
  /\ Idle /\ req[n].st = "upstream"
  /\ Become(Terminate([WorldIf(conn.slow) EXCEPT !.req[n].st = "none"], n))

\* ngx_http_copy_thread_event_handler.
ThreadDone(n) ==
  /\ Idle /\ req[n].aio
  /\ \E sl \in BOOLEAN : Become(Run([WorldIf(sl) EXCEPT !.req[n].aio = FALSE, !.main.blocked = @ - 1], n))

\* The write event of the connection: the handler of the active request.
Writable ==
  /\ Idle /\ conn.buffered
  /\ Become(Run(WorldIf(FALSE), conn.data))

\* ngx_http_test_reading: the client has closed the connection.
ClientGone ==
  /\ Idle /\ req[conn.data].st \in {"writer", "upstream"} /\ ~conn.error
  /\ Become(Terminate([WorldIf(conn.slow) EXCEPT !.conn.error = TRUE,
                         !.req[conn.data].st = IF @ = "upstream" THEN "none" ELSE @], conn.data))

Event(n) == UpstreamReady(n) \/ ThreadDone(n)
Next ==
  \/ RunPosted \/ Writable \/ ClientGone
  \/ \E n \in Ids : Event(n) \/ UpstreamError(n)

\* The worker runs, upstreams answer or time out, threads end and the client
\* reads or is timed out.
Spec ==
  /\ Init /\ [][Next]_vars
  /\ WF_vars(RunPosted) /\ WF_vars(Writable) /\ \A n \in Ids : WF_vars(Event(n))

-----------------------------------------------------------------------------
(* Properties.                                                               *)
\* The variables hold values of their types; while the request lives it is counted.
TypeOK ==
  /\ main.count \in 0 .. MaxReq /\ main.blocked \in 0 .. MaxReq /\ Live => main.count > 0
  /\ Range(main.posted) \subseteq Ids /\ conn.data \in Ids /\ conn.end \in {"no", "well", "broken"}
  /\ \A n \in Ids : /\ req[n].wait \in 0 .. MaxReq
                    /\ req[n].st \in {"handler", "upstream", "writer", "finalizer", "terminate", "none"}

\* The request tree is freed only when no part of it is used any more: no
\* subrequest is posted, none waits for its upstream, and no thread reads for
\* one.  main->count and main->blocked together have to see to that.
FreedWhenUnused ==
  ~Live => main.posted = <<>> /\ main.blocked = 0 /\ \A n \in Ids : req[n].st # "upstream" /\ ~req[n].aio

\* The response is the document in its order, whatever order the subrequests
\* are answered in, and ends well only when it is complete.
Whole == INSTANCE Document WITH
  Wholes <- {Flat[d] : d \in Mains}, whole <- Flat[req[Main].doc], sent <- conn.sent, end <- conn.end
ImplementsDocument == Whole!Spec

\* Every request ends: no subrequest is left that nobody wakes.
RequestEnds == <>(~Live)

\* The types, and a request tree that is freed once nothing uses it.
Inv == TypeOK /\ FreedWhenUnused

=============================================================================
