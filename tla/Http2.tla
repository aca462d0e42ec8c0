-------------------------------- MODULE Http2 --------------------------------
(***************************************************************************)
(* One HTTP/2 connection of a leapvalue worker: ngx_http_v2.c and the part *)
(* of ngx_http_v2_filter_module.c that sends.  The client's frames arrive  *)
(* one at a time, whole or in two pieces; the server's wait in the output  *)
(* queue until the socket takes them.  A unit stands for the bytes of one  *)
(* DATA frame: windows, bodies and buffers are counted in units.           *)
(*                                                                         *)
(* h   the connection (ngx_http_v2_connection_t and its ngx_connection_t)  *)
(* s   the streams with their requests and fake connections                *)
(* o   last_out, the oldest frame first                                    *)
(* t   the dependency tree: streams_index, dependencies, closed            *)
(* cl  the client: the credit it holds and the credit it has given         *)
(*                                                                         *)
(* The value of an operator on a world w is the world after the call.      *)
(* w.room is what the socket takes during the event (-1: the write fails), *)
(* w.heed whether a request busy elsewhere looks at its connection, w.blk  *)
(* is h2c->blocked and w.busy the stream whose blocked flag is set.        *)
(***************************************************************************)
EXTENDS Integers, Sequences, SequencesExt, FiniteSetsExt, Functions

CONSTANTS
  Sids,        \* the ids a client may use (odd)
  PushId,      \* the first id the server may push (even)
  DefWin,      \* NGX_HTTP_V2_DEFAULT_WINDOW
  MaxWin,      \* NGX_HTTP_V2_MAX_WINDOW
  Preread,     \* http2_body_preread_size
  BodyBuf,     \* client_body_buffer_size of an unbuffered request
  Concurrent,  \* http2_max_concurrent_streams
  MaxClosed,   \* the 32 of ngx_http_v2_get_node_by_id
  Setups       \* the bounded situations a run explores

ASSUME Http2Assumption ==
  /\ Sids \subseteq Nat /\ PushId \notin Sids /\ 0 \notin Sids \union {PushId}
  /\ Preread < DefWin /\ DefWin <= MaxWin /\ Preread <= BodyBuf /\ BodyBuf <= MaxWin

VARIABLES setup, h, s, o, t, cl
vars == <<setup, h, s, o, t, cl>>

Ids == Sids \union {PushId}
Order == SetToSortSeq(Ids, <)
NoFrame == [k |-> "head", i |-> 0, n |-> 0, fin |-> FALSE]

NoStream == [at |-> "idle", send |-> 0, recv |-> 0, queued |-> 0, waiting |-> FALSE, exhausted |-> FALSE,
             in |-> FALSE, out |-> FALSE, rst |-> FALSE, skip |-> FALSE, err |-> FALSE, nofc |-> FALSE,
             body |-> "none", pre |-> 0, held |-> 0, left |-> 0, hdr |-> FALSE, posted |-> FALSE, timer |-> FALSE]

Tree0 == [nodes |-> <<>>, closed |-> <<>>, n |-> 0]
Connection0 ==
  [state |-> "open", rh |-> "read", send |-> DefWin, recv |-> MaxWin, init |-> DefWin, last |-> 0, processing |-> 0,
   pushing |-> 0, reqs |-> 0, goaway |-> FALSE, close |-> FALSE, ack |-> FALSE, err |-> FALSE, posted |-> FALSE,
   wposted |-> FALSE, wready |-> TRUE, waiting |-> <<>>, st |-> NoFrame]
\* conn, str: what the client may send; give, gives: what it has let the server send;
\* mine: its SETTINGS_INITIAL_WINDOW_SIZE; lost: one of its SETTINGS was not heeded.
Client0 ==
  [conn |-> DefWin, str |-> [i \in Ids |-> DefWin], give |-> DefWin, gives |-> [i \in Ids |-> 0], mine |-> DefWin,
   sent |-> [i \in Ids |-> 0], ended |-> {}, gone |-> {}, pushed |-> FALSE, away |-> FALSE, ack |-> "none", lost |-> FALSE, blame |-> "", moves |-> 0]

IsLive(w, i) == i \in Ids /\ w.s[i].at \notin {"idle", "done"}
Idle(w) == w.h.processing = 0 /\ w.h.pushing = 0

-----------------------------------------------------------------------------
(* The dependency tree.  Parent 0 is NGX_HTTP_V2_ROOT, -1 is NULL; rel is   *)
(* rel_weight times 256^rank, compared between nodes of one rank only.      *)

Fresh == [parent |-> -1, rank |-> 0, rel |-> 0, weight |-> 0]
KidsOf(nodes, p) == {x \in DOMAIN nodes : nodes[x].parent = p}
Below(nodes, S) == FoldLeft(LAMBDA B, k : B \union {x \in DOMAIN nodes : nodes[x].parent \in B}, S,
                            SetToSeq(DOMAIN nodes)) \ S
RankUnder(nodes, p) == IF p = 0 THEN 1 ELSE nodes[p].rank + 1
RelUnder(nodes, p) == IF p = 0 THEN 1 ELSE nodes[p].rel

\* ngx_http_v2_node_children_update, of each node of S.
ChildrenUpdate(nodes, S) ==
  LET B == Below(nodes, S)
      place(m, x) == [m EXCEPT ![x] = [@ EXCEPT !.rank = RankUnder(m, m[x].parent),
                                                !.rel = RelUnder(m, m[x].parent) * m[x].weight]]
      level(m, k) == FoldLeft(place, m, SetToSeq(B))
  IN FoldLeft(level, nodes, SetToSeq(B))

\* ngx_http_v2_get_closed_node: the oldest closed node gives its place to its children.
GetClosedNode(tree) ==
  LET x == Head(tree.closed)
      me == tree.nodes[x]
      kids == KidsOf(tree.nodes, x)
      total == MapThenSumSet(LAMBDA y : tree.nodes[y].weight, kids)
      share(y) == Max({1, (me.weight * tree.nodes[y].weight) \div total})
      left == [y \in DOMAIN tree.nodes \ {x} |->
                 IF y \notin kids THEN tree.nodes[y]
                 ELSE [parent |-> me.parent, weight |-> share(y), rank |-> RankUnder(tree.nodes, me.parent),
                       rel |-> RelUnder(tree.nodes, me.parent) * share(y)]]
  IN [nodes |-> ChildrenUpdate(left, kids), closed |-> Tail(tree.closed), n |-> tree.n - 1]

\* ngx_http_v2_get_node_by_id (alloc).
GetNode(tree, i) ==
  IF i \in DOMAIN tree.nodes THEN tree
  ELSE LET u == IF tree.n < MaxClosed THEN tree ELSE GetClosedNode(tree)
       IN [u EXCEPT !.nodes = (i :> Fresh) @@ @]

ToTail(tree, i) == [tree EXCEPT !.closed = Append(SelectSeq(@, LAMBDA x : x # i), i)]
Reopened(tree, i) ==
  IF tree.nodes[i].parent = -1 THEN tree
  ELSE [tree EXCEPT !.closed = SelectSeq(@, LAMBDA x : x # i), !.n = @ - 1]

\* Going up from parent the loop meets node before a rank below its own: node is above its new parent.
MeetsAbove(nodes, node, parent) ==
  LET low(x) == x = 0 \/ nodes[x].rank < nodes[node].rank
      up(x, k) == IF low(x) \/ x = node THEN x ELSE nodes[x].parent
      top == FoldLeft(up, nodes[parent].parent, SetToSeq(DOMAIN nodes))
  IN top = node

\* Mutant: a node may be put under one of its own descendants.
KeepPlace(nodes, node, parent, excl) == nodes
\* The new parent takes the place of the node that is to depend on it.
Raise(nodes, node, parent, excl) ==
  LET p == nodes[node].parent
      up == [nodes EXCEPT ![parent].parent = p, ![parent].rank = RankUnder(nodes, p),
                          ![parent].rel = RelUnder(nodes, p) * nodes[parent].weight]
  IN IF excl THEN up ELSE ChildrenUpdate(up, {parent})

\* ngx_http_v2_set_dependency: the place, and the whole; busy is the set of nodes that have
\* a stream.
Under(nodes, node, parent, excl) ==
  LET hung == [x \in DOMAIN nodes |->
                 IF x = node THEN [nodes[x] EXCEPT !.parent = parent, !.rank = RankUnder(nodes, parent),
                                                   !.rel = RelUnder(nodes, parent) * nodes[x].weight]
                 ELSE IF excl /\ nodes[x].parent = parent THEN [nodes[x] EXCEPT !.parent = node]
                 ELSE nodes[x]]
  IN ChildrenUpdate(hung, {node})
SetDependency(tree, busy, node, depend, exclusive) ==
  LET parent == IF depend \in DOMAIN tree.nodes THEN depend ELSE 0
      excl == exclusive /\ (parent # 0 \/ depend = 0)
      above == parent # 0 /\ tree.nodes[node].parent # -1 /\ MeetsAbove(tree.nodes, node, parent)
      raised == IF above THEN Raise(tree.nodes, node, parent, excl) ELSE tree.nodes
      last(x) == IF parent # 0 /\ parent \notin busy THEN ToTail(x, parent) ELSE x
  IN last([tree EXCEPT !.nodes = Under(raised, node, parent, excl)])

Busy(w) == {i \in Ids : IsLive(w, i)}
Ahead(w, a, b) ==
  LET x == w.t.nodes[a]  y == w.t.nodes[b] IN x.rank < y.rank \/ (x.rank = y.rank /\ x.rel >= y.rel)

-----------------------------------------------------------------------------
(* The output queue. *)

\* e goes right behind the last element that stops it.
PutBehind(seq, Stops(_), e) == InsertAt(seq, 1 + Max({0} \union {j \in DOMAIN seq : Stops(seq[j])}), e)

Frame(k, i, n, fin, b) == [k |-> k, own |-> i, to |-> i, n |-> n, fin |-> fin, b |-> b]
Ctl(k, i, n) == [k |-> k, own |-> 0, to |-> i, n |-> n, fin |-> FALSE, b |-> FALSE]

\* ngx_http_v2_queue_blocked_frame, ngx_http_v2_queue_frame, ngx_http_v2_queue_ordered_frame.
QueueBlocked(w, f) == [w EXCEPT !.o = PutBehind(@, LAMBDA g : g.b \/ g.own = 0, f)]
QueueData(w, f) == [w EXCEPT !.o = PutBehind(@, LAMBDA g : g.b \/ g.own = 0 \/ Ahead(w, g.own, f.own), f)]
QueueOrdered(w, f) == [w EXCEPT !.o = Append(@, f)]

\* ngx_http_v2_send_window_update, ngx_http_v2_send_rst_stream, ngx_http_v2_send_goaway.
SendWindowUpdate(w, i, n) == QueueBlocked(w, Ctl("WINDOW_UPDATE", i, n))
SendRst(w, i) == QueueBlocked(w, Ctl("RST_STREAM", i, 0))
SendGoaway(w) == QueueBlocked(w, Ctl("GOAWAY", 0, 0))

\* What the client makes of a frame of the server.
Received(c, f) ==
  CASE f.k = "SETTINGS" -> [c EXCEPT !.ack = "due", !.str = [i \in Ids |-> @[i] + Preread - DefWin]]
    [] f.k = "WINDOW_UPDATE" /\ f.to = 0 -> [c EXCEPT !.conn = @ + f.n]
    [] f.k = "WINDOW_UPDATE" /\ f.to # 0 -> [c EXCEPT !.str[f.to] = @ + f.n]
    [] f.k = "DATA" -> [c EXCEPT !.give = @ - f.n, !.gives[f.to] = @ - f.n]
    [] f.k = "PUSH_PROMISE" -> [c EXCEPT !.pushed = TRUE]
    [] f.k = "GOAWAY" -> [c EXCEPT !.away = TRUE]
    [] f.k = "RST_STREAM" -> [c EXCEPT !.gone = @ \union {f.to}]
    [] OTHER -> c

\* ngx_http_v2_handle_frame and ngx_http_v2_handle_stream, of a frame that is out.
HandleFrame(w, f) ==
  LET i == f.own
      x == [w EXCEPT !.s[i].queued = @ - 1, !.s[i].out = @ \/ f.fin]
      st == x.s[i]
  IN IF i = 0 THEN w
     ELSE IF st.waiting \/ w.busy = i \/ (~st.err /\ st.exhausted) THEN x
     ELSE [x EXCEPT !.s[i].posted = TRUE]

\* ngx_http_v2_send_output_queue.
SendOutputQueue(w) ==
  LET n == Min({w.room, Len(w.o)})
      rest == SubSeq(w.o, n + 1, Len(w.o))
      held == IF rest = <<>> THEN rest ELSE [rest EXCEPT ![1].b = TRUE]
      taken == [w EXCEPT !.o = held, !.room = @ - n, !.h.wready = rest = <<>>, !.rc = IF rest = <<>> THEN "ok" ELSE "again"]
      out(x, f) == HandleFrame([x EXCEPT !.cl = Received(@, f)], f)
  IN CASE w.h.err -> [w EXCEPT !.rc = "error"]
       [] ~w.h.err /\ ~w.h.wready -> [w EXCEPT !.rc = "again"]
       [] ~w.h.err /\ w.h.wready /\ w.room < 0 ->
            [w EXCEPT !.rc = "error", !.h.err = TRUE, !.h.wposted = ~w.blk]
       [] OTHER -> FoldLeft(out, taken, SubSeq(w.o, 1, n))

-----------------------------------------------------------------------------
(* The end of a stream. *)

\* Mutant: the frames are dropped, and the connection's window with them.
ReturnedNot(w, back) == w
\* What was not sent goes back to the connection, and who waited for it is woken.
Returned(w, back) ==
  IF w.h.send > 0 \/ back = 0 THEN [w EXCEPT !.h.send = @ + back]
  ELSE [w EXCEPT !.h.send = @ + back, !.h.waiting = <<>>,
                 !.s = [j \in Ids |-> IF j \in Range(w.h.waiting) THEN [@[j] EXCEPT !.waiting = FALSE, !.posted = TRUE] ELSE @[j]]]

\* ngx_http_v2_filter_cleanup: what is not on the wire yet leaves the queue.
Cleanup(w, i) ==
  LET drop(f) == f.own = i /\ ~f.b
      dropped == SelectSeq(w.o, drop)
      a == [w EXCEPT !.s[i].waiting = FALSE, !.h.waiting = SelectSeq(@, LAMBDA j : j # i)]
  IN IF ~w.s[i].hdr \/ w.s[i].queued = 0 THEN a
     ELSE Returned([a EXCEPT !.o = SelectSeq(@, LAMBDA f : ~drop(f)), !.s[i].queued = @ - Len(dropped)],
                   FoldLeft(LAMBDA x, f : x + f.n, 0, dropped))

\* What the client is told of a stream that ends.
Farewell(w, i) ==
  LET st == w.s[i] IN
  IF st.rst \/ w.h.err THEN w
  ELSE IF ~st.out THEN SendRst(w, i)
  ELSE IF ~st.in /\ st.recv < MaxWin THEN SendWindowUpdate(w, i, MaxWin - st.recv) ELSE w

\* ngx_http_v2_close_stream, once nothing of it is queued.
Freed(w, i) ==
  LET a == [w EXCEPT !.s[i] = [NoStream EXCEPT !.at = "done"], !.t = [ToTail(@, i) EXCEPT !.n = @ + 1],
                     !.h.st.i = IF @ = i THEN 0 ELSE @,
                     !.h.pushing = IF i = PushId THEN @ - 1 ELSE @,
                     !.h.processing = IF i = PushId THEN @ ELSE @ - 1]
  IN IF Idle(a) /\ ~a.blk THEN [a EXCEPT !.h.rh = "handle", !.h.posted = TRUE] ELSE a

\* ngx_http_v2_close_stream.
CloseStream(w, i) ==
  IF w.s[i].queued > 0 THEN [w EXCEPT !.s[i].at = "closing"] ELSE Freed(Farewell(w, i), i)

\* ngx_http_terminate_request.
Terminate(w, i) == CloseStream(Cleanup(w, i), i)

\* The read event of a stream: ngx_http_v2_close_stream_handler while the header
\* comes, ngx_http_v2_read_client_request_body_handler, ngx_http_test_reading.
StreamRead(w, i) ==
  LET st == w.s[i] IN
  IF \/ st.at \in {"head", "pushed"}
     \/ st.err /\ (st.at \in {"body", "write"} \/ (st.at = "run" /\ w.heed))
  THEN Terminate([w EXCEPT !.s[i].skip = TRUE], i) ELSE w

\* ngx_http_v2_terminate_stream.
TerminateStream(w, i) ==
  IF w.s[i].rst THEN w
  ELSE StreamRead([SendRst(w, i) EXCEPT !.s[i].rst = TRUE, !.s[i].skip = TRUE, !.s[i].err = TRUE], i)

-----------------------------------------------------------------------------
(* Sending an answer. *)

\* ngx_http_v2_flow_control, which declines; ngx_http_v2_waiting_queue.
Hold(w, i) ==
  IF w.s[i].send <= 0 THEN [w EXCEPT !.s[i].exhausted = TRUE]
  ELSE IF w.h.send > 0 \/ w.s[i].waiting THEN w
  ELSE [w EXCEPT !.s[i].waiting = TRUE, !.h.waiting = PutBehind(@, LAMBDA j : Ahead(w, j, i), i)]

\* ngx_http_v2_filter_send.
FilterSend(w, i) ==
  LET a == [SendOutputQueue([w EXCEPT !.busy = i]) EXCEPT !.busy = 0]
  IN [a EXCEPT !.s[i].err = @ \/ a.rc = "error"]

\* What is left waits for a window.
Waits(w, i) == IF w.s[i].err \/ w.s[i].left = 0 THEN w ELSE Hold(w, i)
\* ngx_http_v2_send_chain: as many frames as both windows allow.
SendChain(w, i) ==
  LET st == w.s[i]
      n == Min({st.left, w.h.send, Max({st.send, 0})})
      data == [j \in 1 .. n |-> Frame("DATA", i, 1, j = st.left, FALSE)]
      a == [FoldLeft(QueueData, w, data) EXCEPT !.h.send = @ - n, !.s[i].send = @ - n,
                                                !.s[i].queued = @ + n, !.s[i].left = @ - n]
  IN IF st.left = 0 \/ st.out THEN [w EXCEPT !.s[i].left = 0, !.rc = "ok"]
     ELSE IF n = 0 THEN Hold([w EXCEPT !.rc = "ok"], i)
     ELSE Waits(FilterSend(a, i), i)

\* ngx_http_writer: the answer is out, waits, or has failed.
Settle(w, i) ==
  LET st == w.s[i] IN
  IF st.err THEN Terminate(w, i)
  ELSE IF st.left = 0 /\ st.queued = 0 THEN CloseStream(w, i)
  ELSE [w EXCEPT !.s[i].at = "write", !.s[i].timer = TRUE]

\* ngx_http_send_header has been called, or the socket takes more.
Body(w, i) == Settle(IF w.s[i].err THEN w ELSE SendChain(w, i), i)

\* The write event of a stream.
StreamWrite(w, i) ==
  LET st == w.s[i] IN
  CASE st.at = "pushed" -> [w EXCEPT !.s[i].at = "run"]
    [] st.at = "closing" -> CloseStream(w, i)
    [] st.at = "write" -> Body(w, i)
    [] OTHER -> w

\* ngx_http_v2_create_stream.
CreateStream(w, i, at, in) ==
  [w EXCEPT !.s[i] = [NoStream EXCEPT !.at = at, !.in = in, !.send = w.h.init, !.recv = Preread, !.posted = at = "pushed"],
            !.cl.gives[i] = w.cl.mine, !.h.reqs = @ + 1,
            !.h.pushing = IF i = PushId THEN @ + 1 ELSE @,
            !.h.processing = IF i = PushId THEN @ ELSE @ + 1]

\* Node and stream: ngx_http_v2_state_headers, ngx_http_v2_push_stream.
Placed(w, i, at, in, prio, d) ==
  LET hung(x) == [x EXCEPT !.t = SetDependency([@ EXCEPT !.nodes[i].weight = d.weight], Busy(x), i, d.depend, d.excl)]
      opened(u) ==
        LET a == CreateStream([w EXCEPT !.t = Reopened(u, i)], i, at, in)
        IN IF prio \/ u.nodes[i].parent = -1 THEN hung(a) ELSE a
  IN opened(GetNode(w.t, i))

\* ngx_http_v2_push_resource.  Bound: one push.
PushResource(w, i) ==
  IF w.h.goaway \/ i = PushId \/ w.s[PushId].at # "idle" THEN w
  ELSE Placed([QueueBlocked(w, Frame("PUSH_PROMISE", i, 0, FALSE, TRUE)) EXCEPT !.s[i].queued = @ + 1],
              PushId, "pushed", TRUE, TRUE, [depend |-> i, excl |-> FALSE, weight |-> 1])

\* ngx_http_v2_header_filter: the header of an answer with a body of n units.
HeaderFilter(w, i, n, push) ==
  IF w.s[i].err THEN w ELSE
  LET a == IF push THEN PushResource(w, i) ELSE w
      b == [QueueBlocked(a, Frame("HEADERS", i, 0, n = 0, TRUE)) EXCEPT
              !.s[i].queued = @ + 1, !.s[i].hdr = TRUE, !.s[i].left = n, !.s[i].skip = @ \/ w.s[i].body = "none"]
  IN FilterSend(b, i)

\* The request is answered.
Respond(w, i, n, push) == Body(HeaderFilter(w, i, n, push), i)

-----------------------------------------------------------------------------
(* The end of the connection. *)

Closed(w) ==
  [w EXCEPT !.h = [Connection0 EXCEPT !.state = "closed"], !.s = [i \in Ids |-> NoStream], !.o = <<>>, !.t = Tree0,
            !.cl = [Client0 EXCEPT !.blame = w.cl.blame]]

\* What ngx_http_v2_finalize_connection does to one stream.
Cut(w, i) ==
  LET told(x) == IF w.s[i].queued > 0 THEN StreamWrite(x, i) ELSE StreamRead(x, i)
  IN IF IsLive(w, i) THEN told([w EXCEPT !.s[i].waiting = FALSE, !.s[i].err = TRUE, !.s[i].queued = 0]) ELSE w

\* The streams are cut, and with the last of them the connection closes.
ClosedIfIdle(w) == IF Idle(w) THEN Closed(w) ELSE [w EXCEPT !.blk = FALSE]
CutAll(w) == ClosedIfIdle(FoldLeft(Cut, [w EXCEPT !.h.rh = "empty", !.h.wposted = FALSE, !.o = <<>>], Order))

\* ngx_http_v2_finalize_connection.
Finalize(w) ==
  LET b == [w EXCEPT !.blk = TRUE]
      a == IF w.h.err \/ w.h.goaway THEN b ELSE SendOutputQueue(SendGoaway(b))
  IN CutAll([a EXCEPT !.h.err = TRUE])

\* ngx_http_v2_handle_connection.
HandleConnection(w) ==
  IF w.o # <<>> \/ ~Idle(w) THEN w
  ELSE IF w.h.err \/ w.h.goaway THEN Closed(w)
  ELSE IF w.h.st.k # "head" THEN w
  ELSE [w EXCEPT !.h.state = "idle", !.h.rh = "idle"]

\* The connection is looked after, its frames being sent.
Looked(w) == IF w.stop \/ w.rc = "error" THEN Finalize(w) ELSE HandleConnection([w EXCEPT !.blk = FALSE])
\* ngx_http_v2_read_handler after a frame; ngx_http_v2_connection_error ends it at once.
AfterRead(w) == Looked(IF w.stop \/ w.o = <<>> THEN [w EXCEPT !.rc = "ok"] ELSE SendOutputQueue(w))

-----------------------------------------------------------------------------
(* What the client sends. *)

Blame(w, what) == [w EXCEPT !.cl.blame = IF w.cl.blame = "" THEN what ELSE @]
\* ngx_http_v2_connection_error.
Error(w) == [w EXCEPT !.stop = TRUE]
\* Some of a frame is still to come: ngx_http_v2_state_save.
Rest(w, k, i, n, fin) == [w EXCEPT !.h.st = [k |-> k, i |-> i, n |-> n, fin |-> fin]]

\* ngx_http_v2_process_request_body.
ProcessBody(w, i, m, last) ==
  LET st == w.s[i] IN
  CASE st.body = "unbuffered" /\ st.held + m > BodyBuf -> Respond(Blame([w EXCEPT !.s[i].skip = TRUE], "no room"), i, 0, FALSE)
    [] st.body = "unbuffered" /\ st.held + m <= BodyBuf ->
         [w EXCEPT !.s[i].held = @ + m, !.s[i].body = IF last THEN "last" ELSE @]
    [] st.body = "buffered" /\ last -> [w EXCEPT !.s[i].at = "run", !.s[i].body = "read"]
    [] OTHER -> w

\* ngx_http_v2_state_read_data: m units of a DATA frame, the end of it or not.
ReadData(w, m, end, fin) ==
  LET i == w.h.st.i
      a == [w EXCEPT !.s[i].in = IF end THEN fin ELSE @]
  IN IF i = 0 \/ w.s[i].skip THEN w
     ELSE IF w.s[i].body # "none" THEN ProcessBody(a, i, m, end /\ fin)
     ELSE IF w.s[i].pre + m > Preread THEN Error(Blame(a, "preread"))
     ELSE [a EXCEPT !.s[i].pre = @ + m]

\* ngx_http_v2_state_data, as far as the windows: what the connection has room for.
ConnWindow(w, n) ==
  LET a == [w EXCEPT !.h.recv = @ - n] IN
  IF a.h.recv >= MaxWin \div 4 THEN a
  ELSE [SendWindowUpdate(a, 0, MaxWin - a.h.recv) EXCEPT !.h.recv = MaxWin]
StreamWindow(w, i, n) ==
  LET a == [w EXCEPT !.s[i].recv = @ - n] IN
  IF ~a.s[i].nofc \/ a.s[i].recv >= MaxWin \div 4 THEN a
  ELSE [SendWindowUpdate(a, i, MaxWin - a.s[i].recv) EXCEPT !.s[i].recv = MaxWin]

Over(w) == IF w.stop THEN w ELSE [w EXCEPT !.h.st = NoFrame]
\* ngx_http_v2_state_data.  The rest of a frame that comes in two pieces is for the
\* stream, or is skipped.
Data(w, f) ==
  LET i == f.i
      whole == f.m = f.n
      a == ConnWindow(w, f.n)
      b == StreamWindow(a, i, f.n)
      over == f.n > a.s[i].recv
      skipped(x) == IF whole THEN x ELSE Rest(x, "data", 0, f.n - f.m, f.fin)
      read(x) == IF whole THEN Over(x) ELSE x
  IN IF f.n > w.h.recv THEN Error(Blame(w, "connection window"))
     ELSE IF ~IsLive(a, i) THEN skipped(a)
     ELSE IF over \/ b.s[i].in
     THEN skipped(TerminateStream(IF over THEN Blame(a, "stream window") ELSE b, i))
     ELSE read(ReadData(Rest(b, "data", i, f.n - f.m, f.fin), f.m, whole, f.fin))

\* Mutant: a body may be on its way before the client knows the window of streams.
RefusedButSettings(w, f) == f.depend = f.i \/ w.h.processing >= Concurrent
\* The stream is refused: it depends on itself, there are too many, or its body may
\* be larger than what is read ahead.
Refused(w, f) ==
  f.depend = f.i \/ w.h.processing >= Concurrent \/ (~w.h.ack /\ ~f.fin /\ Preread < DefWin)

\* ngx_http_v2_state_header_complete: the request runs.
HeaderComplete(w, i) ==
  LET a == [w EXCEPT !.h.st = NoFrame] IN IF IsLive(w, i) THEN [a EXCEPT !.s[i].at = "run"] ELSE a

\* Too many requests on one connection.
Enough(w) == IF w.h.goaway \/ w.h.reqs < setup.maxReqs THEN w ELSE [SendGoaway(w) EXCEPT !.h.goaway = TRUE]

\* ngx_http_v2_state_headers; after a GOAWAY the frame is skipped.
Headers(w, f) ==
  LET a == [w EXCEPT !.h.last = f.i]
      block(x) == IF f.end THEN HeaderComplete(x, f.i) ELSE Rest(x, "headers", IF Refused(w, f) THEN 0 ELSE f.i, 0, FALSE)
  IN IF w.h.goaway THEN w ELSE IF f.i <= w.h.last THEN Error(w)
     ELSE block(IF Refused(w, f) THEN SendRst(a, f.i) ELSE Enough(Placed(a, f.i, "head", f.fin, f.prio, f)))

\* ngx_http_v2_handle_continuation, ngx_http_v2_state_continuation.
Continuation(w) == IF w.h.st.k = "headers" THEN HeaderComplete(w, w.h.st.i) ELSE Error(w)

\* ngx_http_v2_state_priority.
Priority(w, f) ==
  LET i == f.i
      weighed(u) == [u EXCEPT !.nodes[i].weight = f.weight]
      kept(u) == IF IsLive(w, i) THEN u
                 ELSE [ToTail(u, i) EXCEPT !.n = IF u.nodes[i].parent = -1 THEN @ + 1 ELSE @]
  IN IF f.depend # i THEN [w EXCEPT !.t = SetDependency(weighed(kept(GetNode(w.t, i))), Busy(w), i, f.depend, f.excl)]
     ELSE IF IsLive(w, i) THEN TerminateStream(w, i) ELSE SendRst(w, i)

\* ngx_http_v2_state_rst_stream.
RstStream(w, i) ==
  IF ~IsLive(w, i) THEN w
  ELSE StreamRead([w EXCEPT !.s[i].in = TRUE, !.s[i].out = TRUE, !.s[i].err = TRUE], i)

\* A write event the client's frame has made possible, handled at once.
Resume(w, i) == StreamWrite([w EXCEPT !.s[i].exhausted = FALSE], i)
\* Mutant: a stream that was out of window is not told.
AdjustSilently(w, i, delta) == IF ~IsLive(w, i) THEN w ELSE [w EXCEPT !.s[i].send = @ + delta]
\* ngx_http_v2_adjust_windows, of one stream.
Adjust(w, i, delta) ==
  LET a == [w EXCEPT !.s[i].send = @ + delta] IN
  IF ~IsLive(w, i) THEN w
  ELSE IF delta > 0 /\ w.s[i].send > MaxWin - delta THEN TerminateStream(w, i)
  ELSE IF a.s[i].send > 0 /\ a.s[i].exhausted THEN Resume(a, i) ELSE a

\* ngx_http_v2_state_settings: SETTINGS_INITIAL_WINDOW_SIZE.  When another parameter
\* of the frame comes later, window_delta is zero by then.
Settings(w, v, split) ==
  IF split THEN Rest(w, "settings", 0, 0, FALSE)
  ELSE FoldLeft(LAMBDA x, i : Adjust(x, i, v - w.h.init),
                [QueueOrdered(w, Ctl("ACK", 0, 0)) EXCEPT !.h.init = v], Order)

\* The streams that wait, while the connection has a window; a stream that writes
\* may end others' waiting.
Wake(w, i) ==
  IF ~w.s[i].waiting \/ w.h.send = 0 THEN w
  ELSE StreamWrite([w EXCEPT !.s[i].waiting = FALSE, !.h.waiting = SelectSeq(@, LAMBDA j : j # i)], i)

\* ngx_http_v2_state_window_update.  The connection's window is unsigned: once frames that
\* were dropped have brought it above the maximum, the difference wraps and nothing is too much.
WindowUpdate(w, i, n) ==
  LET a == [w EXCEPT !.s[i].send = @ + n] IN
  IF i = 0
  THEN IF n = 0 \/ (w.h.send <= MaxWin /\ n > MaxWin - w.h.send) THEN Error(w)
       ELSE FoldLeft(Wake, [w EXCEPT !.h.send = @ + n], w.h.waiting)
  ELSE IF ~IsLive(w, i) THEN IF n = 0 THEN SendRst(w, i) ELSE w
  ELSE IF n = 0 \/ n > MaxWin - w.s[i].send THEN TerminateStream(w, i)
  ELSE IF w.s[i].exhausted THEN Resume(a, i) ELSE a

\* The rest of a frame.
Remainder(w) ==
  LET st == w.h.st
  IN Over(IF st.k = "settings" THEN QueueOrdered(w, Ctl("ACK", 0, 0)) ELSE ReadData(w, st.n, TRUE, st.fin))

\* ngx_http_v2_state_head.
Parse(w, f) ==
  CASE f.k = "DATA" -> Data(w, f)
    [] f.k = "REST" -> Remainder(w)
    [] f.k = "HEADERS" -> Headers(w, f)
    [] f.k = "CONTINUATION" -> Continuation(w)
    [] f.k = "PRIORITY" -> Priority(w, f)
    [] f.k = "RST_STREAM" -> RstStream(w, f.i)
    [] f.k = "SETTINGS" -> Settings(w, f.n, f.split)
    [] f.k = "ACK" -> [w EXCEPT !.h.ack = TRUE]
    [] f.k = "WINDOW_UPDATE" -> WindowUpdate(w, f.i, f.n)
    [] OTHER -> Error(w)

-----------------------------------------------------------------------------
(* The client. *)

Msg(k, i, n) == [k |-> k, i |-> i, n |-> n, m |-> n, fin |-> FALSE, end |-> TRUE, split |-> FALSE,
                 prio |-> FALSE, depend |-> 0, excl |-> FALSE, weight |-> 1]
Used == {i \in Sids : i <= h.last}
Open == Used \ cl.gone
Known == Open \union (IF cl.pushed THEN {PushId} \ cl.gone ELSE {})

\* The next id, with or without a body, in one frame or two (Bound: in one after a GOAWAY).
HeadersFrames ==
  {[Msg("HEADERS", i, 0) EXCEPT !.fin = fin, !.end = end, !.prio = d.prio, !.depend = d.depend, !.excl = d.excl, !.weight = d.weight] :
      i \in {Min(setup.sids \ Used)}, fin \in setup.fins, end \in (IF h.goaway THEN {TRUE} ELSE setup.ends), d \in setup.prios}
\* A body of at most setup.up units, as far as both windows allow.
DataFrames ==
  {[Msg("DATA", i, n) EXCEPT !.m = m, !.fin = fin] :
      i \in Open \ cl.ended, n \in 0 .. setup.up, m \in 0 .. setup.up, fin \in BOOLEAN}
Credit(f) == f.n <= Min({cl.conn, cl.str[f.i], setup.up - cl.sent[f.i]}) /\ f.m <= f.n /\ (f.m < f.n => setup.split)
Due ==
  CASE h.st.k = "headers" -> {Msg("CONTINUATION", 0, 0)}
    [] h.st.k \in {"data", "settings"} -> {Msg("REST", 0, 0)}
    [] OTHER -> {}

\* Bound: setup.moves frames besides HEADERS, DATA and what is due, of the kinds in setup.kinds.
Extra ==
  IF cl.moves >= setup.moves THEN {}
  ELSE {f \in {[Msg("PRIORITY", i, 0) EXCEPT !.depend = d.depend, !.excl = d.excl, !.weight = d.weight] :
                  i \in setup.sids, d \in setup.prios}
           \union {Msg("RST_STREAM", i, 0) : i \in Known}
           \union {[Msg("SETTINGS", 0, n) EXCEPT !.split = sp] : n \in setup.settings, sp \in {FALSE, setup.split}}
           \union {Msg("WINDOW_UPDATE", i, n) : i \in {0} \union Known, n \in setup.updates}
           \union {Msg("BAD", 0, 0)} : f.k \in setup.kinds}

ClientFrames ==
  IF Due # {} THEN Due
  ELSE (IF setup.sids \subseteq Used \/ cl.away THEN {} ELSE HeadersFrames)
       \union {f \in DataFrames : Credit(f)} \union Extra
       \union (IF cl.ack = "due" THEN {Msg("ACK", 0, 0)} ELSE {})

\* What the client notes of a frame it sends.
Sent(c, f) ==
  LET i == f.i IN
  CASE f.k = "HEADERS" -> [c EXCEPT !.ended = IF f.fin THEN @ \union {i} ELSE @]
    [] f.k = "DATA" -> [c EXCEPT !.conn = @ - f.n, !.str[i] = @ - f.n, !.sent[i] = @ + f.n,
                                 !.ended = IF f.fin THEN @ \union {i} ELSE @]
    [] f.k = "ACK" -> [c EXCEPT !.ack = "sent"]
    [] f.k = "RST_STREAM" -> [c EXCEPT !.gone = @ \union {i}, !.moves = @ + 1]
    [] f.k = "SETTINGS" -> [c EXCEPT !.gives = [j \in Ids |-> @[j] + f.n - c.mine], !.mine = f.n,
                                     !.lost = @ \/ f.split, !.moves = @ + 1]
    [] f.k = "WINDOW_UPDATE" /\ i = 0 -> [c EXCEPT !.give = @ + f.n, !.moves = @ + 1]
    [] f.k = "WINDOW_UPDATE" /\ i # 0 -> [c EXCEPT !.gives[i] = @ + f.n, !.moves = @ + 1]
    [] f.k \in {"PRIORITY", "BAD"} -> [c EXCEPT !.moves = @ + 1]
    [] OTHER -> c

-----------------------------------------------------------------------------
(* The events of the connection and of its requests. *)

World(room, heed) ==
  [h |-> h, s |-> s, o |-> o, t |-> t, cl |-> cl, room |-> room, heed |-> heed, rc |-> "ok", stop |-> FALSE,
   blk |-> FALSE, busy |-> 0]
Become(w) ==
  \E v \in {w} : /\ h' = v.h /\ s' = v.s /\ o' = v.o /\ t' = v.t /\ cl' = v.cl
                  /\ UNCHANGED setup

Heeds == IF \E i \in Ids : s[i].at = "run" THEN BOOLEAN ELSE {FALSE}
Alive == h.state # "closed" /\ h.rh # "empty"
\* The read event wakes an idle connection: ngx_http_v2_idle_handler,
\* ngx_http_v2_handle_connection_handler.
Awake(w) == [w EXCEPT !.h.state = "open", !.h.rh = "read", !.blk = TRUE]


\* ngx_http_v2_init: the first frames are queued and the read handler is called.
Init ==
  /\ setup \in Setups
  /\ h = [Connection0 EXCEPT !.posted = TRUE]
  /\ s = [i \in Ids |-> NoStream]
  /\ o = <<Ctl("SETTINGS", 0, 0), Ctl("WINDOW_UPDATE", 0, MaxWin - DefWin)>>
  /\ t = Tree0 /\ cl = Client0

\* A frame, or a piece of one, comes: ngx_http_v2_read_handler.
ClientSends ==
  /\ Alive /\ ~h.err
  /\ \E f \in ClientFrames, room \in setup.rooms, heed \in Heeds :
       Become(AfterRead(Parse([Awake(World(room, heed)) EXCEPT !.cl = Sent(@, f)], f)))

\* The client closes its end, or the socket fails.
ClientLeaves ==
  /\ "leave" \in setup.events /\ Alive /\ ~h.err
  /\ \E heed \in Heeds : Become(Finalize([Awake(World(0, heed)) EXCEPT !.h.err = TRUE]))

\* ngx_http_v2_write_handler, for the socket or posted after a failure.
WriteHandler(w) ==
  LET a == SendOutputQueue([w EXCEPT !.blk = TRUE])
  IN IF w.o = <<>> THEN HandleConnection(w)
     ELSE IF a.rc = "again" THEN [a EXCEPT !.blk = FALSE] ELSE Looked(a)
SocketWritable ==
  /\ Alive /\ h.rh # "idle"
  /\ ~h.wready \/ h.wposted
  /\ \E room \in setup.rooms, heed \in Heeds :
       Become(WriteHandler([World(room, heed) EXCEPT !.h.wready = TRUE, !.h.wposted = FALSE]))

\* The posted event of the connection: ngx_http_v2_handle_connection_handler,
\* ngx_http_v2_idle_handler, or ngx_http_v2_read_handler with nothing to read.
ConnectionEvent ==
  /\ Alive /\ h.posted
  /\ \E room \in setup.rooms, heed \in Heeds :
       LET w == [World(room, heed) EXCEPT !.h.posted = FALSE] IN
       Become(AfterRead(IF h.rh = "handle" /\ h.err THEN Error(w) ELSE Awake(w)))

\* The posted write event of a stream.
StreamEvent(i) ==
  /\ s[i].posted
  /\ \E room \in setup.rooms, heed \in Heeds :
       Become(StreamWrite([World(room, heed) EXCEPT !.s[i].posted = FALSE], i))

\* A request reads its body: ngx_http_v2_read_request_body.
Credited(w, i, n, kind) ==
  LET a == IF n = 0 THEN w ELSE SendWindowUpdate(w, i, n)
      b == IF n = 0 \/ w.blk THEN a ELSE SendOutputQueue(a)
  IN IF b.rc = "error" THEN [b EXCEPT !.s[i].skip = TRUE, !.s[i].err = TRUE]
     ELSE [b EXCEPT !.s[i].recv = @ + n, !.s[i].body = kind]
ReadRequestBody(w, i, kind) ==
  LET st == w.s[i] IN
  CASE st.skip \/ st.in -> [w EXCEPT !.s[i].body = "read"]
    [] ~st.skip /\ ~st.in /\ kind = "buffered" ->
         Credited([w EXCEPT !.s[i].nofc = TRUE, !.s[i].at = "body"], i, MaxWin - st.recv, kind)
    [] OTHER -> Credited([w EXCEPT !.s[i].held = st.pre], i, BodyBuf - Preread, kind)
ReadBody(i) ==
  /\ s[i].at = "run" /\ s[i].body = "none" /\ ~s[i].err
  /\ \E kind \in setup.bodies, room \in setup.rooms : Become(ReadRequestBody(World(room, FALSE), i, kind))

\* A piece of an unbuffered body goes on: ngx_http_v2_read_unbuffered_request_body.
ReadUnbuffered(w, i) ==
  LET st == w.s[i]
      window == BodyBuf - (IF w.h.st.i = i THEN w.h.st.n ELSE 0)
      a == [w EXCEPT !.s[i].held = 0]
      b == IF window < st.recv THEN Blame([a EXCEPT !.rc = "error"], "window")
           ELSE SendOutputQueue(SendWindowUpdate(a, i, window - st.recv))
      told(x) == IF x.rc = "error" THEN Respond([x EXCEPT !.s[i].skip = TRUE], i, 0, FALSE)
                 ELSE [x EXCEPT !.s[i].recv = window]
  IN CASE st.err -> Terminate([w EXCEPT !.s[i].skip = TRUE], i)
       [] ~st.err /\ st.body = "last" -> [a EXCEPT !.s[i].body = "read"]
       [] ~st.err /\ st.body # "last" /\ window = st.recv -> a
       [] OTHER -> told(b)
ReadMore(i) ==
  /\ s[i].at = "run" /\ s[i].body \in {"unbuffered", "last"}
  /\ \E room \in setup.rooms : Become(ReadUnbuffered(World(room, FALSE), i))

\* A request is answered with n units of body, and may push.
Answer(i) ==
  /\ s[i].at = "run"
  /\ \E n \in setup.lens, push \in setup.pushes, room \in setup.rooms :
       Become(Respond(World(room, FALSE), i, n, push))
\* It is given up.
Abort(i) ==
  /\ "abort" \in setup.events /\ s[i].at = "run"
  /\ Become(Terminate(World(0, FALSE), i))

\* client_header_timeout, client_body_timeout and send_timeout of a stream.
HeaderTimeout(i) ==
  /\ "timeouts" \in setup.events /\ s[i].at = "head" /\ Become(Terminate(World(0, FALSE), i))
BodyTimeout(i) ==
  /\ "timeouts" \in setup.events
  /\ \/ s[i].at = "body"
     \/ s[i].at = "run" /\ s[i].body = "unbuffered" /\ s[i].recv > 0
  /\ Become(Terminate([World(0, FALSE) EXCEPT !.s[i].skip = TRUE], i))
WriteTimeout(i) ==
  /\ "timeouts" \in setup.events /\ s[i].timer /\ s[i].at \in {"write", "closing"}
  /\ LET w == [World(0, FALSE) EXCEPT !.s[i].timer = FALSE]
     IN Become(IF s[i].at = "write" THEN Terminate(w, i) ELSE CloseStream(w, i))

\* http2_recv_timeout, http2_idle_timeout and the connection's send_timeout.
ConnectionTimeout ==
  /\ "timeouts" \in setup.events /\ Alive
  /\ \E heed \in Heeds :
       \E room \in setup.rooms, failed \in BOOLEAN :
          /\ IF failed THEN ~h.wready ELSE h.rh = "idle" \/ (h.st.k # "head" /\ Idle(World(0, FALSE)))
          /\ Become(Finalize([World(room, heed) EXCEPT !.h.err = @ \/ failed]))

\* ngx_close_idle_connections of a worker that exits; what is posted has run by then.
Shutdown ==
  /\ "shutdown" \in setup.events /\ h.rh \in {"read", "idle"} /\ h.state # "closed" /\ ~h.goaway
  /\ ~h.posted /\ ~h.wposted /\ \A i \in Ids : ~s[i].posted
  /\ \E room \in setup.rooms, heed \in Heeds :
       LET w == [World(room, heed) EXCEPT !.blk = TRUE]
           told(x) == IF x.rc = "ok" \/ x.rc = "again" THEN [x EXCEPT !.blk = FALSE] ELSE Finalize(x)
       IN Become(told(IF h.rh = "idle" THEN [w EXCEPT !.rc = "idle"]
                      ELSE SendOutputQueue(SendGoaway([w EXCEPT !.h.goaway = TRUE]))))

Next ==
  \/ ClientSends \/ ClientLeaves \/ SocketWritable \/ ConnectionEvent \/ ConnectionTimeout \/ Shutdown
  \/ \E i \in Ids : \/ StreamEvent(i) \/ ReadBody(i) \/ ReadMore(i) \/ Answer(i) \/ Abort(i)
                     \/ HeaderTimeout(i) \/ BodyTimeout(i) \/ WriteTimeout(i)
Spec == Init /\ [][Next]_vars

-----------------------------------------------------------------------------
(* Properties. *)

Queued(i) == Cardinality({j \in DOMAIN o : o[j].own = i})
OnWay(i) == FoldLeft(LAMBDA x, f : IF f.k = "DATA" /\ (i = 0 \/ f.own = i) THEN x + f.n ELSE x, 0, o)
Live == {i \in Ids : IsLive(World(0, FALSE), i)}

\* The counters count what they name, and nothing of a stream that ended is left behind.
Counted ==
  /\ h.state # "closed" => h.processing = Cardinality(Live \ {PushId})
  /\ h.state # "closed" => h.pushing = Cardinality(Live \intersect {PushId})
  /\ \A i \in Ids : s[i].queued = Queued(i)
  /\ \A f \in Range(o) : f.own = 0 \/ f.own \in Live
  /\ h.st.i = 0 \/ h.st.i \in Live
  /\ \A i \in Live : s[i].waiting <=> i \in Range(h.waiting)
  /\ IsInjective(h.waiting)

\* The dependency tree is a tree, ranked by depth and weighed along its branches, and the
\* closed list is its nodes without a stream.
Treelike ==
  /\ \A i \in DOMAIN t.nodes :
       LET x == t.nodes[i] IN
       /\ x.parent = 0 \/ x.parent \in DOMAIN t.nodes
       /\ x.rank = RankUnder(t.nodes, x.parent)
       /\ x.rel = RelUnder(t.nodes, x.parent) * x.weight
  /\ Live \subseteq DOMAIN t.nodes
  /\ Range(t.closed) = DOMAIN t.nodes \ Live
  /\ IsInjective(t.closed)
  /\ t.n = Len(t.closed)

TypeOK ==
  /\ h.state \in {"open", "idle", "closed"} /\ h.rh \in {"read", "idle", "handle", "empty"}
  /\ h.recv \in 0 .. MaxWin /\ h.send \in Nat
  /\ \A i \in Ids : s[i].at \in {"idle", "head", "pushed", "body", "run", "write", "closing", "done"} /\ s[i].recv \in 0 .. MaxWin

\* No credit is lost or invented: what the client has let the connection and each stream
\* send is what the server still counts as free, and what waits in the output queue
\* (ngx_http_v2_send_chain, ngx_http_v2_filter_cleanup, ngx_http_v2_adjust_windows).
Windows ==
  ~h.err =>
    /\ h.send + OnWay(0) = cl.give
    /\ \A i \in Live : ~s[i].rst /\ ~cl.lost /\ s[i].at # "closing" => s[i].send + OnWay(i) = cl.gives[i]

\* What holds whatever the client sends and whenever the socket takes it
\* (ngx_http_v2_close_stream, ngx_http_v2_set_dependency, ngx_http_v2_get_closed_node, ngx_http_v2_adjust_windows).
Inv == TypeOK /\ Counted /\ Treelike /\ Windows

\* A client that keeps to the windows it was told is never refused for what it sent: the
\* server does not advertise room it does not have (ngx_http_v2_state_data,
\* ngx_http_v2_state_read_data, ngx_http_v2_process_request_body,
\* ngx_http_v2_read_unbuffered_request_body).
GoodClientIsServed == cl.blame = ""

\* An answer that is not finished has something to wait for: its event is posted, a frame of
\* it is in the queue, or the window it lacks is really shut.  A stream that is to be closed
\* has its frames to wait for, or an event; one that is out of window may wait for good
\* (ngx_http_v2_waiting_queue, ngx_http_v2_handle_stream, ngx_http_v2_state_window_update).
Wakes ==
  /\ ~h.err => \A i \in Ids : s[i].at = "write" /\ ~s[i].err =>
       \/ s[i].posted \/ s[i].queued > 0
       \/ s[i].exhausted /\ s[i].send <= 0
       \/ s[i].waiting /\ h.send = 0
  /\ \A i \in Ids : s[i].at = "closing" => s[i].queued > 0 \/ s[i].posted \/ s[i].exhausted
=============================================================================
