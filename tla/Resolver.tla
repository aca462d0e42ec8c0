------------------------------ MODULE Resolver ------------------------------
(***************************************************************************)
(* The resolver of a worker, ngx_resolver.c: the names of the websites'    *)
(* IPv4 hosts are looked up while visitors wait, since the templates'      *)
(* proxy_pass has variables.  Names only: addresses (PTR) are asked for by *)
(* mail, and SRV by upstreams with a service.                              *)
(*                                                                         *)
(* res   the tree of nodes by name, the two queues (the newest first),     *)
(*       the resend timer and the counters                                 *)
(* ctx   what a request gave to ngx_resolve_name, and what it was told     *)
(* net   the questions that reached a name server by UDP, and the TCP      *)
(*       connections with what is written and asked on them                *)
(* work  the stack of what the current event has still to do: handlers to  *)
(*       call and names to look up.  A handler may start another request's *)
(*       name, whose work then comes first.                                *)
(*                                                                         *)
(* An operator on a world w returns the world after the call.              *)
(***************************************************************************)
EXTENDS Integers, Sequences, SequencesExt, FiniteSets, Functions, TLC

CONSTANTS
  ResendTimeout,   \* r->resend_timeout
  Keep,            \* r->expire
  TcpTimeout,      \* r->tcp_timeout
  TcpRoom,         \* how many queries fit NGX_RESOLVER_TCP_WSIZE
  ResolverTimeout, \* resolver_timeout of a location
  MaxRecursion,    \* NGX_RESOLVER_MAX_RECURSION
  MaxStart,        \* bound: when requests come
  MaxNow,          \* bound: when all of them must have ended
  Setups           \* zones, requests and what may go wrong

VARIABLES setup, now, res, ctx, net, work
vars == <<setup, now, res, ctx, net, work>>

World == [res |-> res, ctx |-> ctx, net |-> net, work |-> work]
Users == DOMAIN setup.users
Nowhere == "."
Never == 0
Pending == {"?"}
Types == IF setup.ipv6 THEN {4, 6} ELSE {4}
Node(id, conn) ==
  [id |-> id, conn |-> conn, got |-> [t \in {4, 6} |-> IF t \in Types THEN Pending ELSE {}],
   tcp |-> [t \in {4, 6} |-> FALSE], code |-> 0, cname |-> Nowhere, ttl |-> 99, valid |-> 0, expire |-> 0,
   born |-> 0, waiting |-> <<>>]
Closed == [st |-> "none", out |-> <<>>, asked |-> {}, timer |-> Never]
Addrs(n) == n.got[4] \cup n.got[6]

-----------------------------------------------------------------------------
(* Nodes and their queues. *)
Unqueue(w, x) == [w EXCEPT !.res.resend = SelectSeq(@, LAMBDA y : y # x), !.res.expire = SelectSeq(@, LAMBDA y : y # x)]
Delete(w, x) == [Unqueue(w, x) EXCEPT !.res.nodes = Restrict(@, DOMAIN @ \ {x})]
\* Into the queue of names that are known.
Cached(w, x) ==
  LET v == Unqueue(w, x) IN [v EXCEPT !.res.nodes[x].expire = now + Keep, !.res.expire = <<x>> \o @]
\* Into the queue of names that are asked for.
Resending(w, x) ==
  LET v == Unqueue(w, x) IN [v EXCEPT !.res.nodes[x].expire = now + ResendTimeout, !.res.resend = <<x>> \o @]

\* ngx_resolver_expire: two at most.
ExpireOne(w) ==
  IF w.res.expire # <<>> /\ now > w.res.nodes[Last(w.res.expire)].expire THEN Delete(w, Last(w.res.expire)) ELSE w
Expire(w) == ExpireOne(ExpireOne(w))

-----------------------------------------------------------------------------
(* Sending. *)

Room(w, k) == Len(w.net.tcp[k].out) < TcpRoom
\* ngx_resolver_send_tcp_query on connection k
SendTcp(w, k, q) ==
  LET c == w.net.tcp[k]
      new == [st |-> "connecting", out |-> <<q>>, asked |-> {}, timer |-> now + TcpTimeout]
  IN [w EXCEPT !.net.tcp[k] =
        CASE c.st = "none" -> new
          [] c.st = "connecting" /\ Room(w, k) -> [c EXCEPT !.out = Append(@, q)]
          [] c.st = "up" -> [c EXCEPT !.asked = @ \cup {q}, !.timer = now + TcpTimeout]
          [] OTHER -> c]

\* ngx_resolver_send_query: the types t in ok can be sent; AAAA is not tried when A fails.
Asks(n, t) == t \in Types /\ n.got[t] = Pending
Sends(w, n, t, ok) == t \in ok /\ (n.tcp[t] => Room(w, n.conn))
SendType(w, x, t, ok) ==
  LET n == w.res.nodes[x]
      q == [name |-> x, type |-> t, id |-> n.id]
  IN IF ~Asks(n, t) \/ ~Sends(w, n, t, ok) THEN w
     ELSE IF n.tcp[t] THEN SendTcp(w, n.conn, q)
     ELSE [w EXCEPT !.net.asked = @ \cup {q}]
SendQuery(w, x, ok) ==
  LET n == w.res.nodes[x] IN
  IF Asks(n, 4) /\ ~Sends(w, n, 4, ok) THEN w ELSE SendType(SendType(w, x, 4, ok), x, 6, ok)

-----------------------------------------------------------------------------
(* What is told to requests. *)
Tell(u, code, n) == [do |-> "tell", u |-> u, x |-> Nowhere, code |-> code, addrs |-> IF code = 0 THEN Addrs(n) ELSE {}, born |-> n.born]
TellAll(w, us, code, n) == [w EXCEPT !.work = [i \in DOMAIN us |-> Tell(us[i], code, n)] \o @]
Look(w, us, x) == [w EXCEPT !.work = <<[do |-> "look", us |-> us, x |-> x]>> \o @]

\* Mutant: a request that gives up stays in the list of those that wait.
DoneStaysListed(w, u) ==
  LET v == Expire([w EXCEPT !.ctx[u].timer = Never]) IN IF v.res.resend = <<>> THEN [v EXCEPT !.res.event = Never] ELSE v
\* ngx_resolve_name_done
Done(w, u) ==
  LET x == w.ctx[u].node
      a == IF w.ctx[u].st \in {"wait", "late"} /\ x # Nowhere
           THEN [w EXCEPT !.res.nodes[x].waiting = SelectSeq(@, LAMBDA y : y # u)] ELSE w
      v == Expire([a EXCEPT !.ctx[u].timer = Never, !.ctx[u].node = Nowhere])
  IN IF v.res.resend = <<>> THEN [v EXCEPT !.res.event = Never] ELSE v

\* Mutant: one timer is enough for all who wait for a name.
TimerShared(w, u) == IF \E v \in Users : w.ctx[v].timer # Never THEN w ELSE [w EXCEPT !.ctx[u].timer = now + ResolverTimeout]
\* ngx_resolver_set_timeout
SetTimeout(w, u) == IF w.ctx[u].timer # Never THEN w ELSE [w EXCEPT !.ctx[u].timer = now + ResolverTimeout]

-----------------------------------------------------------------------------
(* ngx_resolve_name_locked: the requests us, or a list that followed a CNAME, want x. *)

Wait(w, us, x) ==
  [w EXCEPT !.ctx = [u \in Users |-> IF \E i \in DOMAIN us : us[i] = u THEN [@[u] EXCEPT !.st = "wait", !.node = x] ELSE @[u]],
            !.res.nodes[x].waiting = us \o @]

\* The name is known.
Known(w, us, x) ==
  LET n == w.res.nodes[x]
      u == Head(us)
      v == Cached(w, x)
      r == [v EXCEPT !.ctx[u].recursion = @ + 1]
  IN IF Addrs(n) # {} THEN TellAll(v, us \o n.waiting, 0, n)
     ELSE IF w.ctx[u].recursion < MaxRecursion THEN Look(r, us, n.cname)
     ELSE TellAll(r, us, 3, n)

\* It is asked for; when that fails the caller gets the error, and a list that followed a
\* CNAME is left to its timers.
Ask(w, us, x, ok) ==
  LET n == Node(w.res.last + 1, w.res.next)
      a == [Unqueue(w, x) EXCEPT !.res.nodes = (x :> n) @@ @, !.res.last = @ + 1, !.res.next = (@ % setup.servers) + 1]
      s == SendQuery(a, x, ok)
      u == Head(us)
      v == IF a.res.resend = <<>> THEN [s EXCEPT !.res.event = now + ResendTimeout] ELSE s
  IN IF ~(Types \subseteq ok)
     THEN IF w.ctx[u].st = "none" THEN [Delete(s, x) EXCEPT !.ctx[u].st = "failed"] ELSE Delete(s, x)
     ELSE Wait(SetTimeout(Resending(v, x), u), us, x)

NameLocked(w, us, x, ok) ==
  IF x \in DOMAIN w.res.nodes /\ w.res.nodes[x].valid >= now THEN Known(w, us, x)
  ELSE IF x \in DOMAIN w.res.nodes /\ w.res.nodes[x].waiting # <<>> THEN Wait(SetTimeout(w, Head(us)), us, x)
  ELSE IF x \in setup.malformed THEN TellAll(w, us, 3, Node(0, 0))
  ELSE Ask(w, us, x, ok)

-----------------------------------------------------------------------------
(* ngx_resolver_process_response and ngx_resolver_process_a: q is the question that is     *)
(* answered, a the answer.                                                                *)

Other(t) == 10 - t
Finish(w, x) == [w EXCEPT !.res.nodes[x].waiting = <<>>, !.res.nodes[x].id = 0,
                          !.res.nodes[x].valid = now + (IF setup.valid > 0 THEN setup.valid ELSE w.res.nodes[x].ttl)]
\* The addresses are complete: all who wait are told.
Export(w, x) == LET n == [w.res.nodes[x] EXCEPT !.born = now] IN
  TellAll(Cached(Finish([w EXCEPT !.res.nodes[x] = n], x), x), n.waiting, 0, n)
\* The name is an alias: those who wait go on under the other one.
Alias(w, x, y) ==
  LET n == w.res.nodes[x]
      u == Head(n.waiting)
      v == Cached(Finish([w EXCEPT !.res.nodes[x].cname = y], x), x)
      r == [v EXCEPT !.ctx = [c \in Users |-> [@[c] EXCEPT !.recursion = IF c = u THEN @ + 1 ELSE @,
                              !.node = IF \E i \in DOMAIN n.waiting : n.waiting[i] = c THEN Nowhere ELSE @]]]
  IN IF n.waiting = <<>> THEN v
     ELSE IF w.ctx[u].recursion >= MaxRecursion THEN TellAll(r, n.waiting, 3, n) ELSE Look(r, n.waiting, y)
\* It does not exist, or the server has an error; with the other answer outstanding this is
\* remembered, and tells whatever the other answer is.
Failed(w, x, t, code) ==
  LET n == w.res.nodes[x]
      v == [w EXCEPT !.res.nodes[x].got[t] = {}]
  IN IF n.got[Other(t)] = Pending THEN [v EXCEPT !.res.nodes[x].code = code]
     ELSE TellAll(Delete(v, x), n.waiting, code, n)
\* No records
NoRecords(w, x, t) ==
  LET other == w.res.nodes[x].got[Other(t)]
      v == [w EXCEPT !.res.nodes[x].got[t] = {}]
  IN IF other = Pending THEN v ELSE IF other # {} THEN Export(v, x) ELSE Failed(v, x, t, 3)

\* Mutant: the first answer is enough.
FirstIsEnough(w, x, t, a) ==
  LET v == [w EXCEPT !.res.nodes[x].got[t] = a.addrs, !.res.nodes[x].ttl = IF a.ttl < @ THEN a.ttl ELSE @]
      other == v.res.nodes[x].got[Other(t)]
  IN IF a.bad THEN [w EXCEPT !.res.nodes[x].ttl = v.res.nodes[x].ttl]
     ELSE IF a.addrs # {} THEN Export([v EXCEPT !.res.nodes[x].got[Other(t)] = IF @ = Pending THEN {} ELSE @], x)
     ELSE IF other = Pending THEN v
     ELSE IF other # {} THEN Export(v, x)
     ELSE IF a.cname # Nowhere THEN Alias(v, x, a.cname)
     ELSE v
\* Records: addresses, an alias, or others
Records(w, x, t, a) ==
  LET v == [w EXCEPT !.res.nodes[x].got[t] = a.addrs, !.res.nodes[x].ttl = IF a.ttl < @ THEN a.ttl ELSE @]
      other == v.res.nodes[x].got[Other(t)]
  IN IF a.bad THEN [w EXCEPT !.res.nodes[x].ttl = v.res.nodes[x].ttl]
     ELSE IF other = Pending THEN v
     ELSE IF Addrs(v.res.nodes[x]) # {} THEN Export(v, x)
     ELSE IF a.cname # Nowhere THEN Alias(v, x, a.cname)
     ELSE v

\* The answer did not fit a datagram: the question is asked again by TCP.
Truncated(w, q, ok) ==
  LET n == w.res.nodes[q.name]
      v == IF ok THEN SendTcp(w, n.conn, q) ELSE w
  IN IF n.waiting = <<>> THEN Delete(w, q.name)
     ELSE Resending([v EXCEPT !.res.nodes[q.name].tcp[q.type] = TRUE], q.name)

\* Only an answer that is waited for counts; trunc says that it was cut to fit a datagram.
Expected(w, q, a, trunc) ==
  /\ a.code \notin {1, 9}
  /\ q.name \in DOMAIN w.res.nodes
  /\ LET n == w.res.nodes[q.name] IN n.id = q.id /\ n.got[q.type] = Pending /\ ~(trunc /\ n.tcp[q.type])

ProcessResponse(w, q, a, trunc, ok) ==
  LET n == w.res.nodes[q.name]
      code == IF a.code = 0 THEN n.code ELSE a.code
  IN IF ~Expected(w, q, a, trunc) THEN w
     ELSE IF trunc THEN Truncated(w, q, ok)
     ELSE IF code # 0 THEN Failed(w, q.name, q.type, code)
     ELSE IF ~a.records THEN NoRecords(w, q.name, q.type)
     ELSE Records(w, q.name, q.type, a)

-----------------------------------------------------------------------------
(* The worker. *)
Become(w) == \E v \in {w} : res' = v.res /\ ctx' = v.ctx /\ net' = v.net /\ work' = v.work /\ UNCHANGED <<setup, now>>
Idle == work = <<>>
\* Which sends succeed; a failure is rare.
Oks == {{4, 6}} \cup (IF net.fails > 0 THEN {{4}, {}} ELSE {})
Charge(w, ok) == IF ok = {4, 6} THEN w ELSE [w EXCEPT !.net.fails = @ - 1]
Begin(w, u) == Look([w EXCEPT !.ctx[u].began = now], <<u>>, setup.users[u].name)

\* ngx_resolve_start, ngx_resolve_name
Start(u) ==
  /\ Idle /\ ctx[u].st = "none" /\ now <= MaxStart /\ ~setup.users[u].second
  /\ \A v \in Users : v < u /\ setup.users[v] = setup.users[u] => ctx[v].st # "none" \* these are alike
  /\ Become(Begin(World, u))

\* A handler is called.  It ends its own resolution, and its request may go on to another name.
Call ==
  /\ work # <<>> /\ Head(work).do = "tell"
  /\ LET h == Head(work)
         w == [World EXCEPT !.work = Tail(@), !.ctx[h.u].calls = @ + 1, !.ctx[h.u].code = h.code, !.ctx[h.u].addrs = h.addrs,
                            !.ctx[h.u].age = now - h.born, !.ctx[h.u].ended = now, !.ctx[h.u].st = IF h.code = 110 THEN "late" ELSE "told"]
         v == [Done(w, h.u) EXCEPT !.ctx[h.u].st = "told"]
         next == setup.users[h.u].then
     IN \/ Become(v)
        \/ next # 0 /\ Become(Begin(v, next))
LookUp ==
  /\ work # <<>> /\ Head(work).do = "look"
  /\ \E ok \in Oks : Become(Charge(NameLocked([World EXCEPT !.work = Tail(@)], Head(work).us, Head(work).x, ok), ok))
\* A request ends while its name is being resolved.
Cancel(u) ==
  /\ Idle /\ ctx[u].st = "wait" /\ "cancel" \in setup.events
  /\ Become([Done(World, u) EXCEPT !.ctx[u].st = "gone"])

\* ngx_resolver_udp_read, ngx_resolver_tcp_read: servers answer what reached them, late, twice or never;
\* a big answer comes by UDP without its records.
UdpRead ==
  /\ Idle
  /\ \E q \in net.asked : \E a \in setup.zone[q.name][q.type] : \E ok \in IF a.big THEN Oks ELSE {{4, 6}} :
       /\ Expected(World, q, a, a.big)
       /\ Become(Charge(ProcessResponse(World, q, a, a.big, 4 \in ok), ok))
TcpRead ==
  /\ Idle
  /\ \E k \in 1..setup.servers : \E q \in net.tcp[k].asked : \E a \in setup.zone[q.name][q.type] :
       /\ Expected(World, q, a, FALSE)
       /\ Become(ProcessResponse(World, q, a, FALSE, TRUE))
\* ngx_resolver_tcp_write: the connection is there.
TcpWrite ==
  /\ Idle
  /\ \E k \in 1..setup.servers :
       /\ net.tcp[k].st = "connecting"
       /\ Become([World EXCEPT !.net.tcp[k] = [st |-> "up", out |-> <<>>, asked |-> ToSet(net.tcp[k].out), timer |-> now + TcpTimeout]])
TcpFails ==
  /\ Idle /\ "tcp" \in setup.events
  /\ \E k \in 1..setup.servers : net.tcp[k].st # "none" /\ Become([World EXCEPT !.net.tcp[k] = Closed])
TcpExpires ==
  /\ Idle
  /\ \E k \in 1..setup.servers : net.tcp[k].timer # Never /\ net.tcp[k].timer <= now /\ Become([World EXCEPT !.net.tcp[k] = Closed])

\* ngx_resolver_resend_handler: each name that is due is asked for again, of the next server,
\* or forgotten when nobody waits for it.
ResendOne(w, x, ok) ==
  LET n == w.res.nodes[x]
      a == [w EXCEPT !.res.nodes[x].conn = (@ % setup.servers) + 1]
  IN IF n.waiting = <<>> THEN Delete(w, x)
     ELSE Resending(SendQuery(a, x, ok), x)
Resend(w, ok) ==
  LET due == SelectSeq(Reverse(w.res.resend), LAMBDA x : w.res.nodes[x].expire <= now)
      v == FoldLeft(LAMBDA a, x : ResendOne(a, x, ok), w, due)
  IN [v EXCEPT !.res.event = IF v.res.resend = <<>> THEN Never ELSE v.res.nodes[Last(v.res.resend)].expire]
ResendEvent ==
  /\ Idle /\ res.event # Never /\ res.event <= now
  /\ \E ok \in Oks : Become(Charge(Resend(World, ok), ok))
\* ngx_resolver_timeout_handler
Timeout ==
  /\ Idle
  /\ \E u \in Users : /\ ctx[u].timer # Never /\ ctx[u].timer <= now
                      /\ Become([World EXCEPT !.work = <<Tell(u, 110, Node(0, 0))>>])

Timers == ({res.event} \cup {ctx[u].timer : u \in Users} \cup {net.tcp[k].timer : k \in 1..setup.servers}) \ {Never}
Tick ==
  /\ Idle /\ now < MaxNow /\ \A t \in Timers : t > now
  /\ now' = now + 1 /\ UNCHANGED <<setup, res, ctx, net, work>>

Init ==
  /\ setup \in Setups /\ now = 1
  /\ res = [nodes |-> <<>>, resend |-> <<>>, expire |-> <<>>, event |-> Never, last |-> 0, next |-> 1]
  /\ ctx = [u \in DOMAIN setup.users |->
              [st |-> "none", node |-> Nowhere, timer |-> Never, recursion |-> 0, began |-> 0, calls |-> 0, code |-> 0, addrs |-> {}, age |-> 0, ended |-> 0]]
  /\ net = [asked |-> {}, tcp |-> [k \in 1..setup.servers |-> Closed], fails |-> setup.fails]
  /\ work = <<>>
Next ==
  \/ \E u \in Users : Start(u) \/ Cancel(u)
  \/ Call \/ LookUp \/ UdpRead \/ TcpRead \/ TcpWrite \/ TcpFails \/ TcpExpires \/ ResendEvent \/ Timeout \/ Tick
\* The worker goes on, and time passes; name servers need not answer.
Spec == Init /\ [][Next]_vars /\ WF_vars(Call \/ LookUp) /\ WF_vars(ResendEvent \/ Timeout \/ TcpExpires) /\ WF_vars(Tick)

-----------------------------------------------------------------------------
Waiting(x) == res.nodes[x].waiting
Due == UNION {IF work[i].do = "tell" THEN {work[i].u : c \in {work[i].code} \ {110}} ELSE ToSet(work[i].us) : i \in DOMAIN work}
Live == {u \in Users : ctx[u].st = "wait"} \ Due

TypeOK ==
  /\ setup \in Setups /\ now \in 1..MaxNow
  /\ res.next \in 1..setup.servers /\ res.last \in Nat /\ res.event \in Nat
  /\ \A x \in DOMAIN res.nodes : /\ res.nodes[x].conn \in 1..setup.servers
                                 /\ res.nodes[x].waiting \in Seq(Users)
  /\ \A u \in Users : ctx[u].st \in {"none", "wait", "late", "told", "failed", "gone"}
  /\ \A k \in 1..setup.servers : net.tcp[k].st \in {"none", "connecting", "up"}

\* Every node is in exactly one of the two queues; the queue of those asked for is in the order
\* in which they are due and has its timer; nobody waits for a name that is no longer asked for.
QueuesHold ==
  /\ \A x \in DOMAIN res.nodes :
       /\ Cardinality({i \in DOMAIN res.resend : res.resend[i] = x}) + Cardinality({i \in DOMAIN res.expire : res.expire[i] = x}) = 1
       /\ x \in ToSet(res.expire) => Waiting(x) = <<>> /\ res.nodes[x].id = 0
       /\ x \in ToSet(res.resend) => res.nodes[x].id # 0
  /\ ToSet(res.resend) \cup ToSet(res.expire) \subseteq DOMAIN res.nodes
  /\ \A q \in {res.resend, res.expire} : \A i, j \in DOMAIN q : i < j => res.nodes[q[i]].expire >= res.nodes[q[j]].expire
  /\ res.resend # <<>> => res.event # Never
\* A node's list holds exactly the requests that wait for it, each once and each with a timer of
\* its own; a request whose lookup could not go on waits in no list, for its timer only.
ListsHold ==
  \A u \in Users :
    /\ \A x \in DOMAIN res.nodes :
         Cardinality({i \in DOMAIN Waiting(x) : Waiting(x)[i] = u}) = (IF u \in Live /\ ctx[u].node = x THEN 1 ELSE 0)
    /\ u \in Live => ctx[u].node \in DOMAIN res.nodes \cup {Nowhere}
    /\ u \in Live => ctx[u].timer >= now
    /\ ctx[u].st \in {"told", "failed", "gone"} => ctx[u].timer = Never
\* A handler is called at most once, and not after its request has gone.
CalledOnce == \A u \in Users : ctx[u].calls <= (IF ctx[u].st \in {"late", "told"} THEN 1 ELSE 0)

\* The nodes, queues, timers and lists of ngx_resolver.c fit each other whatever the handlers do
\* and in whatever order answers and timeouts come (the comment of ngx_resolve_name_done's alert
\* "could not cancel" is about a context that is in no list).
Inv == TypeOK /\ QueuesHold /\ ListsHold /\ CalledOnce

\* The names that x stands for.
RECURSIVE Chain(_, _)
Chain(x, seen) ==
  IF x \in seen \/ x \in setup.malformed THEN {x}
  ELSE {x} \cup UNION {Chain(a.cname, seen \cup {x}) : a \in {b \in UNION {setup.zone[x][t] : t \in Types} : b.cname # Nowhere}}
Good(x) == {a \in UNION {setup.zone[x][t] : t \in Types} : a.code = 0 /\ ~a.bad}
Whole(x) == UNION {a.addrs : a \in Good(x)}
Oldest(x) == IF setup.valid > 0 THEN setup.valid ELSE Min({a.ttl : a \in Good(x)})
NoAddress(x) == x \in setup.malformed \/ Whole(x) = {}

\* What a request is told is so: addresses are all those of the name or of one it is an alias of,
\* IPv4 and IPv6, and not older than they may be; an error is one that a server gave, or there
\* are no addresses, or the chain has no end; and "timed out" comes after resolver_timeout.  Zones
\* have an alias for both families or none (observations 17 and 18 of the README are of others).
ToldTrue ==
  \A u \in Users : ctx[u].calls > 0 =>
    LET names == Chain(setup.users[u].name, {}) IN
    CASE ctx[u].code = 0 -> \E x \in names \ setup.malformed :
                               ctx[u].addrs = Whole(x) /\ Whole(x) # {} /\ ctx[u].age <= Oldest(x)
      [] ctx[u].code = 110 -> ctx[u].ended = ctx[u].began + ResolverTimeout
      [] OTHER -> \/ \E x \in names \ setup.malformed, t \in Types : \E a \in setup.zone[x][t] : a.code = ctx[u].code
                  \/ ctx[u].code = 3 /\ \A x \in names : NoAddress(x)

\* Whatever the servers do and whoever else waits, a lookup that was begun ends: it is told, it
\* fails at once or its request has gone (the timers of ngx_resolver_set_timeout).
NobodyWaits == \A u \in Users : ctx[u].began = 0 \/ ctx[u].st \in {"told", "failed", "gone"}
EveryoneIsTold == []<>NobodyWaits
=============================================================================
