-------------------------------- MODULE Peers --------------------------------
(***************************************************************************)
(* The servers of an upstream and how one is chosen for a request            *)
(* (http/ngx_http_upstream_round_robin.c and the hash, ip_hash and            *)
(* least_conn modules).  The choice is a function of the servers' counters,  *)
(* of what the request has tried and of the time.                            *)
(***************************************************************************)
EXTENDS Lists

CONSTANTS
  Setups,      \* the configurations: servers, method, orders, and what Upstream adds
  HashTries    \* bound of the code, 20: servers the hash may name in vain

VARIABLE setup   \* the configuration the worker runs with

Servers == setup.servers
Method == setup.method
Index == DOMAIN Servers

Methods == {"round_robin", "least_conn", "hash", "ip_hash", "chash"}
ASSUME PeersAssumption ==
  /\ HashTries \in Nat
  /\ \A s \in Setups :
       /\ s.servers # <<>> /\ s.method \in Methods
       /\ s.servers \in Seq([weight : Nat \ {0}, maxFails : Nat, failTimeout : Nat, maxConns : Nat,
                             down : BOOLEAN, backup : BOOLEAN])
       /\ s.method \in {"hash", "ip_hash", "chash"} => \A i \in DOMAIN s.servers : ~s.servers[i].backup
       /\ \A k \in DOMAIN s.orders : s.orders[k] \in Seq(DOMAIN s.servers) /\ s.orders[k] # <<>>

\* Per key: the servers that its hash names, one after another.
KeyOrder == setup.orders

\* ngx_http_upstream_init_round_robin: two lists, in the order of the directives.
Group(backup) == {i \in Index : Servers[i].backup = backup}
PeersInit ==
  [i \in Index |-> [conns |-> 0, fails |-> 0, accessed |-> 0, checked |-> 0,
                    effective |-> Servers[i].weight, current |-> 0]]
HasBackup == Group(TRUE) # {}
\* peers->single: one server and none behind it.
Single == Len(Servers) = 1 /\ ~HasBackup

\* What a request knows: the list it is in, what it has tried, and how far its
\* hash has gone.
DataInit(key) == [backup |-> FALSE, tried |-> {}, key |-> key, hash |-> 1, tries |-> 0]
\* ngx_http_upstream_tries.
TriesInit == Cardinality(Index)

Unavailable(p, i, now) ==
  /\ Servers[i].maxFails > 0 /\ p[i].fails >= Servers[i].maxFails
  /\ now - p[i].checked <= Servers[i].failTimeout
Full(p, i) == Servers[i].maxConns > 0 /\ p[i].conns >= Servers[i].maxConns
Eligible(p, d, i, now) ==
  /\ i \notin d.tried /\ ~Servers[i].down
  /\ ~Unavailable(p, i, now) /\ ~Full(p, i)

\* Mutant: the time of the probe is not noted.
TakeUnchecked(p, i, now) == [p EXCEPT ![i].conns = @ + 1]
\* The server is taken: one more connection, and a probe if it had failed.
Take(p, i, now) ==
  [p EXCEPT ![i].conns = @ + 1,
            ![i].checked = IF now - @ > Servers[i].failTimeout THEN now ELSE @]

\* The sum of a field over the servers of s.
Over(f, s) == Sum([i \in Index |-> IF i \in s THEN f[i] ELSE 0], Len(Servers))
Effective(p) == [i \in Index |-> p[i].effective]
Current(p) == [i \in Index |-> p[i].current]

\* One round of the smooth weights over the servers of s: all are raised, and the
\* first of the highest pays for it.
Raised(p, s) ==
  [i \in Index |-> IF i \notin s THEN p[i]
     ELSE [p[i] EXCEPT !.current = @ + p[i].effective,
                       !.effective = IF @ < Servers[i].weight THEN @ + 1 ELSE @]]
Highest(p, s) == {i \in s : \A j \in s : p[j].current <= p[i].current}
Weigh(p, s) ==
  LET r == Raised(p, s)  best == Min(Highest(r, s))
  IN [best |-> best, p |-> [r EXCEPT ![best].current = @ - Over(Effective(p), s)]]

None(p, d) == [peer |-> 0, p |-> p, d |-> d]
Got(p, d, i, now) == [peer |-> i, p |-> Take(p, i, now), d |-> [d EXCEPT !.tried = @ \union {i}]]
May(p, d, now) == {i \in Group(d.backup) : Eligible(p, d, i, now)}

\* ngx_http_upstream_get_round_robin_peer, ngx_http_upstream_get_peer.
RoundRobin(p, d, now) ==
  LET s == May(p, d, now)  b == Weigh(p, s) IN
  IF Single THEN IF Servers[1].down \/ Full(p, 1) THEN None(p, d)
                 ELSE [peer |-> 1, p |-> [p EXCEPT ![1].conns = @ + 1], d |-> d]
  ELSE IF s = {} THEN None(p, d) ELSE Got(b.p, d, b.best, now)

\* ngx_http_upstream_get_least_conn_peer: fewest connections per weight, and
\* among equals the smooth weights.
Least(p, s) == {i \in s : \A j \in s : p[i].conns * Servers[j].weight <= p[j].conns * Servers[i].weight}
LeastConn(p, d, now) ==
  LET s == Least(p, May(p, d, now))  b == Weigh(p, s) IN
  IF s = {} THEN None(p, d)
  ELSE IF Cardinality(s) = 1 THEN Got(p, d, Min(s), now) ELSE Got(b.p, d, b.best, now)

\* The list the request is in, or the backup servers when it gives none.
InList(p, d, now) == IF Method = "least_conn" /\ ~Single THEN LeastConn(p, d, now) ELSE RoundRobin(p, d, now)
OrBackup(p, d, now) ==
  LET first == InList(p, d, now) IN
  IF first.peer # 0 \/ d.backup \/ ~HasBackup THEN first
  ELSE InList(first.p, [d EXCEPT !.backup = TRUE, !.tried = {}], now)

\* The first server that the key's hash names and that will do, from where the
\* request has come to; none when the hash has named too many in vain.
Attempts(d) == (HashTries - d.tries) + 1
NamedBy(d, k) == KeyOrder[d.key][((d.hash + k - 2) % Len(KeyOrder[d.key])) + 1]
HashFinds(p, d, now) ==
  {k \in 1 .. Attempts(d) : Eligible(p, d, NamedBy(d, k), now)}

\* ngx_http_upstream_get_hash_peer.
Hash(p, d, now) ==
  LET ks == HashFinds(p, d, now) IN
  IF Single \/ d.tries > HashTries THEN RoundRobin(p, d, now)
  ELSE IF ks = {} THEN RoundRobin(p, [d EXCEPT !.hash = @ + Attempts(d), !.tries = HashTries + 1], now)
  ELSE Got(p, [d EXCEPT !.hash = @ + Min(ks), !.tries = @ + Min(ks) - 1], NamedBy(d, Min(ks)), now)

\* ngx_http_upstream_get_ip_hash_peer: the key is the client's address, and what
\* the hash has come to is kept only with a server; it names the same ones again.
IpHash(p, d, now) ==
  LET h == Hash(p, d, now) IN IF h.d.tries > HashTries THEN [h EXCEPT !.d.hash = d.hash] ELSE h

\* ngx_http_upstream_get_chash_peer: the point of the ring is kept while it
\* serves; its server is one peer here, so that the weights do not tell.
ConsistentHash(p, d, now) ==
  LET ks == HashFinds(p, d, now)
      i == NamedBy(d, Min(ks))
  IN IF Single \/ d.tries > HashTries THEN RoundRobin(p, d, now)
     ELSE IF ks = {} THEN RoundRobin(p, [d EXCEPT !.hash = @ + Attempts(d), !.tries = HashTries + 1], now)
     ELSE Got(Weigh(p, {i}).p, [d EXCEPT !.hash = @ + Min(ks) - 1, !.tries = @ + Min(ks) - 1], i, now)

\* u->peer.get.
GetPeer(p, d, now) ==
  CASE Method \in {"round_robin", "least_conn"} -> OrBackup(p, d, now)
    [] Method = "hash" -> Hash(p, d, now)
    [] Method = "ip_hash" -> IpHash(p, d, now)
    [] Method = "chash" -> ConsistentHash(p, d, now)

\* ngx_http_upstream_free_round_robin_peer; how: "ok", "failed" or "next".
FreePeer(p, i, how, now) ==
  LET e == p[i]
      less == e.effective - (IF Servers[i].maxFails > 0 THEN Servers[i].weight \div Servers[i].maxFails ELSE 0)
      freed == [e EXCEPT !.conns = @ - 1]
  IN [p EXCEPT ![i] =
       IF Single THEN freed
       ELSE IF how = "failed" THEN [freed EXCEPT !.fails = @ + 1, !.accessed = now, !.checked = now,
                                                 !.effective = IF less < 0 THEN 0 ELSE less]
       ELSE [freed EXCEPT !.fails = IF e.accessed < e.checked THEN 0 ELSE @]]
\* Mutant: a try costs nothing.
TriesKept(t) == t
\* pc->tries after it.
TriesAfter(t) == IF Single \/ t = 0 THEN 0 ELSE t - 1
=============================================================================
