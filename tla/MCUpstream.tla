----------------------------- MODULE MCUpstream -----------------------------
EXTENDS Upstream

Server(w, f, m, b) ==
  [weight |-> w, maxFails |-> f, failTimeout |-> 1, maxConns |-> m, down |-> FALSE, backup |-> b]
Kind(p, u, c, k) == [post |-> p, unbuffered |-> u, cacheable |-> c, key |-> k]
BaseConf == [nextOn |-> {"error", "timeout", "500"}, nextTries |-> 0, nextTimeout |-> 0, keep |-> 0,
             ignoreAbort |-> FALSE, preserve |-> FALSE, ssl |-> FALSE, buffering |-> TRUE, intercept |-> FALSE, resolve |-> FALSE]
Base == [servers |-> <<Server(2, 1, 0, FALSE), Server(1, 1, 0, FALSE)>>, method |-> "round_robin",
         orders |-> <<(<<1, 2>>), <<2, 2, 1>>>>, kinds |-> {Kind(FALSE, FALSE, FALSE, 1)},
         conf |-> BaseConf, requests |-> 2, maxNow |-> 0]

\* Time passes between failures.
Failing == [Base EXCEPT !.maxNow = 2, !.conf.nextTimeout = 2]
\* A server that fails while there is no other.
Probing == [Base EXCEPT !.servers[2].down = TRUE, !.requests = 3, !.maxNow = 2, !.conf.nextOn = {"error"}]
\* Idle connections, and methods that may not be repeated.
Keeping == [Base EXCEPT !.conf.keep = 1, !.kinds = {Kind(p, FALSE, FALSE, 1) : p \in BOOLEAN}]
\* One server, whose idle connection breaks; output preserved, as for grpc.
Alone == [Base EXCEPT !.servers = <<Server(1, 1, 1, FALSE)>>, !.orders = <<(<<1>>)>>, !.conf.keep = 2, !.conf.preserve = TRUE, !.conf.buffering = FALSE,
                      !.kinds = {Kind(FALSE, u, FALSE, 1) : u \in BOOLEAN}]
\* The other ways to choose.
Backed == [Base EXCEPT !.servers = <<Server(1, 2, 0, FALSE), Server(2, 1, 0, FALSE), Server(1, 0, 0, TRUE)>>,
                       !.method = "least_conn", !.conf.nextTries = 2]
Hashed == [Base EXCEPT !.method = "hash", !.servers[1].maxConns = 1, !.conf.ssl = TRUE,
                       !.kinds = {Kind(FALSE, FALSE, TRUE, k) : k \in {1, 2}}]
Ringed == [Base EXCEPT !.method = "chash", !.conf.ignoreAbort = TRUE, !.maxNow = 1,
                       !.kinds = {Kind(TRUE, FALSE, FALSE, 2)}, !.conf.nextOn = @ \union {"non_idempotent", "404"}]
\* By address, with errors of our own; and a name that is resolved.
Addressed == [Base EXCEPT !.method = "ip_hash", !.requests = 1, !.conf.intercept = TRUE]
Resolving == [Base EXCEPT !.requests = 1, !.conf.resolve = TRUE, !.servers[1].weight = 1,
                          !.kinds = {Kind(FALSE, FALSE, c, 1) : c \in BOOLEAN}]
MCSetups == {Failing, Probing, Keeping, Alone, Backed, Hashed, Ringed, Addressed, Resolving}
=============================================================================
