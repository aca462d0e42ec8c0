# A verification project for the IPv6 upgrade platform

The platform puts IPv4 websites on IPv6 addresses. An administrator grants IPv6 addresses to
customers; a customer registers websites and binds them to addresses; for each binding a reverse
proxy ("leapvalue", an nginx whose source is in `client/src`) on an upgrade server gets a file
with a `server` block and from then on carries the visitors' requests. This directory holds TLA+
modules of the parts that make that happen, TLC configurations that check them on small
instances, and proofs for every size of instance.

All paths below are relative to `src/`; `ngx_*.c` are under `client/src`.

## 1. The system

```
 browser --HTTP--> panel (PHP workers) --SQL--> MySQL: site v6 v6site server downLog user ...
                      |  one TCP connection per command, ::1 port 6446
                      v
                   broker upsite.py  --SQL (pool of 3)--> downLog.status, server.online
                      |  one long connection per upgrade server, lines of JSON
                      v
                   agent client.py --> vhost/<website> --> /etc/init.d/leapvalue reload --HUP
                                                                                         |
 visitors --HTTP/1, HTTP/2--> leapvalue: workers <--signals, channels-- master <---------+
                                |  shared memory: cache nodes, accept mutex
                                +--> upstream servers (the IPv4 websites), cache files
```

| Component | State | Operations | What is hard |
|---|---|---|---|
| Tables (`server/upsite.sql`) | rows, keys, cascades | INSERT, DELETE, UPDATE | a DELETE cascades to bindings nobody named |
| Panel: websites, addresses, bindings (`server/php/application/models/Site.php`, `models/Upsitepy.php`, `controllers/*/Site.php`, `controllers/admin/V6addr.php`) | none of its own; a transaction and its row locks per request | addBind, delBind, addSite, delSite, modSite, addAddr, modAddr, delAddr, addAuth, delAuth | requests interleave between statements; a process ends anywhere, on purpose (`restful()` exits) or not; statements fail on a lock |
| Panel: servers (`controllers/admin/Server.php`) | row of `server`, redis key | addServer, delServer, modServer | two stores written one after the other |
| Broker (`server/py/py/upsite.py`) | registry `conn`, one thread per connection, a pool of 3 connections | authorise, register, read a line, forward a command, set a status, unregister | threads share `conn` without a lock; connections of one address overlap; the pool runs out; restart |
| Agent (`server/py/py/client.py`) | files in vhost, its socket, the lines of the last recv | add, delete, reply, reconnect | lines torn by recv, replies lost, death between writing and testing a file |
| Init script (`client/conf/nginx.init`) | none | test, HUP, start, stop | HUP is asynchronous and the whole directory is read again |
| Master (`os/unix/ngx_process_cycle.c`, `ngx_process.c`, `ngx_channel.c`, `core/ngx_cycle.c`) | table of processes, signal flags, pid files, sockets and zones of the cycle | reap, respawn, reload, change the binary, quit, terminate | signals coalesce; children die in any order; channels are full; fork fails |
| Event loop (`event/ngx_event.c`, `ngx_event_accept.c`, `ngx_epoll_module.c`, `core/ngx_connection.c`) | table of connections, free list, reusable queue, batch of events, posted events, accept mutex | accept, handle, expire, close, shut down | a connection is closed and its slot taken again while events for it are in the batch; a worker dies with the mutex |
| Requests (`http/ngx_http_request.c`, `ngx_http_core_module.c`, `ngx_http_postpone_filter_module.c`) | `r->main->count`, `blocked`, posted requests, postponed output | subrequest, output, finalize, terminate, free | parts of one answer end in any order; the client leaves; a thread still reads |
| Upstreams (`http/ngx_http_upstream.c`, `ngx_http_upstream_round_robin.c`, the balancers, keepalive) | peers' weights and counters, idle connections, the request's place | choose, connect, send, read, next, finalize | every callback may fail into the next server; timers race answers |
| File cache (`http/ngx_http_file_cache.c`) | nodes in shared memory, files, LRU queue, size | open, lock, update, free, expire, load | several processes, the mutex given up around file operations, crashes |
| HTTP/2 (`http/v2/`) | windows, streams, output queue, dependency tree | frames in and out, windows, reset, GOAWAY, close | frames are cut anywhere; two levels of windows; streams end while their frames are queued |
| HTTP/1 connections (`http/ngx_http_request.c`, `ngx_http_request_body.c`, `ngx_http_special_response.c`) | header buffers, read event and its handlers, the body's parser, keepalive, lingering | accept, read line, headers and body, discard, answer, keep or close | the stream is cut anywhere and requests are pipelined; three callers may discard one body; the client half-closes or dribbles |
| Resolver (`core/ngx_resolver.c`) | tree of names, queues of known and asked names, waiting lists, resend timer, UDP and TCP connections | look up, wait, answer, follow an alias, ask again, time out, leave | requests share a question; answers come late, twice, in any order; handlers begin lookups inside the processing of an answer |
| Supervisor (`server/py/start.py`) | table of children | start, restart, HUP | which deaths are followed by a restart |
| Login and accounts (`models/Account.php`, `models/Auth.php`, `controllers/*/Account.php`) | tokens, users, administrators | login, add, modify, delete | one token per user; deleting a user cascades |
| Templates and helpers (`tpl.conf`, `stpl.conf`, `stpl2.conf`, `fill_helper.php`) | none | pure functions | boundaries |
| CodeIgniter, PhpSpreadsheet, the compiled web pages | | | third party or generated: not modelled |

What makes each component correct:

* **Panel** – a binding appears only between a website and an address of one customer and within
  the limit `v6.site`; what is checked under a row lock is still true when it is used; an answer
  of success means that the operation was done, all of it, once.
* **Broker** – a command goes to the server it is for; the status in downLog is what the server's
  agent reported and does not change afterwards; connections that have gone are forgotten and
  connections that live are not.
* **Agent** – the vhost directory never keeps a file that nginx rejects; the directory is what the
  agent reported; a website reported as added is served.
* **Master** – a reload never leaves the sites without a worker or a zone; no worker starts
  without its sockets; no child is forgotten; told to leave, it and its children end.
* **Event loop** – a slot of the connection table is in one place; an event reaches the connection
  it was reported for; somebody accepts.
* **Requests** – the answer is the document in order; the memory of a request is freed when, and
  only when, nothing uses it.
* **Upstreams** – counters are exact, an idle connection is clean, what may not be repeated is
  not, and a request ends.
* **File cache** – a node is counted exactly by those that hold it; one request fills the cache;
  waiting ends; the cache keeps to its limit.
* **HTTP/2** – no credit is lost or invented; a client that keeps the rules is served; an
  unfinished answer always waits for something that can happen.
* **HTTP/1** – a request begins where the last one ended and its lines stay where they were
  parsed; none is forgotten; closing does not cut an answer off; every connection is closed.
* **Resolver** – a request waits in one list with a timer of its own; what it is told is what the
  name servers have, both families, not stale; it is told once, or its lookup ends otherwise.

The list of what in this code is hard to test, with the line where it bites and the property that
covers it, is under `hazards` in `PROJECT.json`.

## 2. The modules

| Module | What it is |
|---|---|
| `Schema` | the tables site, v6, v6site and one action per statement |
| `Bindings` | abstract specification: whole operations on the book, one step each |
| `Site` | the panel: PHP workers that run statement by statement on `Schema` |
| `Upsite` | the broker: its threads, registry, pool, and its environment |
| `Client` | the agent, the init script and what it sees of the master |
| `Master` | the master process of leapvalue and its children |
| `Worker` | the event loop, the connections and the accept mutex of the workers |
| `Document` | abstract specification: what a client is promised of an answer made of parts |
| `Subrequest` | a request and its subrequests |
| `Peers`, `Upstream` | the balancers; requests on their way over the servers of an upstream |
| `FileCache` | the cache: requests, manager, loader, shared memory, files |
| `Http2` | one HTTP/2 connection |
| `Http1` | one HTTP/1 connection, from accept to close |
| `Resolver` | name lookups of one worker |
| `Lists` | what `FileCache`, `Worker` and `Peers` do to their lists, and sums |
| `SiteProofs`, `UpsiteProofs`, `ClientProofs`, `FileCacheProofs`, `WorkerProofs`, `UpstreamProofs`, `MasterProofs` | theorems and their proofs |
| `ListProofs` | lemmas about lists and counting that they share |
| `MC...` | the instances for TLC |

`Site` uses `Schema` and is shown to implement `Bindings`; `Subrequest` is shown to implement
`Document`; `Upstream` extends `Peers`. Each module of leapvalue is one concern of the same
workers: `Worker` is the loop that calls the handlers which the other modules describe, and its
`Handled` lets a handler do to connections what those handlers do. `Client` has the master as far
as an agent can tell (a HUP is pending, the directory is read or refused); `Master` is the same
process in full.

### Site and Bindings

A worker's place `pc[w]` is the next statement or socket write of the request it serves, and
`job[w]` holds the request's ids and the website's owner that `bindV6` read before its
transaction. A statement that writes and the `trans_complete()` right behind it are one step,
since nothing of the transaction is visible before the commit. The row locks are not variables:
they follow from where the workers are (`HoldsV6`, `HoldsBinding`), and every statement that
InnoDB makes wait for such a lock has its condition in the guard (`V6Free`, `BindingFree`),
including the cascade of `DELETE`. Three ends of a request have an action: an answer
(`restful()` or a `MyException`, both end in `exit()` and so in a rollback), a statement that
fails on a lock (`StatementFails`), and the death of the process (`Crash`). The broker is only
up or down here (`broker`): the panel writes its command and reads nothing back.

`Bindings` is what that amounts to for somebody who looks at committed rows only. `Site`
implements it with the identity on the tables: `Book == INSTANCE Bindings`. The step of the
panel that implements `Bind` is `BindInsert`, many steps after the conditions of `Bind` were
read; that they still hold there is the content of the refinement.

### Upsite

A step of a thread is what it does between two accesses to shared state. `runMysql` is two
steps, taking a pooled connection and executing, because it is between them that the pool runs
out. `conn` is the class dictionary, by address, as in the code. A handler's number stands for a
thread; a number is reused only after its thread has ended and the registry no longer names it.
The thread of a panel command has the number of its downLog row. The environment has the agents
(connect, work, ping, reply or not), the network (`Drop` loses what is under way), the panel's
transactions (`PanelSend` opens, `PanelEnds` commits or rolls back: an UPDATE of the row waits
for that), `addServer`, `delServer`, and the broker's end and restart.

### Client

One command is in work at a time. `Recv` takes any number of whole lines and perhaps part of
the next, whose other part arrives later as a line that does not parse. `Reload` is the init
script: it tests the whole directory and, if that is accepted, leaves a HUP for the master, which
reads the directory at some later time (`MasterRead`). The content of a file is the command it
was written for; whether nginx accepts it depends on the text and, for https, on the certificate.
`last` and `torn` are history variables for the properties.

### Master

`m` is the master's memory: the table `ngx_processes` (slots with pid, channel, the four mode
bits), `ngx_last_process`, the signal flags, `ngx_new_binary`, the delay of the terminate timer,
and, by name, the sockets and zones of the current cycle. `child` and `inbox` are the kernel's
view. Signals only become flags in `Wake` (the master sleeps in `sigsuspend` with them blocked);
one turn of `ngx_master_process_cycle` is then a chain of stages (`Reap`, `Terminate` or `Quit`,
`Reconfigure` and `Retire`, `Restart`, `Reopen`, `ChangeBinary`, `NoAccept`) in the order of the
code, with the children running between them. `SpawnAt`, `PassOpenChannel`, `SignalWorkers`,
`ReapSlot` are the functions of the C code, on a record of master, children and channels, a *world*.
Where a loop treats every slot alike it is one set of slots (`Told`, `ByChannel`, `Killed`,
`Missed` of `ngx_signal_worker_processes`); where a turn depends on the one before (spawning,
reaping) it is a recursive function of the slot. The number of a configuration stands for one
reading of the files: two readings of equal files are two numbers. `ngx_init_cycle`
succeeds (`NewCycle`), refuses the configuration (`KeepCycle`) or fails after it has mapped zones
(`AbortCycle`), which it then leaves mapped. `left` has what is left of the scenario and two notes
of history: `aborted`, the configurations whose cycle failed so late, and `uncounted`, that a HUP
was answered with new workers while `live` was false and no reaping has counted them yet. A
scenario limits what an operator, crashes and failed forks do; each is one question.

### Worker

`wk[w]` is a worker's memory: the connection table with its instance bits, the free list, the
reusable queue, the batch `epoll_wait` returned, and the two lists of posted events. The actions
are the parts of one turn: `TryLock`, `Wait`, `Deliver` per event (a socket that is readable and
writable is two events, the instance tested before each), `PostedAccept`, `Unlock`,
`Expire`, `Posted`. The loops of the code are one action per round: `Expire` closes the
connection of one timer that ran out and `EndExpire` ends the loop, `Rearm` is the timer of
`accept_mutex_delay` after EMFILE (`ev->timedout` in the accept handler: it listens again, and accepts), and
a worker told to quit stops to listen (`Shutdown`) and then closes its idle connections in the order of the
table (`CloseIdle`). The slots of the listening sockets are not in the model's table. What a handler does is the choice in `Handled`: keep, close, close another
connection, become reusable, take a new connection, once or twice within one event (that is what
`ngx_http_upstream_next` does). `num` and `astray` are history: which connection an event was
reported for, and whether it reached another one.

### Subrequest and Document

`req` is the tree: per request its place, what is left of its document, its postponed list, its
`wait`; `main` is the main request's `count`, `blocked` and `posted_requests`; `conn` is the
connection with the active request (`c->data`) and what was sent. An event of an upstream, a
thread or the socket is an action; what is posted runs in `RunPosted` before the next event, as
`ngx_http_run_posted_requests` has it. `Document` says what the client is promised: a growing
prefix of the document, and a good end only with all of it.

### Upstream and Peers

`Peers` holds the balancers: the smooth weighted round robin with `max_fails`, `max_conns` and
backup servers, and on it least_conn, ip_hash, generic and consistent hash. Their
`get` and `free` are operators on the peers' records; the search for the best server is the set of
servers that may be chosen and the first of the best in it, and a ring of hashes is an order of the
servers (`orders`). `Upstream` is `ngx_http_upstream.c`: `ngx_http_upstream_init_request` to
`finalize_request`, with every path that leads to `ngx_http_upstream_next`, the keepalive pool,
timers, the client's leaving and switched protocols. A handler may go from server to server before
it returns: it leaves the request in `connect`, each further `ngx_http_upstream_connect` is a step
(`Attempt`), and nothing else happens until it has returned (`Returned`; `hops` counts these
steps). A stale answer from the cache in place of an error (`cache_use_stale`) ends the request as
the error does and is not told apart; what it does to the cache is in `FileCache`. `World` is the record the operators work on, `Env` what the outside does during a step.

### FileCache

Nodes have their place in the zone, so that a freed place is taken by another key; `queue` is the
LRU queue; `sh` the size, the watermark and the cold and loading flags. A step is one section
under the mutex or what a process does between two of them; `del` holds the node whose file a
process is deleting while it does not hold the mutex. `upset` becomes true at the places where
the code loses count (see Observations); `Accounted` says that there are no others. In the setups
that are `full` the rename of a temporary file may fail (`Unplaced`).

### Http2

One connection: `h`, the streams `s`, the output queue `o`, the tree `t` and the client `cl`.
The client sends any frame it may, whole or cut in two (the state machine `Frame`/`Rest` keeps
what `h2c->state` keeps); `room` is what the socket takes during an event. A unit is the body of
one DATA frame. Windows are those of the code, both directions, both levels, with preread,
buffered and unbuffered bodies. `cl.give` and `cl.gives` are the client's own account of its
windows and `cl.blame` what it was told it did wrong: the properties compare them.

### Http1

The client's stream is a sequence of *units*, request after request; `setup` has what it sends,
how it may be cut into packets and what else may happen. A unit of a line is a piece of its text,
a unit of a chunked body is a character, since the parser of chunks stops between any two. `net`
is the socket, `rev` the read event with epoll's edge (`ready`, `active`, `available`,
`pending_eof` as in the code), `mem` the header buffers by positions in the stream, `r` the
request in work, `c` the connection. A handler that reads in a loop is a chain of steps, `at`,
each with one `recv` at most, so that the client may send, half-close or reset between two calls.
The functions of the C code are operators on the whole state, a *world*, and an action is the
application of one. What the content handler does is a choice among the kinds the platform has:
a file or an error (the body is discarded), proxying (the body is read first), proxying
unbuffered (it is passed on). `log` is history: where requests began, which were answered and with
which promise to keep the connection, and why it was closed.

### Resolver

The templates pass requests on with variables in `proxy_pass`, so names are looked up while
visitors wait. `res` has the nodes by name and the two queues, newest first; a node of the code
is a record with the answer of each family (`got`, pending until it comes), the identity of its
question, its alias and its waiting list. `ctx[u]` is the `ngx_resolver_ctx_t` of request `u` and,
as history, what it was told and when. `net` has the questions that reached a server by UDP,
which may be answered at any later time, again and again, and the TCP connections. An event
leaves a stack `work` of handlers to call and aliases to look up; a handler ends its own
resolution and may begin another lookup, whose work then comes first, as a nested call in C
does. Identities do not repeat (in the code they are random, 16 bits). A *zone* says what servers
may answer for a name and a type; an answer that is `big` comes truncated by UDP. A handler is
assumed to end no resolution but its own.

## 3. What TLC checks

| Run | Instance | What it shows |
|---|---|---|
| `site` | 2 PHP workers, 2 websites, 1 address, 2 customers, limits 0..2 | the row locks protect what is checked under them; the interleaved requests implement the atomic book; a `del` answered 204 deleted one binding |
| `upsite` | 1 address, 2 connections alive, 1 command, a pool of 1 | commands go to the right server; the status is the agent's and stays; a gone connection leaves the registry |
| `client` | 2 websites, 4 commands (add, del, add https, add) in any order | no rejected file stays; the directory is what was reported; a reported site is served unless the directory was refused |
| `master` | scenarios of reload, late failures of it, upgrade, stop, crashes, failed forks; one has USR2, WINCH, HUP and QUIT | a reload keeps workers and takes over the zones it should, with no other left mapped but those of failed cycles; no worker starts without its sockets; no child is lost but those that `uncounted` names; channels tell every worker who lives; told to leave, all end |
| `worker` | 3 slots, 1 or 2 workers, up to 4 connections, EMFILE, a crash, a shutdown | the connection table is consistent within a batch, events reach their connection, one listens, the backlog shrinks |
| `subrequest` | pages of includes side by side, nested, waited for, in the background | implements `Document`; freed once nothing uses it; ends |
| `upstream` | up to 3 requests and 3 servers, five balancers, keepalive, backup, TLS, resolver, upgrade | counters exact, weights balanced, pool clean, no forbidden repetition, quarantine kept, handlers return, requests end |
| `cache` | up to 3 requests in thirteen setups | nodes counted exactly, accounts kept, lock exclusive, waiting ends, limit kept |
| `http2` | seven setups of one connection | counters, tree and windows exact; a good client is served; nothing waits for nothing |
| `http1` | twenty-one setups of one connection: up to four pipelined requests, header buffers of 4 and 2 large ones of 6, bodies of both framings, a PROXY line, blank lines, deferred accept | lines stay intact, requests begin in step, none is forgotten, answers are not cut off, the connection ends |
| `resolver` | up to three requests in eleven zones: both families, aliases, a loop, errors, TCP, failing sends | queues, timers and lists fit; answers are true and fresh; every lookup ends |
| `http1_leak` | one request whose body is too long, from a client that may half-close | violation of `Guarded`: the connection is left without a timer or an event for good |

`Inv` is, in each module, the type invariant together with the safety invariants it is read with
(named conjuncts: `RowsFit`, `RegistryFits`, `ZonesFit`, `NoBadFileStays`, `SlotsFit`, `OneListens`,
`FreedWhenUnused`, `ConnsAreHeld`, `PooledAreClean`, `Treelike`, `Intact`, `Guarded`, ...).

**Bounds.** Two PHP workers are enough for every race the locks are about, since a lock has one
holder and the properties speak of pairs. Two websites on one address let the limit be reached,
and be lowered, at 0, 1 and 2. A website or address id is used once, as auto-increment ids are.
In `Upsite` two connections of one address are the old and the new one, which is the case the
registry is exposed to; a pool of one is empty as soon as one other thread is in MySQL, and leaks
once. An agent's idle lines are bounded to one in the inbox. In `Client` the two names are the
website in work and another one; each command is sent once, so that a repeated add is a different
command. The proofs need none of these.

The modules of leapvalue are run over *setups* or *scenarios*: Init picks one, and each is the
smallest situation in which one thing can go wrong (two workers for a mutex, three requests for
one that waits behind another that waits, one slot for a full zone, a channel of capacity one).
This covers far more than one large instance would within minutes. Bounds that matter:
`Master`: pids (`MaxPid`), the doublings of the delay after which SIGKILL is sent, two fatal
exits; of the stops only QUIT meets USR2, WINCH and HUP (the test that lets the master exit is the
same for TERM, and `NoOrphans` is proved for all); `Worker`: 3 slots, so that two may be replaced while a third is handled, numbers of
connections (four for a worker alone, two where a crash, a shutdown or EMFILE comes in); a batch has a
read and a write event per socket, one after the other; `Upstream`: time `maxNow`, requests start in order;
`FileCache`: requests start in order and none so late that its wait would not end; a zone that
may be full has no variants; in the setup of variants the age of the lock outlasts the run;
`Http2`: three streams and a push, windows of a few units, after a GOAWAY headers come in one
frame; `Http1`: buffers of a few units, a body one unit longer than `MaxBody`, a connection that
may carry three requests, a chunk of sixteen so that a size has two digits; `Resolver`: requests come
up to `MaxStart`, and time goes to `MaxNow`, by when two timeouts in a row are over; two aliases
(`MaxRecursion`) in place of fifty.

**Symmetry** is used in `MCSite` (workers, websites, customers), for safety properties only.
Elsewhere interchangeable requests are made to start in order.

**Deadlock** is checked except where a system may really stop: when the master has exited, when
all clients of a worker are gone, when all requests are done or the connection is closed, when
time is over in `Resolver`.

**Fairness.** `Site` and `Http2` assume none. In `Upsite` every handler thread and command
thread is weakly fair (the operating system runs them) and so is the end of a panel transaction
(PHP ends every request, and MySQL rolls back when the connection closes). In `Client` the agent's
steps and the master's reaction to a signal are weakly fair; nothing is assumed of the broker,
the network or the operator. In `Master` the master's own turn and the alarm it has set
are weakly fair, children only as far as SIGKILL obliges them. In `Worker` a worker's turn and the
master's respawning are weakly fair, and a timer that runs out (`Expire`, `Rearm`) strongly: every open
connection has a timer, so a worker whose connections all fall silent sees them expire again and
again. In `Subrequest` posted requests, a writable socket and each request's pending event are
weakly fair: upstreams and threads answer or time out. In `Upstream` a request that can
begin, a timer that is set and a handler on its way to another server (it is running code) are;
servers need not answer. In `FileCache` each process that is
not killed goes on, the manager runs when it is configured, and time passes.
In `Http1` the worker goes on, the timer that is set expires, a content handler that has the whole
body answers and one that streams takes what it is given; a client need do nothing, not even read.
Fairness is stated of `at` alone, which every one of these steps changes. In `Resolver` the
worker goes on, timers fire and time passes; name servers need not answer and connections need
not open.

**Mutants.** Each property has a mutant in `PROJECT.json`: a plausible mistake in one mapped
definition that TLC finds by that property under the same configuration.

## 4. What is proved

| Module | Theorem | Statement |
|---|---|---|
| `SiteProofs` | `Invariance`, `TypeCorrect`, `LocksAreEnough` | `Spec => []Inv`, `[]TypeOK`, `[]LocksProtect` |
| | `Refinement` | `Spec => ImplementsBindings` |
| | `UnbindExact` | `Spec => UnbindIsExact` |
| `UpsiteProofs` | `Invariance` | `Spec => []Inv` |
| | `StatusesAreTheAgents` | `Spec => []StatusIsTheAgents` |
| | `StatusesStay` | `Spec => StatusIsFinal` |
| `ClientProofs` | `Invariance` | `Spec => []Inv` |
| | `Reports` | `Spec => []DiskIsWhatWasReported` |
| `FileCacheProofs` | `CacheIsSafe` | `Spec => []Inv` |
| | `CacheAccounts` | `Spec => []Accounted` |
| `WorkerProofs` | `LoopIsSafe` | `Spec => []Inv` |
| `UpstreamProofs` | `UpstreamIsSafe` | `Spec => []Inv` |
| | `AsksOnce` | `Spec => []AskedOnce` |
| | `FailedIsSpared` | `Spec => []Quarantine` |
| `MasterProofs` | `MasterIsSafe` | `Spec => []Inv` |
| | `ZonesStay` | `Spec => []ZonesFit` |
| | `LeavesNoOrphans` | `Spec => []NoOrphans` |
| | `AWorkerStays` | `Spec /\ [][Recall \/ Reconfigure \/ Restart => Room(World)]_vars => []KeepsServing` |
| | `TablesAgree` | `Spec => []ViewsAgree` |

**Site**, for any finite set of websites, any sets of workers, addresses and customers and any
`MaxQuota` (assumptions: the null markers are not members of the sets they extend, the set of
website ids is finite, `MaxQuota` is a number). `LocksProtect` says that the locks exclude each
other and that what was checked under them stands. Alone it is not inductive. That the owner read
before the transaction still fits needs `RowsFit` (an owner is NULL exactly when the row is gone)
and that neither id is of a row that is still to come, or a later `addAddr` could fill in another
owner. That the count stays below the limit needs the exclusion, since another worker's INSERT
would raise it, and the finiteness of what is bound, since a DELETE must be seen to lower it.
`Inv` is the conjunction. The proof looks at one worker at a time: `FitAt` and `StandAt` are the
parts of `Inv` that speak of one place and one request, `ApartAt` that nobody else holds what it
needs. `QuietStep` and its corollaries deal with every step that reads only; `BookStep` with every
step that writes. The refinement uses `Inv` at `BindInsert` and `UnbindDelete`. `UnbindExact`
adds `Silent` (no answer before the end).

**Upsite**, for any addresses and any finite sets of connections and commands, any pool.
`RegistryFits` needs that an ended handler has no commands queued, or a new connection in its
place would inherit them. `StatusIsTheAgents` rests on `CommandsFit`: a command is with its own
thread or in one queue, once, and has no result yet; a reply on its way is what the agent did. Its
delicate case is a status 2 set because the write raised: no server can hold that command then.
That the leaked connections never exceed the pool (`leaked` is a number up to `PoolSize`) follows
from `PoolFits`, a count of the threads that execute: `BusyCounts` has the cardinalities. A step
that only moves a thread, or ends it, is a `Passes` step, and five actions are shown to be one.

**Client**, for any names and any commands. `NoBadFileStays` needs only `WorkFits` (what the
command in work has done so far). `DiskIsWhatWasReported` needs that a status can be given once
for a command, so that no old status speaks of a new file: `CommandsOnce`, by the positions of
the lines in the socket and in the last recv, also when a line is torn.

**FileCache**, for any setups (`FileCacheAssumption`: numbers are numbers, with background updates
at most two requests as their subrequests have the numbers above) and any finite set of requests.
`Inv` says that a node's count is the number of requests and deleters that hold it, that the queue
has every node in use once, and that a lock has one holder. The inductive invariant is stated of a
*world*, the record the operators work on, so that what each operator keeps is a lemma and an
action is their composition: `Sound` (types, counts, keys, queue, locks) and `AllPlaced`. The
counts cannot be kept without `Named`: a node somebody counts on is of that request's key, or a
place freed and taken by another key would be released twice. Locks are exclusive only among
nodes that were not *robbed*, that is whose lock was not cleared while another request had it
(Observation 11; `robbed` remembers the node until its place is freed); `Locked` ties the request's
lock time to the node's, which is how the code tells a holder whose lock timed out from the next. `AllPlaced` has what a request may have by where it is: `open` without a node would
count twice, a request that was answered while it updates must have let go before it is done. A
count is a cardinality, and `CountedStill` is the one place where cardinalities are computed.

`Accounted` says that, unless one of the ways of Observation 11 was taken, the size is that of the nodes
that have a file, and that once the loader has been through no file is left on the disk that no node
and no request knows. It is not inductive: the *books*, `Books`, are. A key has one node
(`Single`), or a file would be counted for two; a node without a file weighs nothing (`Blank`), or an update
would subtract what was never added; a node whose file is being deleted belongs to no request and to one process,
which after the unlink finds no file any more (`Gone`); a file is known (`Kept`), or
nobody has asked for it and the loader is still to come to it (`Unseen`); and a request has with it what its state says (`Fits`),
and when it has moved on to a variant, the file of the main key is still known (`Asks`). What a step does to the books is one of a few kinds, each a lemma: it is of one request and
leaves the nodes to the others (`BooksStay`), a node gets a file (`CountsBooks`), a node
gives its file up (`GivesUpBooks`), the file changes on the disk (`DiskBooks`), or it is of no request
(`ApartBooks`); `SumChanges` has the arithmetic. The proof corrected the model twice. A file of
a variant that carries the hash of another, found before the loader has come to it, is left on the disk and known to nobody
(`:1215`; TLC shows it when `upset` is left out of `Reopen`, on the last of the setups): that way was not named. And a worker killed
after a start loses no file unless it had just found one: `Crash` had named more than it needed, so that `Accounted` and
`Bounded` say more than they did.

**Worker**, for any finite set of workers and any scenario of `ScenarioType`. `IInv` has, per
worker, `Core`, `Staged`, `Mutexed` and `Owned`. `Core` says that a slot is open or
on the free list, once, that what is reusable or posted is open, and `Recognised`: an event of the batch that has
not been handled is either of the connection that has the slot, or its instance bit differs from
the slot's. The bit has two values, so this holds only as long as a slot is taken at most once
while a batch is handled (`taken`). Two replacements within a batch are possible in the code and bring the bit
back: `astray` leaves them aside (`mixed` in `Deliver`), and the proof shows that there is no other way. `Owned` says that a worker that
listens with the mutex on either owns it or sits out a turn with it held; it needs
`Staged`, what a worker may have by where it is in its turn, and `Mutexed`.

**Upstream**, for any finite set of requests and any setups: any servers with any weights and
limits, all five balancers, any order in which a hash names the servers (`PeersAssumption`: a
weight is positive and a hash method has no backup servers, both of which the configuration parser enforces;
`UpstreamAssumption`: numbers are numbers, and a setup that resolves a name has one request). `IInv` is stated of a *world*, as
in `FileCache`. `Global` is the account: a server's `conns` is the number of its `Holders`, the weights of each list add up
to nothing, pooled connections are clean and not more than `keepalive` allows, and no probe
is later than `checked`, without which a second probe could not be ruled out. `Basic` and `Settled`
are per request: one that may not be repeated and has reached a server is on that server's
connection with `request_sent` set, which is what `ngx_http_upstream_next` looks at; a connection may be
kept only if it is whole. `Hops` bounds a handler that goes on: a server costs a try, and a broken
idle connection, which gives the try back, costs a connection of the pool, so that
`hops + tries + Len(pool)` does not grow. The balancers meet one contract, `Gives`: a server
that is given may be chosen, has one connection more, and the weights balance. It is shown of
round robin, least_conn and the hashes separately and used once, in `AttemptKeeps`. The weights
need sums over the servers, a recursive function: `SumStep` gives its equations (by the least
number without a solution), `SumAdds` that sums add up.

**Master**, for any number of slots, processes and workers, any channel capacity, any
configurations and any scenarios, so any orders, crashes, failed forks and refused starts. The
assumptions: numbers are numbers (`MasterAssumption`), a configuration is read once
(`ScenarioAssumption`), and `noreuse` goes by the module that adds a zone (`NoReuseByTag`: it is
set in `ngx_http_upstream_zone_module.c` and its twin for streams, for every zone that carries
their tag). The last one is needed. Whether a zone is kept is decided twice in `ngx_init_cycle`,
by the new zone's `noreuse` when the new cycle takes it and by the old one's when the old cycle
frees it, and the two agree only if a tag decides `noreuse`. The invariant is `Strong`. `Sane` is
of a world: slots past `ngx_last_process` are empty, a process the table has as exited has been
waited for, whoever lives is in the table as what it is, and only a new binary is detached.
`OneBinaryIn` says that a binary that lives is `ngx_new_binary`, without which a dead binary could
take the pid file along. `Agreed` is `ZonesFit` with what it rests on: no zone is of a configuration
that is still to come or of one whose cycle failed. The C functions have
lemmas on worlds (`SpawnAtWell`, `StartAllWell`, `SignalWorkersWell`, `ReapChildrenWell`) that no
action is part of; a step then has one lemma that says which world it starts from. The recursive
functions exist, and are followed turn by turn, by the least number (`StartsExist`, `ReapsExist`).
`LeavesNoOrphans` rests on `NoneLeft`: when `live` is false no worker is alive, unless there are
workers nobody has counted. Every step keeps `live` right but one, the branch that answers HUP
while a new binary runs, which starts workers and does not set it (observation 8). `Recall` then
notes `uncounted`, and the next `Reap`, which counts whoever is alive, takes the note back. The
theorem has no hypothesis: an orphan is left only while that note stands. One scenario of
`MCMaster` leaves it: without the exception TLC finds `NoOrphans` violated there.

`AWorkerStays` adds `Manned` to `Strong`. A *server* is a worker of the cycle in force that is not
asked to leave and will be started again should it die. While the master is called to serve there
is one, and between a reload's forks and the retirement of the old workers there is one that is
marked `just_spawn`, for only that mark makes `ngx_signal_worker_processes` pass it by. That a
worker refused to start (code 2) is remembered in `left.failed`, or a server that is found dead
could stop being one. The C functions either keep every server (`Keeps`, with the flags as they
were) or hold them as long as the master is called to serve (`Holds`: `ngx_reap_children` may
forget a worker, but only when it is told to leave or the worker is none to be started again).
`Room` says that a slot is free and a pid left when a cycle of workers is started. The theorem
needs it: with all of `NGX_MAX_PROCESSES` in use `ngx_spawn_process` starts nobody and reports to
nobody, and the old workers are retired all the same. (That the pids run out is the model's bound.)
It holds in every step of `MCMaster`.

`TablesAgree` adds `Agree`. What a child has in a slot counts as of when it has read its channel:
`Seen` applies the messages under way, and `HeardSees` shows that `ngx_channel_handler` then makes
it so. `Agree` says that each living child has its slot and, unless a message was lost, sees the
pid of every process with a channel in the others. In the middle of a fork it is true of all slots
but the new one (`AgreeBut`): the new process copied the table, the others hear of it by
`ngx_pass_open_channel`, and every one of them, because whoever lives has an open channel. That a
pid not yet forked has nothing in its channel is part of it, or a process could be born with
messages meant for another. `ngx_reap_children` names a slot that nobody may rely on, whatever
command it sends, so the stale `ch.command` does no harm. The theorem does not need the excuse of
`ViewsAgree` for a failed fork or a refused start.

**Lists.** `ListProofs` shows that a list that has each element once keeps that under what the
modules do to it (`WithoutOne`, `PutFirst`, `PutLast`, `TakeFirst`, `Rotate`), what a
filtered list of numbers is (`SetToSeqIs`), and how a count changes with one pointer
(`PointsElsewhere`, `NonePoint`). The minimum of a set of numbers exists by `LeastNumber`. `Upstream` and
`FileCache` share the lemmas about sums (`SumStep`, `SumAdds`, `SumChanges`).

Only model-checked: `Subrequest`, `Http1`, `Http2` and `Resolver`, whose
functions fold over tables and queues (what a fold computes is proved by induction over data, which
is out of the prover's reach; in `FileCache`, `Worker`, `Upstream` and `Master` the folds were loops of
the code and became one step, a set or a recursive function each); and the liveness properties, which rest on
fairness (`HangupUnregisters`, `ServedUnlessRefused`, `StopsEnd`,
`BacklogShrinks`, `RequestEnds`, `RequestsEnd`, `WaitersEnd`, `Bounded`, `ImplementsDocument`, `Ends`,
`EveryoneIsTold`).

## 5. Observations

What was met while modelling and is not stated by a property that holds. Those that a violation
run shows are under `findings` in `PROJECT.json`; the others are built into the models as the code
has them and stay visible in the guards and excuses named here.

Panel, broker, agent:

1. `delSite` of a website with a binding answers success and leaves the website: `unbindV6`, which
   it calls in a loop, ends in `restful()` and so in `exit()` (`models/Site.php:64`).
2. `updateSite` pastes an array into its SQL and ends in an Error (`models/Site.php:79`).
3. `addAuth` checks and writes in two statements: two grants at once overwrite each other
   (`controllers/admin/V6addr.php:82`).
4. `offline()` goes by address: the thread of an old connection unregisters the new one, and the
   agent stays connected, pings, and gets no command (`upsite.py:89`).
5. `delServer` deletes the redis key of an undefined variable (`controllers/admin/Server.php:43`).
6. `add()` of the agent exchanges the arguments of `wget -O`: no https website can be added
   (`client.py:31`). An add that fails moves the website's file away also when an earlier one had
   worked (`client.py:36`): after the next reload the website is not served any more.
7. `succ` is sent when HUP was sent: if the next command's file, not tested yet, is in the
   directory when the master reads it, the reported website is not served (`client.py:34`). A file whose
   agent dies before the test (`client.py:32`) stays, and fails every reload until its website is
   sent or deleted again: `torn`, which `NoBadFileStays` and `DiskIsWhatWasReported` leave aside.

Master:

8. A HUP while a new binary runs starts workers and leaves `live` alone
   (`ngx_process_cycle.c:226`, against 251 and 261): a QUIT or TERM right after it exits without
   signalling them, if WINCH had drained every worker before: the one exception
   (`uncounted`) in `NoOrphans`. A HUP whose configuration is refused `continue`s
   past a pending restart (238), which `KeepsServing` leaves aside.
   A failed fork for USR2 leaves `ngx_new_binary` at NGX_INVALID_PID (275, `ngx_cycle.c:996`).
   A failed respawn leaves the closed channel's descriptors in its slot (`ngx_process.c:193`,
   `ngx_process_cycle.c:590`). A failed `ngx_init_cycle` does not free the zones it had mapped
   (`ngx_cycle.c:809`): `AbortCycle`, and `aborted` in `ZonesFit`. `ngx_reap_children` sets `ch.command` before its loop and to OPEN_CHANNEL when it
   starts a process again, never back: after that, the end of another dead child's channel is announced as
   the opening of one, with the pid of the dead and the descriptor of the living
   (`ngx_process_cycle.c:634`, against 567 and 595). `Command` has it so; a child forgets the pid
   when the slot is used again.

Event loop:

9. With the accept mutex, a worker that ran out of descriptors and whose connections then lose
   their timers listens to nothing and sleeps for good: `Hushed` in `BacklogShrinks`.

Upstreams:

10. The timer of a blocked write outlives the start of the answer and passes the request on
    although a header was sent (`ngx_http_upstream.c:2190`); without a second answer the request
    is left without a timer: `Stranded` in `RequestsEnd`.

File cache:

11. Files that are never counted or subtracted twice: a file that the loader passes while a
    request reads it (`ngx_http_file_cache.c:618`, `:2237`), a node taken while it is being
    deleted (`:1918`, `:1417`), a stored error renewed over a file (`:902`), an unreadable file
    (`:890`), a file of a variant with the hash of another (`:1215`), a crash between rename and
    update: `upset` in `Accounted`. When the rename of a new file fails, the old one stays and its
    node counts nothing for it (`:1421`): `Accounted` speaks of the nodes' sizes. `updating` is cleared
    unconditionally by an update (`:1424`), also when the lock has passed on.

HTTP/2:

12. A stream that is to be closed while its frames are queued may never be closed
    (`ngx_http_v2.c:4260`): excused in `Wakes` by `exhausted`. A SETTINGS frame cut between its
    parameters loses the change of INITIAL_WINDOW_SIZE (`:2009`). After a GOAWAY a HEADERS frame is
    skipped but its CONTINUATION is a connection error (`:1047`, `:2356`): excluded by a bound.
    The connection's send window may wrap over the maximum after frames were dropped (`:2316`).

HTTP/1:

13. A body that is too long is discarded twice, and when the client has half-closed the second
    time leaves a count behind that nobody takes back: the run `http1_leak`. The same happens
    when a body was discarded before a later error. The setups of `http1` have no half-close
    with these two.
14. 494 (headers too large) asks for a lingering close and 414 (line too large) does not
    (`ngx_http_request.c:1263`, `:1085`): the answer 414 may be lost. `AnswerNotCut` leaves 400 and
    414 aside.
15. An early answer to a request whose body is streamed leaves the read timer running while the
    answer is blocked; when it expires, nobody closes but `timedout` stays set, and the lingering
    close that follows ends at once (reason `"stale"` in the model).
16. A half-close noticed while a body is discarded is forgotten: the idle connection stays until
    `keepalive_timeout`. An early answer promises to keep the connection, which is then closed.
    `lingering_time` may end a connection with a pipelined request unread (reason `"late"`).

Resolver:

17. An error in the first family's answer is remembered and fails the name even when the other
    family has addresses (`ngx_resolver.c:1996`).
18. An alias without an address that comes first is not kept (`:2424`): with an empty second answer the
    name does not exist, with the answers in the other order it is followed. Zones here have an
    alias for both families or none.
19. An answer that has neither addresses nor an alias marks its family as answered; after both
    the repeated question is empty and the request waits for `resolver_timeout`.
20. When the question for an alias cannot be sent, the result is ignored (`:2485`): those who
    wait are in no list and are ended by their timers only, with the alert "could not cancel".
21. The answer of one family is kept while the other is asked again, as long as somebody waits;
    its own ttl counts from the completion of both.

No run states four that were met in other modules: the master may leave workers that it called
back (8), the size the cache counts drifts from that of
the disk (11), a stream of HTTP/2 may keep its connection open
for good (12), and a request may get a second header after the timer of a blocked write (10).

## 6. Not modelled

* The text of the templates, URLs, names and log lines; `add()` in the broker may fail on a
  malformed URL and that is a choice in `Command`.
* Companies, areas, lists and pages: single statements no other state depends on. Accounts,
  logins and the deletion of a user, which cascades to websites and frees addresses.
* Loss of the redis or MySQL server for good; a statement that fails is modelled.
* Concurrent writes of two threads to one agent's socket are taken as whole lines.
* SIGALRM's `ping()` in the middle of the agent's own send or connect.
* `start.py` beyond its effect, that a dead agent or broker may start again.
* Of leapvalue: the parsers (HTTP, headers, HPACK, configuration), TLS inside (a handshake
  succeeds or fails), PTR and SRV lookups, the event pipe, the slab and pool allocators, trees and
  hashes, the filters that rewrite text, log and variables modules, the stream and mail proxies
  (the platform proxies HTTP only), event methods other than epoll, UDP, the single process mode.
* The third-party PHP code.

## 7. Plan

Done: the panel's book, the broker, the agent, and of leapvalue the master, the event loop,
requests and subrequests, upstreams, the file cache and HTTP/2,
one HTTP/1 connection and the resolver. What would come next, in this order:

1. `Dispatch`: panel, broker and agent composed for one website on one server, with an abstract
   specification of downLog (a status goes from pending to final once, and is final success only
   when the file was written). Hazards it is for: `add` sent before the binding is committed, `add`
   and `del` overtaking each other, deletes that cascade without `del`, commands that stay pending.
2. The event pipe with its
   temporary file; error pages and internal redirects in `Http1`.
3. `Account`: tokens, one session per user, freezing, deletion and its cascades.
4. Proofs about `Http2`'s windows, `Http1`, `Subrequest` and `Resolver`, whose folds are the next to become steps or
   sets.
