------------------------------ MODULE FileCache ------------------------------
(***************************************************************************)
(* The cache of answers (http/ngx_http_file_cache.c): files on the disk,     *)
(* their nodes in shared memory, the workers whose requests look for, wait   *)
(* for, renew and store them, the cache manager that deletes what is old or  *)
(* too much, and the cache loader that fills the shared memory after a start.*)
(*                                                                           *)
(* A step is what one process does while it holds the mutex of the zone, or  *)
(* what it does between two such sections.                                   *)
(***************************************************************************)
EXTENDS Lists

\* A setup has: kinds, what a request may be ([key, hdr]); answers, what the
\* upstream may answer ([kind, fs, till, vary]); files, what is on the disk at the
\* start; cold, whether the start is that of the master; and the directives: lock,
\* age, timeout, minUses, inactive, max (max_size), useStale, background; and full,
\* whether the rename of a temporary file may fail.
\* Bounds: slots (nodes the zone has room for), requests, faults, maxNow.
CONSTANTS Setups,
          Requests   \* 1 .. 4; Sub(r) is the background request that r may start
VARIABLE setup

VARIABLES
  pc,      \* where a request is
  req,     \* r->cache of a request, and u->cacheable
  nodes,   \* the nodes of the shared memory, by their place in it
  queue,   \* sh->queue, the one used last first
  sh,      \* the rest of the shared memory
  disk,    \* the file of a key, if any
  del,     \* per process: the node whose file it is deleting
  mgr,     \* the manager
  todo,    \* what the loader has yet to visit
  now,
  faults,
  upset,   \* history: something happened that the accounts do not survive
  robbed   \* history: the nodes whose lock was cleared while another request had it

vars == <<pc, req, nodes, queue, sh, disk, del, mgr, todo, now, faults, upset, robbed, setup>>

Manager == 0
Slots == 1 .. setup.slots
Sub(r) == r + 2
\* ngx_http_file_cache_create_key, ngx_http_file_cache_vary.
Variant(k) == 10 * k.key + k.hdr
KeysOf(s) == {k.key : k \in s.kinds} \union {Variant(k) : k \in s.kinds}
Keys == KeysOf(setup)
NoFile == [fs |-> 0, till |-> 0, vary |-> 0, bad |-> FALSE]
Files == [fs : Nat, till : Int, vary : Nat, bad : BOOLEAN]

\* A request that starts another one in the background is one of the first two, so
\* that theirs are their own; what is on the disk when the loader has been through
\* fits into the zone.
ASSUME RequestsAssumption == IsFiniteSet(Requests) /\ Requests \subseteq Nat \ {0}
ASSUME FileCacheAssumption ==
  \A s \in Setups :
    /\ s.slots \in Nat \ {0} /\ s.minUses \in Nat \ {0} /\ s.requests \in Nat
    /\ {s.timeout, s.age, s.inactive} \subseteq Nat
    /\ {s.cold, s.lock, s.useStale, s.background, s.full} \subseteq BOOLEAN
    /\ IsFiniteSet(s.kinds) /\ s.kinds # {} /\ s.kinds \subseteq [key : Nat \ {0}, hdr : Nat]
    /\ \A a \in s.answers : a.fs \in Nat /\ a.till \in Nat /\ a.vary \in BOOLEAN
    /\ s.files \subseteq [KeysOf(s) -> Files]
    /\ ~s.cold => \A f \in s.files : Cardinality({k \in KeysOf(s) : f[k] # NoFile}) <= s.slots
    /\ s.background => s.requests <= 2
Free == [key |-> 0, count |-> 0, uses |-> 0, error |-> FALSE, till |-> 0, exists |-> FALSE,
         updating |-> FALSE, deleting |-> FALSE, lockTime |-> 0, fs |-> 0, expire |-> 0]

\* ngx_http_file_cache_new.
New(k, sub) ==
  [kind |-> k, key |-> k.key, sub |-> sub, node |-> 0, error |-> FALSE, found |-> FALSE, updating |-> FALSE,
   lockTime |-> 0, waitTime |-> 0, patient |-> TRUE, till |-> 0, file |-> NoFile, cacheable |-> TRUE,
   status |-> "miss", temp |-> FALSE, secondary |-> FALSE, updated |-> FALSE]
States == {"none", "exists", "evict", "retry", "open", "judge", "lock", "wait", "fetch", "pipe",
           "update", "send", "done", "dead"}
Past(r) == [New(req[r].kind, req[r].sub) EXCEPT !.updated = TRUE]

World == [pc |-> pc, req |-> req, nodes |-> nodes, queue |-> queue, sh |-> sh, disk |-> disk, del |-> del,
          mgr |-> mgr, todo |-> todo, upset |-> upset, robbed |-> robbed, rc |-> "none"]
Become(w) ==
  \E v \in {w} : /\ pc' = v.pc /\ req' = v.req /\ nodes' = v.nodes /\ queue' = v.queue /\ sh' = v.sh
                 /\ disk' = v.disk /\ del' = v.del /\ mgr' = v.mgr /\ todo' = v.todo /\ upset' = v.upset
                 /\ robbed' = v.robbed /\ UNCHANGED <<now, faults, setup>>

-----------------------------------------------------------------------------
(* The nodes.                                                                *)
\* ngx_http_file_cache_lookup: one of the nodes of the key, or 0.
Lookup(w, k) == LET s == {i \in Slots : w.nodes[i].key = k} IN IF s = {} THEN {0} ELSE s
Room(w) == {i \in Slots : w.nodes[i].key = 0}
Touch(w, i) == [w EXCEPT !.queue = <<i>> \o Without(@, i), !.nodes[i].expire = now + setup.inactive]
Drop(w, i) == [w EXCEPT !.queue = Without(@, i), !.nodes[i] = Free, !.robbed = @ \ {i}]
Goto(w, r, st) == [w EXCEPT !.pc[r] = st]

\* The request takes the node: ngx_http_file_cache_exists.  A node that another
\* request is just renewing in the other direction, of a file that is being
\* deleted, or a second one for the key upsets the accounts.
Take(w, r, i) ==
  LET n == w.nodes[i]
      again == w.req[r].node = i
      renew == n.error /\ n.till < now
      known == [n EXCEPT !.uses = IF again THEN @ ELSE Min({@ + 1, setup.minUses}), !.count = IF again THEN @ ELSE @ + 1]
      blank == [Free EXCEPT !.key = n.key, !.count = known.count, !.uses = known.uses, !.updating = n.updating,
                            !.deleting = n.deleting, !.lockTime = n.lockTime]
      m == IF renew THEN blank ELSE known
  IN [Touch([w EXCEPT !.nodes[i] = m], i) EXCEPT
        !.req[r] = [@ EXCEPT !.node = i, !.error = m.error, !.found = m.exists],
        !.upset = @ \/ n.deleting \/ (renew /\ n.exists),
        !.rc = IF renew THEN "declined"
               ELSE IF m.error \/ m.exists \/ m.uses >= setup.minUses THEN "ok" ELSE "scarce"]

\* There is none: a new one, if there is room.
Insert(w, r) ==
  LET i == Min(Room(w))
      k == w.req[r].key
  IN [Touch([w EXCEPT !.nodes[i] = [Free EXCEPT !.key = k, !.count = 1, !.uses = 1]], i) EXCEPT
        !.req[r] = [@ EXCEPT !.node = i, !.error = FALSE, !.found = FALSE],
        !.upset = @ \/ (\E j \in Slots : w.nodes[j].key = k), !.rc = "declined"]

\* ngx_http_file_cache_set_watermark, when the zone is full.
FullZone(w) == LET c == Cardinality(Slots \ Room(w)) IN [w EXCEPT !.sh.watermark = c - c \div 8, !.rc = "full"]

Exists(w, r, i) ==
  IF i # 0 THEN Take(w, r, i) ELSE IF Room(w) = {} THEN FullZone(w) ELSE Insert(w, r)

\* A request has the lock of its node while its time lasts.  One that moved away from
\* the node of a variant still thinks it has one.  An update, or a request that moved,
\* clears the lock of its node, whoever has it.
Moved(c) == c.secondary /\ c.key = c.kind.key
HasLock(w, r) == LET c == w.req[r] IN c.node # 0 /\ c.updating /\ c.lockTime > now /\ ~Moved(c)
Rob(w, r) ==
  LET i == w.req[r].node IN
  IF \E s \in Requests \ {r} : HasLock(w, s) /\ w.req[s].node = i THEN [w EXCEPT !.robbed = @ \union {i}] ELSE w

\* Mutant: whoever ends clears the lock, even one that ran out and was taken over.
LeaveForAll(w, r) ==
  LET c == w.req[r] IN
  [w EXCEPT !.nodes[c.node] = [@ EXCEPT !.count = w.nodes[c.node].count - 1, !.updating = FALSE]]
\* A request leaves its node, and with it the lock if that is still its own.
Leave(w, r) ==
  LET c == w.req[r]
      n == w.nodes[c.node]
      clears == c.updating /\ n.lockTime = c.lockTime
  IN [IF clears /\ Moved(c) THEN Rob(w, r) ELSE w EXCEPT
        !.nodes[c.node] = [n EXCEPT !.count = @ - 1, !.updating = @ /\ ~clears]]

\* Mutant: the node goes although another request has it.
FreeCacheAnyway(w, r) ==
  LET c == w.req[r]
      a == Leave(w, r)
      b == IF ~a.nodes[c.node].exists /\ setup.minUses = 1 THEN Drop(a, c.node) ELSE a
  IN IF c.updated \/ c.node = 0 THEN w
     ELSE [b EXCEPT !.req[r] = [@ EXCEPT !.updated = TRUE, !.updating = FALSE, !.temp = FALSE, !.node = 0]]
\* ngx_http_file_cache_free: the node keeps an error, or goes when it is of no use.
FreeCache(w, r) ==
  LET c == w.req[r]
      a == Leave(w, r)
      n == a.nodes[c.node]
      b == IF c.error THEN [a EXCEPT !.nodes[c.node] = [n EXCEPT !.error = TRUE, !.till = IF c.till # 0 THEN c.till ELSE @]]
           ELSE IF ~n.exists /\ n.count = 0 /\ setup.minUses = 1 THEN Drop(a, c.node) ELSE a
  IN IF c.updated \/ c.node = 0 THEN w
     ELSE [b EXCEPT !.req[r] = [@ EXCEPT !.updated = TRUE, !.updating = FALSE, !.temp = FALSE, !.node = 0]]

\* ngx_http_file_cache_delete: the node is held while its file is deleted.
Delete(w, p, i) ==
  IF w.nodes[i].exists
  THEN [w EXCEPT !.sh.size = @ - w.nodes[i].fs, !.nodes[i] = [w.nodes[i] EXCEPT !.count = @ + 1, !.deleting = TRUE],
                 !.del[p] = [node |-> i, gone |-> FALSE]]
  ELSE Drop(w, i)

\* ngx_http_file_cache_forced_expire: the node used longest ago that nobody
\* holds; those that are held are put first.
Idle(w) == {x \in DOMAIN w.queue : w.nodes[w.queue[x]].count = 0}
ForcedExpire(w, p) ==
  LET x == IF Idle(w) = {} THEN 0 ELSE Max(Idle(w))
      held == SubSeq(w.queue, x + 1, Len(w.queue))
      a == [w EXCEPT !.queue = held \o SubSeq(w.queue, 1, x),
                     !.nodes = [i \in Slots |-> IF i \in Range(held) THEN [@[i] EXCEPT !.expire = now + setup.inactive] ELSE @[i]]]
  IN IF x = 0 THEN [a EXCEPT !.rc = "none"] ELSE [Delete(a, p, w.queue[x]) EXCEPT !.rc = "one"]

-----------------------------------------------------------------------------
(* A request asks the cache: ngx_http_file_cache_open.                       *)
\* An answer is sent from the cache, or the upstream is asked.
Serve(w, r, st) == [Goto(w, r, "send") EXCEPT !.req[r].status = st]
Ask(w, r, cacheable) == [Goto(w, r, "fetch") EXCEPT !.req[r].cacheable = @ /\ cacheable]

\* What ngx_http_file_cache_open does with the answer of exists.
Opened(w, r) ==
  LET c == w.req[r] IN
  CASE w.rc = "full" -> Goto(w, r, "evict")
    [] w.rc = "scarce" -> Ask(w, r, FALSE)
    [] w.rc = "ok" -> IF c.error THEN Serve(w, r, "hit") ELSE Goto(w, r, IF c.found THEN "open" ELSE "lock")
    [] w.rc = "declined" -> IF w.sh.cold THEN Goto(w, r, "open")
                            ELSE IF setup.minUses > 1 THEN Ask(w, r, FALSE) ELSE Goto(w, r, "lock")

\* A request comes, or goes on after it waited.
\* Bound: none comes so late that its wait would not end; they come in order.
Unborn(r) == pc[r] = "exists" /\ req[r] = New(req[r].kind, FALSE)
MayOpen(r) ==
  /\ pc[r] = "exists" /\ (req[r].waitTime = 0 => now + setup.timeout <= setup.maxNow)
  /\ Unborn(r) => \A s \in 1 .. r - 1 : ~Unborn(s)
Open(r) ==
  /\ MayOpen(r)
  /\ \E i \in IF req[r].node # 0 THEN {req[r].node} ELSE Lookup(World, req[r].key) :
       Become(Opened(Exists(World, r, i), r))

\* The zone is full: the worker deletes a node itself, and then tries once more.
\* It does not look again for a node of the key.
MakeRoom(r) == pc[r] = "evict" /\ Become(Goto(ForcedExpire(World, r), r, "retry"))
Retry(r) ==
  /\ pc[r] = "retry" /\ del[r].node = 0
  /\ Become(IF Room(World) = {} THEN Goto([World EXCEPT !.req[r] = Past(r)], r, "done")
             ELSE Opened(Insert(World, r), r))

\* ngx_http_file_cache_reopen: the file is for other requests; ours has a key of its own.
Reopen(w, r) ==
  IF w.req[r].secondary THEN [Ask(w, r, TRUE) EXCEPT !.upset = @ \/ ~w.nodes[w.req[r].node].exists]
  ELSE [Goto(w, r, "exists") EXCEPT !.upset = @ \/ ~w.nodes[w.req[r].node].exists, !.nodes[w.req[r].node].count = @ - 1,
          !.req[r] = [@ EXCEPT !.node = 0, !.secondary = TRUE, !.key = Variant(w.req[r].kind)]]

\* The file is opened and its header read: ngx_http_file_cache_read.
Read(r) ==
  /\ pc[r] = "open"
  /\ LET f == disk[req[r].key]
         w == World IN
     Become(IF f = NoFile THEN IF req[r].found \/ setup.minUses = 1 THEN Goto(w, r, "lock") ELSE Ask(w, r, FALSE)
            ELSE IF f.bad THEN [Ask(w, r, TRUE) EXCEPT !.upset = @ \/ ~nodes[req[r].node].exists]
            ELSE IF f.vary \notin {0, Variant(req[r].kind)} THEN Reopen(w, r)
            ELSE [Goto(w, r, "judge") EXCEPT !.req[r] = [@ EXCEPT !.file = f, !.till = f.till]])

\* The second half of it: a file found before the loader did is counted; one
\* that is out of date is renewed by the request that comes first.
Judge(r) ==
  /\ pc[r] = "judge"
  /\ LET c == req[r]
         i == c.node
         count == sh.cold /\ ~nodes[i].exists
         w == IF ~count THEN [World EXCEPT !.upset = @ \/ ~nodes[i].exists]
              ELSE [World EXCEPT !.nodes[i] = [@ EXCEPT !.uses = 1, !.exists = TRUE, !.fs = c.file.fs],
                                 !.sh.size = @ + c.file.fs]
         mine == [w EXCEPT !.nodes[i].updating = TRUE, !.req[r] = [@ EXCEPT !.updating = TRUE, !.lockTime = nodes[i].lockTime]]
         Renew(u) == [Ask(u, r, TRUE) EXCEPT !.req[r] = [@ EXCEPT !.till = 0, !.status = "expired"]]
     IN Become(
          IF c.till >= now THEN Serve(w, r, "hit")
          ELSE IF nodes[i].updating THEN IF setup.useStale /\ ~c.sub THEN Serve(w, r, "updating") ELSE Renew(w)
          ELSE IF setup.background /\ setup.useStale /\ ~c.sub
          THEN [Serve(mine, r, "stale") EXCEPT !.pc[Sub(r)] = "exists", !.req[Sub(r)] = New(c.kind, TRUE)]
          ELSE Renew(mine))

\* ngx_http_file_cache_lock: one request asks the upstream, the others wait.
Lock(r) ==
  /\ pc[r] = "lock"
  /\ LET i == req[r].node
         free == ~nodes[i].updating \/ nodes[i].lockTime <= now
         mine == [World EXCEPT !.nodes[i] = [@ EXCEPT !.updating = TRUE, !.lockTime = now + setup.age],
                               !.req[r] = [@ EXCEPT !.updating = TRUE, !.lockTime = now + setup.age]]
     IN Become(IF ~setup.lock THEN Ask(World, r, TRUE)
               ELSE IF free THEN Ask(mine, r, TRUE)
               ELSE IF ~req[r].patient THEN Ask(World, r, FALSE)
               ELSE [Goto(World, r, "wait") EXCEPT !.req[r].waitTime = IF @ = 0 THEN now + setup.timeout ELSE @])

\* Mutant: a request that has waited long enough waits again.
LockWaitAgain(r) ==
  /\ pc[r] = "wait" /\ (req[r].waitTime <= now \/ ~nodes[req[r].node].updating \/ nodes[req[r].node].lockTime <= now)
  /\ Become(Goto(World, r, "exists"))
\* ngx_http_file_cache_lock_wait: the lock is free, or it has waited long enough.
LockWait(r) ==
  /\ pc[r] = "wait"
  /\ LET i == req[r].node
         tired == req[r].waitTime <= now IN
     /\ tired \/ ~nodes[i].updating \/ nodes[i].lockTime <= now
     /\ Become([Goto(World, r, "exists") EXCEPT !.req[r].patient = @ /\ ~tired])

-----------------------------------------------------------------------------
(* The upstream answers.                                                     *)
\* ngx_http_file_cache_update_variant: the answer is not for a variant after
\* all, and goes to the node of the main key.
UpdateVariant(w, r, i) ==
  LET c == w.req[r] IN
  Exists([Rob(w, r) EXCEPT !.nodes[c.node] = [w.nodes[c.node] EXCEPT !.count = @ - 1, !.updating = FALSE],
                          !.req[r] = [@ EXCEPT !.node = 0, !.key = c.kind.key]], r, i)

\* ngx_http_upstream_send_response: the answer may be stored, or is not.
\* Bound: none moves to another node while the zone is full.
Answered(r, a) ==
  LET w == [World EXCEPT !.req[r] = [@ EXCEPT !.till = now + a.till, !.temp = TRUE, !.file =
                [fs |-> a.fs, till |-> now + a.till, vary |-> IF a.vary THEN Variant(req[r].kind) ELSE 0, bad |-> FALSE]]]
      moves == req[r].secondary /\ ~a.vary
  IN IF ~req[r].cacheable THEN Become(Serve(FreeCache(World, r), r, "miss"))
     ELSE \E i \in IF moves THEN Lookup(w, req[r].kind.key) ELSE {0} :
            /\ moves /\ i = 0 => Room(w) # {}
            /\ Become(Goto(IF moves THEN UpdateVariant(w, r, i) ELSE w, r, "pipe"))

\* ngx_http_upstream_intercept_errors and _finalize_request: an error that is cached too.
Failed(r, a) ==
  Become(Serve(FreeCache(IF a.till > 0 /\ req[r].cacheable
                         THEN [World EXCEPT !.req[r] = [@ EXCEPT !.error = TRUE, !.till = now + a.till]] ELSE World, r), r, "miss"))

\* ngx_http_file_cache_update_header: the header is written anew into the file, if
\* that is still the same.
UpdateHeader(w, r, till) ==
  LET k == w.req[r].key IN
  IF w.disk[k] = w.req[r].file THEN [w EXCEPT !.disk[k].till = till] ELSE w

\* ngx_http_upstream_test_next: the upstream says that the old answer is still good.
Revalidated(r, a) == Become(Serve(FreeCache(UpdateHeader(World, r, now + a.till), r), r, "revalidated"))

Answer(r) ==
  /\ pc[r] = "fetch"
  /\ \E a \in setup.answers :
       CASE a.kind = "good" -> Answered(r, a)
         [] a.kind = "private" -> Become(Serve(FreeCache(World, r), r, "miss"))
         [] a.kind = "error" -> IF req[r].status = "expired" /\ setup.useStale THEN Become(Serve(FreeCache(World, r), r, "stale"))
                                ELSE Failed(r, a)
         [] OTHER -> req[r].status = "expired" /\ Revalidated(r, a)

\* ngx_http_file_cache_update when ngx_ext_rename_file fails: the temporary file goes,
\* and the node counts no file, though the one it had before is still there.
Unplaced(r) ==
  LET i == req[r].node IN
  Become([Serve(Rob(World, r), r, "miss") EXCEPT
    !.nodes[i] = [nodes[i] EXCEPT !.count = @ - 1, !.error = FALSE, !.fs = 0, !.updating = FALSE],
    !.sh.size = @ - nodes[i].fs,
    !.req[r] = [@ EXCEPT !.updated = TRUE, !.updating = FALSE, !.node = 0, !.temp = FALSE]])
\* ngx_http_upstream_process_request: the answer is there, or broke off.
\* ngx_http_file_cache_update: first the file, then the node.
Stored(r) ==
  /\ pc[r] = "pipe"
  /\ \/ Become([Goto(World, r, "update") EXCEPT !.disk[req[r].key] = req[r].file, !.req[r].temp = FALSE])
     \/ setup.full /\ Unplaced(r)
     \/ Become(Serve(FreeCache(World, r), r, "miss"))

\* Mutant: the size of the file that was there before is forgotten.
UpdateAdds(r) ==
  /\ pc[r] = "update"
  /\ LET i == req[r].node IN
     Become([Serve(Rob(World, r), r, "miss") EXCEPT
       !.nodes[i] = [nodes[i] EXCEPT !.count = @ - 1, !.error = FALSE, !.fs = req[r].file.fs, !.exists = TRUE, !.updating = FALSE],
       !.sh.size = @ + req[r].file.fs, !.req[r] = [@ EXCEPT !.updated = TRUE, !.updating = FALSE, !.node = 0]])
Update(r) ==
  /\ pc[r] = "update"
  /\ LET i == req[r].node IN
     Become([Serve(Rob(World, r), r, "miss") EXCEPT
       !.nodes[i] = [nodes[i] EXCEPT !.count = @ - 1, !.error = FALSE, !.fs = req[r].file.fs, !.exists = TRUE, !.updating = FALSE],
       !.sh.size = @ + req[r].file.fs - nodes[i].fs,
       !.req[r] = [@ EXCEPT !.updated = TRUE, !.updating = FALSE, !.node = 0]])

\* The request that it started, if any, has ended.
Alone(r) == \A s \in Requests : s = Sub(r) /\ req[s].sub => pc[s] \in {"done", "dead"}
\* ngx_http_file_cache_cleanup, when the request and the one it started have ended.
End(r) ==
  /\ pc[r] = "send" /\ Alone(r)
  /\ Become(LET w == FreeCache(World, r) IN Goto([w EXCEPT !.req[r] = Past(r)], r, "done"))

-----------------------------------------------------------------------------
(* The manager and the loader.                                               *)
\* ngx_http_file_cache_delete, without the mutex and with it again.
Unlink(p) ==
  /\ del[p].node # 0 /\ ~del[p].gone
  /\ Become([World EXCEPT !.del[p].gone = TRUE, !.disk[nodes[del[p].node].key] = NoFile])
Unlinked(p) ==
  /\ del[p].gone
  /\ LET i == del[p].node
         w == [World EXCEPT !.nodes[i] = [nodes[i] EXCEPT !.count = @ - 1, !.deleting = FALSE], !.del[p] = [node |-> 0, gone |-> FALSE]]
     IN Become(IF w.nodes[i].count = 0 THEN Drop(w, i) ELSE w)

\* ngx_http_file_cache_expire: what was not used for long, from the end of the queue.
Expire ==
  /\ mgr = "expire" /\ del[Manager].node = 0
  /\ LET i == Last(queue) IN
     Become(IF queue = <<>> \/ nodes[i].expire > now \/ (nodes[i].count > 0 /\ nodes[i].deleting)
            THEN [World EXCEPT !.mgr = "check"]
            ELSE IF nodes[i].count = 0 THEN Delete(World, Manager, i) ELSE Touch(World, i))

\* ngx_http_file_cache_manager: then as many as it takes.
\* Mutant: the manager goes by the number of the nodes only.
ManageByCount ==
  /\ mgr = "check" /\ del[Manager].node = 0
  /\ Become([World EXCEPT !.mgr = IF Cardinality(Slots \ Room(World)) < sh.watermark THEN "idle" ELSE "force"])
Manage ==
  /\ mgr = "check" /\ del[Manager].node = 0
  /\ Become([World EXCEPT !.mgr = IF sh.size < setup.max /\ Cardinality(Slots \ Room(World)) < sh.watermark THEN "idle" ELSE "force"])
Evict ==
  /\ mgr = "force"
  /\ Become(LET w == ForcedExpire(World, Manager) IN [w EXCEPT !.mgr = IF w.rc = "one" THEN "check" ELSE "idle"])
Wake == mgr = "idle" /\ setup.managed /\ Become([World EXCEPT !.mgr = "expire"])

\* ngx_http_file_cache_loader; another one after a reload may find it cold still.
Load == sh.cold /\ ~sh.loading /\ Become([World EXCEPT !.sh.loading = TRUE, !.todo = {k \in Keys : disk[k] # NoFile}])
\* ngx_http_file_cache_manage_file, ngx_http_file_cache_add.
Add(k) ==
  /\ sh.loading /\ k \in todo
  /\ LET w == [World EXCEPT !.todo = @ \ {k}]
         i == Min(Room(w))
         n == [Free EXCEPT !.key = k, !.uses = 1, !.exists = TRUE, !.fs = disk[k].fs] IN
     IF disk[k] = NoFile THEN Become(w)
     ELSE \E j \in Lookup(w, k) :
            Become(IF j # 0 THEN Touch(w, j)
                   ELSE IF Room(w) = {} THEN [FullZone(w) EXCEPT !.disk[k] = NoFile]
                   ELSE Touch([w EXCEPT !.nodes[i] = n, !.sh.size = @ + disk[k].fs], i))
Loaded == sh.loading /\ todo = {} /\ Become([World EXCEPT !.sh.loading = FALSE, !.sh.cold = FALSE])

-----------------------------------------------------------------------------
\* A start of the master, or a cache that the loader has been through.
Init ==
  /\ setup \in Setups
  /\ req \in [Requests -> {New(k, FALSE) : k \in setup.kinds}]
  /\ pc = [r \in Requests |-> IF r <= setup.requests THEN "exists" ELSE "none"]
  /\ \A r \in Requests : pc[r] = "none" => req[r] = New(CHOOSE k \in setup.kinds : TRUE, FALSE)
  /\ disk \in setup.files
  /\ LET on == IF setup.cold THEN <<>> ELSE SetToSeq({k \in Keys : disk[k] # NoFile}) IN
     /\ nodes = [i \in Slots |-> IF i > Len(on) THEN Free
                                ELSE [Free EXCEPT !.key = on[i], !.uses = 1, !.exists = TRUE, !.fs = disk[on[i]].fs,
                                                  !.expire = setup.inactive]]
     /\ queue = [i \in DOMAIN on |-> i]
     /\ sh = [size |-> Sum([i \in Slots |-> nodes[i].fs], setup.slots), cold |-> setup.cold, loading |-> FALSE, watermark |-> 100]
  /\ del = [p \in Requests \union {Manager} |-> [node |-> 0, gone |-> FALSE]]
  /\ mgr = "idle" /\ todo = {} /\ now = 0 /\ faults = 0 /\ upset = FALSE /\ robbed = {}

\* Bounds: maxNow; a request decides to wait while there is time for it to end.
Undecided(r) == pc[r] \in {"exists", "evict", "retry", "open", "judge", "lock"} /\ ~Unborn(r) /\ req[r].waitTime = 0
Tick == /\ now < setup.maxNow /\ now' = now + 1
        /\ \A r \in Requests : Undecided(r) => now' + setup.timeout <= setup.maxNow
        /\ UNCHANGED <<pc, req, nodes, queue, sh, disk, del, mgr, todo, faults, upset, robbed, setup>>

\* A worker is killed while it holds a node, or the loader is told to quit.
\* Bound: faults.
Crash(r) ==
  /\ faults < setup.faults /\ pc[r] \notin {"none", "done", "dead"} /\ (req[r].node # 0 \/ del[r].node # 0)
  /\ pc' = [pc EXCEPT ![r] = "dead"] /\ faults' = faults + 1
  /\ upset' = (upset \/ pc[r] = "update" \/ (pc[r] \in {"open", "judge"} /\ \E i \in Slots : req[r].node = i /\ ~nodes[i].exists))
  /\ req' = [req EXCEPT ![r] = [Past(r) EXCEPT !.node = req[r].node, !.key = req[r].key]]
  /\ UNCHANGED <<nodes, queue, sh, disk, del, mgr, todo, now, robbed, setup>>
LoaderQuits ==
  /\ faults < setup.faults /\ sh.loading /\ faults' = faults + 1 /\ sh' = [sh EXCEPT !.loading = FALSE] /\ todo' = {}
  /\ UNCHANGED <<pc, req, nodes, queue, disk, del, mgr, now, upset, robbed, setup>>

Step(r) == Open(r) \/ MakeRoom(r) \/ Retry(r) \/ Read(r) \/ Judge(r) \/ Lock(r) \/ LockWait(r)
Use(r) == Answer(r) \/ Stored(r) \/ Update(r) \/ End(r)
Alive(p) == p \in Requests => pc[p] # "dead"
Next ==
  \/ \E r \in Requests : Step(r) \/ Use(r) \/ Crash(r)
  \/ \E p \in Requests \union {Manager} : Alive(p) /\ (Unlink(p) \/ Unlinked(p))
  \/ Wake \/ Expire \/ Manage \/ Evict \/ Load \/ (\E k \in Keys : Add(k)) \/ Loaded
  \/ Tick \/ LoaderQuits

\* Every process goes on, but for those that were killed: a request whenever it
\* can, a process that deletes a file, and the manager.
Running(r) ==
  \/ MayOpen(r)
  \/ pc[r] \in {"evict", "open", "judge", "lock", "fetch", "pipe", "update"}
  \/ pc[r] = "retry" /\ del[r].node = 0
  \/ pc[r] = "wait" /\ req[r].waitTime <= now
  \/ pc[r] = "send" /\ Alone(r)
Moves(r) == Running(r) /\ \E s \in States \ {pc[r]} : pc' = [pc EXCEPT ![r] = s]
Deletes(p) ==
  /\ del[p].node # 0 /\ Alive(p)
  /\ del' = [del EXCEPT ![p] = IF @.gone THEN [node |-> 0, gone |-> FALSE] ELSE [@ EXCEPT !.gone = TRUE]]
Manages == setup.managed /\ (mgr = "expire" \/ del[Manager].node = 0) /\ mgr' \in {"idle", "expire", "check", "force"} /\ mgr' # mgr
Loads == sh.loading /\ \E n \in SUBSET todo : todo' = n /\ n # todo
Spec ==
  /\ Init /\ [][Next]_vars
  /\ \A r \in Requests : WF_pc(Moves(r))
  /\ \A p \in Requests \union {Manager} : WF_del(Deletes(p))
  /\ WF_mgr(Manages) /\ WF_now(Tick)

-----------------------------------------------------------------------------
(* Properties.                                                               *)
\* Requests, nodes, files and processes are what they should be.
Requested == [kind : setup.kinds, key : Keys, sub : BOOLEAN, node : Slots \union {0}, error : BOOLEAN, found : BOOLEAN,
              updating : BOOLEAN, lockTime : Nat, waitTime : Nat, patient : BOOLEAN, till : Int, file : Files,
              cacheable : BOOLEAN, status : {"miss", "hit", "updating", "stale", "expired", "revalidated"},
              temp : BOOLEAN, secondary : BOOLEAN, updated : BOOLEAN]
Nodes == [key : Keys \union {0}, count : Int, uses : Nat, error : BOOLEAN, till : Int, exists : BOOLEAN,
          updating : BOOLEAN, deleting : BOOLEAN, lockTime : Nat, fs : Nat, expire : Nat]
Deletions == [node : Slots, gone : BOOLEAN] \union {[node |-> 0, gone |-> FALSE]}
TypeOK ==
  /\ setup \in Setups /\ now \in Nat
  /\ pc \in [Requests -> States] /\ req \in [Requests -> Requested]
  /\ nodes \in [Slots -> Nodes] /\ queue \in Seq(Slots) /\ disk \in [Keys -> Files]
  /\ del \in [Requests \union {Manager} -> Deletions]
  /\ mgr \in {"idle", "expire", "check", "force"} /\ todo \subseteq Keys
  /\ upset \in BOOLEAN /\ robbed \subseteq Slots

\* A node counts exactly those that hold it, so that it is never freed, and its
\* place given to another key, under a request; the queue has every node once.
HeldNodes ==
  /\ \A i \in Slots : nodes[i].key # 0 =>
       nodes[i].count = Cardinality({r \in Requests : req[r].node = i}) + Cardinality({p \in DOMAIN del : del[p].node = i})
  /\ \A r \in Requests : req[r].node # 0 => nodes[req[r].node].key = req[r].key
  /\ IsInjective(queue) /\ Range(queue) = {i \in Slots : nodes[i].key # 0}
  /\ \A r \in Requests : pc[r] = "done" => req[r].node = 0 /\ ~req[r].temp

\* The size that the manager goes by is that of the nodes that have a file.
SizeIsTheSum ==
  sh.size = Sum([i \in Slots |-> IF nodes[i].exists /\ ~nodes[i].deleting THEN nodes[i].fs ELSE 0], setup.slots)

\* The size is that of the nodes, and no file is left on the disk that no node knows and nobody would ever
\* delete, but for the ways that Take, Insert, Read, Reopen, Judge and Crash name.
Knows(k) ==
  \/ \E i \in Slots : nodes[i].key = k /\ nodes[i].exists
  \/ \E r \in Requests : pc[r] \in {"open", "judge", "update"} /\ req[r].key = k
Accounted == upset \/ (SizeIsTheSum /\ (~sh.cold => \A k \in Keys : disk[k] # NoFile => Knows(k)))

\* With proxy_cache_lock one request at a time has the lock of a node while its time lasts,
\* unless another one that stored its answer at this node cleared the lock (ngx_http_file_cache_lock,
\* ngx_http_file_cache_free; _update and _update_variant clear it whoever has it).
LockIsExclusive ==
  \A r, s \in Requests :
    HasLock(World, r) /\ HasLock(World, s) /\ req[r].node = req[s].node /\ req[r].node \notin robbed => r = s

\* Nodes are held while they are used and one request fills the cache, whatever processes end in
\* between (ngx_http_file_cache_free, ngx_http_file_cache_lock, ngx_http_file_cache_delete).
Inv == TypeOK /\ HeldNodes /\ LockIsExclusive

\* A request that waits for another one is answered, even when that one is never
\* heard of again.
WaitersEnd == \A r \in Requests : pc[r] = "wait" ~> pc[r] \in {"fetch", "send", "done", "dead"}

\* In the end the files take no more room than they may, or those left are in use.
Bounded ==
  setup.managed => <>[](sh.size < setup.max \/ upset \/ \A i \in Slots : nodes[i].key # 0 => nodes[i].count > 0)
=============================================================================
