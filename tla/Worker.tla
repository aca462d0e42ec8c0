------------------------------- MODULE Worker -------------------------------
(***************************************************************************)
(* The event loop of the workers: ngx_process_events_and_timers with epoll,  *)
(* ngx_event_accept, the free list and the reusable queue of connections in  *)
(* core/ngx_connection.c, posted events, and the accept mutex that several   *)
(* workers share.  A handler is what it may do to connections: keep, close,  *)
(* close another one, wait for a request, take a request, connect.           *)
(***************************************************************************)
EXTENDS Lists

CONSTANTS
  Workers,    \* model values
  N,          \* worker_connections, listening ones not counted
  Reserve,    \* connection_n / 8
  BatchMax,   \* epoll_events
  Scenarios   \* bounds: see ScenarioType


VARIABLES
  lock,     \* ngx_accept_mutex: Nobody or a worker
  wk,       \* per worker: its memory, see Fresh
  backlog,  \* connections that wait to be accepted
  born,     \* ngx_connection_counter
  sc        \* the scenario, less what has happened of it

vars == <<lock, wk, backlog, born, sc>>

Nobody == "nobody"
Slots == 1 .. N
Listen == 0         \* the listening connection in a batch of events
ScenarioType == [mutex : BOOLEAN, workers : SUBSET Workers, clients : Nat, numbers : Nat,
                 nofile : Nat, crashes : Nat, quits : Nat]
ASSUME WorkerAssumption ==
  /\ N \in Nat \ {0} /\ Reserve \in Nat /\ BatchMax \in Nat \ {0}
  /\ Nobody \notin Workers /\ Scenarios \subseteq ScenarioType

Closed == [open |-> FALSE, inst |-> 1, num |-> 0, reusable |-> FALSE]
Fresh ==
  [st |-> "loop", held |-> FALSE, disabled |-> 0, listening |-> ~sc.mutex, rearm |-> FALSE,
   turn |-> "sit", conn |-> [s \in Slots |-> Closed], free |-> [s \in Slots |-> s],
   queue |-> <<>>, batch |-> <<>>, postedAccept |-> FALSE, posted |-> <<>>,
   taken |-> [s \in Slots |-> 0], astray |-> FALSE, exiting |-> FALSE]
Gone(w) == wk[w].st \in {"dead", "left"}
OpenIn(m) == {s \in Slots : m.conn[s].open}

-----------------------------------------------------------------------------
(* core/ngx_connection.c, on the memory m of a worker.                       *)
\* Mutant: a connection that is in the queue is put in again.
ReusableTwice(m, s, on) ==
  [m EXCEPT !.conn[s].reusable = on, !.queue = IF on THEN <<s>> \o @ ELSE Without(@, s)]
\* ngx_reusable_connection.
Reusable(m, s, on) ==
  [m EXCEPT !.conn[s].reusable = on,
            !.queue = IF on THEN <<s>> \o Without(@, s) ELSE Without(@, s)]

\* Mutant: an event that was posted stays posted.
CloseStillPosted(m, s) ==
  [Reusable(m, s, FALSE) EXCEPT !.conn[s].open = FALSE, !.free = <<s>> \o @]
\* ngx_close_connection with ngx_free_connection.
Close(m, s) ==
  IF ~m.conn[s].open THEN m
  ELSE [Reusable(m, s, FALSE) EXCEPT !.conn[s].open = FALSE, !.free = <<s>> \o @,
                                     !.posted = Without(@, s)]

\* ngx_drain_connections: the oldest reusable connection is told to close.
Drain(m) == IF m.queue = <<>> THEN m ELSE Close(m, Last(m.queue))

\* ngx_get_connection, which drains when the free list is empty.
Drained(m) == IF m.free = <<>> THEN Drain(m) ELSE m
CanGet(m) == Drained(m).free # <<>>
\* Mutant: the instance is not flipped.
TakeSameInstance(m, n) ==
  LET d == Drained(m)  s == Head(d.free)
  IN [d EXCEPT !.free = Tail(@), !.taken[s] = @ + 1,
               !.conn[s] = [open |-> TRUE, inst |-> d.conn[s].inst, num |-> n, reusable |-> FALSE]]
Take(m, n) ==
  LET d == Drained(m)  s == Head(d.free)
  IN [d EXCEPT !.free = Tail(@), !.taken[s] = @ + 1,
               !.conn[s] = [open |-> TRUE, inst |-> 1 - d.conn[s].inst, num |-> n, reusable |-> FALSE]]
Taken(m) == Head(Drained(m).free)

Set(w, m) == wk' = [wk EXCEPT ![w] = m]

\* What the handler of the event of connection s may do; the numbers taken by
\* the connections it opens are next ones of born.
Handled(w, m, s) ==
  LET busy == Reusable(m, s, FALSE)
      peers == OpenIn(m) \ {s}
      room(k) == born + k <= sc.numbers
  IN \/ Set(w, busy) /\ UNCHANGED born
     \/ Set(w, Reusable(m, s, TRUE)) /\ UNCHANGED born
     \/ Set(w, Close(m, s)) /\ UNCHANGED born
     \/ \E t \in peers : Set(w, Close(busy, t)) /\ UNCHANGED born
     \/ room(1) /\ CanGet(busy) /\ Set(w, Take(busy, born + 1)) /\ born' = born + 1
     \/ \E t \in peers :              \* ngx_http_upstream_next
          room(1) /\ Set(w, Take(Close(busy, t), born + 1)) /\ born' = born + 1
     \/ \E t \in peers :              \* ... whose first connect() fails at once
          /\ room(2)
          /\ LET a == Take(Close(busy, t), born + 1)
             IN Set(w, Take(Close(a, Taken(Close(busy, t))), born + 2))
          /\ born' = born + 2

-----------------------------------------------------------------------------
(* One turn of ngx_process_events_and_timers.                                *)
Init ==
  /\ sc \in Scenarios
  /\ lock = Nobody /\ backlog = 0 /\ born = 0
  /\ wk = [w \in Workers |-> IF w \in sc.workers THEN Fresh ELSE [Fresh EXCEPT !.st = "left"]]

\* Mutant: a worker that loses the mutex goes on listening.
ListensOn(m, tries, got) == got \/ m.listening
\* ngx_enable_accept_events, ngx_disable_accept_events.
Listens(m, tries, got) == got \/ (m.listening /\ ~(tries /\ m.held))

\* ngx_trylock_accept_mutex, unless accepting is disabled: the turn is one that
\* owns the mutex, naps for the mutex delay at most, or sits out.
TryLock(w) ==
  /\ wk[w].st = "loop"
  /\ LET m == wk[w]
         tries == sc.mutex /\ m.disabled <= 0 /\ ~m.exiting
         got == tries /\ lock = Nobody
     IN /\ lock' = IF got THEN w ELSE lock
        /\ Set(w, [m EXCEPT !.st = IF m.exiting /\ OpenIn(m) = {} /\ ~m.rearm THEN "left" ELSE "wait",
                    !.turn = IF got THEN "own" ELSE IF tries THEN "nap" ELSE "sit",
                    !.rearm = IF tries THEN FALSE ELSE @,
                    !.disabled = IF sc.mutex /\ @ > 0 THEN @ - 1 ELSE @,
                    !.held = IF tries THEN got ELSE @,
                    !.listening = Listens(m, tries, got),
                    !.taken = [s \in Slots |-> 0]])
  /\ UNCHANGED <<backlog, born, sc>>

\* The nap, or a timer: every open connection has one.
MayTimeOut(m) == OpenIn(m) # {} \/ m.rearm \/ m.turn = "nap"
Ready(m) == OpenIn(m) \cup (IF m.listening /\ backlog > 0 THEN {Listen} ELSE {})
Reported(m, s) == [slot |-> s, inst |-> IF s = Listen THEN 0 ELSE m.conn[s].inst,
                   num |-> IF s = Listen THEN 0 ELSE m.conn[s].num]

\* A batch of at most BatchMax events: the listening socket once, any other to read, to write
\* or both, one after the other.
Batches(m) ==
  {f \in UNION {[1 .. k -> Ready(m)] : k \in 0 .. BatchMax} :
     \A i, j \in DOMAIN f : f[i] = f[j] => i = j \/ (f[i] # Listen /\ j \in {i - 1, i + 1})}

\* epoll_wait: any open socket may be ready, a backlog is ready.  The handler of a
\* socket's read event may close it, and its write event has a test for that of its own.
Wait(w) ==
  /\ wk[w].st = "wait"
  /\ \E b \in Batches(wk[w]) :
       /\ b # <<>> \/ MayTimeOut(wk[w])
       /\ wk[w].listening /\ backlog > 0 => Listen \in Range(b)
       /\ Set(w, [wk[w] EXCEPT !.st = "batch", !.batch = [i \in DOMAIN b |-> Reported(wk[w], b[i])]])
  /\ UNCHANGED <<lock, backlog, born, sc>>

\* ngx_event_accept: EMFILE, no connection left, or a new connection that
\* waits for its request.
Accept(w, m) ==
  \/ /\ backlog = 0 /\ Set(w, m) /\ UNCHANGED <<lock, backlog, born>>
  \/ /\ backlog > 0 /\ Cardinality(OpenIn(m)) >= sc.nofile
     /\ lock' = IF sc.mutex /\ m.held /\ lock = w THEN Nobody ELSE lock
     /\ Set(w, [m EXCEPT !.listening = FALSE, !.held = FALSE, !.rearm = ~sc.mutex,
                         !.disabled = IF sc.mutex THEN 1 ELSE @])
     /\ UNCHANGED <<backlog, born>>
  \/ /\ backlog > 0 /\ Cardinality(OpenIn(m)) < sc.nofile
     /\ backlog' = backlog - 1
     /\ LET d == [m EXCEPT !.disabled = Reserve - Len(m.free)] IN
        IF CanGet(d) /\ born < sc.numbers
        THEN Set(w, Reusable(Take(d, born + 1), Taken(d), TRUE)) /\ born' = born + 1
        ELSE Set(w, Drained(d)) /\ UNCHANGED born
     /\ UNCHANGED lock

\* The test of ngx_epoll_process_events, before the read event and again before the write event.
IsStale(m, e) == ~m.conn[e.slot].open \/ m.conn[e.slot].inst # e.inst

\* The next event of the batch: dropped, posted or handled.  A connection is posted once,
\* for its read and its write event.
Deliver(w) ==
  /\ wk[w].st = "batch" /\ wk[w].batch # <<>>
  /\ LET e == Head(wk[w].batch)
         m == [wk[w] EXCEPT !.batch = Tail(@)]
         mixed == ~IsStale(m, e) /\ m.conn[e.slot].num # e.num /\ m.taken[e.slot] <= 1
     IN IF e.slot = Listen
        THEN IF m.turn = "own" THEN Set(w, [m EXCEPT !.postedAccept = TRUE]) /\ UNCHANGED <<lock, backlog, born>>
                       ELSE IF m.listening THEN Accept(w, m)
                       ELSE Set(w, m) /\ UNCHANGED <<lock, backlog, born>>
        ELSE /\ IF IsStale(m, e) THEN Set(w, m) /\ UNCHANGED born
                ELSE IF m.turn = "own"
                THEN /\ Set(w, [m EXCEPT !.posted = IF e.slot \in Range(@) THEN @ ELSE Append(@, e.slot),
                                         !.astray = @ \/ mixed])
                     /\ UNCHANGED born
                ELSE Handled(w, [m EXCEPT !.astray = @ \/ mixed], e.slot)
             /\ UNCHANGED <<lock, backlog>>
  /\ UNCHANGED sc

EndBatch(w) ==
  /\ wk[w].st = "batch" /\ wk[w].batch = <<>>
  /\ Set(w, [wk[w] EXCEPT !.st = "acceptq"])
  /\ UNCHANGED <<lock, backlog, born, sc>>

\* The posted accept event, and then the mutex is given up.
PostedAccept(w) ==
  /\ wk[w].st = "acceptq" /\ wk[w].postedAccept
  /\ Accept(w, [wk[w] EXCEPT !.postedAccept = FALSE])
  /\ UNCHANGED sc
Unlock(w) ==
  /\ wk[w].st = "acceptq" /\ ~wk[w].postedAccept
  /\ lock' = IF wk[w].held /\ lock = w THEN Nobody ELSE lock
  /\ Set(w, [wk[w] EXCEPT !.st = "expire"])
  /\ UNCHANGED <<backlog, born, sc>>

\* ngx_event_expire_timers: a connection that timed out is closed; the timer
\* of accepting, here the last one, turns it on and accepts.
Expire(w) ==
  /\ wk[w].st = "expire"
  /\ \E s \in OpenIn(wk[w]) : Set(w, Close(wk[w], s))
  /\ UNCHANGED <<lock, backlog, born, sc>>
Rearm(w) ==
  /\ wk[w].st = "expire" /\ wk[w].rearm
  /\ LET m == [wk[w] EXCEPT !.st = "posted", !.rearm = FALSE] IN
     IF m.exiting THEN Set(w, m) /\ UNCHANGED <<lock, backlog, born>>
                  ELSE Accept(w, [m EXCEPT !.listening = TRUE])
  /\ UNCHANGED sc
EndExpire(w) ==
  /\ wk[w].st = "expire" /\ Set(w, [wk[w] EXCEPT !.st = "posted"])
  /\ UNCHANGED <<lock, backlog, born, sc>>

\* ngx_event_process_posted(&ngx_posted_events).
Posted(w) ==
  /\ wk[w].st = "posted"
  /\ IF wk[w].posted = <<>> THEN Set(w, [wk[w] EXCEPT !.st = "loop"]) /\ UNCHANGED born
     ELSE Handled(w, [wk[w] EXCEPT !.posted = Tail(@)], Head(wk[w].posted))
  /\ UNCHANGED <<lock, backlog, sc>>

\* The quit flag is seen at the end of a turn: ngx_close_listening_sockets, and
\* ngx_close_idle_connections, which walks through the table.
Shutdown(w) ==
  /\ wk[w].st = "loop" /\ sc.quits > 0 /\ ~wk[w].exiting
  /\ Set(w, [wk[w] EXCEPT !.st = "shutdown", !.exiting = TRUE, !.held = FALSE, !.listening = FALSE])
  /\ sc' = [sc EXCEPT !.quits = @ - 1]
  /\ UNCHANGED <<lock, backlog, born>>
CloseIdle(w) ==
  /\ wk[w].st = "shutdown"
  /\ LET m == wk[w]  idle == {s \in Slots : m.conn[s].reusable} IN
     IF idle = {} THEN Set(w, [m EXCEPT !.st = "loop"]) ELSE Set(w, Close(m, Min(idle)))
  /\ UNCHANGED <<lock, backlog, born, sc>>

-----------------------------------------------------------------------------
(* Around them: clients, crashes, and the master that sees them.             *)
Connect ==
  /\ sc.clients > 0 /\ backlog' = backlog + 1 /\ sc' = [sc EXCEPT !.clients = @ - 1]
  /\ UNCHANGED <<lock, wk, born>>

Crash(w) ==
  /\ ~Gone(w) /\ sc.crashes > 0
  /\ Set(w, [Fresh EXCEPT !.st = "dead"]) /\ sc' = [sc EXCEPT !.crashes = @ - 1]
  /\ UNCHANGED <<lock, backlog, born>>

\* Mutant: the mutex of a dead worker is not released.
ForceUnlockNever(w) == lock
\* ngx_unlock_mutexes.
ForceUnlock(w) == IF lock = w THEN Nobody ELSE lock
Respawn(w) ==
  /\ wk[w].st = "dead" /\ lock' = ForceUnlock(w) /\ Set(w, Fresh)
  /\ UNCHANGED <<backlog, born, sc>>

Turn(w) ==
  \/ TryLock(w) \/ Wait(w) \/ Deliver(w) \/ EndBatch(w) \/ PostedAccept(w)
  \/ Unlock(w) \/ Expire(w) \/ Rearm(w) \/ EndExpire(w) \/ Posted(w) \/ CloseIdle(w)
Next ==
  \/ Connect
  \/ \E w \in Workers : Turn(w) \/ Shutdown(w) \/ Crash(w) \/ Respawn(w)

\* The workers' loops and the master run, and in a worker that turns on and on
\* the timers of its connections, and the one of accepting, expire.
Spec ==
  /\ Init /\ [][Next]_vars
  /\ \A w \in Workers : WF_vars(Turn(w)) /\ WF_vars(Respawn(w)) /\ SF_vars(Expire(w)) /\ SF_vars(Rearm(w))

-----------------------------------------------------------------------------
(* Properties.                                                               *)
ConnType == [open : BOOLEAN, inst : {0, 1}, num : 0 .. born, reusable : BOOLEAN]
\* The variables hold values of their types, and the queues hold slots once.
TypeOK ==
  /\ lock \in Workers \cup {Nobody} /\ backlog \in Nat /\ born \in Nat
  /\ \A w \in Workers :
       /\ wk[w].conn \in [Slots -> ConnType] /\ wk[w].disabled \in -N .. Reserve + 1
       /\ \A q \in {wk[w].free, wk[w].queue, wk[w].posted} :
            Range(q) \subseteq Slots /\ IsInjective(q)

\* Whatever handlers close and open while a batch is walked, a slot of the
\* table is either open or on the free list, once; what is reusable and what is
\* posted is open.  An event is so never handled for a connection that is gone.
SlotsFit ==
  \A w \in Workers : LET m == wk[w] IN
    /\ Range(m.free) = Slots \ OpenIn(m)
    /\ Range(m.queue) = {s \in OpenIn(m) : m.conn[s].reusable}
    /\ Range(m.posted) \subseteq OpenIn(m)

\* The instance bit tells a connection from the next one of its slot: an event
\* the kernel reported for a connection is not taken for an event of the one
\* that replaced it in the same turn.  (Two replacements in one turn restore
\* the bit: then it may be, and the handler finds the socket not ready.)
NotAstray == \A w \in Workers : ~wk[w].astray

\* With the accept mutex, who listens in epoll_wait owns it, or is sitting out
\* a turn, for it is short of free connections, and has owned it before.
OneListens ==
  \A w \in Workers :
    sc.mutex /\ wk[w].st = "wait" /\ wk[w].listening =>
      IF wk[w].turn = "own" THEN lock = w ELSE wk[w].turn = "sit" /\ wk[w].held

\* A connection in the backlog is accepted, or refused, in the end as long as
\* a worker serves, unless each has run out of file descriptors, has turned its
\* events off for that, and then lost all its timers.
Hushed(w) == Gone(w) \/ wk[w].exiting \/ (wk[w].st = "wait" /\ ~wk[w].listening /\ ~MayTimeOut(wk[w]))
BacklogShrinks ==
  \A n \in 1 .. 2 : (backlog = n) ~> (backlog # n \/ \A w \in Workers : Hushed(w))

\* The types, slots that are each in one place only, one listener, and no event that goes astray
\* (ngx_free_connection, ngx_trylock_accept_mutex, the instance bit of ngx_epoll_process_events).
Inv == TypeOK /\ SlotsFit /\ OneListens /\ NotAstray

=============================================================================
