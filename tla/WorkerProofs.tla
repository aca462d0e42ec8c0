---------------------------- MODULE WorkerProofs ----------------------------
(***************************************************************************)
(* Proofs about module Worker, for any number of workers, connections and    *)
(* events: a slot of the table of connections is in one place, no event goes *)
(* astray, and one worker listens.  What the operators on the memory of a    *)
(* worker keep is a lemma each; b is the number of connections so far.       *)
(***************************************************************************)
EXTENDS Worker, ListProofs

Conns(b) == [open : BOOLEAN, inst : {0, 1}, num : 0 .. b, reusable : BOOLEAN]
Reports == [slot : 0 .. N, inst : {0, 1}, num : Nat]
Places == {"loop", "wait", "batch", "acceptq", "expire", "posted", "shutdown", "left", "dead"}

Fields(m) ==
  m = [st |-> m.st, held |-> m.held, disabled |-> m.disabled, listening |-> m.listening, rearm |-> m.rearm,
       turn |-> m.turn, conn |-> m.conn, free |-> m.free, queue |-> m.queue, batch |-> m.batch,
       postedAccept |-> m.postedAccept, posted |-> m.posted, taken |-> m.taken, astray |-> m.astray,
       exiting |-> m.exiting]

\* The table of connections and the lists of its slots.
ListOf(q, S) == q \in Seq(Slots) /\ IsInjective(q) /\ Range(q) = S
Table(m, b) ==
  /\ m.conn \in [Slots -> Conns(b)] /\ m.taken \in [Slots -> Nat]
  /\ ListOf(m.free, Slots \ OpenIn(m))
  /\ ListOf(m.queue, {s \in OpenIn(m) : m.conn[s].reusable})
  /\ m.posted \in Seq(Slots) /\ IsInjective(m.posted) /\ Range(m.posted) \subseteq OpenIn(m)
  /\ \A s \in Slots : m.conn[s].reusable => m.conn[s].open

\* What the batch says of a slot is true as long as the slot was not taken
\* again, and can be told to be stale when it was, once.
Recognised(m, e) ==
  /\ m.taken[e.slot] = 0 => m.conn[e.slot].num = e.num /\ m.conn[e.slot].inst = e.inst
  /\ m.taken[e.slot] = 1 => m.conn[e.slot].inst # e.inst
Batched(m) ==
  /\ m.batch \in Seq(Reports)
  /\ \A i \in DOMAIN m.batch : m.batch[i].slot # Listen => Recognised(m, m.batch[i])
Core(m, b) == Fields(m) /\ Table(m, b) /\ Batched(m)

\* What happens between which stages of a turn.
Staged(m) ==
  /\ m.st \in Places /\ m.turn \in {"own", "nap", "sit"} /\ m.held \in BOOLEAN /\ m.listening \in BOOLEAN
  /\ m.rearm \in BOOLEAN /\ m.exiting \in BOOLEAN /\ m.postedAccept \in BOOLEAN /\ m.astray = FALSE
  /\ m.disabled \in -N .. Reserve + 1
  /\ m.st # "batch" => m.batch = <<>>
  /\ m.st \in {"loop", "wait", "shutdown"} => m.posted = <<>>
  /\ m.st = "wait" => \A s \in Slots : m.taken[s] = 0

\* With the mutex a worker listens if it has owned it since, and one that owns
\* it has it locked until it gives it up.
Mutexed(m, mutex) ==
  mutex => /\ m.listening => m.held
           /\ ~m.rearm
           /\ m.st = "wait" /\ m.turn = "nap" => ~m.listening
Owned(m, w, l) == m.st = "wait" /\ m.turn = "own" => l = w
Kept(m, b, mutex) == Core(m, b) /\ Staged(m) /\ Mutexed(m, mutex)

IInv ==
  /\ sc \in ScenarioType /\ lock \in Workers \cup {Nobody} /\ backlog \in Nat /\ born \in Nat
  /\ wk = [w \in Workers |-> wk[w]]
  /\ \A w \in Workers : Kept(wk[w], born, sc.mutex) /\ Owned(wk[w], w, lock)

-----------------------------------------------------------------------------
(* The operators on the memory of a worker.                                  *)
\* What they leave alone.
Alike(m, n) ==
  /\ n.st = m.st /\ n.held = m.held /\ n.disabled = m.disabled /\ n.listening = m.listening
  /\ n.rearm = m.rearm /\ n.turn = m.turn /\ n.batch = m.batch /\ n.postedAccept = m.postedAccept
  /\ n.astray = m.astray /\ n.exiting = m.exiting /\ Range(n.posted) \subseteq Range(m.posted)

\* The batch stays recognised while slots keep the connection they have, or had.
LEMMA BatchedStill ==
  ASSUME NEW m, NEW n, Batched(m), n.batch = m.batch,
         \A t \in Slots : n.taken[t] = m.taken[t] /\ n.conn[t].num = m.conn[t].num /\ n.conn[t].inst = m.conn[t].inst
  PROVE  Batched(n)
<1>1. ASSUME NEW e \in Reports, e.slot # Listen, Recognised(m, e) PROVE Recognised(n, e)
  <2>1. e.slot \in Slots
    BY <1>1, WorkerAssumption DEF Reports, Listen, Slots
  <2> QED BY <2>1, <1>1 DEF Recognised
<1> QED BY <1>1 DEF Batched

\* ngx_reusable_connection keeps the table, and changes the queue only.
LEMMA ReusableIs ==
  ASSUME NEW m, NEW b \in Nat, Core(m, b), NEW s \in OpenIn(m), NEW on \in BOOLEAN
  PROVE  LET n == Reusable(m, s, on) IN
         /\ Core(n, b) /\ Alike(m, n) /\ OpenIn(n) = OpenIn(m) /\ n.free = m.free /\ n.posted = m.posted
         /\ n.taken = m.taken /\ n.conn[s].reusable = on
<1> DEFINE n == Reusable(m, s, on)
<1>1. s \in Slots /\ Slots = 1 .. N /\ N \in Nat
  BY WorkerAssumption DEF OpenIn, Slots
<1>2. /\ Fields(n) /\ n.conn = [m.conn EXCEPT ![s].reusable = on]
      /\ n.queue = (IF on THEN <<s>> \o Without(m.queue, s) ELSE Without(m.queue, s))
      /\ n.free = m.free /\ n.posted = m.posted /\ n.taken = m.taken /\ Alike(m, n)
  <2> DEFINE c == [m.conn EXCEPT ![s].reusable = on]
             q == IF on THEN <<s>> \o Without(m.queue, s) ELSE Without(m.queue, s)
  <2>1. n = [m EXCEPT !.conn = c, !.queue = q]
    BY DEF Reusable
  <2> HIDE DEF c, q, n
  <2>2. Fields(n) /\ n.conn = c /\ n.queue = q /\ n.free = m.free /\ n.posted = m.posted /\ n.taken = m.taken /\ Alike(m, n)
    BY <2>1 DEF Core, Fields, Alike
  <2> QED BY <2>2 DEF c, q
<1> HIDE DEF n
<1>3. /\ n.conn \in [Slots -> Conns(b)] /\ n.conn[s].reusable = on /\ n.conn[s].open = m.conn[s].open
      /\ n.conn[s].num = m.conn[s].num /\ n.conn[s].inst = m.conn[s].inst
      /\ \A t \in Slots \ {s} : n.conn[t] = m.conn[t]
  <2>1. m.conn \in [Slots -> Conns(b)] /\ m.conn[s] \in Conns(b)
    BY <1>1 DEF Core, Table
  <2>2. [m.conn[s] EXCEPT !.reusable = on] \in Conns(b)
    BY <2>1 DEF Conns
  <2>3. n.conn = [m.conn EXCEPT ![s] = [m.conn[s] EXCEPT !.reusable = on]]
    BY <1>2, <2>1
  <2> QED BY <2>1, <2>2, <2>3, <1>1 DEF Conns
<1>4. OpenIn(n) = OpenIn(m)
  BY <1>1, <1>3 DEF OpenIn
<1>5. ListOf(n.queue, {t \in OpenIn(n) : n.conn[t].reusable})
  <2> DEFINE q == Without(m.queue, s)
  <2>1. q \in Seq(Slots) /\ IsInjective(q) /\ Range(q) = Range(m.queue) \ {s}
    BY WithoutOne DEF Core, Table, ListOf
  <2>2. Range(m.queue) = {t \in OpenIn(m) : m.conn[t].reusable}
    BY DEF Core, Table, ListOf
  <2> HIDE DEF q
  <2>3. CASE on
    <3>1. ListOf(n.queue, Range(q) \cup {s})
      BY <1>1, <1>2, <2>1, <2>3, PutFirst DEF ListOf, q
    <3>2. Range(q) \cup {s} = {t \in OpenIn(n) : n.conn[t].reusable}
      BY <1>1, <1>3, <1>4, <2>1, <2>2, <2>3 DEF OpenIn
    <3> QED BY <3>1, <3>2
  <2>4. CASE ~on
    <3>1. ListOf(n.queue, Range(q))
      BY <1>2, <2>1, <2>4 DEF ListOf, q
    <3>2. Range(q) = {t \in OpenIn(n) : n.conn[t].reusable}
      BY <1>1, <1>3, <1>4, <2>1, <2>2, <2>4 DEF OpenIn
    <3> QED BY <3>1, <3>2
  <2> QED BY <2>3, <2>4
<1>6. Table(n, b)
  BY <1>1, <1>2, <1>3, <1>4, <1>5 DEF Table, Core, OpenIn
<1>7. Batched(n)
  <2>1. Batched(m) /\ n.batch = m.batch
    BY <1>2 DEF Alike, Core
  <2>2. \A t \in Slots : n.taken[t] = m.taken[t] /\ n.conn[t].num = m.conn[t].num /\ n.conn[t].inst = m.conn[t].inst
    BY <1>2, <1>3
  <2> QED BY <2>1, <2>2, BatchedStill
<1> QED BY <1>2, <1>3, <1>4, <1>6, <1>7 DEF Core, n

\* ngx_close_connection frees the slot of the connection and forgets its events.
LEMMA CloseIs ==
  ASSUME NEW m, NEW b \in Nat, Core(m, b), NEW s \in OpenIn(m)
  PROVE  LET n == Close(m, s) IN
         /\ Core(n, b) /\ Alike(m, n) /\ OpenIn(n) = OpenIn(m) \ {s} /\ n.free = <<s>> \o m.free
         /\ n.free # <<>> /\ Head(n.free) = s
         /\ n.taken = m.taken /\ s \notin Range(n.posted)
<1> DEFINE n == Close(m, s)
           r == Reusable(m, s, FALSE)
<1>1. s \in Slots /\ Slots = 1 .. N /\ N \in Nat
  BY WorkerAssumption DEF OpenIn, Slots
<1>2. /\ Core(r, b) /\ Alike(m, r) /\ OpenIn(r) = OpenIn(m) /\ r.free = m.free /\ r.posted = m.posted
      /\ r.taken = m.taken /\ r.conn[s].reusable = FALSE
  BY ReusableIs
<1>3. n = [r EXCEPT !.conn[s].open = FALSE, !.free = <<s>> \o @, !.posted = Without(@, s)]
  BY DEF Close, OpenIn
<1> HIDE DEF n, r
<1>4. /\ Fields(n) /\ n.conn = [r.conn EXCEPT ![s].open = FALSE] /\ n.free = <<s>> \o r.free
      /\ n.posted = Without(r.posted, s) /\ n.taken = r.taken /\ n.queue = r.queue /\ n.batch = r.batch
      /\ n.st = m.st /\ n.held = m.held /\ n.disabled = m.disabled /\ n.listening = m.listening
      /\ n.rearm = m.rearm /\ n.turn = m.turn /\ n.batch = m.batch /\ n.postedAccept = m.postedAccept
      /\ n.astray = m.astray /\ n.exiting = m.exiting
  <2> DEFINE c == [r.conn EXCEPT ![s].open = FALSE]
             f == <<s>> \o r.free
             p == Without(r.posted, s)
  <2>1. n = [r EXCEPT !.conn = c, !.free = f, !.posted = p]
    BY <1>3
  <2> HIDE DEF c, f, p
  <2>2. /\ Fields(n) /\ n.conn = c /\ n.free = f /\ n.posted = p /\ n.taken = r.taken /\ n.queue = r.queue /\ n.batch = r.batch
        /\ n.st = m.st /\ n.held = m.held /\ n.disabled = m.disabled /\ n.listening = m.listening
        /\ n.rearm = m.rearm /\ n.turn = m.turn /\ n.batch = m.batch /\ n.postedAccept = m.postedAccept
        /\ n.astray = m.astray /\ n.exiting = m.exiting
    BY <2>1, <1>2 DEF Core, Fields, Alike
  <2> QED BY <2>2 DEF c, f, p
<1>5. /\ n.conn \in [Slots -> Conns(b)] /\ n.conn[s].open = FALSE /\ n.conn[s].reusable = FALSE
      /\ n.conn[s].num = r.conn[s].num /\ n.conn[s].inst = r.conn[s].inst
      /\ \A t \in Slots \ {s} : n.conn[t] = r.conn[t]
  <2>1. r.conn \in [Slots -> Conns(b)] /\ r.conn[s] \in Conns(b)
    BY <1>1, <1>2 DEF Core, Table
  <2>2. [r.conn[s] EXCEPT !.open = FALSE] \in Conns(b)
    BY <2>1 DEF Conns
  <2>3. n.conn = [r.conn EXCEPT ![s] = [r.conn[s] EXCEPT !.open = FALSE]]
    BY <1>4, <2>1
  <2> QED BY <2>1, <2>2, <2>3, <1>1, <1>2 DEF Conns
<1>6. OpenIn(n) = OpenIn(m) \ {s} /\ OpenIn(n) = OpenIn(r) \ {s}
  BY <1>1, <1>2, <1>5 DEF OpenIn
<1>7. ListOf(n.free, Slots \ OpenIn(n)) /\ n.free # <<>> /\ Head(n.free) = s
  <2>1. r.free \in Seq(Slots) /\ IsInjective(r.free) /\ Range(r.free) = Slots \ OpenIn(r)
    BY <1>2 DEF Core, Table, ListOf
  <2>2. s \in OpenIn(r)
    BY <1>2
  <2>3. n.free \in Seq(Slots) /\ IsInjective(n.free) /\ Range(n.free) = (Slots \ OpenIn(r)) \cup {s}
    BY <2>1, <2>2, <1>1, <1>4, PutFirst
  <2>4. n.free # <<>> /\ Head(n.free) = s
    BY <2>1, <1>1, <1>4
  <2> QED BY <2>3, <2>4, <1>1, <1>6 DEF ListOf
<1>8. ListOf(n.queue, {t \in OpenIn(n) : n.conn[t].reusable})
  <2>1. ListOf(n.queue, {t \in OpenIn(r) : r.conn[t].reusable})
    BY <1>2, <1>4 DEF Core, Table
  <2>2. {t \in OpenIn(r) : r.conn[t].reusable} = {t \in OpenIn(n) : n.conn[t].reusable}
    BY <1>1, <1>2, <1>5, <1>6 DEF OpenIn
  <2> QED BY <2>1, <2>2
<1>9. /\ n.posted \in Seq(Slots) /\ IsInjective(n.posted) /\ Range(n.posted) = Range(r.posted) \ {s}
  BY <1>2, <1>4, WithoutOne DEF Core, Table
<1>10. Table(n, b)
  <2>1. Range(n.posted) \subseteq OpenIn(n)
    BY <1>2, <1>6, <1>9 DEF Core, Table
  <2>2. \A t \in Slots : n.conn[t].reusable => n.conn[t].open
    BY <1>2, <1>5 DEF Core, Table
  <2>3. n.taken \in [Slots -> Nat]
    BY <1>2, <1>4 DEF Core, Table
  <2> QED BY <2>1, <2>2, <2>3, <1>5, <1>7, <1>8, <1>9 DEF Table
<1>11. Batched(n)
  <2>1. Batched(r) /\ n.batch = r.batch
    BY <1>2, <1>4, <1>9 DEF Core
  <2>2. \A t \in Slots : n.taken[t] = r.taken[t] /\ n.conn[t].num = r.conn[t].num /\ n.conn[t].inst = r.conn[t].inst
    BY <1>4, <1>5
  <2> QED BY <2>1, <2>2, BatchedStill
<1>12. Alike(m, n)
  BY <1>2, <1>4, <1>9 DEF Alike
<1> QED BY <1>2, <1>4, <1>6, <1>7, <1>9, <1>10, <1>11, <1>12 DEF Core, n

\* ngx_drain_connections keeps the table whether or not it finds one to close.
LEMMA DrainedIs ==
  ASSUME NEW m, NEW b \in Nat, Core(m, b)
  PROVE  Core(Drained(m), b) /\ Alike(m, Drained(m)) /\ Drained(m).taken = m.taken
<1>1. CASE m.free # <<>> \/ m.queue = <<>>
  BY <1>1 DEF Drained, Drain, Alike
<1>2. CASE m.free = <<>> /\ m.queue # <<>>
  <2>1. m.queue \in Seq(Slots) /\ Range(m.queue) \subseteq OpenIn(m)
    BY DEF Core, Table, ListOf
  <2>2. Last(m.queue) \in Range(m.queue)
    <3>1. Len(m.queue) \in DOMAIN m.queue /\ Last(m.queue) = m.queue[Len(m.queue)]
      BY <1>2, <2>1 DEF Last
    <3> QED BY <3>1 DEF Range
  <2>3. Drained(m) = Close(m, Last(m.queue))
    BY <1>2 DEF Drained, Drain
  <2> DEFINE x == Last(m.queue)
  <2>4. x \in OpenIn(m)
    BY <2>1, <2>2
  <2> HIDE DEF x
  <2>5. Core(Close(m, x), b) /\ Alike(m, Close(m, x)) /\ Close(m, x).taken = m.taken
    BY <2>4, CloseIs
  <2> QED BY <2>3, <2>5 DEF x
<1> QED BY <1>1, <1>2

\* ngx_get_connection flips the instance bit of the slot it takes.
LEMMA TakeIs ==
  ASSUME NEW m, NEW b \in Nat, Core(m, b), CanGet(m)
  PROVE  LET n == Take(m, b + 1) IN
         /\ Core(n, b + 1) /\ Alike(m, n) /\ Taken(m) \in OpenIn(n)
<1> DEFINE n == Take(m, b + 1)
           d == Drained(m)
           s == Head(d.free)
<1>1. Core(d, b) /\ Alike(m, d)
  BY DrainedIs
<1>2. n = [d EXCEPT !.free = Tail(@), !.taken[s] = @ + 1,
              !.conn[s] = [open |-> TRUE, inst |-> 1 - d.conn[s].inst, num |-> b + 1, reusable |-> FALSE]]
  BY DEF Take
<1>3. d.free # <<>> /\ Taken(m) = s
  BY DEF CanGet, Taken
<1> HIDE DEF n, d, s
<1>4. d.free \in Seq(Slots) /\ IsInjective(d.free) /\ Range(d.free) = Slots \ OpenIn(d)
  BY <1>1 DEF Core, Table, ListOf
<1>5. /\ Tail(d.free) \in Seq(Slots) /\ IsInjective(Tail(d.free)) /\ s \in Slots \ OpenIn(d)
      /\ Range(Tail(d.free)) = (Slots \ OpenIn(d)) \ {s}
  <2>1. s = Head(d.free)
    BY DEF s
  <2> QED BY <1>3, <1>4, <2>1, TakeFirst
<1> DEFINE e == [open |-> TRUE, inst |-> 1 - d.conn[s].inst, num |-> b + 1, reusable |-> FALSE]
           c == [d.conn EXCEPT ![s] = e]
           t0 == [d.taken EXCEPT ![s] = @ + 1]
<1>6. /\ Fields(n) /\ n.conn = c /\ n.free = Tail(d.free)
      /\ n.posted = d.posted /\ n.taken = t0 /\ n.queue = d.queue /\ Alike(d, n)
  <2>1. n = [d EXCEPT !.free = Tail(d.free), !.taken = t0, !.conn = c]
    BY <1>2
  <2> HIDE DEF t0, c
  <2> QED BY <2>1, <1>1 DEF Core, Fields, Alike
<1>7. /\ d.conn \in [Slots -> Conns(b)] /\ d.conn[s] \in Conns(b) /\ d.taken \in [Slots -> Nat] /\ s \in Slots
      /\ \A t \in Slots : d.conn[t].inst \in {0, 1}
  BY <1>1, <1>5 DEF Core, Table, Conns
<1>8. e \in Conns(b + 1)
  <2>1. 1 - d.conn[s].inst \in {0, 1}
    BY <1>7
  <2>2. b + 1 \in 0 .. b + 1
    OBVIOUS
  <2> QED BY <2>1, <2>2 DEF Conns
<1>9. Conns(b) \subseteq Conns(b + 1)
  <2>1. 0 .. b \subseteq 0 .. b + 1
    OBVIOUS
  <2> QED BY <2>1 DEF Conns
<1>10. e.open = TRUE /\ e.inst = 1 - d.conn[s].inst /\ e.num = b + 1 /\ e.reusable = FALSE
  OBVIOUS
<1> HIDE DEF e
<1>11. /\ n.conn \in [Slots -> Conns(b + 1)] /\ n.conn[s] = e /\ \A t \in Slots \ {s} : n.conn[t] = d.conn[t]
       /\ n.taken \in [Slots -> Nat] /\ n.taken[s] = d.taken[s] + 1 /\ \A t \in Slots \ {s} : n.taken[t] = d.taken[t]
  <2>1. c \in [Slots -> Conns(b + 1)]
    BY <1>7, <1>8, <1>9
  <2> QED BY <1>6, <1>7, <2>1
<1> HIDE DEF c, t0
<1>12. OpenIn(n) = OpenIn(d) \cup {s}
  BY <1>7, <1>10, <1>11 DEF OpenIn
<1>13. Table(n, b + 1)
  <2>1. ListOf(n.free, Slots \ OpenIn(n))
    BY <1>5, <1>6, <1>12 DEF ListOf
  <2>2. ListOf(n.queue, {t \in OpenIn(n) : n.conn[t].reusable})
    <3>1. ListOf(n.queue, {t \in OpenIn(d) : d.conn[t].reusable})
      BY <1>1, <1>6 DEF Core, Table
    <3>2. {t \in OpenIn(d) : d.conn[t].reusable} = {t \in OpenIn(n) : n.conn[t].reusable}
      BY <1>5, <1>10, <1>11, <1>12 DEF OpenIn
    <3> QED BY <3>1, <3>2
  <2>3. n.posted \in Seq(Slots) /\ IsInjective(n.posted) /\ Range(n.posted) \subseteq OpenIn(n)
    BY <1>1, <1>6, <1>12 DEF Core, Table
  <2>4. \A t \in Slots : n.conn[t].reusable => n.conn[t].open
    BY <1>1, <1>10, <1>11 DEF Core, Table
  <2> QED BY <2>1, <2>2, <2>3, <2>4, <1>11 DEF Table
<1>14. Batched(n)
  <2>1. Batched(d) /\ n.batch = d.batch
    BY <1>1, <1>6 DEF Core, Alike
  <2>2. ASSUME NEW r \in Reports, r.slot # Listen, Recognised(d, r) PROVE Recognised(n, r)
    <3>1. r.slot \in Slots /\ r.inst \in {0, 1}
      BY <2>2, WorkerAssumption DEF Reports, Listen, Slots
    <3>2. CASE r.slot # s
      BY <3>1, <3>2, <2>2, <1>11 DEF Recognised
    <3>3. CASE r.slot = s
      <4>1. n.taken[s] = d.taken[s] + 1 /\ d.taken[s] \in Nat /\ n.conn[s].inst = 1 - d.conn[s].inst
        BY <1>7, <1>10, <1>11
      <4>2. d.taken[s] = 0 => d.conn[s].inst = r.inst
        BY <2>2, <3>3 DEF Recognised
      <4> QED BY <4>1, <4>2, <3>1, <3>3 DEF Recognised
    <3> QED BY <3>2, <3>3
  <2> QED BY <2>1, <2>2 DEF Batched
<1>15. Alike(m, n)
  BY <1>1, <1>6 DEF Alike
<1> QED BY <1>3, <1>6, <1>12, <1>13, <1>14, <1>15 DEF Core, n

\* New connections elsewhere do not matter.
LEMMA CoreGrows ==
  ASSUME NEW m, NEW b \in Nat, NEW c \in Nat, b <= c, Core(m, b)
  PROVE  Core(m, c)
<1>1. 0 .. b \subseteq 0 .. c
  OBVIOUS
<1>2. Conns(b) \subseteq Conns(c)
  BY <1>1 DEF Conns
<1>3. m.conn \in [Slots -> Conns(c)]
  BY <1>2 DEF Core, Table
<1> QED BY <1>3 DEF Core, Table

\* Two changes that leave a worker's place and its batch alone leave them alone together.
LEMMA AlikeChain ==
  ASSUME NEW m, NEW n, NEW k, Alike(m, n), Alike(n, k)
  PROVE  Alike(m, k)
BY DEF Alike

\* A connection that was just closed leaves a slot.
LEMMA CloseTake ==
  ASSUME NEW m, NEW b \in Nat, Core(m, b), NEW t \in OpenIn(m)
  PROVE  LET n == Take(Close(m, t), b + 1) IN
         Core(n, b + 1) /\ Alike(m, n) /\ Taken(Close(m, t)) \in OpenIn(n)
<1> DEFINE c == Close(m, t)
<1>1. Core(c, b) /\ Alike(m, c) /\ c.free # <<>>
  BY CloseIs
<1> HIDE DEF c
<1>2. CanGet(c)
  BY <1>1 DEF CanGet, Drained
<1>3. Core(Take(c, b + 1), b + 1) /\ Alike(c, Take(c, b + 1)) /\ Taken(c) \in OpenIn(Take(c, b + 1))
  BY <1>1, <1>2, TakeIs
<1>4. Alike(m, Take(c, b + 1))
  BY <1>1, <1>3, AlikeChain
<1> QED BY <1>3, <1>4 DEF c

\* A handler keeps the table, whichever connections it closes and opens.
LEMMA HandledIs ==
  ASSUME NEW w \in Workers, NEW m, born \in Nat, Core(m, born), NEW s \in OpenIn(m), Handled(w, m, s)
  PROVE  /\ born' \in Nat /\ born <= born'
         /\ \E n : wk' = [wk EXCEPT ![w] = n] /\ Core(n, born') /\ Alike(m, n)
<1> DEFINE busy == Reusable(m, s, FALSE)
           peers == OpenIn(m) \ {s}
           Good == /\ born' \in Nat /\ born <= born'
                   /\ \E n : wk' = [wk EXCEPT ![w] = n] /\ Core(n, born') /\ Alike(m, n)
<1>1. Core(busy, born) /\ Alike(m, busy) /\ OpenIn(busy) = OpenIn(m)
  BY ReusableIs
<1>2. \/ Set(w, busy) /\ UNCHANGED born
      \/ Set(w, Reusable(m, s, TRUE)) /\ UNCHANGED born
      \/ Set(w, Close(m, s)) /\ UNCHANGED born
      \/ \E t \in peers : Set(w, Close(busy, t)) /\ UNCHANGED born
      \/ CanGet(busy) /\ Set(w, Take(busy, born + 1)) /\ born' = born + 1
      \/ \E t \in peers : Set(w, Take(Close(busy, t), born + 1)) /\ born' = born + 1
      \/ \E t \in peers :
          /\ Set(w, Take(Close(Take(Close(busy, t), born + 1), Taken(Close(busy, t))), born + 2))
          /\ born' = born + 2
  BY DEF Handled
<1> HIDE DEF busy
<1> SUFFICES Good
  OBVIOUS
<1>3. ASSUME NEW n, NEW i \in 0 .. 2, Set(w, n), Core(n, born + i), Alike(m, n), born' = born + i PROVE Good
  <2>1. born' \in Nat /\ born <= born'
    BY <1>3
  <2>2. Core(n, born') /\ wk' = [wk EXCEPT ![w] = n]
    BY <1>3 DEF Set
  <2> QED BY <2>1, <2>2, <1>3
<1>30. ASSUME NEW n, Set(w, n), Core(n, born), Alike(m, n), born' = born PROVE Good
  BY <1>3, <1>30
<1>31. ASSUME NEW n, Set(w, n), Core(n, born + 1), Alike(m, n), born' = born + 1 PROVE Good
  BY <1>3, <1>31
<1>32. ASSUME NEW n, Set(w, n), Core(n, born + 2), Alike(m, n), born' = born + 2 PROVE Good
  BY <1>3, <1>32
<1> HIDE DEF Good
<1>4. CASE Set(w, busy) /\ UNCHANGED born
  BY <1>1, <1>30, <1>4
<1>5. CASE Set(w, Reusable(m, s, TRUE)) /\ UNCHANGED born
  <2>1. Core(Reusable(m, s, TRUE), born) /\ Alike(m, Reusable(m, s, TRUE))
    BY ReusableIs
  <2> QED BY <2>1, <1>30, <1>5
<1>6. CASE Set(w, Close(m, s)) /\ UNCHANGED born
  <2>1. Core(Close(m, s), born) /\ Alike(m, Close(m, s))
    BY CloseIs
  <2> QED BY <2>1, <1>30, <1>6
<1>7. CASE \E t \in peers : Set(w, Close(busy, t)) /\ UNCHANGED born
  <2>1. PICK t \in peers : Set(w, Close(busy, t)) /\ UNCHANGED born
    BY <1>7
  <2>2. t \in OpenIn(busy)
    BY <1>1
  <2>3. Core(Close(busy, t), born) /\ Alike(busy, Close(busy, t))
    BY <2>2, <1>1, CloseIs
  <2>4. Alike(m, Close(busy, t))
    BY <1>1, <2>3, AlikeChain
  <2> QED BY <2>1, <2>3, <2>4, <1>30
<1>8. CASE CanGet(busy) /\ Set(w, Take(busy, born + 1)) /\ born' = born + 1
  <2>1. Core(Take(busy, born + 1), born + 1) /\ Alike(busy, Take(busy, born + 1))
    BY <1>1, <1>8, TakeIs
  <2>2. Alike(m, Take(busy, born + 1))
    BY <1>1, <2>1, AlikeChain
  <2> QED BY <2>1, <2>2, <1>31, <1>8
<1>9. CASE \E t \in peers : Set(w, Take(Close(busy, t), born + 1)) /\ born' = born + 1
  <2>1. PICK t \in peers : Set(w, Take(Close(busy, t), born + 1)) /\ born' = born + 1
    BY <1>9
  <2> DEFINE n == Take(Close(busy, t), born + 1)
  <2>2. t \in OpenIn(busy)
    BY <1>1
  <2>3. Core(n, born + 1) /\ Alike(busy, n)
    BY <2>2, <1>1, CloseTake
  <2> HIDE DEF n
  <2>4. Alike(m, n)
    BY <1>1, <2>3, AlikeChain
  <2>5. Set(w, n) /\ born' = born + 1
    BY <2>1 DEF n
  <2> QED BY <2>3, <2>4, <2>5, <1>31
<1>10. CASE \E t \in peers :
          /\ Set(w, Take(Close(Take(Close(busy, t), born + 1), Taken(Close(busy, t))), born + 2))
          /\ born' = born + 2
  <2>1. PICK t \in peers : /\ Set(w, Take(Close(Take(Close(busy, t), born + 1), Taken(Close(busy, t))), born + 2))
                           /\ born' = born + 2
    BY <1>10
  <2> DEFINE a == Take(Close(busy, t), born + 1)
             x == Taken(Close(busy, t))
             n == Take(Close(a, x), born + 1 + 1)
  <2>2. t \in OpenIn(busy)
    BY <1>1
  <2>3. Core(a, born + 1) /\ Alike(busy, a) /\ x \in OpenIn(a)
    BY <2>2, <1>1, CloseTake
  <2>4. Set(w, n) /\ born' = born + 2 /\ born + 1 + 1 = born + 2
    BY <2>1
  <2> HIDE DEF a, x
  <2>5. Core(n, born + 1 + 1) /\ Alike(a, n)
    BY <2>3, CloseTake
  <2> HIDE DEF n
  <2>6. Alike(m, a)
    BY <1>1, <2>3, AlikeChain
  <2>7. Alike(m, n)
    BY <2>5, <2>6, AlikeChain
  <2> QED BY <2>4, <2>5, <2>7, <1>32
<1> QED BY <1>2, <1>4, <1>5, <1>6, <1>7, <1>8, <1>9, <1>10

-----------------------------------------------------------------------------
(* The steps.                                                                *)
\* What a handler did to the table matters to nothing else.
LEMMA KeptAlike ==
  ASSUME NEW m, NEW n, NEW a, NEW b, NEW x, Kept(m, a, x), Core(n, b), Alike(m, n), m.st # "wait"
  PROVE  Kept(n, b, x) /\ n.st = m.st
<1>1. n.posted \in Seq(Slots) /\ Range(n.posted) \subseteq Range(m.posted)
  BY DEF Core, Table, Alike
<1>2. m.posted = <<>> => n.posted = <<>>
  <2> SUFFICES ASSUME m.posted = <<>>, n.posted # <<>> PROVE FALSE
    OBVIOUS
  <2>1. Range(m.posted) = {}
    BY DEF Range
  <2>2. 1 \in DOMAIN n.posted
    BY <1>1
  <2>3. n.posted[1] \in Range(n.posted)
    BY <2>2 DEF Range
  <2> QED BY <1>1, <2>1, <2>3
<1>3. Staged(n)
  BY <1>2 DEF Kept, Staged, Alike
<1>4. Mutexed(n, x)
  BY DEF Kept, Mutexed, Alike
<1> QED BY <1>3, <1>4 DEF Kept, Alike

\* One worker's step is none of the others'.
LEMMA WorkerStep ==
  ASSUME IInv, NEW w \in Workers, NEW n, wk' = [wk EXCEPT ![w] = n], born' \in Nat, born <= born',
         backlog' \in Nat, sc' \in ScenarioType, sc'.mutex = sc.mutex, lock' \in Workers \cup {Nobody},
         \A v \in Workers \ {w} : lock = v => lock' = v,
         Kept(n, born', sc.mutex), Owned(n, w, lock')
  PROVE  IInv'
<1>1. wk' = [v \in Workers |-> wk'[v]]
  BY DEF IInv
<1>2. ASSUME NEW v \in Workers PROVE Kept(wk'[v], born', sc'.mutex) /\ Owned(wk'[v], v, lock')
  <2>1. CASE v = w
    <3>1. wk'[v] = n
      BY <2>1 DEF IInv
    <3> QED BY <2>1, <3>1
  <2>2. CASE v # w
    <3>1. wk'[v] = wk[v]
      BY <2>2 DEF IInv
    <3>2. Kept(wk[v], born, sc.mutex) /\ Owned(wk[v], v, lock) /\ born \in Nat
      BY DEF IInv
    <3>3. Core(wk[v], born')
      BY <3>2, CoreGrows DEF Kept
    <3> QED BY <2>2, <3>1, <3>2, <3>3 DEF Kept, Owned
  <2> QED BY <2>1, <2>2
<1> QED BY <1>1, <1>2 DEF IInv

\* Fields of the memory other than the table.
LEMMA FieldsStill ==
  ASSUME NEW m, NEW n, NEW b, Core(m, b), Fields(n), n.conn = m.conn, n.free = m.free, n.queue = m.queue,
         n.batch = m.batch, n.posted = m.posted, n.taken = m.taken
  PROVE  Core(n, b)
<1>1. OpenIn(n) = OpenIn(m)
  BY DEF OpenIn
<1>2. Table(n, b)
  BY <1>1 DEF Core, Table
<1>3. \A t \in Slots : n.taken[t] = m.taken[t] /\ n.conn[t].num = m.conn[t].num /\ n.conn[t].inst = m.conn[t].inst
  OBVIOUS
<1>4. Batched(n)
  BY <1>3, BatchedStill DEF Core
<1> QED BY <1>2, <1>4 DEF Core

\* ngx_event_accept keeps the table, and gives up the mutex only if it has it.
LEMMA AcceptIs ==
  ASSUME NEW w \in Workers, NEW m, born \in Nat, backlog \in Nat, sc \in ScenarioType,
         Kept(m, born, sc.mutex), m.st # "wait", Accept(w, m)
  PROVE  /\ born' \in Nat /\ born <= born' /\ backlog' \in Nat
         /\ lock' = lock \/ (lock = w /\ lock' = Nobody)
         /\ \E n : wk' = [wk EXCEPT ![w] = n] /\ Kept(n, born', sc.mutex) /\ n.st = m.st
<1> DEFINE Good == /\ born' \in Nat /\ born <= born' /\ backlog' \in Nat
                   /\ lock' = lock \/ (lock = w /\ lock' = Nobody)
                   /\ \E n : wk' = [wk EXCEPT ![w] = n] /\ Kept(n, born', sc.mutex) /\ n.st = m.st
<1> SUFFICES Good
  OBVIOUS
<1>0. ASSUME NEW n, NEW b \in Nat, born <= b, born' = b, backlog' \in Nat,
             lock' = lock \/ (lock = w /\ lock' = Nobody), Set(w, n), Kept(n, b, sc.mutex), n.st = m.st
      PROVE  Good
  <2>1. wk' = [wk EXCEPT ![w] = n] /\ Kept(n, born', sc.mutex)
    BY <1>0 DEF Set
  <2> QED BY <2>1, <1>0
<1> HIDE DEF Good
<1>1. CASE backlog = 0 /\ Set(w, m) /\ UNCHANGED <<lock, backlog, born>>
  BY <1>0, <1>1
<1>2. CASE /\ lock' = IF sc.mutex /\ m.held /\ lock = w THEN Nobody ELSE lock
           /\ Set(w, [m EXCEPT !.listening = FALSE, !.held = FALSE, !.rearm = ~sc.mutex,
                         !.disabled = IF sc.mutex THEN 1 ELSE @])
           /\ UNCHANGED <<backlog, born>>
  <2> DEFINE d == IF sc.mutex THEN 1 ELSE m.disabled
             x == ~sc.mutex
             n == [m EXCEPT !.listening = FALSE, !.held = FALSE, !.rearm = x, !.disabled = d]
  <2>1. Set(w, n)
    BY <1>2
  <2>2. d \in -N .. Reserve + 1 /\ x \in BOOLEAN
    BY WorkerAssumption DEF Kept, Staged
  <2>3. x = ~sc.mutex
    OBVIOUS
  <2>30. n = [m EXCEPT !.listening = FALSE, !.held = FALSE, !.rearm = x, !.disabled = d]
    OBVIOUS
  <2> HIDE DEF d, x, n
  <2>4. /\ Fields(n) /\ n.conn = m.conn /\ n.free = m.free /\ n.queue = m.queue
        /\ n.batch = m.batch /\ n.posted = m.posted /\ n.taken = m.taken
        /\ n.listening = FALSE /\ n.held = FALSE /\ n.rearm = x /\ n.disabled = d /\ n.st = m.st /\ n.turn = m.turn
        /\ n.postedAccept = m.postedAccept /\ n.astray = m.astray /\ n.exiting = m.exiting
    BY <2>30 DEF Kept, Core, Fields
  <2>5. Core(n, born)
    BY <2>4, FieldsStill DEF Kept
  <2>6. Staged(n) /\ Mutexed(n, sc.mutex)
    BY <2>2, <2>3, <2>4 DEF Kept, Staged, Mutexed
  <2>7. Kept(n, born, sc.mutex) /\ n.st = m.st
    BY <2>4, <2>5, <2>6 DEF Kept
  <2>8. backlog' \in Nat /\ born' = born /\ (lock' = lock \/ (lock = w /\ lock' = Nobody))
    BY <1>2
  <2> QED BY <2>1, <2>7, <2>8, <1>0
<1>3. CASE /\ backlog > 0 /\ backlog' = backlog - 1 /\ UNCHANGED lock
           /\ LET d == [m EXCEPT !.disabled = Reserve - Len(m.free)] IN
              IF CanGet(d) /\ born < sc.numbers
              THEN Set(w, Reusable(Take(d, born + 1), Taken(d), TRUE)) /\ born' = born + 1
              ELSE Set(w, Drained(d)) /\ UNCHANGED born
  <2> DEFINE k == Reserve - Len(m.free)
             d == [m EXCEPT !.disabled = k]
  <2>1. k \in -N .. Reserve + 1
    <3>1. m.free \in Seq(1 .. N) /\ IsInjective(m.free)
      BY DEF Kept, Core, Table, ListOf, Slots
    <3>2. Len(m.free) \in Nat /\ Len(m.free) <= N
      BY <3>1, ShortList, WorkerAssumption
    <3> QED BY <3>2, WorkerAssumption
  <2>20. backlog' \in Nat /\ lock' = lock
    BY <1>3
  <2>2. /\ backlog' \in Nat /\ lock' = lock
        /\ \/ CanGet(d) /\ Set(w, Reusable(Take(d, born + 1), Taken(d), TRUE)) /\ born' = born + 1
           \/ Set(w, Drained(d)) /\ UNCHANGED born
    BY <1>3, <2>20, Zenon
  <2> HIDE DEF k
  <2>3. /\ Fields(d) /\ d.conn = m.conn /\ d.free = m.free /\ d.queue = m.queue
        /\ d.batch = m.batch /\ d.posted = m.posted /\ d.taken = m.taken
        /\ d.listening = m.listening /\ d.held = m.held /\ d.rearm = m.rearm /\ d.disabled = k /\ d.st = m.st /\ d.turn = m.turn
        /\ d.postedAccept = m.postedAccept /\ d.astray = m.astray /\ d.exiting = m.exiting
    BY DEF Kept, Core, Fields
  <2> HIDE DEF d
  <2>4. Core(d, born)
    BY <2>3, FieldsStill DEF Kept
  <2>5. Kept(d, born, sc.mutex) /\ d.st # "wait"
    BY <2>1, <2>3, <2>4 DEF Kept, Staged, Mutexed
  <2>6. CASE CanGet(d) /\ Set(w, Reusable(Take(d, born + 1), Taken(d), TRUE)) /\ born' = born + 1
    <3> DEFINE t == Take(d, born + 1)
               y == Taken(d)
               n == Reusable(t, y, TRUE)
    <3>1. Core(t, born + 1) /\ Alike(d, t) /\ y \in OpenIn(t) /\ born + 1 \in Nat /\ born <= born + 1
      BY <2>4, <2>6, TakeIs
    <3> HIDE DEF t, y
    <3>2. Core(n, born + 1) /\ Alike(t, n)
      BY <3>1, ReusableIs
    <3> HIDE DEF n
    <3>3. Alike(d, n)
      BY <3>1, <3>2, AlikeChain
    <3>4. Kept(n, born + 1, sc.mutex) /\ n.st = m.st
      BY <2>3, <2>5, <3>2, <3>3, KeptAlike
    <3>5. Set(w, n) /\ born' = born + 1
      BY <2>6 DEF n, t, y
    <3> QED BY <2>2, <3>1, <3>4, <3>5, <1>0
  <2>7. CASE Set(w, Drained(d)) /\ UNCHANGED born
    <3>1. Core(Drained(d), born) /\ Alike(d, Drained(d))
      BY <2>4, DrainedIs
    <3>2. Kept(Drained(d), born, sc.mutex) /\ Drained(d).st = m.st
      BY <2>3, <2>5, <3>1, KeptAlike
    <3> QED BY <2>2, <2>7, <3>2, <1>0
  <2> QED BY <2>2, <2>6, <2>7
<1> QED BY <1>1, <1>2, <1>3 DEF Accept

\* A worker that has just been started has a table of free slots.
LEMMA FreshIs ==
  ASSUME sc \in ScenarioType, NEW b \in Nat, NEW st \in {"loop", "left", "dead"}
  PROVE  LET n == [Fresh EXCEPT !.st = st] IN Kept(n, b, sc.mutex) /\ n.st = st
<1> DEFINE n == [Fresh EXCEPT !.st = st]
           f == [s \in Slots |-> s]
           c == [s \in Slots |-> Closed]
           t == [s \in Slots |-> 0]
           x == ~sc.mutex
<1>1. Slots = 1 .. N /\ N \in Nat \ {0} /\ Reserve \in Nat
  BY WorkerAssumption DEF Slots
<1>2. ListOf(f, Slots)
  <2>1. f \in Seq(Slots) /\ DOMAIN f = Slots /\ \A s \in Slots : f[s] = s
    BY <1>1
  <2>2. Range(f) = Slots
    BY <2>1 DEF Range
  <2> QED BY <2>1, <2>2 DEF ListOf, IsInjective
<1>3. c \in [Slots -> Conns(b)] /\ t \in [Slots -> Nat] /\ \A s \in Slots : ~c[s].open /\ ~c[s].reusable /\ t[s] = 0
  <2>1. Closed \in Conns(b) /\ ~Closed.open /\ ~Closed.reusable
    BY DEF Closed, Conns
  <2> QED BY <2>1
<1>40. Fresh = [st |-> "loop", held |-> FALSE, disabled |-> 0, listening |-> x, rearm |-> FALSE,
           turn |-> "sit", conn |-> c, free |-> f,
           queue |-> <<>>, batch |-> <<>>, postedAccept |-> FALSE, posted |-> <<>>,
           taken |-> t, astray |-> FALSE, exiting |-> FALSE]
  BY DEF Fresh
<1>5. x \in BOOLEAN /\ (sc.mutex => ~x)
  BY DEF ScenarioType
<1> HIDE DEF f, c, t, x
<1>4. n = [Fresh EXCEPT !.st = st]
  OBVIOUS
<1> HIDE DEF n
<1>6. /\ Fields(n) /\ n.conn = c /\ n.free = f /\ n.queue = <<>>
      /\ n.batch = <<>> /\ n.posted = <<>> /\ n.taken = t
      /\ n.listening = x /\ n.held = FALSE /\ n.rearm = FALSE /\ n.disabled = 0 /\ n.st = st /\ n.turn = "sit"
      /\ n.postedAccept = FALSE /\ n.astray = FALSE /\ n.exiting = FALSE
  BY <1>4, <1>40 DEF Fields
<1>7. OpenIn(n) = {}
  BY <1>3, <1>6 DEF OpenIn
<1>8. <<>> \in Seq(Slots) /\ IsInjective(<<>>) /\ Range(<<>>) = {} /\ <<>> \in Seq(Reports) /\ DOMAIN <<>> = {}
  BY DEF IsInjective, Range
<1>9. Table(n, b)
  <2>1. ListOf(n.free, Slots \ OpenIn(n))
    BY <1>2, <1>6, <1>7
  <2>2. ListOf(n.queue, {s \in OpenIn(n) : n.conn[s].reusable})
    BY <1>6, <1>7, <1>8 DEF ListOf
  <2> QED BY <2>1, <2>2, <1>3, <1>6, <1>7, <1>8 DEF Table
<1>10. Batched(n)
  BY <1>6, <1>8 DEF Batched
<1>11. Staged(n)
  <2>1. n.disabled \in -N .. Reserve + 1
    BY <1>1, <1>6
  <2>2. n.st \in Places /\ n.st \notin {"batch", "wait"}
    BY <1>6 DEF Places
  <2> QED BY <2>1, <2>2, <1>5, <1>6 DEF Staged
<1>12. Mutexed(n, sc.mutex)
  BY <1>5, <1>6 DEF Mutexed
<1> QED BY <1>6, <1>9, <1>10, <1>11, <1>12 DEF Kept, Core, n

\* The invariant holds when the workers have been started.
LEMMA InitIs ==
  ASSUME Init
  PROVE  IInv
<1>1. sc \in ScenarioType /\ lock = Nobody /\ backlog = 0 /\ born = 0
  BY WorkerAssumption DEF Init
<1>2. wk = [w \in Workers |-> IF w \in sc.workers THEN Fresh ELSE [Fresh EXCEPT !.st = "left"]]
  BY DEF Init
<1>3. Fresh = [Fresh EXCEPT !.st = "loop"]
  BY DEF Fresh
<1>4. ASSUME NEW w \in Workers PROVE Kept(wk[w], born, sc.mutex) /\ Owned(wk[w], w, lock)
  <2>1. PICK st \in {"loop", "left"} : wk[w] = [Fresh EXCEPT !.st = st]
    BY <1>2, <1>3, Zenon
  <2>2. Kept(wk[w], born, sc.mutex) /\ wk[w].st = st
    BY <1>1, <2>1, FreshIs
  <2> QED BY <2>2 DEF Owned
<1> QED BY <1>1, <1>2, <1>4 DEF IInv

\* What the inductive invariant says of one worker.
LEMMA WorkerIs ==
  ASSUME IInv, NEW w \in Workers
  PROVE  Kept(wk[w], born, sc.mutex) /\ Owned(wk[w], w, lock) /\ born \in Nat /\ backlog \in Nat /\ sc \in ScenarioType
BY DEF IInv

\* A step that leaves the table alone.
LEMMA ShiftStep ==
  ASSUME IInv, NEW w \in Workers, NEW n, Set(w, n), UNCHANGED <<backlog, born>>, sc' \in ScenarioType,
         sc'.mutex = sc.mutex, lock' \in Workers \cup {Nobody}, \A v \in Workers \ {w} : lock = v => lock' = v,
         Kept(n, born, sc.mutex), Owned(n, w, lock')
  PROVE  IInv'
<1>1. wk' = [wk EXCEPT ![w] = n] /\ born' \in Nat /\ born <= born' /\ backlog' \in Nat /\ born' = born
  BY DEF Set, IInv
<1>2. Kept(n, born', sc.mutex)
  BY <1>1
<1> QED BY <1>1, <1>2, WorkerStep

\* ngx_trylock_accept_mutex.
LEMMA TryLockIs ==
  ASSUME IInv, NEW w \in Workers, TryLock(w)
  PROVE  IInv'
<1> DEFINE m == wk[w]
           tries == sc.mutex /\ m.disabled <= 0 /\ ~m.exiting
           got == tries /\ lock = Nobody
           st == IF m.exiting /\ OpenIn(m) = {} /\ ~m.rearm THEN "left" ELSE "wait"
           tu == IF got THEN "own" ELSE IF tries THEN "nap" ELSE "sit"
           re == IF tries THEN FALSE ELSE m.rearm
           di == IF sc.mutex /\ m.disabled > 0 THEN m.disabled - 1 ELSE m.disabled
           he == IF tries THEN got ELSE m.held
           li == Listens(m, tries, got)
           ta == [s \in Slots |-> 0]
           n == [m EXCEPT !.st = st, !.turn = tu, !.rearm = re, !.disabled = di, !.held = he, !.listening = li, !.taken = ta]
<1>1. Kept(m, born, sc.mutex) /\ sc \in ScenarioType /\ lock \in Workers \cup {Nobody} /\ m.st = "loop" /\ sc.mutex \in BOOLEAN
  BY WorkerIs DEF IInv, TryLock, ScenarioType
<1>2. /\ Set(w, n) /\ lock' = (IF got THEN w ELSE lock) /\ UNCHANGED <<backlog, born, sc>>
  BY DEF TryLock
<1>3. /\ m.held \in BOOLEAN /\ m.listening \in BOOLEAN /\ m.rearm \in BOOLEAN /\ m.exiting \in BOOLEAN
      /\ m.disabled \in -N .. Reserve + 1 /\ m.posted = <<>> /\ m.batch = <<>> /\ m.astray = FALSE /\ m.postedAccept \in BOOLEAN
      /\ sc.mutex => (m.listening => m.held) /\ ~m.rearm
  BY <1>1 DEF Kept, Staged, Mutexed
<1>4. /\ tries \in BOOLEAN /\ got \in BOOLEAN /\ (got => tries) /\ (tries => sc.mutex)
  BY <1>1, <1>3
<1>5. di \in -N .. Reserve + 1
  BY <1>3, WorkerAssumption
<1>6. /\ st \in {"left", "wait"} /\ tu \in {"own", "nap", "sit"} /\ (tu = "own" => got) /\ (tu = "nap" => tries /\ ~got)
      /\ re \in BOOLEAN /\ he \in BOOLEAN /\ (sc.mutex => ~re)
  BY <1>3, <1>4
<1>7. li \in BOOLEAN /\ (sc.mutex => (li => he)) /\ (tries /\ ~got => ~li)
  BY <1>3, <1>4 DEF Listens
<1>8. n = [m EXCEPT !.st = st, !.turn = tu, !.rearm = re, !.disabled = di, !.held = he, !.listening = li, !.taken = ta]
  OBVIOUS
<1>9. ta \in [Slots -> Nat] /\ \A s \in Slots : ta[s] = 0
  OBVIOUS
<1>10. \A v \in Workers \ {w} : lock = v => lock' = v
  BY <1>2, WorkerAssumption
<1>11. lock' \in Workers \cup {Nobody} /\ (got => lock' = w)
  BY <1>1, <1>2
<1> HIDE DEF n, st, tu, re, di, he, li, ta, tries, got
<1>12. /\ Fields(n) /\ n.conn = m.conn /\ n.free = m.free /\ n.queue = m.queue
       /\ n.batch = m.batch /\ n.posted = m.posted /\ n.taken = ta
       /\ n.listening = li /\ n.held = he /\ n.rearm = re /\ n.disabled = di /\ n.st = st /\ n.turn = tu
       /\ n.postedAccept = m.postedAccept /\ n.astray = m.astray /\ n.exiting = m.exiting
  BY <1>1, <1>8 DEF Kept, Core, Fields
<1> HIDE DEF m
<1>13. Core(n, born)
  <2>1. OpenIn(n) = OpenIn(m)
    BY <1>12 DEF OpenIn
  <2>2. Table(n, born)
    BY <1>1, <1>9, <1>12, <2>1 DEF Kept, Core, Table
  <2>3. Batched(n)
    BY <1>3, <1>12 DEF Batched
  <2> QED BY <1>12, <2>2, <2>3 DEF Core
<1>14. Staged(n)
  BY <1>3, <1>5, <1>6, <1>7, <1>9, <1>12 DEF Staged, Places
<1>15. Mutexed(n, sc.mutex)
  BY <1>6, <1>7, <1>12 DEF Mutexed
<1>16. Owned(n, w, lock')
  BY <1>6, <1>11, <1>12 DEF Owned
<1>17. sc' \in ScenarioType /\ sc'.mutex = sc.mutex /\ UNCHANGED <<backlog, born>>
  BY <1>1, <1>2
<1> QED BY <1>2, <1>10, <1>11, <1>13, <1>14, <1>15, <1>16, <1>17, ShiftStep DEF Kept

\* epoll_wait reports what is true of a table in which nothing was taken yet.
LEMMA WaitIs ==
  ASSUME IInv, NEW w \in Workers, Wait(w)
  PROVE  IInv'
<1> DEFINE m == wk[w]
<1>1. Kept(m, born, sc.mutex) /\ Owned(m, w, lock) /\ sc \in ScenarioType /\ lock \in Workers \cup {Nobody} /\ m.st = "wait" /\ born \in Nat
  BY WorkerIs DEF IInv, Wait
<1>2. PICK f \in Batches(m) : Set(w, [m EXCEPT !.st = "batch", !.batch = [i \in DOMAIN f |-> Reported(m, f[i])]])
  BY Zenon DEF Wait
<1>3. PICK k \in 0 .. BatchMax : f \in [1 .. k -> Ready(m)]
  BY DEF Batches
<1>4. UNCHANGED <<lock, backlog, born, sc>>
  BY DEF Wait
<1> DEFINE q == [i \in 1 .. k |-> Reported(m, f[i])]
           n == [m EXCEPT !.st = "batch", !.batch = q]
<1>5. Set(w, n) /\ n = [m EXCEPT !.st = "batch", !.batch = q]
  BY <1>2, <1>3
<1>6. k \in Nat /\ q \in [1 .. k -> Reports] /\ \A i \in 1 .. k : q[i] = Reported(m, f[i]) /\ f[i] \in Slots \cup {0}
  <2>1. k \in Nat
    BY WorkerAssumption
  <2>2. ASSUME NEW s \in Ready(m) PROVE Reported(m, s) \in Reports /\ s \in Slots \cup {0}
    <3>1. s \in OpenIn(m) \/ s = 0
      BY DEF Ready, Listen
    <3>2. CASE s = 0
      <4>1. 0 \in 0 .. N /\ 0 \in Nat
        BY WorkerAssumption
      <4> QED BY <3>2, <4>1 DEF Reported, Reports, Listen
    <3>3. CASE s \in OpenIn(m)
      <4>1. s \in Slots /\ s \in 0 .. N /\ s # 0
        BY <3>3, WorkerAssumption DEF OpenIn, Slots
      <4>2. m.conn[s] \in Conns(born)
        BY <1>1, <4>1 DEF Kept, Core, Table
      <4>3. m.conn[s].inst \in {0, 1} /\ m.conn[s].num \in Nat
        BY <1>1, <4>2 DEF Conns
      <4> QED BY <4>1, <4>3 DEF Reported, Reports, Listen
    <3> QED BY <3>1, <3>2, <3>3
  <2> QED BY <1>3, <2>1, <2>2
<1>7. q \in Seq(Reports) /\ DOMAIN q = 1 .. k
  BY <1>6
<1> HIDE DEF n, q
<1>8. /\ Fields(n) /\ n.conn = m.conn /\ n.free = m.free /\ n.queue = m.queue
      /\ n.batch = q /\ n.posted = m.posted /\ n.taken = m.taken
      /\ n.listening = m.listening /\ n.held = m.held /\ n.rearm = m.rearm /\ n.disabled = m.disabled
      /\ n.st = "batch" /\ n.turn = m.turn
      /\ n.postedAccept = m.postedAccept /\ n.astray = m.astray /\ n.exiting = m.exiting
  BY <1>1, <1>5 DEF Kept, Core, Fields
<1>9. Table(n, born)
  <2>1. OpenIn(n) = OpenIn(m)
    BY <1>8 DEF OpenIn
  <2> QED BY <1>1, <1>8, <2>1 DEF Kept, Core, Table
<1>10. Batched(n)
  <2>1. ASSUME NEW i \in 1 .. k, q[i].slot # Listen
        PROVE  Recognised(n, q[i])
    <3>1. \A j \in 1 .. k : q[j].slot = f[j]
      BY <1>6 DEF Reported
    <3>2. q[i].slot \in Slots /\ q[i].inst = m.conn[f[i]].inst /\ q[i].num = m.conn[f[i]].num /\ q[i].slot = f[i]
      BY <1>6, <2>1, <3>1 DEF Reported, Listen
    <3>3. m.taken[f[i]] = 0
      BY <1>1, <3>2 DEF Kept, Staged
    <3> QED BY <1>8, <3>2, <3>3 DEF Recognised
  <2> QED BY <1>7, <1>8, <2>1 DEF Batched
<1>11. Staged(n) /\ Mutexed(n, sc.mutex) /\ Owned(n, w, lock')
  BY <1>1, <1>8 DEF Kept, Staged, Mutexed, Owned, Places
<1>12. Kept(n, born, sc.mutex)
  BY <1>8, <1>9, <1>10, <1>11 DEF Kept, Core
<1>13. /\ sc' \in ScenarioType /\ sc'.mutex = sc.mutex /\ UNCHANGED <<backlog, born>>
       /\ lock' \in Workers \cup {Nobody} /\ \A v \in Workers \ {w} : lock = v => lock' = v
  BY <1>1, <1>4
<1> QED BY <1>5, <1>11, <1>12, <1>13, ShiftStep

\* Steps that move a worker to another stage of its turn.
LEMMA StageIs ==
  ASSUME NEW m, NEW b, NEW x, Kept(m, b, x), NEW st \in {"acceptq", "expire", "posted", "loop"}, m.batch = <<>>,
         st = "loop" => m.posted = <<>>
  PROVE  LET n == [m EXCEPT !.st = st] IN Kept(n, b, x) /\ n.st = st
<1> DEFINE n == [m EXCEPT !.st = st]
<1>1. n = [m EXCEPT !.st = st]
  OBVIOUS
<1> HIDE DEF n
<1>2. /\ Fields(n) /\ n.conn = m.conn /\ n.free = m.free /\ n.queue = m.queue
      /\ n.batch = m.batch /\ n.posted = m.posted /\ n.taken = m.taken
      /\ n.listening = m.listening /\ n.held = m.held /\ n.rearm = m.rearm /\ n.disabled = m.disabled
      /\ n.st = st /\ n.turn = m.turn
      /\ n.postedAccept = m.postedAccept /\ n.astray = m.astray /\ n.exiting = m.exiting
  BY <1>1 DEF Kept, Core, Fields
<1>3. Core(n, b)
  BY <1>2, FieldsStill DEF Kept
<1>4. Staged(n) /\ Mutexed(n, x)
  BY <1>2 DEF Kept, Staged, Mutexed, Places
<1> QED BY <1>2, <1>3, <1>4 DEF Kept, n

\* The end of a batch: posted events next, then a new turn.
LEMMA EndBatchIs ==
  ASSUME IInv, NEW w \in Workers, EndBatch(w)
  PROVE  IInv'
<1> DEFINE n == [wk[w] EXCEPT !.st = "acceptq"]
<1>1. Kept(wk[w], born, sc.mutex)
  BY WorkerIs
<1>2. Kept(n, born, sc.mutex) /\ n.st = "acceptq"
  BY <1>1, StageIs DEF EndBatch
<1>3. Set(w, n) /\ UNCHANGED <<lock, backlog, born, sc>>
  BY DEF EndBatch
<1> HIDE DEF n
<1>4. Owned(n, w, lock')
  BY <1>2 DEF Owned
<1> QED BY <1>2, <1>3, <1>4, ShiftStep DEF IInv

\* The mutex is released by the worker that has it.
LEMMA UnlockIs ==
  ASSUME IInv, NEW w \in Workers, Unlock(w)
  PROVE  IInv'
<1> DEFINE n == [wk[w] EXCEPT !.st = "expire"]
<1>1. Kept(wk[w], born, sc.mutex) /\ wk[w].batch = <<>>
  BY WorkerIs DEF Unlock, Kept, Staged
<1>2. Kept(n, born, sc.mutex) /\ n.st = "expire"
  BY <1>1, StageIs
<1>3. Set(w, n) /\ UNCHANGED <<backlog, born, sc>> /\ lock' = IF wk[w].held /\ lock = w THEN Nobody ELSE lock
  BY DEF Unlock
<1> HIDE DEF n
<1>4. Owned(n, w, lock')
  BY <1>2 DEF Owned
<1>5. /\ lock' \in Workers \cup {Nobody} /\ \A v \in Workers \ {w} : lock = v => lock' = v
  BY <1>3 DEF IInv
<1> QED BY <1>2, <1>3, <1>4, <1>5, ShiftStep DEF IInv

\* The timers that ran out are all closed.
LEMMA EndExpireIs ==
  ASSUME IInv, NEW w \in Workers, EndExpire(w)
  PROVE  IInv'
<1> DEFINE n == [wk[w] EXCEPT !.st = "posted"]
<1>1. Kept(wk[w], born, sc.mutex) /\ wk[w].batch = <<>>
  BY WorkerIs DEF EndExpire, Kept, Staged
<1>2. Kept(n, born, sc.mutex) /\ n.st = "posted"
  BY <1>1, StageIs
<1>3. Set(w, n) /\ UNCHANGED <<lock, backlog, born, sc>>
  BY DEF EndExpire
<1> HIDE DEF n
<1>4. Owned(n, w, lock')
  BY <1>2 DEF Owned
<1> QED BY <1>2, <1>3, <1>4, ShiftStep DEF IInv

\* A connection that is closed outside of epoll_wait.
LEMMA CloseStep ==
  ASSUME IInv, NEW w \in Workers, NEW s \in OpenIn(wk[w]), wk[w].st # "wait",
         Set(w, Close(wk[w], s)), UNCHANGED <<lock, backlog, born, sc>>
  PROVE  IInv'
<1> DEFINE n == Close(wk[w], s)
<1>1. Kept(wk[w], born, sc.mutex) /\ born \in Nat
  BY WorkerIs
<1>2. Core(n, born) /\ Alike(wk[w], n)
  BY <1>1, CloseIs DEF Kept
<1>3. Set(w, n)
  OBVIOUS
<1> HIDE DEF n
<1>4. Kept(n, born, sc.mutex) /\ n.st = wk[w].st
  BY <1>1, <1>2, KeptAlike
<1>5. Owned(n, w, lock')
  BY <1>4 DEF Owned
<1> QED BY <1>3, <1>4, <1>5, ShiftStep DEF IInv

\* A timer runs out and its connection is closed, with the events posted for it.
LEMMA ExpireIs ==
  ASSUME IInv, NEW w \in Workers, Expire(w)
  PROVE  IInv'
BY CloseStep DEF Expire

\* ngx_close_idle_connections finds connections that are open.
LEMMA CloseIdleIs ==
  ASSUME IInv, NEW w \in Workers, CloseIdle(w)
  PROVE  IInv'
<1> DEFINE idle == {s \in Slots : wk[w].conn[s].reusable}
           n == [wk[w] EXCEPT !.st = "loop"]
<1>1. Kept(wk[w], born, sc.mutex) /\ wk[w].batch = <<>> /\ wk[w].posted = <<>> /\ wk[w].st = "shutdown"
  BY WorkerIs DEF CloseIdle, Kept, Staged
<1>2. CASE idle = {}
  <2>1. Kept(n, born, sc.mutex) /\ n.st = "loop"
    BY <1>1, StageIs
  <2>2. Set(w, n) /\ UNCHANGED <<lock, backlog, born, sc>>
    BY <1>2 DEF CloseIdle
  <2> HIDE DEF n
  <2>3. Owned(n, w, lock')
    BY <2>1 DEF Owned
  <2> QED BY <2>1, <2>2, <2>3, ShiftStep DEF IInv
<1>3. CASE idle # {}
  <2> DEFINE s == Min(idle)
  <2>1. idle \in SUBSET Nat
    BY WorkerAssumption DEF Slots
  <2>2. s \in idle
    BY <1>3, <2>1, MinIn
  <2>3. Set(w, Close(wk[w], s)) /\ UNCHANGED <<lock, backlog, born, sc>>
    BY <1>3 DEF CloseIdle
  <2> HIDE DEF s
  <2>4. s \in OpenIn(wk[w])
    BY <1>1, <2>2 DEF Kept, Core, Table, OpenIn
  <2> QED BY <1>1, <2>3, <2>4, CloseStep
<1> QED BY <1>2, <1>3

\* A handler that runs outside of epoll_wait.
LEMMA HandledStep ==
  ASSUME IInv, NEW w \in Workers, NEW m, Kept(m, born, sc.mutex), m.st # "wait", NEW s \in OpenIn(m),
         Handled(w, m, s), UNCHANGED <<lock, backlog, sc>>
  PROVE  IInv'
<1>1. born \in Nat /\ Core(m, born)
  BY DEF IInv, Kept
<1>2. born' \in Nat /\ born <= born'
  BY <1>1, HandledIs
<1>3. PICK n : wk' = [wk EXCEPT ![w] = n] /\ Core(n, born') /\ Alike(m, n)
  BY <1>1, HandledIs
<1>4. Kept(n, born', sc.mutex) /\ n.st = m.st
  BY <1>3, KeptAlike
<1>5. Owned(n, w, lock')
  BY <1>4 DEF Owned
<1>6. /\ backlog' \in Nat /\ sc' \in ScenarioType /\ sc'.mutex = sc.mutex /\ lock' \in Workers \cup {Nobody}
      /\ \A v \in Workers \ {w} : lock = v => lock' = v
  BY DEF IInv
<1> QED BY <1>2, <1>3, <1>4, <1>5, <1>6, WorkerStep

\* Whoever accepts keeps the table: a free slot is opened, reused ones are drained first.
LEMMA AcceptStep ==
  ASSUME IInv, NEW w \in Workers, NEW m, Kept(m, born, sc.mutex), m.st # "wait", Accept(w, m), UNCHANGED sc
  PROVE  IInv'
<1>1. born \in Nat /\ backlog \in Nat /\ sc \in ScenarioType
  BY DEF IInv
<1>2. born' \in Nat /\ born <= born' /\ backlog' \in Nat /\ (lock' = lock \/ (lock = w /\ lock' = Nobody))
  BY <1>1, AcceptIs
<1>3. PICK n : wk' = [wk EXCEPT ![w] = n] /\ Kept(n, born', sc.mutex) /\ n.st = m.st
  BY <1>1, AcceptIs
<1>4. Owned(n, w, lock')
  BY <1>3 DEF Owned
<1>5. /\ sc' \in ScenarioType /\ sc'.mutex = sc.mutex /\ lock' \in Workers \cup {Nobody}
      /\ \A v \in Workers \ {w} : lock = v => lock' = v
  BY <1>2 DEF IInv
<1> QED BY <1>2, <1>3, <1>4, <1>5, WorkerStep

\* The posted accept event of a worker that has the accept mutex.
LEMMA PostedAcceptIs ==
  ASSUME IInv, NEW w \in Workers, PostedAccept(w)
  PROVE  IInv'
<1> DEFINE m == wk[w]
           n == [m EXCEPT !.postedAccept = FALSE]
<1>1. Kept(m, born, sc.mutex) /\ m.st = "acceptq"
  BY WorkerIs DEF PostedAccept
<1>2. Accept(w, n) /\ UNCHANGED sc /\ n = [m EXCEPT !.postedAccept = FALSE]
  BY DEF PostedAccept
<1> HIDE DEF n, m
<1>3. /\ Fields(n) /\ n.conn = m.conn /\ n.free = m.free /\ n.queue = m.queue
      /\ n.batch = m.batch /\ n.posted = m.posted /\ n.taken = m.taken
      /\ n.listening = m.listening /\ n.held = m.held /\ n.rearm = m.rearm /\ n.disabled = m.disabled
      /\ n.st = m.st /\ n.turn = m.turn
      /\ n.postedAccept = FALSE /\ n.astray = m.astray /\ n.exiting = m.exiting
  BY <1>1, <1>2 DEF Kept, Core, Fields
<1>4. Core(n, born)
  BY <1>1, <1>3, FieldsStill DEF Kept
<1>5. Staged(n) /\ Mutexed(n, sc.mutex)
  BY <1>1, <1>3 DEF Kept, Staged, Mutexed
<1> QED BY <1>1, <1>2, <1>3, <1>4, <1>5, AcceptStep DEF Kept

\* Without the mutex the timer of accepting turns it on again.
LEMMA RearmIs ==
  ASSUME IInv, NEW w \in Workers, Rearm(w)
  PROVE  IInv'
<1> DEFINE m == wk[w]
           n == [m EXCEPT !.st = "posted", !.rearm = FALSE]
           k == [n EXCEPT !.listening = TRUE]
<1>1. Kept(m, born, sc.mutex) /\ m.st = "expire" /\ m.rearm /\ m.batch = <<>>
  BY WorkerIs DEF Rearm, Kept, Staged
<1>2. /\ UNCHANGED sc /\ n = [m EXCEPT !.st = "posted", !.rearm = FALSE]
      /\ k = [n EXCEPT !.listening = TRUE]
      /\ IF n.exiting THEN Set(w, n) /\ UNCHANGED <<lock, backlog, born>> ELSE Accept(w, k)
  BY DEF Rearm
<1>3. ~sc.mutex
  BY <1>1 DEF Kept, Mutexed
<1> HIDE DEF n, m, k
<1>4. /\ Fields(n) /\ n.conn = m.conn /\ n.free = m.free /\ n.queue = m.queue
      /\ n.batch = m.batch /\ n.posted = m.posted /\ n.taken = m.taken
      /\ n.listening = m.listening /\ n.held = m.held /\ n.rearm = FALSE /\ n.disabled = m.disabled
      /\ n.st = "posted" /\ n.turn = m.turn
      /\ n.postedAccept = m.postedAccept /\ n.astray = m.astray /\ n.exiting = m.exiting
  BY <1>1, <1>2 DEF Kept, Core, Fields
<1>5. Core(n, born)
  BY <1>1, <1>4, FieldsStill DEF Kept
<1>6. Staged(n) /\ Mutexed(n, sc.mutex)
  BY <1>1, <1>3, <1>4 DEF Kept, Staged, Mutexed, Places
<1>7. CASE n.exiting
  <2>1. Owned(n, w, lock') /\ Kept(n, born, sc.mutex)
    BY <1>4, <1>5, <1>6 DEF Owned, Kept
  <2> QED BY <1>2, <1>7, <2>1, ShiftStep DEF IInv
<1>8. CASE ~n.exiting
  <2>1. /\ Fields(k) /\ k.conn = n.conn /\ k.free = n.free /\ k.queue = n.queue
        /\ k.batch = n.batch /\ k.posted = n.posted /\ k.taken = n.taken
        /\ k.listening = TRUE /\ k.held = n.held /\ k.rearm = n.rearm /\ k.disabled = n.disabled
        /\ k.st = n.st /\ k.turn = n.turn
        /\ k.postedAccept = n.postedAccept /\ k.astray = n.astray /\ k.exiting = n.exiting
    BY <1>2, <1>4 DEF Fields
  <2>2. Core(k, born)
    BY <1>5, <2>1, FieldsStill
  <2>3. Staged(k) /\ Mutexed(k, sc.mutex)
    BY <1>3, <1>6, <2>1 DEF Staged, Mutexed
  <2>4. k.st # "wait"
    BY <1>4, <2>1
  <2> QED BY <1>2, <1>8, <2>2, <2>3, <2>4, AcceptStep DEF Kept
<1> QED BY <1>7, <1>8

\* The next posted event, of a connection that is open.
LEMMA PostedIs ==
  ASSUME IInv, NEW w \in Workers, Posted(w)
  PROVE  IInv'
<1> DEFINE m == wk[w]
           k == [m EXCEPT !.st = "loop"]
           n == [m EXCEPT !.posted = Tail(@)]
<1>1. Kept(m, born, sc.mutex) /\ m.st = "posted" /\ m.batch = <<>>
  BY WorkerIs DEF Posted, Kept, Staged
<1>2. UNCHANGED <<lock, backlog, sc>> /\ n = [m EXCEPT !.posted = Tail(m.posted)]
  BY DEF Posted
<1>3. CASE m.posted = <<>>
  <2>1. Kept(k, born, sc.mutex) /\ k.st = "loop"
    BY <1>1, <1>3, StageIs
  <2>2. Set(w, k) /\ UNCHANGED born
    BY <1>3 DEF Posted
  <2> HIDE DEF k
  <2>3. Owned(k, w, lock')
    BY <2>1 DEF Owned
  <2> QED BY <1>2, <2>1, <2>2, <2>3, ShiftStep DEF IInv
<1>4. CASE m.posted # <<>>
  <2> DEFINE s == Head(m.posted)
  <2>1. Handled(w, n, s)
    BY <1>4 DEF Posted
  <2>2. m.posted \in Seq(Slots) /\ IsInjective(m.posted) /\ Range(m.posted) \subseteq OpenIn(m)
    BY <1>1 DEF Kept, Core, Table
  <2>3. /\ Tail(m.posted) \in Seq(Slots) /\ IsInjective(Tail(m.posted)) /\ s \in OpenIn(m)
        /\ Range(Tail(m.posted)) \subseteq Range(m.posted)
    BY <1>4, <2>2, TakeFirst
  <2> HIDE DEF n, m, s
  <2>4. /\ Fields(n) /\ n.conn = m.conn /\ n.free = m.free /\ n.queue = m.queue
        /\ n.posted = Tail(m.posted) /\ n.taken = m.taken /\ n.batch = m.batch
        /\ Alike(m, n)
    BY <1>1, <1>2, <2>3 DEF Kept, Core, Fields, Alike
  <2>5. OpenIn(n) = OpenIn(m)
    BY <2>4 DEF OpenIn
  <2>6. Table(n, born)
    BY <1>1, <2>2, <2>3, <2>4, <2>5 DEF Kept, Core, Table
  <2>7. Batched(n)
    <3>1. \A t \in Slots : n.taken[t] = m.taken[t] /\ n.conn[t].num = m.conn[t].num /\ n.conn[t].inst = m.conn[t].inst
      BY <2>4
    <3> QED BY <1>1, <2>3, <2>4, <3>1, BatchedStill DEF Kept, Core
  <2>8. Core(n, born)
    BY <2>4, <2>6, <2>7 DEF Core
  <2>9. Kept(n, born, sc.mutex) /\ n.st = m.st
    BY <1>1, <2>4, <2>8, KeptAlike
  <2> QED BY <1>1, <1>2, <2>1, <2>3, <2>5, <2>9, HandledStep
<1> QED BY <1>3, <1>4

\* ngx_close_listening_sockets.
LEMMA ShutdownIs ==
  ASSUME IInv, NEW w \in Workers, Shutdown(w)
  PROVE  IInv'
<1> DEFINE m == wk[w]
           n == [m EXCEPT !.st = "shutdown", !.exiting = TRUE, !.held = FALSE, !.listening = FALSE]
<1>1. Kept(m, born, sc.mutex) /\ m.st = "loop" /\ sc \in ScenarioType
  BY WorkerIs DEF Shutdown
<1>2. /\ UNCHANGED <<lock, backlog, born>> /\ Set(w, n) /\ sc' = [sc EXCEPT !.quits = @ - 1] /\ sc.quits > 0
      /\ n = [m EXCEPT !.st = "shutdown", !.exiting = TRUE, !.held = FALSE, !.listening = FALSE]
  BY DEF Shutdown
<1> HIDE DEF n, m
<1>3. /\ Fields(n) /\ n.conn = m.conn /\ n.free = m.free /\ n.queue = m.queue
      /\ n.batch = m.batch /\ n.posted = m.posted /\ n.taken = m.taken
      /\ n.listening = FALSE /\ n.held = FALSE /\ n.rearm = m.rearm /\ n.disabled = m.disabled
      /\ n.st = "shutdown" /\ n.turn = m.turn
      /\ n.postedAccept = m.postedAccept /\ n.astray = m.astray /\ n.exiting = TRUE
  BY <1>1, <1>2 DEF Kept, Core, Fields
<1>4. Core(n, born)
  BY <1>1, <1>3, FieldsStill DEF Kept
<1>5. Staged(n) /\ Mutexed(n, sc.mutex) /\ Owned(n, w, lock')
  BY <1>1, <1>3 DEF Kept, Staged, Mutexed, Places, Owned
<1>6. sc' \in ScenarioType /\ sc'.mutex = sc.mutex
  BY <1>1, <1>2 DEF ScenarioType
<1> QED BY <1>2, <1>4, <1>5, <1>6, ShiftStep DEF IInv, Kept

\* A client connects: the backlog grows.
LEMMA ConnectIs ==
  ASSUME IInv, Connect
  PROVE  IInv'
<1>1. /\ sc' \in ScenarioType /\ sc'.mutex = sc.mutex /\ backlog' \in Nat
  BY DEF IInv, Connect, ScenarioType
<1>2. UNCHANGED <<lock, wk, born>>
  BY DEF Connect
<1> QED BY <1>1, <1>2 DEF IInv

\* A worker dies; the master frees the mutex if it was the one that had it.
LEMMA CrashIs ==
  ASSUME IInv, NEW w \in Workers, Crash(w)
  PROVE  IInv'
<1> DEFINE n == [Fresh EXCEPT !.st = "dead"]
<1>1. Kept(n, born, sc.mutex) /\ n.st = "dead"
  BY FreshIs DEF IInv
<1>2. UNCHANGED <<lock, backlog, born>> /\ Set(w, n)
  BY DEF Crash
<1>3. sc' \in ScenarioType /\ sc'.mutex = sc.mutex
  BY DEF IInv, Crash, ScenarioType
<1> HIDE DEF n
<1>4. Owned(n, w, lock')
  BY <1>1 DEF Owned
<1> QED BY <1>1, <1>2, <1>3, <1>4, ShiftStep DEF IInv

\* The master releases the mutex of a dead worker, and of no other.
LEMMA RespawnIs ==
  ASSUME IInv, NEW w \in Workers, Respawn(w)
  PROVE  IInv'
<1> DEFINE n == [Fresh EXCEPT !.st = "loop"]
<1>1. Kept(n, born, sc.mutex) /\ n.st = "loop"
  BY FreshIs DEF IInv
<1>2. n = Fresh
  BY DEF Fresh
<1>3. UNCHANGED <<backlog, born, sc>> /\ Set(w, n) /\ lock' = IF lock = w THEN Nobody ELSE lock
  BY <1>2 DEF Respawn, ForceUnlock
<1> HIDE DEF n
<1>4. Owned(n, w, lock')
  BY <1>1 DEF Owned
<1>5. lock' \in Workers \cup {Nobody} /\ \A v \in Workers \ {w} : lock = v => lock' = v
  BY <1>3 DEF IInv
<1> QED BY <1>1, <1>3, <1>4, <1>5, ShiftStep DEF IInv

\* The next event of the batch: what is left stays recognised, and an event
\* that is not stale is of the connection the slot has.
LEMMA DeliverIs ==
  ASSUME IInv, NEW w \in Workers, Deliver(w)
  PROVE  IInv'
<1> DEFINE o == wk[w]
           e == Head(o.batch)
           m == [o EXCEPT !.batch = Tail(@)]
<1>1. /\ Kept(o, born, sc.mutex) /\ o.st = "batch" /\ o.batch # <<>> /\ born \in Nat /\ UNCHANGED sc
      /\ sc \in ScenarioType
  BY WorkerIs DEF Deliver
<1>2. m = [o EXCEPT !.batch = Tail(o.batch)]
  OBVIOUS
<1> DEFINE mixed == ~IsStale(m, e) /\ m.conn[e.slot].num # e.num /\ m.taken[e.slot] <= 1
           a == o.astray \/ mixed
           p == [m EXCEPT !.posted = IF e.slot \in Range(@) THEN @ ELSE Append(@, e.slot), !.astray = @ \/ mixed]
           h == [m EXCEPT !.astray = @ \/ mixed]
           l == [m EXCEPT !.postedAccept = TRUE]
<1>3. \/ e.slot = Listen /\ Set(w, l) /\ UNCHANGED <<lock, backlog, born>>
      \/ e.slot = Listen /\ Accept(w, m)
      \/ Set(w, m) /\ UNCHANGED <<lock, backlog, born>>
      \/ e.slot # Listen /\ ~IsStale(m, e) /\ Set(w, p) /\ UNCHANGED <<lock, backlog, born>>
      \/ e.slot # Listen /\ ~IsStale(m, e) /\ Handled(w, h, e.slot) /\ UNCHANGED <<lock, backlog>>
  BY Zenon DEF Deliver
<1>4. /\ o.batch \in Seq(Reports) /\ Batched(o)
      /\ e = o.batch[1] /\ 1 \in DOMAIN o.batch /\ e \in Reports
      /\ Tail(o.batch) \in Seq(Reports) /\ Len(Tail(o.batch)) = Len(o.batch) - 1 /\ Len(o.batch) \in Nat
      /\ \A i \in DOMAIN Tail(o.batch) : i \in Nat \ {0} /\ i + 1 \in DOMAIN o.batch /\ Tail(o.batch)[i] = o.batch[i + 1]
  <2>1. o.batch \in Seq(Reports) /\ Batched(o)
    BY <1>1 DEF Kept, Core, Batched
  <2> QED BY <1>1, <2>1
<1> HIDE DEF m, o
<1>5. /\ Fields(m) /\ m.conn = o.conn /\ m.free = o.free /\ m.queue = o.queue
      /\ m.batch = Tail(o.batch) /\ m.posted = o.posted /\ m.taken = o.taken
      /\ m.listening = o.listening /\ m.held = o.held /\ m.rearm = o.rearm /\ m.disabled = o.disabled
      /\ m.st = "batch" /\ m.turn = o.turn
      /\ m.postedAccept = o.postedAccept /\ m.astray = FALSE /\ m.exiting = o.exiting
  BY <1>1, <1>2 DEF Kept, Core, Fields, Staged
<1>6. Table(m, born) /\ OpenIn(m) = OpenIn(o)
  <2>1. OpenIn(m) = OpenIn(o)
    BY <1>5 DEF OpenIn
  <2> QED BY <1>1, <1>5, <2>1 DEF Kept, Core, Table
<1>7. \A i \in DOMAIN m.batch : m.batch[i].slot # Listen => Recognised(m, m.batch[i])
  <2> SUFFICES ASSUME NEW i \in DOMAIN m.batch, m.batch[i].slot # Listen
               PROVE  Recognised(m, m.batch[i])
    OBVIOUS
  <2>1. i + 1 \in DOMAIN o.batch /\ m.batch[i] = o.batch[i + 1]
    BY <1>4, <1>5
  <2>2. Recognised(o, o.batch[i + 1])
    BY <2>1, <1>4 DEF Batched
  <2> QED BY <2>1, <2>2, <1>5 DEF Recognised
<1>8. Core(m, born)
  BY <1>4, <1>5, <1>6, <1>7 DEF Core, Batched
<1>9. Kept(m, born, sc.mutex) /\ m.st # "wait"
  BY <1>1, <1>5, <1>8 DEF Kept, Staged, Mutexed
<1>10. CASE e.slot = Listen /\ Set(w, l) /\ UNCHANGED <<lock, backlog, born>>
  <2>1. l = [m EXCEPT !.postedAccept = TRUE]
    OBVIOUS
  <2> HIDE DEF l
  <2>2. /\ Fields(l) /\ l.conn = m.conn /\ l.free = m.free /\ l.queue = m.queue
        /\ l.batch = m.batch /\ l.posted = m.posted /\ l.taken = m.taken
        /\ l.listening = m.listening /\ l.held = m.held /\ l.rearm = m.rearm /\ l.disabled = m.disabled
        /\ l.st = m.st /\ l.turn = m.turn
        /\ l.postedAccept = TRUE /\ l.astray = m.astray /\ l.exiting = m.exiting
    BY <1>5, <2>1 DEF Fields
  <2>3. Core(l, born)
    BY <1>8, <2>2, FieldsStill
  <2>4. Staged(l) /\ Mutexed(l, sc.mutex) /\ Owned(l, w, lock')
    BY <1>9, <2>2 DEF Kept, Staged, Mutexed, Owned
  <2> QED BY <1>1, <1>10, <2>3, <2>4, ShiftStep DEF Kept, IInv
<1>11. CASE e.slot = Listen /\ Accept(w, m)
  BY <1>1, <1>9, <1>11, AcceptStep
<1>12. CASE Set(w, m) /\ UNCHANGED <<lock, backlog, born>>
  <2>1. Owned(m, w, lock')
    BY <1>9 DEF Owned
  <2> QED BY <1>1, <1>9, <1>12, <2>1, ShiftStep DEF IInv
<1> DEFINE s == e.slot
<1>13. ASSUME s # Listen, ~IsStale(m, e) PROVE s \in OpenIn(m) /\ ~mixed /\ s \in Slots
  <2>1. Recognised(o, e)
    BY <1>4, <1>13 DEF Batched
  <2>2. s \in Slots
    BY <1>4, <1>13, WorkerAssumption DEF Reports, Listen, Slots
  <2>3. m.conn[s].open /\ m.conn[s].inst = e.inst
    BY <1>13 DEF IsStale
  <2>4. o.taken[s] \in Nat
    BY <1>1, <2>2 DEF Kept, Core, Table
  <2>5. o.taken[s] <= 1 => o.taken[s] = 0 \/ o.taken[s] = 1
    BY <2>4
  <2>6. ~mixed
    BY <1>5, <2>1, <2>3, <2>5 DEF Recognised
  <2> QED BY <1>5, <2>1, <2>2, <2>3, <2>6 DEF OpenIn
<1>14. CASE s # Listen /\ ~IsStale(m, e) /\ Set(w, p) /\ UNCHANGED <<lock, backlog, born>>
  <2>1. s \in OpenIn(m) /\ ~mixed /\ s \in Slots
    BY <1>13, <1>14
  <2> DEFINE q == IF s \in Range(m.posted) THEN m.posted ELSE Append(m.posted, s)
  <2>2. p = [m EXCEPT !.posted = q, !.astray = FALSE]
    BY <2>1, <1>5
  <2>3. m.posted \in Seq(Slots) /\ IsInjective(m.posted) /\ Range(m.posted) \subseteq OpenIn(m)
    BY <1>6 DEF Table
  <2>4. q \in Seq(Slots) /\ IsInjective(q) /\ Range(q) = Range(m.posted) \cup {s}
    BY <2>1, <2>3, PutLast
  <2>5. Set(w, p)
    BY <1>14
  <2> HIDE DEF p, q, mixed
  <2>6. /\ Fields(p) /\ p.conn = m.conn /\ p.free = m.free /\ p.queue = m.queue
        /\ p.batch = m.batch /\ p.posted = q /\ p.taken = m.taken
        /\ p.listening = m.listening /\ p.held = m.held /\ p.rearm = m.rearm /\ p.disabled = m.disabled
        /\ p.st = m.st /\ p.turn = m.turn
        /\ p.postedAccept = m.postedAccept /\ p.astray = FALSE /\ p.exiting = m.exiting
    BY <1>5, <2>2 DEF Fields
  <2>7. OpenIn(p) = OpenIn(m)
    BY <2>6 DEF OpenIn
  <2>8. Table(p, born)
    BY <1>6, <2>1, <2>3, <2>4, <2>6, <2>7 DEF Table
  <2>9. Batched(p)
    <3>1. p.batch \in Seq(Reports)
      BY <1>4, <1>5, <2>6
    <3>2. ASSUME NEW i \in DOMAIN p.batch, p.batch[i].slot # Listen
          PROVE  Recognised(p, p.batch[i])
      BY <1>7, <2>6, <3>2 DEF Recognised
    <3> QED BY <3>1, <3>2 DEF Batched
  <2>10. Staged(p) /\ Mutexed(p, sc.mutex) /\ Owned(p, w, lock')
    BY <1>5, <1>9, <2>6 DEF Kept, Staged, Mutexed, Owned
  <2>11. Kept(p, born, sc.mutex)
    BY <2>6, <2>8, <2>9, <2>10 DEF Kept, Core
  <2> QED BY <1>1, <1>14, <2>5, <2>10, <2>11, ShiftStep DEF IInv
<1>15. CASE s # Listen /\ ~IsStale(m, e) /\ Handled(w, h, s) /\ UNCHANGED <<lock, backlog>>
  <2>1. s \in OpenIn(m) /\ ~mixed
    BY <1>13, <1>15
  <2>2. h = m
    <3>1. h = [m EXCEPT !.astray = FALSE]
      BY <2>1, <1>5
    <3> HIDE DEF h
    <3> QED BY <3>1, <1>5 DEF Fields
  <2> QED BY <1>1, <1>9, <1>15, <2>1, <2>2, HandledStep
<1> QED BY <1>3, <1>10, <1>11, <1>12, <1>14, <1>15

-----------------------------------------------------------------------------
(* The invariant.                                                            *)
\* Every step keeps the invariant.
LEMMA NextIs ==
  ASSUME IInv, [Next]_vars
  PROVE  IInv'
<1>1. CASE UNCHANGED vars
  BY <1>1 DEF vars, IInv
<1>2. CASE Connect
  BY <1>2, ConnectIs
<1>3. ASSUME NEW w \in Workers, Turn(w) \/ Shutdown(w) \/ Crash(w) \/ Respawn(w) PROVE IInv'
  BY <1>3, TryLockIs, WaitIs, DeliverIs, EndBatchIs, PostedAcceptIs, UnlockIs, ExpireIs, RearmIs, EndExpireIs,
     PostedIs, CloseIdleIs, ShutdownIs, CrashIs, RespawnIs DEF Turn
<1> QED BY <1>1, <1>2, <1>3 DEF Next

\* The invariant says what the module promises.
LEMMA IInvIsInv ==
  ASSUME IInv
  PROVE  Inv
<1>1. ASSUME NEW w \in Workers
      PROVE  /\ wk[w].conn \in [Slots -> ConnType] /\ wk[w].disabled \in -N .. Reserve + 1
             /\ \A q \in {wk[w].free, wk[w].queue, wk[w].posted} : Range(q) \subseteq Slots /\ IsInjective(q)
             /\ Range(wk[w].free) = Slots \ OpenIn(wk[w])
             /\ Range(wk[w].queue) = {s \in OpenIn(wk[w]) : wk[w].conn[s].reusable}
             /\ Range(wk[w].posted) \subseteq OpenIn(wk[w])
  <2>1. Table(wk[w], born) /\ Staged(wk[w])
    BY DEF IInv, Kept, Core
  <2>2. OpenIn(wk[w]) \subseteq Slots
    BY DEF OpenIn
  <2>3. Conns(born) = ConnType
    BY DEF Conns, ConnType
  <2> QED BY <2>1, <2>2, <2>3 DEF Table, ListOf, Staged
<1>2. TypeOK /\ SlotsFit
  BY <1>1 DEF IInv, TypeOK, SlotsFit
<1>3. OneListens
  BY DEF IInv, OneListens, Kept, Mutexed, Owned, Staged
<1>4. NotAstray
  BY DEF IInv, NotAstray, Kept, Staged
<1> QED BY <1>2, <1>3, <1>4 DEF Inv

\* For any workers, slots and batches: whatever the handlers of a batch close
\* and open, a slot is open or free, once, and what is reusable or posted is
\* open (ngx_free_connection); no event is handled for the connection that took
\* the slot of the one it was of (the instance bit of ngx_epoll_process_events);
\* who listens owns the accept mutex or sits out a turn.
THEOREM LoopIsSafe == Spec => []Inv
<1>1. Init => IInv
  BY InitIs
<1>2. IInv /\ [Next]_vars => IInv'
  BY NextIs
<1>3. IInv => Inv
  BY IInvIsInv
<1> QED BY <1>1, <1>2, <1>3, PTL DEF Spec
=============================================================================
