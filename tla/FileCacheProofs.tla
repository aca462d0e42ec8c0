-------------------------- MODULE FileCacheProofs --------------------------
(***************************************************************************)
(* Proofs about module FileCache, for any setup and any number of requests: *)
(* nodes in the shared memory count exactly those that hold them, one        *)
(* request at a time has the lock of a node, and the size and the files on   *)
(* the disk are those of the nodes.                                          *)
(*                                                                         *)
(* The invariant is stated of a world, the record that the operators of     *)
(* FileCache work on, so that what each of them keeps can be a lemma.       *)
(***************************************************************************)
EXTENDS FileCache, ListProofs

Processes == Requests \union {Manager}

Typed(w) ==
  /\ w = [pc |-> w.pc, req |-> w.req, nodes |-> w.nodes, queue |-> w.queue, sh |-> w.sh, disk |-> w.disk, del |-> w.del,
          mgr |-> w.mgr, todo |-> w.todo, upset |-> w.upset, robbed |-> w.robbed, rc |-> w.rc]
  /\ w.pc \in [Requests -> States] /\ w.req \in [Requests -> Requested]
  /\ w.nodes \in [Slots -> Nodes] /\ w.queue \in Seq(Slots) /\ w.disk \in [Keys -> Files]
  /\ w.del \in [Processes -> Deletions]
  /\ w.mgr \in {"idle", "expire", "check", "force"} /\ w.todo \subseteq Keys
  /\ w.upset \in BOOLEAN /\ w.robbed \subseteq Slots

\* The count of a node is the number of those that point to it; what they point
\* to is a node, and that of their key.
Counted(w) == \A i \in Slots : w.nodes[i].count = Cardinality(At(w.req, i)) + Cardinality(At(w.del, i))
Named(w) ==
  /\ \A r \in Requests : w.req[r].node # 0 => w.nodes[w.req[r].node].key = w.req[r].key
  /\ \A p \in Processes : w.del[p].node # 0 => w.nodes[w.del[p].node].key # 0
Used(w) == {i \in Slots : w.nodes[i].key # 0}
Queued(w) == IsInjective(w.queue) /\ Range(w.queue) = Used(w)

\* A lock that was not robbed is the node's, and one request's.
Locked(w) ==
  \A r \in Requests : HasLock(w, r) /\ w.req[r].node \notin w.robbed =>
    /\ w.nodes[w.req[r].node].updating /\ w.nodes[w.req[r].node].lockTime = w.req[r].lockTime
    /\ \A s \in Requests : HasLock(w, s) /\ w.req[s].node = w.req[r].node => s = r
Sound(w) == Typed(w) /\ Counted(w) /\ Named(w) /\ Queued(w) /\ Locked(w)

\* What a request may have, by where it is.
Asking == {"exists", "evict", "retry", "open", "judge", "lock", "wait"}
Using == {"open", "judge", "lock", "wait", "fetch", "pipe", "update"}
Rests(w, r) ==
  /\ w.pc[r] \in {"none", "evict", "retry", "done"} => w.req[r].node = 0
  /\ w.pc[r] \in Using => w.req[r].node # 0
  /\ w.pc[r] = "done" => ~w.req[r].temp
  /\ w.pc[r] \in Asking \union {"none"} => ~w.req[r].updating
  /\ w.pc[r] \notin {"send", "done", "dead"} => ~w.req[r].updated
  /\ w.pc[r] # "dead" /\ w.req[r].updated => w.req[r].node = 0
  /\ w.pc[r] \notin {"retry", "dead"} => w.del[r].node = 0
Kin(w, r) ==
  /\ w.pc[r] # "none" /\ ~w.req[r].sub => r <= setup.requests
  /\ setup.background /\ r <= setup.requests /\ w.pc[r] \notin {"send", "done", "dead"} /\ Sub(r) \in Requests
       => w.pc[Sub(r)] = "none"
AllPlaced(w) ==
  /\ \A r \in Requests : Rests(w, r) /\ Kin(w, r)
  /\ w.mgr = "force" => w.del[Manager].node = 0

IInv == setup \in Setups /\ now \in Nat /\ Sound(World) /\ AllPlaced(World)

-----------------------------------------------------------------------------
(* The setup.                                                                *)
Wellset ==
  /\ setup.slots \in Nat \ {0} /\ setup.minUses \in Nat \ {0} /\ setup.requests \in Nat
  /\ setup.timeout \in Nat /\ setup.age \in Nat /\ setup.inactive \in Nat /\ now \in Nat
  /\ setup.background => setup.requests <= 2
  /\ Slots \subseteq Nat \ {0} /\ Keys \subseteq Nat \ {0}
  /\ \A k \in setup.kinds : k.key \in Keys /\ Variant(k) \in Keys
  /\ \A a \in setup.answers : a.fs \in Nat /\ a.till \in Nat /\ a.vary \in BOOLEAN
  /\ IsFiniteSet(Requests) /\ Requests \subseteq Nat \ {0} /\ IsFiniteSet(Processes)

\* What the assumptions on Setups and Requests say of the setup that runs.
LEMMA SetupIsWellset ==
  ASSUME setup \in Setups, now \in Nat
  PROVE  Wellset
<1>1. /\ setup.slots \in Nat \ {0} /\ setup.minUses \in Nat \ {0} /\ setup.requests \in Nat
      /\ setup.timeout \in Nat /\ setup.age \in Nat /\ setup.inactive \in Nat
      /\ setup.background => setup.requests <= 2
      /\ \A a \in setup.answers : a.fs \in Nat /\ a.till \in Nat /\ a.vary \in BOOLEAN
  BY FileCacheAssumption
<1>2. \A k \in setup.kinds : k.key \in Nat \ {0} /\ k.hdr \in Nat
  BY FileCacheAssumption
<1>3. \A k \in setup.kinds : Variant(k) \in Nat \ {0}
  BY <1>2 DEF Variant
<1>4. Keys \subseteq Nat \ {0} /\ \A k \in setup.kinds : k.key \in Keys /\ Variant(k) \in Keys
  BY <1>2, <1>3 DEF Keys, KeysOf
<1>5. IsFiniteSet(Processes)
  BY RequestsAssumption, FS_AddElement DEF Processes
<1> QED BY <1>1, <1>4, <1>5, RequestsAssumption DEF Wellset, Slots

-----------------------------------------------------------------------------
(* What the operators do to a world.                                         *)
\* A world that is like another in all that the invariant speaks of.
SameNode(m, n) == m.key = n.key /\ m.count = n.count /\ m.updating = n.updating /\ m.lockTime = n.lockTime
SameHold(c, d) ==
  /\ c.node = d.node /\ c.key = d.key /\ c.updating = d.updating /\ c.lockTime = d.lockTime
  /\ c.secondary = d.secondary /\ c.kind = d.kind
\* The same for what the accounts go by.
SameFile(m, n) == m.key = n.key /\ m.exists = n.exists /\ m.deleting = n.deleting /\ m.fs = n.fs
SameAsk(c, d) == c.key = d.key /\ c.status = d.status /\ c.file = d.file
SameBooks(w, v) == v.sh = w.sh /\ v.disk = w.disk /\ v.todo = w.todo /\ v.upset = w.upset
Emptied(m, n) == SameFile(m, n) \/ (~m.exists /\ n = Free)
Idly(w, v) == SameBooks(w, v) /\ v.del = w.del /\ \A i \in Slots : Emptied(w.nodes[i], v.nodes[i])
\* A process starts to delete the file of node i.
GivesUp(w, v, p, i) ==
  /\ w.nodes[i].count = 0 /\ w.nodes[i].exists /\ v.nodes[i].deleting
  /\ v.nodes[i].key = w.nodes[i].key /\ v.nodes[i].exists /\ v.nodes[i].fs = w.nodes[i].fs
  /\ \A j \in Slots \ {i} : SameFile(w.nodes[j], v.nodes[j])
  /\ v.del[p] = [node |-> i, gone |-> FALSE]
  /\ v.sh = [w.sh EXCEPT !.size = @ - w.nodes[i].fs]
  /\ v.disk = w.disk /\ v.todo = w.todo /\ v.upset = w.upset
Alike(w, v) ==
  /\ \A i \in Slots : SameNode(w.nodes[i], v.nodes[i])
  /\ \A r \in Requests : SameHold(w.req[r], v.req[r])
  /\ \A p \in Processes : w.del[p].node = v.del[p].node
  /\ v.robbed = w.robbed

\* What holds a node holds one of the slab's, and a request is for a real key.
LEMMA NodePlace ==
  ASSUME Wellset, NEW w, Typed(w)
  PROVE  /\ \A r \in Requests : w.req[r].node # 0 => w.req[r].node \in Slots
         /\ \A p \in Processes : w.del[p].node # 0 => w.del[p].node \in Slots
         /\ DOMAIN w.req = Requests /\ DOMAIN w.del = Processes
         /\ IsFiniteSet(Requests) /\ IsFiniteSet(Processes)
         /\ \A r \in Requests : w.req[r].key # 0
<1>1. \A r \in Requests : w.req[r].node \in Slots \union {0} /\ w.req[r].key \in Keys
  BY DEF Typed, Requested
<1>2. \A p \in Processes : w.del[p].node \in Slots \union {0}
  BY DEF Typed, Deletions
<1> QED BY <1>1, <1>2 DEF Wellset, Typed

\* A change of what the invariant does not speak of (uses, lengths, flags of the node) keeps it.
LEMMA AlikeIsSound ==
  ASSUME Wellset, NEW w, NEW v, Sound(w), Typed(v), Queued(v), Alike(w, v)
  PROVE  Sound(v)
<1>1. Typed(w) /\ Counted(w) /\ Named(w) /\ Locked(w)
  BY DEF Sound
<1>2. Counted(v)
  <2> SUFFICES ASSUME NEW i \in Slots
               PROVE  v.nodes[i].count = Cardinality(At(v.req, i)) + Cardinality(At(v.del, i))
    BY DEF Counted
  <2>1. At(v.req, i) = At(w.req, i) /\ At(v.del, i) = At(w.del, i)
    BY <1>1, NodePlace DEF At, Alike, SameHold
  <2>2. w.nodes[i].count = Cardinality(At(w.req, i)) + Cardinality(At(w.del, i))
    BY <1>1 DEF Counted
  <2>3. v.nodes[i].count = w.nodes[i].count
    BY DEF Alike, SameNode
  <2> QED BY <2>1, <2>2, <2>3, Zenon
<1>3. Named(v)
  BY <1>1, NodePlace DEF Named, Alike, SameHold, SameNode
<1>4. \A r \in Requests : HasLock(v, r) <=> HasLock(w, r)
  BY DEF HasLock, Moved, Alike, SameHold
<1>5. Locked(v)
  <2> SUFFICES ASSUME NEW r \in Requests, HasLock(v, r), v.req[r].node \notin v.robbed
               PROVE  /\ v.nodes[v.req[r].node].updating /\ v.nodes[v.req[r].node].lockTime = v.req[r].lockTime
                      /\ \A s \in Requests : HasLock(v, s) /\ v.req[s].node = v.req[r].node => s = r
    BY DEF Locked
  <2>1. HasLock(w, r) /\ w.req[r].node = v.req[r].node /\ w.req[r].node \notin w.robbed /\ w.req[r].node \in Slots
    BY <1>1, <1>4, NodePlace DEF Alike, SameHold, HasLock
  <2> QED BY <1>1, <1>4, <2>1 DEF Locked, Alike, SameHold, SameNode
<1> QED BY <1>2, <1>3, <1>5 DEF Sound

\* What a step of request r leaves alone.
Frame(w, v, r) ==
  /\ v.del = w.del /\ v.mgr = w.mgr
  /\ \A s \in Requests \ {r} : v.pc[s] = w.pc[s] /\ v.req[s] = w.req[s]

\* Putting a node at the head of the queue, as every lookup does, keeps each in it once.
LEMMA TouchIs ==
  ASSUME Wellset, NEW w, Typed(w), IsInjective(w.queue), NEW i \in Slots
  PROVE  LET v == Touch(w, i) IN
         /\ Typed(v) /\ Alike(w, v) /\ v.pc = w.pc /\ v.req = w.req /\ v.del = w.del /\ v.mgr = w.mgr
         /\ IsInjective(v.queue) /\ Range(v.queue) = Range(w.queue) \union {i}
<1> DEFINE u == Without(w.queue, i)
           q == <<i>> \o u
           x == [w.nodes[i] EXCEPT !.expire = now + setup.inactive]
           n == [w.nodes EXCEPT ![i] = x]
<1>1. u \in Seq(Slots) /\ IsInjective(u) /\ Range(u) = Range(w.queue) \ {i}
  BY WithoutOne DEF Typed
<1>2. q \in Seq(Slots) /\ IsInjective(q) /\ Range(q) = Range(w.queue) \union {i}
  <2> HIDE DEF u
  <2> QED BY <1>1, PutFirst
<1>3. x \in Nodes /\ SameNode(w.nodes[i], x)
  <2>1. w.nodes[i] \in Nodes /\ now + setup.inactive \in Nat
    BY DEF Typed, Wellset
  <2> QED BY <2>1 DEF Nodes, SameNode
<1>4. n \in [Slots -> Nodes] /\ \A j \in Slots : SameNode(w.nodes[j], n[j])
  <2> HIDE DEF x
  <2> QED BY <1>3 DEF Typed, SameNode
<1>5. Touch(w, i) = [w EXCEPT !.queue = q, !.nodes = n]
  BY DEF Touch
<1> HIDE DEF q, n
<1>6. /\ Typed(Touch(w, i)) /\ Touch(w, i).pc = w.pc /\ Touch(w, i).req = w.req /\ Touch(w, i).del = w.del
      /\ Touch(w, i).mgr = w.mgr /\ Touch(w, i).queue = q /\ Touch(w, i).nodes = n /\ Touch(w, i).robbed = w.robbed
  BY <1>2, <1>4, <1>5 DEF Typed
<1> QED BY <1>2, <1>4, <1>6 DEF Alike, SameHold

\* Counts stay right when one request lets a node go or takes one, and the counts follow.
LEMMA CountedStill ==
  ASSUME Wellset, NEW w, NEW v, Typed(w), Typed(v), Counted(w), NEW r \in Requests, v.del = w.del,
         \A s \in Requests \ {r} : v.req[s].node = w.req[s].node,
         \A i \in Slots : v.nodes[i].count = w.nodes[i].count - Pointed(w.req, i, r) + Pointed(v.req, i, r)
  PROVE  Counted(v)
<1> SUFFICES ASSUME NEW i \in Slots
             PROVE  v.nodes[i].count = Cardinality(At(v.req, i)) + Cardinality(At(v.del, i))
  BY DEF Counted
<1>1. /\ Cardinality(At(w.req, i)) \in Nat /\ Cardinality(At(v.req, i)) \in Nat
      /\ Cardinality(At(v.req, i)) = Cardinality(At(w.req, i)) - Pointed(w.req, i, r) + Pointed(v.req, i, r)
  <2>1. DOMAIN w.req = Requests /\ DOMAIN v.req = Requests /\ IsFiniteSet(Requests)
    BY DEF Typed, Wellset
  <2> QED BY <2>1, PointsElsewhere
<1>2. Cardinality(At(w.del, i)) \in Nat
  <2>1. At(w.del, i) \subseteq Processes
    BY DEF At, Typed
  <2>2. IsFiniteSet(At(w.del, i))
    BY <2>1, FS_Subset DEF Wellset
  <2> QED BY <2>2, FS_CardinalityType
<1>3. w.nodes[i].count = Cardinality(At(w.req, i)) + Cardinality(At(w.del, i))
  BY DEF Counted
<1> QED BY <1>1, <1>2, <1>3 DEF Pointed

\* The same when what is being deleted in the forced-expire loop is what changes.
LEMMA CountedDeleting ==
  ASSUME Wellset, NEW w, NEW v, Typed(w), Typed(v), Counted(w), NEW p \in Processes, v.req = w.req,
         \A s \in Processes \ {p} : v.del[s].node = w.del[s].node,
         \A i \in Slots : v.nodes[i].count = w.nodes[i].count - Pointed(w.del, i, p) + Pointed(v.del, i, p)
  PROVE  Counted(v)
<1> SUFFICES ASSUME NEW i \in Slots
             PROVE  v.nodes[i].count = Cardinality(At(v.req, i)) + Cardinality(At(v.del, i))
  BY DEF Counted
<1>1. /\ Cardinality(At(w.del, i)) \in Nat /\ Cardinality(At(v.del, i)) \in Nat
      /\ Cardinality(At(v.del, i)) = Cardinality(At(w.del, i)) - Pointed(w.del, i, p) + Pointed(v.del, i, p)
  <2>1. DOMAIN w.del = Processes /\ DOMAIN v.del = Processes /\ IsFiniteSet(Processes)
    BY DEF Typed, Wellset
  <2> QED BY <2>1, PointsElsewhere
<1>2. Cardinality(At(w.req, i)) \in Nat
  <2>1. At(w.req, i) \subseteq Requests
    BY DEF At, Typed
  <2>2. IsFiniteSet(At(w.req, i))
    BY <2>1, FS_Subset DEF Wellset
  <2> QED BY <2>2, FS_CardinalityType
<1>3. w.nodes[i].count = Cardinality(At(w.req, i)) + Cardinality(At(w.del, i))
  BY DEF Counted
<1> QED BY <1>1, <1>2, <1>3 DEF Pointed

\* Locks stay exclusive when nobody gains one and those that keep one find the node unchanged.
LEMMA LockedStill ==
  ASSUME NEW w, NEW v, Locked(w),
         \A s \in Requests : HasLock(v, s) => HasLock(w, s) /\ w.req[s].node = v.req[s].node,
         \A s \in Requests : HasLock(v, s) /\ v.req[s].node \notin v.robbed =>
           LET i == v.req[s].node IN
           /\ i \notin w.robbed /\ v.req[s].lockTime = w.req[s].lockTime
           /\ v.nodes[i].updating = w.nodes[i].updating /\ v.nodes[i].lockTime = w.nodes[i].lockTime
  PROVE  Locked(v)
<1> SUFFICES ASSUME NEW r \in Requests, HasLock(v, r), v.req[r].node \notin v.robbed
             PROVE  /\ v.nodes[v.req[r].node].updating /\ v.nodes[v.req[r].node].lockTime = v.req[r].lockTime
                    /\ \A s \in Requests : HasLock(v, s) /\ v.req[s].node = v.req[r].node => s = r
  BY DEF Locked
<1>1. HasLock(w, r) /\ w.req[r].node = v.req[r].node /\ w.req[r].node \notin w.robbed
  OBVIOUS
<1>2. /\ w.nodes[w.req[r].node].updating /\ w.nodes[w.req[r].node].lockTime = w.req[r].lockTime
      /\ \A s \in Requests : HasLock(w, s) /\ w.req[s].node = w.req[r].node => s = r
  BY <1>1 DEF Locked
<1> QED BY <1>1, <1>2

\* No one points to a node that counts none, or that has no key.
LEMMA NoneHold ==
  ASSUME Wellset, NEW w, Typed(w), Counted(w), Named(w), NEW i \in Slots, w.nodes[i].count = 0 \/ w.nodes[i].key = 0
  PROVE  /\ \A r \in Requests : w.req[r].node # i
         /\ \A p \in Processes : w.del[p].node # i
         /\ w.nodes[i].count = 0
<1>1. i # 0
  BY DEF Wellset
<1>2. /\ At(w.req, i) \subseteq Requests /\ At(w.del, i) \subseteq Processes
      /\ DOMAIN w.req = Requests /\ DOMAIN w.del = Processes
  BY DEF At, Typed
<1>3. IsFiniteSet(At(w.req, i)) /\ IsFiniteSet(At(w.del, i))
  BY <1>2, FS_Subset DEF Wellset
<1>4. Cardinality(At(w.req, i)) \in Nat /\ Cardinality(At(w.del, i)) \in Nat
  BY <1>3, FS_CardinalityType
<1>5. w.nodes[i].count = Cardinality(At(w.req, i)) + Cardinality(At(w.del, i))
  BY DEF Counted
<1>6. CASE w.nodes[i].count = 0
  <2>1. Cardinality(At(w.req, i)) = 0 /\ Cardinality(At(w.del, i)) = 0
    BY <1>4, <1>5, <1>6
  <2>2. At(w.req, i) = {} /\ At(w.del, i) = {}
    BY <1>3, <2>1, FS_EmptySet
  <2> QED BY <1>2, <1>6, <2>2 DEF At
<1>7. CASE w.nodes[i].key = 0
  <2>1. /\ \A r \in Requests : w.req[r].node # i
        /\ \A p \in Processes : w.del[p].node # i
    BY <1>1, <1>7, NodePlace DEF Named
  <2>2. At(w.req, i) = {} /\ At(w.del, i) = {}
    BY <1>2, <2>1 DEF At
  <2>3. Cardinality(At(w.req, i)) = 0 /\ Cardinality(At(w.del, i)) = 0
    BY <2>2, FS_EmptySet
  <2> QED BY <1>5, <2>1, <2>3
<1> QED BY <1>6, <1>7

\* A freed node is a node: all zero, as after ngx_slab_free.
LEMMA FreeIsNode == Wellset => Free \in Nodes
BY DEF Wellset, Free, Nodes

\* Taking a node out of the tree and the queue is sound when nobody counts on it.
LEMMA DropIs ==
  ASSUME Wellset, NEW w, Sound(w), NEW i \in Slots, w.nodes[i].count = 0
  PROVE  LET v == Drop(w, i) IN
         /\ Sound(v) /\ v.pc = w.pc /\ v.req = w.req /\ v.del = w.del /\ v.mgr = w.mgr
         /\ SameBooks(w, v) /\ \A j \in Slots : v.nodes[j] = IF j = i THEN Free ELSE w.nodes[j]
<1> DEFINE v == Drop(w, i)
           q == Without(w.queue, i)
           n == [w.nodes EXCEPT ![i] = Free]
           b == w.robbed \ {i}
<1>1. Typed(w) /\ Counted(w) /\ Named(w) /\ Queued(w) /\ Locked(w)
  BY DEF Sound
<1>2. /\ \A r \in Requests : w.req[r].node # i
      /\ \A p \in Processes : w.del[p].node # i
  BY <1>1, NoneHold
<1>3. q \in Seq(Slots) /\ IsInjective(q) /\ Range(q) = Range(w.queue) \ {i}
  BY <1>1, WithoutOne DEF Typed, Queued
<1>4. n \in [Slots -> Nodes] /\ n[i] = Free /\ \A j \in Slots \ {i} : n[j] = w.nodes[j]
  BY <1>1, FreeIsNode DEF Typed
<1>5. v = [w EXCEPT !.queue = q, !.nodes = n, !.robbed = b]
  BY DEF Drop
<1> HIDE DEF q, n, v
<1>6. /\ Typed(v) /\ v.pc = w.pc /\ v.req = w.req /\ v.del = w.del /\ v.mgr = w.mgr
      /\ v.queue = q /\ v.nodes = n /\ v.robbed = b /\ SameBooks(w, v)
  BY <1>1, <1>3, <1>4, <1>5 DEF Typed, SameBooks
<1>7. Counted(v)
  <2> SUFFICES ASSUME NEW j \in Slots
               PROVE  v.nodes[j].count = Cardinality(At(v.req, j)) + Cardinality(At(v.del, j))
    BY DEF Counted
  <2>1. v.nodes[j].count = w.nodes[j].count
    BY <1>4, <1>6 DEF Free
  <2> QED BY <1>1, <1>6, <2>1 DEF Counted
<1>8. Named(v)
  BY <1>1, <1>2, <1>4, <1>6, NodePlace DEF Named
<1>9. Queued(v)
  BY <1>1, <1>3, <1>4, <1>6 DEF Queued, Used, Free
<1>10. Locked(v)
  <2>1. \A s \in Requests : HasLock(v, s) <=> HasLock(w, s)
    BY <1>6 DEF HasLock
  <2>2. \A s \in Requests : HasLock(v, s) => w.req[s].node \in Slots \ {i}
    BY <1>1, <1>2, <1>6, NodePlace DEF HasLock
  <2> QED BY <1>1, <1>4, <1>6, <2>1, <2>2, LockedStill
<1>11. \A j \in Slots : v.nodes[j] = IF j = i THEN Free ELSE w.nodes[j]
  BY <1>4, <1>6
<1> QED BY <1>6, <1>7, <1>8, <1>9, <1>10, <1>11 DEF Sound, v

\* Robbing, the lock timeout that takes a node from its holder, is recorded for all other holders.
LEMMA RobIs ==
  ASSUME Wellset, NEW w, Sound(w), NEW r \in Requests
  PROVE  LET v == Rob(w, r) IN
         /\ Sound(v) /\ v = [w EXCEPT !.robbed = v.robbed] /\ v.pc = w.pc /\ v.req = w.req /\ v.del = w.del /\ v.mgr = w.mgr
         /\ v.nodes = w.nodes /\ v.queue = w.queue /\ w.robbed \subseteq v.robbed /\ SameBooks(w, v)
         /\ \A s \in Requests \ {r} : HasLock(w, s) /\ w.req[s].node = w.req[r].node => w.req[r].node \in v.robbed
<1> DEFINE v == Rob(w, r)
           b == w.robbed \union {w.req[r].node}
           robs == \E s \in Requests \ {r} : HasLock(w, s) /\ w.req[s].node = w.req[r].node
<1>1. Typed(w) /\ Counted(w) /\ Named(w) /\ Queued(w) /\ Locked(w)
  BY DEF Sound
<1>2. CASE ~robs
  BY <1>1, <1>2 DEF Rob, Typed, SameBooks
<1>3. CASE robs
  <2>1. v = [w EXCEPT !.robbed = b] /\ w.req[r].node \in Slots
    BY <1>1, <1>3, NodePlace DEF Rob, HasLock
  <2> HIDE DEF v
  <2>2. /\ Typed(v) /\ v.pc = w.pc /\ v.req = w.req /\ v.del = w.del /\ v.mgr = w.mgr
        /\ v.queue = w.queue /\ v.nodes = w.nodes /\ v.robbed = b /\ SameBooks(w, v)
    BY <1>1, <2>1 DEF Typed, SameBooks
  <2>3. Counted(v) /\ Named(v) /\ Queued(v)
    BY <1>1, <2>2 DEF Counted, Named, Queued, Used
  <2>4. Locked(v)
    <3>1. \A s \in Requests : HasLock(v, s) <=> HasLock(w, s)
      BY <2>2 DEF HasLock
    <3> QED BY <1>1, <2>2, <3>1, LockedStill
  <2> QED BY <2>1, <2>2, <2>3, <2>4 DEF Sound, v
<1> QED BY <1>2, <1>3

\* What request r does with one node: it takes it, leaves it or changes it.
LEMMA OneNode ==
  ASSUME Wellset, NEW w, NEW v, Sound(w), Typed(v), Queued(v), Locked(v), NEW r \in Requests, NEW i \in Slots,
         v.del = w.del, \A s \in Requests \ {r} : v.req[s] = w.req[s],
         \A j \in Slots \ {i} : SameNode(w.nodes[j], v.nodes[j]),
         w.req[r].node \in {0, i}, v.req[r].node \in {0, i},
         v.nodes[i].count = w.nodes[i].count - Pointed(w.req, i, r) + Pointed(v.req, i, r),
         v.req[r].node = i => v.nodes[i].key = v.req[r].key,
         w.nodes[i].key # 0 => v.nodes[i].key = w.nodes[i].key
  PROVE  Sound(v)
<1>1. Typed(w) /\ Counted(w) /\ Named(w)
  BY DEF Sound
<1>2. \A j \in Slots : w.nodes[j].count \in Int /\ j # 0
  BY <1>1 DEF Typed, Nodes, Wellset
<1>3. Counted(v)
  <2>1. ASSUME NEW j \in Slots
        PROVE  v.nodes[j].count = w.nodes[j].count - Pointed(w.req, j, r) + Pointed(v.req, j, r)
    <3>1. CASE j = i
      BY <3>1
    <3>2. CASE j # i
      <4>1. Pointed(w.req, j, r) = 0 /\ Pointed(v.req, j, r) = 0
        BY <1>2, <3>2 DEF Pointed
      <4>2. v.nodes[j].count = w.nodes[j].count
        BY <3>2 DEF SameNode
      <4> QED BY <1>2, <4>1, <4>2
    <3> QED BY <3>1, <3>2
  <2> QED BY <1>1, <2>1, CountedStill
<1>4. Named(v)
  <2>1. ASSUME NEW s \in Requests, v.req[s].node # 0
        PROVE  v.nodes[v.req[s].node].key = v.req[s].key
    <3>1. CASE s = r
      BY <2>1, <3>1
    <3>2. CASE s # r
      <4>1. v.req[s] = w.req[s] /\ w.req[s].node \in Slots /\ w.req[s].key # 0
        BY <1>1, <2>1, <3>2, NodePlace
      <4>2. w.nodes[w.req[s].node].key = w.req[s].key
        BY <1>1, <2>1, <4>1 DEF Named
      <4>3. v.nodes[w.req[s].node].key = w.nodes[w.req[s].node].key
        BY <4>1, <4>2 DEF SameNode
      <4> QED BY <4>1, <4>2, <4>3
    <3> QED BY <3>1, <3>2
  <2>2. ASSUME NEW p \in Processes, v.del[p].node # 0
        PROVE  v.nodes[v.del[p].node].key # 0
    <3>1. v.del[p].node \in Slots /\ w.nodes[v.del[p].node].key # 0
      BY <1>1, <2>2, NodePlace DEF Named
    <3> QED BY <3>1 DEF SameNode
  <2> QED BY <2>1, <2>2 DEF Named
<1> QED BY <1>3, <1>4 DEF Sound

\* What a request keeps when it takes a node.
SameElse(c, d) ==
  /\ c.kind = d.kind /\ c.key = d.key /\ c.sub = d.sub /\ c.updating = d.updating /\ c.lockTime = d.lockTime
  /\ c.secondary = d.secondary /\ c.updated = d.updated /\ c.temp = d.temp

\* A node is changed and put first into the queue.
LEMMA PutNodeIs ==
  ASSUME Wellset, NEW w, Sound(w), NEW i \in Slots, NEW x \in Nodes
  PROVE  LET t == Touch([w EXCEPT !.nodes = [w.nodes EXCEPT ![i] = x]], i) IN
         /\ Typed(t) /\ t.pc = w.pc /\ t.req = w.req /\ t.del = w.del /\ t.mgr = w.mgr /\ t.robbed = w.robbed
         /\ IsInjective(t.queue) /\ Range(t.queue) = Range(w.queue) \union {i}
         /\ SameNode(x, t.nodes[i]) /\ \A j \in Slots \ {i} : SameNode(w.nodes[j], t.nodes[j])
<1> DEFINE n == [w.nodes EXCEPT ![i] = x]
           a == [w EXCEPT !.nodes = n]
           t == Touch(a, i)
<1>1. Typed(w) /\ Queued(w)
  BY DEF Sound
<1>2. n \in [Slots -> Nodes] /\ n[i] = x /\ \A j \in Slots \ {i} : n[j] = w.nodes[j]
  BY <1>1 DEF Typed
<1> HIDE DEF n
<1>3. /\ Typed(a) /\ a.pc = w.pc /\ a.req = w.req /\ a.del = w.del /\ a.mgr = w.mgr /\ a.robbed = w.robbed
      /\ a.queue = w.queue /\ a.nodes = n
  BY <1>1, <1>2 DEF Typed
<1>4. IsInjective(a.queue)
  BY <1>1, <1>3 DEF Queued
<1> HIDE DEF a
<1>5. /\ Typed(t) /\ Alike(a, t) /\ t.pc = w.pc /\ t.req = w.req /\ t.del = w.del /\ t.mgr = w.mgr
      /\ IsInjective(t.queue) /\ Range(t.queue) = Range(w.queue) \union {i}
  BY <1>3, <1>4, TouchIs
<1> HIDE DEF t
<1>6. t.robbed = w.robbed /\ SameNode(x, t.nodes[i]) /\ \A j \in Slots \ {i} : SameNode(w.nodes[j], t.nodes[j])
  BY <1>2, <1>3, <1>5 DEF Alike
<1> QED BY <1>5, <1>6 DEF t, a, n

\* A request that has no lock takes the node that was put there.
Puts(w, v, r, i, x, d) ==
  /\ w.req[r].node \in {0, i} /\ (~w.req[r].updating \/ Moved(w.req[r]))
  /\ d.node = i /\ SameElse(d, w.req[r]) /\ x.key = d.key /\ x.count = w.nodes[i].count - Pointed(w.req, i, r) + 1
  /\ w.nodes[i].key # 0 => x.key = w.nodes[i].key /\ x.updating = w.nodes[i].updating /\ x.lockTime = w.nodes[i].lockTime
  /\ Typed(v) /\ v.del = w.del /\ v.robbed = w.robbed
  /\ v.req[r] = d /\ \A s \in Requests \ {r} : v.req[s] = w.req[s]
  /\ IsInjective(v.queue) /\ Range(v.queue) = Range(w.queue) \union {i}
  /\ SameNode(x, v.nodes[i]) /\ \A j \in Slots \ {i} : SameNode(w.nodes[j], v.nodes[j])

\* A request without a node may get one that nobody else updates, its count one more.
LEMMA PutIs ==
  ASSUME Wellset, NEW w, Sound(w), NEW r \in Requests, NEW i \in Slots, NEW x \in Nodes, NEW d \in Requested,
         NEW v, Puts(w, v, r, i, x, d)
  PROVE  Sound(v)
<1> USE DEF Puts
<1>1. Typed(w) /\ Counted(w) /\ Named(w) /\ Queued(w) /\ Locked(w)
  BY DEF Sound
<1>4. Typed(v) /\ v.robbed = w.robbed
  OBVIOUS
<1>5. SameNode(x, v.nodes[i]) /\ \A j \in Slots \ {i} : SameNode(w.nodes[j], v.nodes[j])
  OBVIOUS
<1>6. d.key # 0
  BY DEF Requested, Wellset
<1>7. Queued(v)
  BY <1>1, <1>4, <1>5, <1>6 DEF Queued, Used, SameNode
<1>8. v.req[r] = d /\ \A s \in Requests \ {r} : v.req[s] = w.req[s]
  OBVIOUS
<1>9. Locked(v)
  <2>1. ~HasLock(v, r)
    BY <1>8 DEF HasLock, Moved, SameElse
  <2>2. \A s \in Requests : HasLock(v, s) => s # r /\ HasLock(w, s) /\ w.req[s] = v.req[s]
    BY <1>8, <2>1 DEF HasLock
  <2>3. \A s \in Requests : HasLock(v, s) => w.req[s].node \in Slots /\ w.nodes[w.req[s].node].key # 0
    <3>1. \A s \in Requests : HasLock(v, s) => w.req[s].node # 0
      BY <2>2 DEF HasLock
    <3> QED BY <1>1, <2>2, <3>1, NodePlace DEF Named
  <2>4. \A j \in Slots : w.nodes[j].key # 0 => v.nodes[j].updating = w.nodes[j].updating /\ v.nodes[j].lockTime = w.nodes[j].lockTime
    BY <1>5 DEF SameNode
  <2> HIDE DEF SameElse
  <2>5. \A s \in Requests : HasLock(v, s) => HasLock(w, s) /\ w.req[s].node = v.req[s].node
    BY <2>2
  <2>6. ASSUME NEW s \in Requests, HasLock(v, s), v.req[s].node \notin v.robbed
        PROVE  /\ v.req[s].node \notin w.robbed /\ v.req[s].lockTime = w.req[s].lockTime
               /\ v.nodes[v.req[s].node].updating = w.nodes[v.req[s].node].updating
               /\ v.nodes[v.req[s].node].lockTime = w.nodes[v.req[s].node].lockTime
    BY <1>4, <2>2, <2>3, <2>4, <2>6
  <2> QED BY ONLY <1>1, <2>5, <2>6, LockedStill
<1>10. Pointed(v.req, i, r) = 1
  BY <1>8 DEF Pointed
<1>11. /\ v.nodes[i].count = w.nodes[i].count - Pointed(w.req, i, r) + Pointed(v.req, i, r)
       /\ v.req[r].node = i => v.nodes[i].key = v.req[r].key
       /\ w.nodes[i].key # 0 => v.nodes[i].key = w.nodes[i].key
       /\ v.req[r].node \in {0, i}
  BY <1>5, <1>8, <1>10 DEF SameNode
<1>12. Sound(v)
  <2>1. v.del = w.del
    BY <1>4
  <2>2. Wellset /\ Sound(w) /\ r \in Requests /\ i \in Slots /\ w.req[r].node \in {0, i}
    OBVIOUS
  <2> QED BY ONLY <1>4, <1>5, <1>7, <1>8, <1>9, <1>11, <2>1, <2>2, OneNode
<1> QED BY <1>12

\* A new node, put in the tree and at the head of the queue by ngx_http_file_cache_exists.
LEMMA InsertIs ==
  ASSUME Wellset, NEW w, Sound(w), NEW r \in Requests, Room(w) # {}, w.req[r].node = 0,
         ~w.req[r].updating \/ Moved(w.req[r])
  PROVE  LET v == Insert(w, r) IN
         Sound(v) /\ v.pc = w.pc /\ Frame(w, v, r) /\ SameElse(v.req[r], w.req[r]) /\ v.rc = "declined"
         /\ v.req[r].node # 0
<1> DEFINE i == Min(Room(w))
           c == w.req[r]
           d == [c EXCEPT !.node = i, !.error = FALSE, !.found = FALSE]
           x == [Free EXCEPT !.key = c.key, !.count = 1, !.uses = 1]
           a == [w EXCEPT !.nodes = [w.nodes EXCEPT ![i] = x]]
           t == Touch(a, i)
           u == w.upset \/ (\E j \in Slots : w.nodes[j].key = c.key)
           v == Insert(w, r)
<1>1. Typed(w) /\ Counted(w) /\ Named(w)
  BY DEF Sound
<1>2. i \in Slots /\ w.nodes[i].key = 0
  <2>1. Room(w) \in SUBSET Nat
    BY DEF Room, Wellset
  <2>2. i \in Room(w)
    BY <2>1, MinIn
  <2> QED BY <2>2 DEF Room
<1>3. v = [t EXCEPT !.req = [t.req EXCEPT ![r] = [@ EXCEPT !.node = i, !.error = FALSE, !.found = FALSE]],
                    !.upset = @ \/ (\E j \in Slots : w.nodes[j].key = c.key), !.rc = "declined"]
  BY DEF Insert
<1> HIDE DEF i
<1>4. w.nodes[i].count = 0 /\ i # 0 /\ i \in Slots \union {0}
  BY <1>1, <1>2, NoneHold DEF Wellset
<1>5. c \in Requested /\ c.key \in Keys \union {0}
  BY <1>1 DEF Typed, Requested
<1>6. x \in Nodes /\ x.key = c.key /\ x.count = 1
  <2>1. 1 \in Int /\ 1 \in Nat
    OBVIOUS
  <2> QED BY <1>5, <2>1, FreeIsNode DEF Nodes
<1>7. d \in Requested /\ d.node = i /\ SameElse(d, c)
  BY <1>4, <1>5 DEF Requested, SameElse
<1>8. t.req = w.req /\ t.upset = w.upset
  BY DEF Touch
<1>9. v = [t EXCEPT !.req = [t.req EXCEPT ![r] = d], !.upset = u, !.rc = "declined"]
  <2> HIDE DEF t, v
  <2> QED BY <1>3, <1>8
<1>10. u \in BOOLEAN
  BY <1>1 DEF Typed
<1>11. /\ c.node \in {0, i} /\ x.key = d.key
       /\ x.count = w.nodes[i].count - Pointed(w.req, i, r) + 1
  BY <1>4, <1>6, <1>7 DEF SameElse, Pointed
<1> HIDE DEF x, d, u, v
<1>12. /\ Typed(t) /\ t.pc = w.pc /\ t.req = w.req /\ t.del = w.del /\ t.mgr = w.mgr /\ t.robbed = w.robbed
       /\ IsInjective(t.queue) /\ Range(t.queue) = Range(w.queue) \union {i}
       /\ SameNode(x, t.nodes[i]) /\ \A j \in Slots \ {i} : SameNode(w.nodes[j], t.nodes[j])
  BY <1>2, <1>6, PutNodeIs
<1> HIDE DEF t
<1> DEFINE q == [t.req EXCEPT ![r] = d]
<1>13. q \in [Requests -> Requested] /\ q[r] = d /\ \A s \in Requests \ {r} : q[s] = w.req[s]
  BY <1>1, <1>7, <1>12 DEF Typed
<1>14. v = [t EXCEPT !.req = q, !.upset = u, !.rc = "declined"]
  BY <1>9
<1> HIDE DEF q
<1>15. /\ Typed(v) /\ v.pc = w.pc /\ v.req = q /\ v.del = w.del /\ v.mgr = w.mgr
       /\ v.queue = t.queue /\ v.nodes = t.nodes /\ v.robbed = w.robbed /\ v.rc = "declined"
  BY <1>10, <1>12, <1>13, <1>14 DEF Typed
<1>16. Puts(w, v, r, i, x, d)
  BY <1>2, <1>6, <1>7, <1>11, <1>12, <1>13, <1>15 DEF Puts
<1>17. Sound(v)
  BY <1>2, <1>6, <1>7, <1>16, PutIs
<1> QED BY <1>4, <1>7, <1>13, <1>15, <1>17 DEF v, c, Frame

\* The node of the key, found in the tree, is counted and taken.
LEMMA TakeIs ==
  ASSUME Wellset, NEW w, Sound(w), NEW r \in Requests, NEW i \in Slots, w.nodes[i].key = w.req[r].key,
         w.req[r].node \in {0, i}, ~w.req[r].updating \/ Moved(w.req[r])
  PROVE  LET v == Take(w, r, i) IN
         Sound(v) /\ v.pc = w.pc /\ Frame(w, v, r) /\ SameElse(v.req[r], w.req[r]) /\ v.rc \in {"declined", "ok", "scarce"}
         /\ v.req[r].node # 0
<1> DEFINE o == w.nodes[i]
           again == w.req[r].node = i
           renew == o.error /\ o.till < now
           known == [o EXCEPT !.uses = IF again THEN @ ELSE Min({@ + 1, setup.minUses}), !.count = IF again THEN @ ELSE @ + 1]
           blank == [Free EXCEPT !.key = o.key, !.count = known.count, !.uses = known.uses, !.updating = o.updating,
                                 !.deleting = o.deleting, !.lockTime = o.lockTime]
           x == IF renew THEN blank ELSE known
           c == w.req[r]
           d == [c EXCEPT !.node = i, !.error = x.error, !.found = x.exists]
           a == [w EXCEPT !.nodes = [w.nodes EXCEPT ![i] = x]]
           t == Touch(a, i)
           u == w.upset \/ o.deleting \/ (renew /\ o.exists)
           k == IF renew THEN "declined"
                ELSE IF x.error \/ x.exists \/ x.uses >= setup.minUses THEN "ok" ELSE "scarce"
           v == Take(w, r, i)
<1>1. Typed(w) /\ Counted(w) /\ Named(w)
  BY DEF Sound
<1>2. v = [t EXCEPT !.req = [t.req EXCEPT ![r] = [@ EXCEPT !.node = i, !.error = x.error, !.found = x.exists]],
                    !.upset = @ \/ o.deleting \/ (renew /\ o.exists), !.rc = k]
  BY DEF Take
<1>3. o \in Nodes /\ o.count \in Int /\ o.uses \in Nat /\ i # 0 /\ i \in Slots \union {0}
  BY <1>1 DEF Typed, Nodes, Wellset
<1>4. c \in Requested /\ c.key # 0
  BY <1>1 DEF Typed, Requested, Wellset
<1>5. Min({o.uses + 1, setup.minUses}) \in Nat
  <2>1. {o.uses + 1, setup.minUses} \in SUBSET Nat /\ {o.uses + 1, setup.minUses} # {}
    BY <1>3 DEF Wellset
  <2> QED BY <2>1, MinIn, Zenon
<1>6. /\ known \in Nodes /\ known.key = o.key /\ known.updating = o.updating /\ known.lockTime = o.lockTime
      /\ known.count = IF again THEN o.count ELSE o.count + 1
  <2>1. CASE again
    BY <1>3, <2>1 DEF Nodes
  <2>2. CASE ~again
    <3>1. o.count + 1 \in Int
      BY <1>3
    <3>2. known = [o EXCEPT !.uses = Min({o.uses + 1, setup.minUses}), !.count = o.count + 1]
      BY <2>2
    <3> QED BY <1>3, <1>5, <2>2, <3>1, <3>2 DEF Nodes
  <2> QED BY <2>1, <2>2
<1> HIDE DEF known
<1>7. /\ blank \in Nodes /\ blank.key = o.key /\ blank.updating = o.updating /\ blank.lockTime = o.lockTime
      /\ blank.count = known.count
  <2>1. /\ o.key \in Keys \union {0} /\ known.count \in Int /\ known.uses \in Nat /\ o.updating \in BOOLEAN
        /\ o.deleting \in BOOLEAN /\ o.lockTime \in Nat
    BY <1>3, <1>6 DEF Nodes
  <2> HIDE DEF o
  <2> QED BY <2>1, FreeIsNode DEF Nodes, Free
<1> HIDE DEF blank
<1>8. /\ x \in Nodes /\ x.key = o.key /\ x.updating = o.updating /\ x.lockTime = o.lockTime
      /\ x.count = IF again THEN o.count ELSE o.count + 1
  BY <1>6, <1>7
<1>9. d \in Requested /\ d.node = i /\ SameElse(d, c)
  <2>1. x.error \in BOOLEAN /\ x.exists \in BOOLEAN
    BY <1>8 DEF Nodes
  <2> HIDE DEF x
  <2> QED BY <1>3, <1>4, <2>1 DEF Requested, SameElse
<1> HIDE DEF x
<1>10. t.req = w.req /\ t.upset = w.upset
  BY DEF Touch
<1>11. v = [t EXCEPT !.req = [t.req EXCEPT ![r] = d], !.upset = u, !.rc = k]
  <2> HIDE DEF t, v, k, o
  <2> QED BY <1>2, <1>10
<1>12. u \in BOOLEAN
  BY <1>1, <1>3 DEF Typed, Nodes
<1>13. k \in {"declined", "ok", "scarce"}
  OBVIOUS
<1>14. /\ c.node \in {0, i} /\ x.key = d.key
       /\ x.count = o.count - Pointed(w.req, i, r) + 1
  BY <1>3, <1>8, <1>9 DEF SameElse, Pointed
<1> HIDE DEF d, u, k, v, o
<1>15. /\ Typed(t) /\ t.pc = w.pc /\ t.req = w.req /\ t.del = w.del /\ t.mgr = w.mgr /\ t.robbed = w.robbed
       /\ IsInjective(t.queue) /\ Range(t.queue) = Range(w.queue) \union {i}
       /\ SameNode(x, t.nodes[i]) /\ \A j \in Slots \ {i} : SameNode(w.nodes[j], t.nodes[j])
  BY <1>8, PutNodeIs
<1> HIDE DEF t
<1> DEFINE q == [t.req EXCEPT ![r] = d]
<1>16. q \in [Requests -> Requested] /\ q[r] = d /\ \A s \in Requests \ {r} : q[s] = w.req[s]
  BY <1>1, <1>9, <1>15 DEF Typed
<1>17. v = [t EXCEPT !.req = q, !.upset = u, !.rc = k]
  BY <1>11
<1> HIDE DEF q
<1>18. /\ Typed(v) /\ v.pc = w.pc /\ v.req = q /\ v.del = w.del /\ v.mgr = w.mgr
       /\ v.queue = t.queue /\ v.nodes = t.nodes /\ v.robbed = w.robbed /\ v.rc = k
  BY <1>12, <1>15, <1>16, <1>17 DEF Typed
<1>19. Puts(w, v, r, i, x, d)
  BY <1>8, <1>9, <1>14, <1>15, <1>16, <1>18 DEF Puts, o
<1>20. Sound(v)
  BY <1>8, <1>9, <1>19, PutIs
<1> QED BY <1>3, <1>9, <1>13, <1>16, <1>18, <1>20 DEF v, c, Frame

\* A request leaves its node; the lock of the node is cleared only if nobody else has it, or it is robbed.
Leaves(w, v, r, i, x, d) ==
  /\ w.req[r].node = i /\ d.node = 0
  /\ x.key = w.nodes[i].key /\ x.count = w.nodes[i].count - 1
  /\ \A s \in Requests \ {r} : HasLock(w, s) /\ w.req[s].node = i /\ i \notin v.robbed =>
       x.updating = w.nodes[i].updating /\ x.lockTime = w.nodes[i].lockTime
  /\ Typed(v) /\ v.del = w.del /\ w.robbed \subseteq v.robbed /\ v.queue = w.queue
  /\ v.req[r] = d /\ \A s \in Requests \ {r} : v.req[s] = w.req[s]
  /\ SameNode(x, v.nodes[i]) /\ \A j \in Slots \ {i} : SameNode(w.nodes[j], v.nodes[j])

\* A request may leave its node, with its lock when it is the one that has it.
LEMMA LeavesIs ==
  ASSUME Wellset, NEW w, Sound(w), NEW r \in Requests, NEW i \in Slots, NEW x, NEW d, NEW v, Leaves(w, v, r, i, x, d)
  PROVE  Sound(v)
<1>1. Typed(w) /\ Counted(w) /\ Named(w) /\ Queued(w) /\ Locked(w)
  BY DEF Sound
<1>2. Typed(v) /\ v.del = w.del
  BY DEF Leaves
<1>3. \A j \in Slots \ {i} : SameNode(w.nodes[j], v.nodes[j])
  BY DEF Leaves
<1>4. v.nodes[i].key = w.nodes[i].key
  BY DEF Leaves, SameNode
<1>5. Queued(v)
  <2>1. v.queue = w.queue
    BY DEF Leaves
  <2> QED BY <1>1, <1>3, <1>4, <2>1 DEF Queued, Used, SameNode
<1>6. \A s \in Requests \ {r} : v.req[s] = w.req[s]
  BY DEF Leaves
<1>7. v.req[r].node = 0
  BY DEF Leaves
<1>8. Locked(v)
  <2>1. ~HasLock(v, r)
    BY <1>7 DEF HasLock
  <2>2. \A s \in Requests : HasLock(v, s) => s # r /\ HasLock(w, s) /\ w.req[s] = v.req[s]
    BY <1>6, <2>1 DEF HasLock
  <2>3. \A s \in Requests : HasLock(v, s) => w.req[s].node \in Slots
    <3>1. \A s \in Requests : HasLock(v, s) => w.req[s].node # 0
      BY <2>2 DEF HasLock
    <3> QED BY <1>1, <2>2, <3>1, NodePlace
  <2>4. \A s \in Requests : HasLock(v, s) => HasLock(w, s) /\ w.req[s].node = v.req[s].node
    BY <2>2
  <2>5. ASSUME NEW s \in Requests, HasLock(v, s), v.req[s].node \notin v.robbed
        PROVE  /\ v.req[s].node \notin w.robbed /\ v.req[s].lockTime = w.req[s].lockTime
               /\ v.nodes[v.req[s].node].updating = w.nodes[v.req[s].node].updating
               /\ v.nodes[v.req[s].node].lockTime = w.nodes[v.req[s].node].lockTime
    <3>1. s \in Requests \ {r} /\ HasLock(w, s) /\ w.req[s] = v.req[s] /\ w.req[s].node \in Slots
      BY <2>2, <2>3, <2>5
    <3>2. v.req[s].node \notin w.robbed
      BY <2>5 DEF Leaves
    <3>3. CASE w.req[s].node = i
      BY <2>5, <3>1, <3>2, <3>3 DEF Leaves, SameNode
    <3>4. CASE w.req[s].node # i
      BY <1>3, <3>1, <3>2, <3>4 DEF SameNode
    <3> QED BY <3>3, <3>4
  <2> QED BY ONLY <1>1, <2>4, <2>5, LockedStill
<1>9. w.nodes[i].count \in Int /\ i # 0
  BY <1>1 DEF Typed, Nodes, Wellset
<1>10. v.nodes[i].count = w.nodes[i].count - Pointed(w.req, i, r) + Pointed(v.req, i, r)
  BY <1>7, <1>9 DEF Leaves, SameNode, Pointed
<1>11. /\ Wellset /\ Sound(w) /\ r \in Requests /\ i \in Slots
       /\ w.req[r].node \in {0, i} /\ v.req[r].node \in {0, i} /\ v.req[r].node # i
  BY <1>7, <1>9 DEF Leaves
<1> QED BY ONLY <1>2, <1>3, <1>4, <1>5, <1>6, <1>8, <1>10, <1>11, OneNode

\* A request that leaves clears a lock that is its own, or one of a node it moved to.
LEMMA FreeCacheIs ==
  ASSUME Wellset, NEW w, Sound(w), NEW r \in Requests, w.req[r].updated => w.req[r].node = 0
  PROVE  LET v == FreeCache(w, r) IN
         /\ Sound(v) /\ v.pc = w.pc /\ Frame(w, v, r)
         /\ v.req[r].node = 0 /\ v.req[r].sub = w.req[r].sub
         /\ SameBooks(w, v) /\ SameAsk(w.req[r], v.req[r]) /\ \A j \in Slots : Emptied(w.nodes[j], v.nodes[j])
         /\ v.req[r].kind = w.req[r].kind /\ v.req[r].secondary = w.req[r].secondary
<1> DEFINE c == w.req[r]
           i == c.node
           clears == c.updating /\ w.nodes[i].lockTime = c.lockTime
           b == IF clears /\ Moved(c) THEN Rob(w, r) ELSE w
           y == [w.nodes[i] EXCEPT !.count = @ - 1, !.updating = @ /\ ~clears]
           d == [c EXCEPT !.updated = TRUE, !.updating = FALSE, !.temp = FALSE, !.node = 0]
           v == FreeCache(w, r)
<1>1. Typed(w) /\ Counted(w) /\ Named(w) /\ Queued(w) /\ Locked(w)
  BY DEF Sound
<1>2. CASE i = 0
  <2>1. v = w
    BY <1>2 DEF FreeCache
  <2> QED BY <1>2, <2>1 DEF Frame, SameBooks, SameAsk, Emptied, SameFile
<1>3. CASE i # 0
  <2>1. i \in Slots /\ ~c.updated /\ w.nodes[i] \in Nodes /\ c \in Requested
    BY <1>1, <1>3, NodePlace DEF Typed
  <2>2. /\ Sound(b) /\ b.pc = w.pc /\ b.req = w.req /\ b.del = w.del /\ b.mgr = w.mgr
        /\ b.nodes = w.nodes /\ b.queue = w.queue /\ w.robbed \subseteq b.robbed /\ SameBooks(w, b)
        /\ clears /\ Moved(c) => \A s \in Requests \ {r} : HasLock(w, s) /\ w.req[s].node = i => i \in b.robbed
    <3>1. CASE clears /\ Moved(c)
      <4>1. Rob(w, r) = [w EXCEPT !.robbed = Rob(w, r).robbed]
        BY RobIs
      <4>2. SameBooks(w, Rob(w, r))
        <5> DEFINE z == Rob(w, r)
                   o == z.robbed
        <5>1. z = [w EXCEPT !.robbed = o]
          BY <4>1
        <5> HIDE DEF z, o
        <5>2. SameBooks(w, z)
          BY <1>1, <5>1 DEF SameBooks, Typed
        <5> QED BY <5>2 DEF z
      <4> QED BY <3>1, <4>2, RobIs
    <3>2. CASE ~(clears /\ Moved(c))
      BY <3>2 DEF SameBooks
    <3> QED BY <3>1, <3>2
  <2> DEFINE a == [b EXCEPT !.nodes = [b.nodes EXCEPT ![i] = y]]
             z == [y EXCEPT !.error = TRUE, !.till = IF c.till # 0 THEN c.till ELSE @]
  <2>3. Leave(w, r) = a
    BY DEF Leave
  <2>4. y \in Nodes /\ y.key = w.nodes[i].key /\ y.count = w.nodes[i].count - 1 /\ y.lockTime = w.nodes[i].lockTime
        /\ (y.updating <=> w.nodes[i].updating /\ ~clears) /\ y.updating \in BOOLEAN /\ w.nodes[i].updating \in BOOLEAN
        /\ SameFile(w.nodes[i], y)
    <3>1. w.nodes[i].count - 1 \in Int /\ (w.nodes[i].updating /\ ~clears) \in BOOLEAN /\ w.nodes[i].updating \in BOOLEAN
      BY <2>1 DEF Nodes
    <3> QED BY <2>1, <3>1 DEF Nodes, SameFile
  <2> HIDE DEF y
  <2>5. z \in Nodes /\ SameNode(y, z) /\ SameFile(y, z)
    <3>1. y.till \in Int /\ c.till \in Int
      BY <2>1, <2>4 DEF Nodes, Requested
    <3>2. CASE c.till # 0
      BY <2>4, <3>1, <3>2 DEF Nodes, SameNode, SameFile
    <3>3. CASE c.till = 0
      BY <2>4, <3>1, <3>3 DEF Nodes, SameNode, SameFile
    <3> QED BY <3>2, <3>3
  <2> HIDE DEF z
  <2>6. d \in Requested /\ d.node = 0 /\ d.sub = c.sub /\ SameAsk(c, d) /\ d.kind = c.kind /\ d.secondary = c.secondary
    BY <2>1 DEF Requested, SameAsk
  <2> HIDE DEF d, b
  <2> DEFINE q == [w.req EXCEPT ![r] = d]
  <2>7. q \in [Requests -> Requested] /\ q[r] = d /\ \A s \in Requests \ {r} : q[s] = w.req[s]
    BY <1>1, <2>6 DEF Typed
  <2>8. ASSUME NEW s \in Requests \ {r}, HasLock(w, s), w.req[s].node = i, i \notin b.robbed
        PROVE  ~clears
    <3>1. w.nodes[i].lockTime = w.req[s].lockTime /\ \A t \in Requests : HasLock(w, t) /\ w.req[t].node = i => t = s
      BY <1>1, <2>2, <2>8 DEF Locked
    <3>2. CASE clears
      <4>1. ~Moved(c) /\ c.lockTime = w.req[s].lockTime
        BY <2>2, <2>8, <3>1, <3>2
      <4>2. HasLock(w, r)
        BY <1>3, <2>8, <3>2, <4>1 DEF HasLock
      <4> QED BY <3>1, <4>2
    <3> QED BY <3>2
  <2>9. ASSUME NEW x \in Nodes, SameNode(y, x), NEW v1, Typed(v1), v1.del = w.del, v1.robbed = b.robbed, v1.queue = w.queue,
               v1.req = q, v1.nodes = [w.nodes EXCEPT ![i] = x]
        PROVE  Sound(v1)
    <3> HIDE DEF q
    <3>1. v1.nodes[i] = x /\ \A j \in Slots \ {i} : v1.nodes[j] = w.nodes[j]
      BY <1>1, <2>1, <2>9 DEF Typed
    <3>2. \A s \in Requests \ {r} : HasLock(w, s) /\ w.req[s].node = i /\ i \notin v1.robbed =>
            x.updating = w.nodes[i].updating /\ x.lockTime = w.nodes[i].lockTime
      <4>1. ~clears => y.updating = w.nodes[i].updating
        BY <2>4
      <4> HIDE DEF clears
      <4> QED BY <2>4, <2>8, <2>9, <4>1 DEF SameNode
    <3>3. /\ c.node = i /\ d.node = 0 /\ x.key = w.nodes[i].key /\ x.count = w.nodes[i].count - 1
          /\ SameNode(x, v1.nodes[i]) /\ \A j \in Slots \ {i} : SameNode(w.nodes[j], v1.nodes[j])
      BY <2>4, <2>6, <2>9, <3>1 DEF SameNode
    <3>4. Leaves(w, v1, r, i, x, d)
      BY <2>2, <2>7, <2>9, <3>2, <3>3 DEF Leaves
    <3> QED BY <2>1, <3>4, LeavesIs
  <2> DEFINE n == [w.nodes EXCEPT ![i] = y]
             m == [w.nodes EXCEPT ![i] = z]
             e == [a EXCEPT !.req = q]
             f == [a EXCEPT !.nodes = m, !.req = q]
  <2>10. /\ n \in [Slots -> Nodes] /\ n[i] = y /\ \A j \in Slots \ {i} : n[j] = w.nodes[j]
         /\ m \in [Slots -> Nodes] /\ m = [n EXCEPT ![i] = z]
    BY <1>1, <2>1, <2>4, <2>5 DEF Typed
  <2>11. a = [b EXCEPT !.nodes = n]
    BY <2>2
  <2> HIDE DEF a
  <2>12. /\ Typed(a) /\ a.pc = w.pc /\ a.req = w.req /\ a.del = w.del /\ a.mgr = w.mgr /\ a.robbed = b.robbed
         /\ a.queue = w.queue /\ a.nodes = n /\ SameBooks(w, a)
    <3>1. Typed(b)
      BY <2>2 DEF Sound
    <3> HIDE DEF n
    <3> QED BY <2>2, <2>10, <2>11, <3>1 DEF Typed, SameBooks
  <2>13. e = [a EXCEPT !.req = q] /\ f = [a EXCEPT !.nodes = m, !.req = q]
    OBVIOUS
  <2> HIDE DEF e, f, q
  <2>14. /\ Typed(e) /\ e.pc = w.pc /\ e.req = q /\ e.del = w.del /\ e.mgr = w.mgr /\ e.robbed = b.robbed
         /\ e.queue = w.queue /\ e.nodes = n /\ SameBooks(w, e)
    <3> HIDE DEF n
    <3> QED BY <2>7, <2>12, <2>13 DEF Typed, SameBooks
  <2>15. /\ Typed(f) /\ f.pc = w.pc /\ f.req = q /\ f.del = w.del /\ f.mgr = w.mgr /\ f.robbed = b.robbed
         /\ f.queue = w.queue /\ f.nodes = m /\ SameBooks(w, f)
    <3> HIDE DEF n, m
    <3> QED BY <2>7, <2>10, <2>12, <2>13 DEF Typed, SameBooks
  <2>16. Sound(e)
    BY <2>4, <2>9, <2>14 DEF SameNode
  <2>17. Sound(f)
    BY <2>5, <2>9, <2>15
  <2>18. CASE c.error
    <3> DEFINE h == [a.nodes[i] EXCEPT !.error = TRUE, !.till = IF c.till # 0 THEN c.till ELSE @]
               g == [a EXCEPT !.nodes = [a.nodes EXCEPT ![i] = h]]
               k == [g.req[r] EXCEPT !.updated = TRUE, !.updating = FALSE, !.temp = FALSE, !.node = 0]
    <3>1. v = [g EXCEPT !.req = [g.req EXCEPT ![r] = k]]
      BY <1>3, <2>1, <2>3, <2>18 DEF FreeCache
    <3>2. h = z
      BY <2>10, <2>12 DEF z
    <3>3. [a.nodes EXCEPT ![i] = z] = m
      BY <2>10, <2>12
    <3> HIDE DEF h
    <3>4. g = [a EXCEPT !.nodes = m] /\ g.req = w.req
      BY <2>12, <3>2, <3>3
    <3> HIDE DEF g, m, v
    <3>5. v = [[a EXCEPT !.nodes = m] EXCEPT !.req = q]
      <4>1. k = d
        BY <3>4 DEF d
      <4> HIDE DEF k
      <4> QED BY <3>1, <3>4, <4>1 DEF q
    <3>6. v = f
      BY <2>13, <3>5
    <3>7. \A j \in Slots : Emptied(w.nodes[j], f.nodes[j])
      <4>1. SameFile(w.nodes[i], z)
        BY <2>4, <2>5 DEF SameFile
      <4>2. m[i] = z /\ \A j \in Slots \ {i} : m[j] = w.nodes[j]
        BY <2>1, <2>10
      <4> QED BY <2>15, <4>1, <4>2 DEF Emptied, SameFile
    <3> USE DEF v
    <3> QED BY <2>6, <2>7, <2>15, <2>17, <3>6, <3>7 DEF Frame
  <2>19. CASE ~c.error /\ ~(~n[i].exists /\ n[i].count = 0 /\ setup.minUses = 1)
    <3>1. v = [a EXCEPT !.req[r] = [@ EXCEPT !.updated = TRUE, !.updating = FALSE, !.temp = FALSE, !.node = 0]]
      BY <1>3, <2>1, <2>3, <2>12, <2>19 DEF FreeCache
    <3>2. v = e
      BY <2>12, <2>13, <3>1 DEF q, d
    <3>3. \A j \in Slots : Emptied(w.nodes[j], e.nodes[j])
      BY <2>4, <2>10, <2>14 DEF Emptied, SameFile
    <3> HIDE DEF v, n
    <3>4. Sound(v) /\ v.pc = w.pc /\ Frame(w, v, r) /\ v.req = q /\ SameBooks(w, v) /\ \A j \in Slots : Emptied(w.nodes[j], v.nodes[j])
      BY <2>7, <2>14, <2>16, <3>2, <3>3 DEF Frame
    <3> QED BY <2>6, <2>7, <3>4 DEF v
  <2>20. CASE ~c.error /\ ~n[i].exists /\ n[i].count = 0 /\ setup.minUses = 1
    <3>1. v = [Drop(a, i) EXCEPT !.req[r] = [@ EXCEPT !.updated = TRUE, !.updating = FALSE, !.temp = FALSE, !.node = 0]]
      BY <1>3, <2>1, <2>3, <2>12, <2>20 DEF FreeCache
    <3>2. Drop(a, i).req = w.req
      BY <2>12 DEF Drop
    <3>3. v = [Drop(a, i) EXCEPT !.req = q]
      BY <3>1, <3>2 DEF q, d
    <3>4. Drop(e, i) = [Drop(a, i) EXCEPT !.req = q]
      BY <2>12, <2>13, <2>14 DEF Drop, Typed
    <3>5. e.nodes[i].count = 0
      BY <2>14, <2>20
    <3>6. /\ Sound(v) /\ v.pc = e.pc /\ v.req = e.req /\ v.del = e.del /\ v.mgr = e.mgr
          /\ SameBooks(e, v) /\ \A j \in Slots : v.nodes[j] = IF j = i THEN Free ELSE e.nodes[j]
      <4>1. v = Drop(e, i)
        BY <3>3, <3>4
      <4> HIDE DEF v
      <4> QED BY <2>1, <2>16, <3>5, <4>1, DropIs
    <3>7. \A j \in Slots : Emptied(w.nodes[j], v.nodes[j])
      <4> HIDE DEF v
      <4>1. ~w.nodes[i].exists
        BY <2>4, <2>10, <2>20 DEF SameFile
      <4> QED BY <2>10, <2>14, <3>6, <4>1 DEF Emptied, SameFile
    <3> HIDE DEF v, n
    <3>8. Sound(v) /\ v.pc = w.pc /\ Frame(w, v, r) /\ v.req = q /\ SameBooks(w, v)
      BY <2>7, <2>14, <3>6 DEF Frame, SameBooks
    <3> QED BY <2>6, <2>7, <3>7, <3>8 DEF v
  <2> QED BY <2>18, <2>19, <2>20
<1> QED BY <1>2, <1>3

\* A process takes or leaves the node whose file it deletes.
Holds(w, v, p, i) ==
  /\ Typed(v) /\ v.req = w.req /\ v.queue = w.queue /\ v.robbed = w.robbed
  /\ \A s \in Processes \ {p} : v.del[s] = w.del[s]
  /\ w.del[p].node \in {0, i} /\ v.del[p].node \in {0, i} /\ w.nodes[i].key # 0
  /\ \A j \in Slots \ {i} : v.nodes[j] = w.nodes[j]
  /\ v.nodes[i].key = w.nodes[i].key /\ v.nodes[i].updating = w.nodes[i].updating /\ v.nodes[i].lockTime = w.nodes[i].lockTime
  /\ v.nodes[i].count = w.nodes[i].count - Pointed(w.del, i, p) + Pointed(v.del, i, p)

\* A process that deletes counts itself while it waits for the disk.
LEMMA HoldsIs ==
  ASSUME Wellset, NEW w, Sound(w), NEW p \in Processes, NEW i \in Slots, NEW v, Holds(w, v, p, i)
  PROVE  Sound(v)
<1>1. Typed(w) /\ Counted(w) /\ Named(w) /\ Queued(w) /\ Locked(w)
  BY DEF Sound
<1>2. Typed(v) /\ v.req = w.req /\ v.queue = w.queue /\ v.robbed = w.robbed
  BY DEF Holds
<1>3. \A j \in Slots : v.nodes[j].key = w.nodes[j].key /\ v.nodes[j].updating = w.nodes[j].updating /\ v.nodes[j].lockTime = w.nodes[j].lockTime
  BY DEF Holds
<1>4. \A j \in Slots : w.nodes[j].count \in Int /\ j # 0
  BY <1>1 DEF Typed, Nodes, Wellset
<1>5. Counted(v)
  <2>1. \A s \in Processes \ {p} : v.del[s].node = w.del[s].node
    BY DEF Holds
  <2>2. ASSUME NEW j \in Slots
        PROVE  v.nodes[j].count = w.nodes[j].count - Pointed(w.del, j, p) + Pointed(v.del, j, p)
    <3>1. CASE j = i
      BY <3>1 DEF Holds
    <3>2. CASE j # i
      <4>1. Pointed(w.del, j, p) = 0 /\ Pointed(v.del, j, p) = 0
        BY <1>4, <3>2 DEF Pointed, Holds
      <4>2. v.nodes[j].count = w.nodes[j].count
        BY <3>2 DEF Holds
      <4> QED BY <1>4, <4>1, <4>2
    <3> QED BY <3>1, <3>2
  <2>3. Wellset /\ p \in Processes
    OBVIOUS
  <2> QED BY ONLY <1>1, <1>2, <2>1, <2>2, <2>3, CountedDeleting
<1>6. Named(v)
  <2>1. \A r \in Requests : v.req[r].node # 0 => v.nodes[v.req[r].node].key = v.req[r].key
    BY <1>1, <1>2, <1>3, NodePlace DEF Named
  <2>2. ASSUME NEW s \in Processes, v.del[s].node # 0
        PROVE  v.nodes[v.del[s].node].key # 0
    <3>1. CASE s = p
      BY <1>3, <2>2, <3>1 DEF Holds
    <3>2. CASE s # p
      <4>1. v.del[s] = w.del[s] /\ w.del[s].node \in Slots
        BY <1>1, <2>2, <3>2, NodePlace DEF Holds
      <4> QED BY <1>1, <1>3, <2>2, <4>1 DEF Named
    <3> QED BY <3>1, <3>2
  <2> QED BY <2>1, <2>2 DEF Named
<1>7. Queued(v)
  BY <1>1, <1>2, <1>3 DEF Queued, Used
<1>8. Locked(v)
  <2>1. \A s \in Requests : HasLock(v, s) <=> HasLock(w, s)
    BY <1>2 DEF HasLock
  <2>2. \A s \in Requests : HasLock(v, s) => HasLock(w, s) /\ w.req[s].node = v.req[s].node
    BY <1>2, <2>1
  <2>3. ASSUME NEW s \in Requests, HasLock(v, s), v.req[s].node \notin v.robbed
        PROVE  /\ v.req[s].node \notin w.robbed /\ v.req[s].lockTime = w.req[s].lockTime
               /\ v.nodes[v.req[s].node].updating = w.nodes[v.req[s].node].updating
               /\ v.nodes[v.req[s].node].lockTime = w.nodes[v.req[s].node].lockTime
    <3>1. v.req[s].node \in Slots
      BY <1>2, <2>3, NodePlace DEF HasLock
    <3> QED BY <1>2, <1>3, <2>3, <3>1
  <2> QED BY ONLY <1>1, <2>2, <2>3, LockedStill
<1> QED BY <1>2, <1>5, <1>6, <1>7, <1>8 DEF Sound

\* What a process that deletes leaves alone.
Aside(w, v, p) ==
  /\ v.pc = w.pc /\ v.req = w.req /\ v.mgr = w.mgr
  /\ \A s \in Processes \ {p} : v.del[s] = w.del[s]

\* ngx_http_file_cache_delete: a node with a file is held till it is unlinked, another dropped.
LEMMA DeleteIs ==
  ASSUME Wellset, NEW w, Sound(w), NEW p \in Processes, w.del[p].node = 0, NEW i \in Slots,
         w.nodes[i].count = 0, w.nodes[i].key # 0
  PROVE  LET v == Delete(w, p, i) IN Sound(v) /\ Aside(w, v, p) /\ (Idly(w, v) \/ GivesUp(w, v, p, i))
<1> DEFINE v == Delete(w, p, i)
<1>1. Typed(w)
  BY DEF Sound
<1>2. CASE ~w.nodes[i].exists
  <2>1. v = Drop(w, i)
    BY <1>2 DEF Delete
  <2> HIDE DEF v
  <2>2. /\ Sound(v) /\ v.pc = w.pc /\ v.req = w.req /\ v.del = w.del /\ v.mgr = w.mgr
        /\ SameBooks(w, v) /\ \A j \in Slots : v.nodes[j] = IF j = i THEN Free ELSE w.nodes[j]
    BY <2>1, DropIs
  <2>3. \A j \in Slots : Emptied(w.nodes[j], v.nodes[j])
    BY <1>2, <2>2 DEF Emptied, SameFile
  <2> QED BY <2>2, <2>3 DEF Aside, Idly, v
<1>3. CASE w.nodes[i].exists
  <2> DEFINE x == [w.nodes[i] EXCEPT !.count = @ + 1, !.deleting = TRUE]
             n == [w.nodes EXCEPT ![i] = x]
             e == [node |-> i, gone |-> FALSE]
             d == [w.del EXCEPT ![p] = e]
             h == [w.sh EXCEPT !.size = @ - w.nodes[i].fs]
  <2>1. v = [w EXCEPT !.sh = h, !.nodes = n, !.del = d]
    BY <1>3 DEF Delete
  <2>2. /\ x \in Nodes /\ x.key = w.nodes[i].key /\ x.updating = w.nodes[i].updating /\ x.lockTime = w.nodes[i].lockTime
        /\ x.count = w.nodes[i].count + 1 /\ x.deleting /\ x.exists /\ x.fs = w.nodes[i].fs
    <3>1. w.nodes[i] \in Nodes /\ w.nodes[i].count + 1 \in Int
      BY <1>1 DEF Typed, Nodes
    <3> QED BY <1>3, <3>1 DEF Nodes
  <2> HIDE DEF x
  <2>3. n \in [Slots -> Nodes] /\ n[i] = x /\ \A j \in Slots \ {i} : n[j] = w.nodes[j]
    BY <1>1, <2>2 DEF Typed
  <2>4. e \in Deletions /\ e.node = i /\ e = [node |-> i, gone |-> FALSE]
    BY DEF Deletions
  <2> HIDE DEF e
  <2>5. d \in [Processes -> Deletions] /\ d[p] = e /\ \A s \in Processes \ {p} : d[s] = w.del[s]
    BY <1>1, <2>4 DEF Typed
  <2>a. h = [w.sh EXCEPT !.size = @ - w.nodes[i].fs]
    OBVIOUS
  <2> HIDE DEF n, d, h, v
  <2>6. /\ Typed(v) /\ v.pc = w.pc /\ v.req = w.req /\ v.del = d /\ v.mgr = w.mgr
        /\ v.queue = w.queue /\ v.nodes = n /\ v.robbed = w.robbed
        /\ v.sh = h /\ v.disk = w.disk /\ v.todo = w.todo /\ v.upset = w.upset
    BY <1>1, <2>1, <2>3, <2>5 DEF Typed
  <2>7. Pointed(w.del, i, p) = 0 /\ Pointed(v.del, i, p) = 1 /\ i # 0 /\ w.nodes[i].count \in Int
    BY <1>1, <2>4, <2>5, <2>6 DEF Pointed, Wellset, Typed, Nodes
  <2>8. Holds(w, v, p, i)
    BY <2>2, <2>3, <2>4, <2>5, <2>6, <2>7 DEF Holds
  <2>9. Sound(v)
    BY <2>8, HoldsIs
  <2>10. GivesUp(w, v, p, i)
    BY <1>3, <2>2, <2>3, <2>4, <2>5, <2>6, <2>a DEF GivesUp, SameFile
  <2> QED BY <2>5, <2>6, <2>9, <2>10 DEF Aside, v
<1> QED BY <1>2, <1>3

\* The nodes that are held are put first; then one that is not is deleted.
LEMMA ForcedExpireIs ==
  ASSUME Wellset, NEW w, Sound(w), NEW p \in Processes, w.del[p].node = 0
  PROVE  LET v == ForcedExpire(w, p) IN Sound(v) /\ Aside(w, v, p) /\ (Idly(w, v) \/ \E i \in Slots : GivesUp(w, v, p, i))
<1> DEFINE x == IF Idle(w) = {} THEN 0 ELSE Max(Idle(w))
           held == SubSeq(w.queue, x + 1, Len(w.queue))
           q == held \o SubSeq(w.queue, 1, x)
           n == [i \in Slots |-> IF i \in Range(held) THEN [w.nodes[i] EXCEPT !.expire = now + setup.inactive] ELSE w.nodes[i]]
           a == [w EXCEPT !.queue = q, !.nodes = n]
           v == ForcedExpire(w, p)
<1>1. Typed(w) /\ Counted(w) /\ Named(w) /\ Queued(w) /\ Locked(w)
  BY DEF Sound
<1>2. w.queue \in Seq(Slots) /\ Len(w.queue) \in Nat /\ DOMAIN w.queue = 1 .. Len(w.queue) /\ IsInjective(w.queue)
  BY <1>1 DEF Typed, Queued
<1>3. v = IF x = 0 THEN [a EXCEPT !.rc = "none"] ELSE [Delete(a, p, w.queue[x]) EXCEPT !.rc = "one"]
  BY DEF ForcedExpire
<1>4. x \in 0 .. Len(w.queue) /\ (x # 0 => x \in Idle(w))
  <2>1. Idle(w) \in SUBSET (1 .. Len(w.queue))
    BY <1>2 DEF Idle
  <2>2. Idle(w) # {} => Max(Idle(w)) \in Idle(w)
    BY <1>2, <2>1, MaxIn
  <2> QED BY <1>2, <2>1, <2>2
<1> HIDE DEF x
<1>5. q \in Seq(Slots) /\ IsInjective(q) /\ Range(q) = Range(w.queue)
  BY <1>2, <1>4, Rotate
<1> HIDE DEF q
<1>6. n \in [Slots -> Nodes] /\ \A i \in Slots : SameNode(w.nodes[i], n[i]) /\ SameFile(w.nodes[i], n[i])
  <2>1. ASSUME NEW i \in Slots
        PROVE  n[i] \in Nodes /\ SameNode(w.nodes[i], n[i]) /\ SameFile(w.nodes[i], n[i])
    <3>1. w.nodes[i] \in Nodes /\ now + setup.inactive \in Nat
      BY <1>1 DEF Typed, Wellset
    <3>2. n[i] = IF i \in Range(held) THEN [w.nodes[i] EXCEPT !.expire = now + setup.inactive] ELSE w.nodes[i]
      OBVIOUS
    <3> HIDE DEF held, n
    <3> QED BY <3>1, <3>2 DEF Nodes, SameNode, SameFile
  <2>2. DOMAIN n = Slots /\ n = [i \in Slots |-> n[i]]
    OBVIOUS
  <2> HIDE DEF n
  <2> QED BY <2>1, <2>2
<1>7. a = [w EXCEPT !.queue = q, !.nodes = n]
  OBVIOUS
<1> HIDE DEF n, a
<1>8. /\ Typed(a) /\ a.pc = w.pc /\ a.req = w.req /\ a.del = w.del /\ a.mgr = w.mgr
      /\ a.queue = q /\ a.nodes = n /\ a.robbed = w.robbed /\ SameBooks(w, a)
  BY <1>1, <1>5, <1>6, <1>7 DEF Typed, SameBooks
<1>9. Alike(w, a)
  BY <1>6, <1>8 DEF Alike, SameHold
<1>10. Queued(a)
  BY <1>1, <1>5, <1>6, <1>8 DEF Queued, Used, SameNode
<1>11. Sound(a)
  BY <1>8, <1>9, <1>10, AlikeIsSound
<1>12. ASSUME NEW b, Sound(b), Aside(w, b, p), NEW k, NEW c, c = [b EXCEPT !.rc = k]
       PROVE  /\ Sound(c) /\ Aside(w, c, p) /\ (Idly(w, b) => Idly(w, c))
              /\ \A i \in Slots : GivesUp(w, b, p, i) => GivesUp(w, c, p, i)
  <2>1. Typed(b) /\ Counted(b) /\ Named(b) /\ Queued(b) /\ Locked(b)
    BY <1>12 DEF Sound
  <2>2. /\ Typed(c) /\ c.pc = b.pc /\ c.req = b.req /\ c.del = b.del /\ c.mgr = b.mgr
        /\ c.queue = b.queue /\ c.nodes = b.nodes /\ c.robbed = b.robbed /\ SameBooks(b, c)
    BY <1>12, <2>1 DEF Typed, SameBooks
  <2>3. Alike(b, c)
    BY <2>2 DEF Alike, SameHold, SameNode
  <2>4. Queued(c)
    BY <2>1, <2>2 DEF Queued, Used
  <2>5. Sound(c)
    BY <1>12, <2>2, <2>3, <2>4, AlikeIsSound
  <2>6. Idly(w, b) => Idly(w, c)
    BY <2>2 DEF Idly, SameBooks
  <2>7. \A i \in Slots : GivesUp(w, b, p, i) => GivesUp(w, c, p, i)
    BY <2>2 DEF GivesUp, SameBooks
  <2> QED BY <1>12, <2>2, <2>5, <2>6, <2>7 DEF Aside
<1>13. CASE x = 0
  <2>1. Aside(w, a, p)
    BY <1>8 DEF Aside
  <2>2. Idly(w, a)
    BY <1>6, <1>8 DEF Idly, Emptied
  <2> QED BY <1>3, <1>11, <1>12, <1>13, <2>1, <2>2
<1>14. CASE x # 0
  <2> DEFINE i == w.queue[x]
             b == Delete(a, p, i)
  <2>1. x \in DOMAIN w.queue /\ i \in Slots /\ w.nodes[i].count = 0
    BY <1>1, <1>2, <1>4, <1>14 DEF Idle, Typed
  <2>2. w.nodes[i].key # 0
    <3>1. i \in Range(w.queue)
      BY <2>1 DEF Range
    <3> QED BY <1>1, <3>1 DEF Queued, Used
  <2>3. a.nodes[i].count = 0 /\ a.nodes[i].key # 0 /\ a.del[p].node = 0
    BY <1>6, <1>8, <2>1, <2>2 DEF SameNode
  <2> HIDE DEF i
  <2>4. Sound(b) /\ Aside(a, b, p) /\ (Idly(a, b) \/ GivesUp(a, b, p, i))
    BY <1>11, <2>1, <2>3, DeleteIs
  <2> HIDE DEF b
  <2>5. Aside(w, b, p)
    BY <1>8, <2>4 DEF Aside
  <2>6. v = [b EXCEPT !.rc = "one"]
    BY <1>3, <1>14 DEF b, i
  <2>7. Idly(a, b) => Idly(w, b)
    BY <1>6, <1>8 DEF Idly, Emptied, SameBooks, SameFile
  <2>8. GivesUp(a, b, p, i) => GivesUp(w, b, p, i)
    BY <1>6, <1>8, <2>1 DEF GivesUp, SameBooks, SameFile, SameNode
  <2> QED BY <1>12, <2>1, <2>4, <2>5, <2>6, <2>7, <2>8
<1> QED BY <1>13, <1>14

-----------------------------------------------------------------------------
(* What a request does without its node.                                     *)
Goes(w, v, r) ==
  /\ Typed(v) /\ v.nodes = w.nodes /\ v.queue = w.queue /\ v.del = w.del /\ v.mgr = w.mgr /\ v.robbed = w.robbed
  /\ \A s \in Requests \ {r} : v.pc[s] = w.pc[s] /\ v.req[s] = w.req[s]
  /\ SameElse(v.req[r], w.req[r]) /\ v.req[r].node = w.req[r].node

\* What a step of a request may do to the rest of the world without touching any node.
LEMMA GoesIs ==
  ASSUME Wellset, NEW w, Sound(w), NEW r \in Requests, NEW v, Goes(w, v, r)
  PROVE  Sound(v) /\ Frame(w, v, r)
<1>1. Typed(v) /\ Queued(w)
  BY DEF Goes, Sound
<1>2. \A s \in Requests : SameHold(w.req[s], v.req[s])
  <2>1. SameHold(w.req[r], v.req[r])
    BY DEF Goes, SameHold, SameElse
  <2>2. \A s \in Requests \ {r} : v.req[s] = w.req[s]
    BY DEF Goes
  <2> QED BY <2>1, <2>2 DEF SameHold
<1>3. v.nodes = w.nodes /\ v.queue = w.queue /\ v.del = w.del /\ v.robbed = w.robbed
  BY DEF Goes
<1>4. Alike(w, v)
  BY <1>2, <1>3 DEF Alike, SameNode
<1>5. Queued(v)
  BY <1>1, <1>3 DEF Queued, Used
<1>6. Sound(v)
  BY <1>1, <1>4, <1>5, AlikeIsSound
<1> QED BY <1>6 DEF Frame, Goes

\* A request that only goes on to another place.
LEMMA GotoIs ==
  ASSUME Wellset, NEW w, Sound(w), NEW r \in Requests, NEW st \in States
  PROVE  LET v == Goto(w, r, st) IN Goes(w, v, r) /\ v.pc[r] = st /\ v.req = w.req
<1> DEFINE v == Goto(w, r, st)
           k == [w.pc EXCEPT ![r] = st]
<1>1. Typed(w)
  BY DEF Sound
<1>2. k \in [Requests -> States] /\ k[r] = st /\ \A s \in Requests \ {r} : k[s] = w.pc[s]
  BY <1>1 DEF Typed
<1>3. v = [w EXCEPT !.pc = k]
  BY DEF Goto
<1> HIDE DEF k, v
<1>4. /\ Typed(v) /\ v.pc = k /\ v.req = w.req /\ v.del = w.del /\ v.mgr = w.mgr
      /\ v.queue = w.queue /\ v.nodes = w.nodes /\ v.robbed = w.robbed
  BY <1>1, <1>2, <1>3 DEF Typed
<1> QED BY <1>2, <1>4 DEF Goes, SameElse, v

\* A request changes what nothing depends on.
LEMMA ChangeIs ==
  ASSUME Wellset, NEW w, NEW u, NEW r \in Requests, Goes(w, u, r),
         NEW d \in Requested, SameElse(d, u.req[r]), d.node = u.req[r].node, NEW v, Typed(v),
         v.nodes = u.nodes, v.queue = u.queue, v.del = u.del, v.mgr = u.mgr, v.robbed = u.robbed, v.pc = u.pc,
         v.req[r] = d, \A s \in Requests \ {r} : v.req[s] = u.req[s]
  PROVE  Goes(w, v, r)
BY DEF Goes, SameElse

\* A request that sends what it has, from the cache or from the upstream.
LEMMA ServeIs ==
  ASSUME Wellset, NEW w, Sound(w), NEW r \in Requests,
         NEW st \in {"miss", "hit", "updating", "stale", "expired", "revalidated"}
  PROVE  LET v == Serve(w, r, st) IN Goes(w, v, r) /\ v.pc[r] = "send"
<1> DEFINE u == Goto(w, r, "send")
           d == [u.req[r] EXCEPT !.status = st]
           q == [u.req EXCEPT ![r] = d]
           v == Serve(w, r, st)
<1>1. Goes(w, u, r) /\ u.pc[r] = "send" /\ u.req = w.req
  BY GotoIs DEF States
<1>2. v = [u EXCEPT !.req = q]
  BY DEF Serve
<1>3. Typed(u)
  BY <1>1 DEF Goes
<1> HIDE DEF u
<1>4. d \in Requested /\ SameElse(d, u.req[r]) /\ d.node = u.req[r].node
  <2>1. u.req[r] \in Requested
    BY <1>3 DEF Typed
  <2> QED BY <2>1 DEF Requested, SameElse
<1> HIDE DEF d
<1>5. q \in [Requests -> Requested] /\ q[r] = d /\ \A s \in Requests \ {r} : q[s] = u.req[s]
  BY <1>3, <1>4 DEF Typed
<1> HIDE DEF q, v
<1>6. /\ Typed(v) /\ v.pc = u.pc /\ v.req = q /\ v.del = u.del /\ v.mgr = u.mgr
      /\ v.queue = u.queue /\ v.nodes = u.nodes /\ v.robbed = u.robbed
  BY <1>2, <1>3, <1>5 DEF Typed
<1>7. Goes(w, v, r)
  BY <1>1, <1>4, <1>5, <1>6, ChangeIs
<1> QED BY <1>1, <1>6, <1>7 DEF v

\* A request that goes to the upstream, with or without the validators.
LEMMA AskIs ==
  ASSUME Wellset, NEW w, Sound(w), NEW r \in Requests, NEW b \in BOOLEAN
  PROVE  LET v == Ask(w, r, b) IN Goes(w, v, r) /\ v.pc[r] = "fetch"
<1> DEFINE u == Goto(w, r, "fetch")
           d == [u.req[r] EXCEPT !.cacheable = @ /\ b]
           q == [u.req EXCEPT ![r] = d]
           v == Ask(w, r, b)
<1>1. Goes(w, u, r) /\ u.pc[r] = "fetch" /\ u.req = w.req
  BY GotoIs DEF States
<1>2. v = [u EXCEPT !.req = q]
  BY DEF Ask
<1>3. Typed(u)
  BY <1>1 DEF Goes
<1> HIDE DEF u
<1>4. d \in Requested /\ SameElse(d, u.req[r]) /\ d.node = u.req[r].node
  <2>1. u.req[r] \in Requested /\ (u.req[r].cacheable /\ b) \in BOOLEAN
    BY <1>3 DEF Typed
  <2> QED BY <2>1 DEF Requested, SameElse
<1> HIDE DEF d
<1>5. q \in [Requests -> Requested] /\ q[r] = d /\ \A s \in Requests \ {r} : q[s] = u.req[s]
  BY <1>3, <1>4 DEF Typed
<1> HIDE DEF q, v
<1>6. /\ Typed(v) /\ v.pc = u.pc /\ v.req = q /\ v.del = u.del /\ v.mgr = u.mgr
      /\ v.queue = u.queue /\ v.nodes = u.nodes /\ v.robbed = u.robbed
  BY <1>2, <1>3, <1>5 DEF Typed
<1>7. Goes(w, v, r)
  BY <1>1, <1>4, <1>5, <1>6, ChangeIs
<1> QED BY <1>1, <1>6, <1>7 DEF v

\* Who goes on is where it may be, and so are the others.
Beside(w, v, r) ==
  /\ v.mgr = w.mgr /\ \A s \in Processes \ {r} : v.del[s] = w.del[s]
  /\ \A s \in Requests \ {r} : v.pc[s] = w.pc[s] /\ v.req[s] = w.req[s]

\* What each request may have by where it is stays so when one of them moves within these rules.
LEMMA PlacedBeside ==
  ASSUME Wellset, NEW w, NEW v, NEW r \in Requests, AllPlaced(w), Beside(w, v, r), w.pc[r] # "none", Rests(v, r),
         v.req[r].sub = w.req[r].sub,
         w.pc[r] \in {"send", "done", "dead"} => v.pc[r] \in {"send", "done", "dead"}
  PROVE  AllPlaced(v)
<1>1. /\ v.mgr = w.mgr /\ \A s \in Requests \ {r} : v.pc[s] = w.pc[s] /\ v.req[s] = w.req[s] /\ v.del[s] = w.del[s]
      /\ v.del[Manager] = w.del[Manager]
  BY DEF Beside, Processes, Manager, Wellset
<1>2. ASSUME NEW s \in Requests
      PROVE  Rests(v, s) /\ Kin(v, s)
  <2>1. Rests(w, s) /\ Kin(w, s) /\ Kin(w, r)
    BY DEF AllPlaced
  <2>2. Sub(s) # s /\ s \in Nat
    BY DEF Sub, Wellset
  <2>3. CASE s = r
    <3>1. Sub(r) \in Requests => v.pc[Sub(r)] = w.pc[Sub(r)]
      BY <1>1, <2>2, <2>3
    <3> QED BY <2>1, <2>3, <3>1 DEF Kin
  <2>4. CASE s # r
    <3>1. v.pc[s] = w.pc[s] /\ v.req[s] = w.req[s] /\ v.del[s] = w.del[s]
      BY <1>1, <2>4
    <3>2. Rests(v, s)
      BY <2>1, <3>1 DEF Rests
    <3>3. CASE Sub(s) = r
      BY <2>1, <3>1, <3>2, <3>3 DEF Kin
    <3>4. CASE Sub(s) # r
      <4>1. Sub(s) \in Requests => v.pc[Sub(s)] = w.pc[Sub(s)]
        BY <1>1, <3>4
      <4> QED BY <2>1, <3>1, <3>2, <4>1 DEF Kin
    <3> QED BY <3>2, <3>3, <3>4
  <2> QED BY <2>3, <2>4
<1> QED BY <1>1, <1>2 DEF AllPlaced

\* The same, for a step that changes nothing of the others.
LEMMA PlacedStill ==
  ASSUME Wellset, NEW w, NEW v, NEW r \in Requests, AllPlaced(w), Frame(w, v, r), w.pc[r] # "none", Rests(v, r),
         v.req[r].sub = w.req[r].sub,
         w.pc[r] \in {"send", "done", "dead"} => v.pc[r] \in {"send", "done", "dead"}
  PROVE  AllPlaced(v)
<1>1. Beside(w, v, r)
  BY DEF Beside, Frame
<1> QED BY <1>1, PlacedBeside

\* An allocation that fails leaves the nodes alone.
LEMMA FullZoneIs ==
  ASSUME Wellset, NEW w, Sound(w), NEW r \in Requests
  PROVE  LET v == FullZone(w) IN Goes(w, v, r) /\ v.pc = w.pc /\ v.req = w.req /\ v.rc = "full"
<1> DEFINE v == FullZone(w)
           h == [w.sh EXCEPT !.watermark = Cardinality(Slots \ Room(w)) - Cardinality(Slots \ Room(w)) \div 8]
<1>1. Typed(w)
  BY DEF Sound
<1>2. v = [w EXCEPT !.sh = h, !.rc = "full"]
  BY DEF FullZone
<1> HIDE DEF h, v
<1>3. /\ Typed(v) /\ v.pc = w.pc /\ v.req = w.req /\ v.del = w.del /\ v.mgr = w.mgr
      /\ v.queue = w.queue /\ v.nodes = w.nodes /\ v.robbed = w.robbed /\ v.rc = "full"
  BY <1>1, <1>2 DEF Typed
<1> QED BY <1>3 DEF Goes, SameElse, v

\* A request that has no lock finds its node, takes a new one, or finds the zone full.
LEMMA ExistsIs ==
  ASSUME Wellset, NEW w, Sound(w), NEW r \in Requests, NEW i \in Slots \union {0}, w.req[r].node \in {0, i},
         i # 0 => w.nodes[i].key = w.req[r].key, ~w.req[r].updating \/ Moved(w.req[r])
  PROVE  LET v == Exists(w, r, i) IN
         /\ Sound(v) /\ v.pc = w.pc /\ Frame(w, v, r) /\ SameElse(v.req[r], w.req[r])
         /\ v.rc \in {"full", "declined", "ok", "scarce"} /\ (v.rc = "full" <=> v.req[r].node = 0)
<1> DEFINE v == Exists(w, r, i)
<1>1. CASE i # 0
  <2>1. v = Take(w, r, i) /\ i \in Slots
    BY <1>1 DEF Exists
  <2> HIDE DEF v
  <2>2. Sound(v) /\ v.pc = w.pc /\ Frame(w, v, r) /\ SameElse(v.req[r], w.req[r]) /\ v.rc \in {"declined", "ok", "scarce"}
        /\ v.req[r].node # 0
    BY <1>1, <2>1, TakeIs
  <2> QED BY <2>2 DEF v
<1>2. CASE i = 0 /\ Room(w) = {}
  <2>1. v = FullZone(w)
    BY <1>2 DEF Exists
  <2> HIDE DEF v
  <2>2. Goes(w, v, r) /\ v.pc = w.pc /\ v.req = w.req /\ v.rc = "full"
    BY <2>1, FullZoneIs
  <2>3. Sound(v) /\ Frame(w, v, r)
    BY <2>2, GoesIs
  <2> QED BY <1>2, <2>2, <2>3 DEF v, SameElse
<1>3. CASE i = 0 /\ Room(w) # {}
  <2>1. v = Insert(w, r)
    BY <1>3 DEF Exists
  <2> HIDE DEF v
  <2>2. Sound(v) /\ v.pc = w.pc /\ Frame(w, v, r) /\ SameElse(v.req[r], w.req[r]) /\ v.rc = "declined"
        /\ v.req[r].node # 0
    BY <1>3, <2>1, InsertIs
  <2> QED BY <2>2 DEF v
<1> QED BY <1>1, <1>2, <1>3

\* What ngx_http_upstream_cache does with each return code of the lookup.
LEMMA OpenedIs ==
  ASSUME Wellset, NEW w, Sound(w), NEW r \in Requests, w.rc \in {"full", "declined", "ok", "scarce"}
  PROVE  LET v == Opened(w, r) IN
         /\ Goes(w, v, r) /\ v.pc[r] \in {"evict", "fetch", "send", "open", "lock"}
         /\ v.pc[r] = "evict" <=> w.rc = "full"
<1> DEFINE v == Opened(w, r)
           c == w.req[r]
<1>1. CASE w.rc = "full"
  <2>1. v = Goto(w, r, "evict")
    BY <1>1 DEF Opened
  <2> QED BY <1>1, <2>1, GotoIs DEF States
<1>2. CASE w.rc = "scarce"
  <2>1. v = Ask(w, r, FALSE)
    BY <1>2 DEF Opened
  <2> QED BY <1>2, <2>1, AskIs
<1>3. CASE w.rc = "ok" /\ c.error
  <2>1. v = Serve(w, r, "hit")
    BY <1>3 DEF Opened
  <2> QED BY <1>3, <2>1, ServeIs
<1>4. CASE w.rc = "ok" /\ ~c.error
  <2>1. v = Goto(w, r, IF c.found THEN "open" ELSE "lock")
    BY <1>4 DEF Opened
  <2> QED BY <1>4, <2>1, GotoIs DEF States
<1>5. CASE w.rc = "declined" /\ w.sh.cold
  <2>1. v = Goto(w, r, "open")
    BY <1>5 DEF Opened
  <2> QED BY <1>5, <2>1, GotoIs DEF States
<1>6. CASE w.rc = "declined" /\ ~w.sh.cold /\ setup.minUses > 1
  <2>1. v = Ask(w, r, FALSE)
    BY <1>6 DEF Opened
  <2> QED BY <1>6, <2>1, AskIs
<1>7. CASE w.rc = "declined" /\ ~w.sh.cold /\ ~(setup.minUses > 1)
  <2>1. v = Goto(w, r, "lock")
    BY <1>7 DEF Opened
  <2> QED BY <1>7, <2>1, GotoIs DEF States
<1> QED BY <1>1, <1>2, <1>3, <1>4, <1>5, <1>6, <1>7

-----------------------------------------------------------------------------
(* The steps.                                                                *)
LEMMA NowWellset == IInv => Wellset /\ Sound(World) /\ AllPlaced(World)
BY SetupIsWellset DEF IInv

\* A step that ends in a sound world.
LEMMA BecomeIs ==
  ASSUME IInv, NEW v, Sound(v), AllPlaced(v),
         pc' = v.pc, req' = v.req, nodes' = v.nodes, queue' = v.queue, disk' = v.disk, del' = v.del,
         mgr' = v.mgr, todo' = v.todo, upset' = v.upset, robbed' = v.robbed, UNCHANGED <<now, setup>>
  PROVE  IInv'
<1>1. setup' = setup /\ now' = now /\ setup' \in Setups /\ now' \in Nat
  BY DEF IInv
<1>2. Typed(v) /\ Counted(v) /\ Named(v) /\ Queued(v) /\ Locked(v)
  BY DEF Sound
<1>3. Slots' = Slots /\ Keys' = Keys /\ Processes' = Processes
  BY <1>1 DEF Slots, Keys, Processes
<1>4. Requested' = Requested /\ Nodes' = Nodes /\ Deletions' = Deletions
  BY <1>1, <1>3 DEF Requested, Nodes, Deletions
<1>5. Typed(World)'
  BY <1>2, <1>3, <1>4 DEF Typed, World
<1>6. Counted(World)' /\ Named(World)' /\ Queued(World)'
  BY <1>2, <1>3 DEF Counted, Named, Queued, Used, World
<1>7. \A r \in Requests : HasLock(World, r)' <=> HasLock(v, r)
  BY <1>1 DEF HasLock, World
<1>8. Locked(World)'
  BY <1>2, <1>7 DEF Locked, World
<1>9. AllPlaced(World)'
  BY <1>1, <1>3 DEF AllPlaced, Rests, Kin, World
<1> QED BY <1>1, <1>5, <1>6, <1>8, <1>9 DEF IInv, Sound

\* The fields of the world are the variables.
LEMMA WorldIs ==
  /\ World.pc = pc /\ World.req = req /\ World.nodes = nodes /\ World.queue = queue /\ World.sh = sh
  /\ World.disk = disk /\ World.del = del /\ World.mgr = mgr /\ World.todo = todo /\ World.upset = upset
  /\ World.robbed = robbed /\ World.rc = "none"
BY DEF World

\* A step to a sound world keeps the inductive invariant.
LEMMA Becoming ==
  ASSUME IInv, NEW STATE x, Become(x), Sound(x), AllPlaced(x)
  PROVE  IInv'
<1>1. PICK v \in {x} : /\ pc' = v.pc /\ req' = v.req /\ nodes' = v.nodes /\ queue' = v.queue /\ sh' = v.sh
                       /\ disk' = v.disk /\ del' = v.del /\ mgr' = v.mgr /\ todo' = v.todo /\ upset' = v.upset
                       /\ robbed' = v.robbed /\ UNCHANGED <<now, faults, setup>>
  BY Zenon DEF Become
<1>2. v = x /\ Sound(v) /\ AllPlaced(v)
  BY <1>1
<1>3. UNCHANGED <<now, setup>>
  BY <1>1
<1> QED BY ONLY <1>1, <1>2, <1>3, IInv, BecomeIs

\* A request looks its key up: ngx_http_file_cache_open.
LEMMA OpenIs ==
  ASSUME IInv, NEW r \in Requests, Open(r)
  PROVE  IInv'
<1>1. Wellset /\ Sound(World) /\ AllPlaced(World)
  BY NowWellset
<1>2. pc[r] = "exists"
  BY DEF Open, MayOpen
<1>3. PICK i \in IF req[r].node # 0 THEN {req[r].node} ELSE Lookup(World, req[r].key) :
        Become(Opened(Exists(World, r, i), r))
  BY Zenon DEF Open
<1> DEFINE u == Exists(World, r, i)
           v == Opened(u, r)
<1>4. /\ World.req[r].node \in {0, i} /\ i \in Slots \union {0}
      /\ i # 0 => World.nodes[i].key = World.req[r].key
  <2>1. CASE req[r].node # 0
    BY <1>1, <1>3, <2>1, WorldIs, NodePlace DEF Sound, Named
  <2>2. CASE req[r].node = 0
    BY <1>3, <2>2, WorldIs DEF Lookup
  <2> QED BY <2>1, <2>2
<1>5. /\ Rests(World, r) /\ ~World.req[r].updating /\ ~World.req[r].updated /\ World.del[r].node = 0
  BY <1>1, <1>2, WorldIs DEF AllPlaced, Rests, Asking
<1>6. /\ Sound(u) /\ u.pc = World.pc /\ Frame(World, u, r) /\ SameElse(u.req[r], World.req[r])
      /\ u.rc \in {"full", "declined", "ok", "scarce"} /\ (u.rc = "full" <=> u.req[r].node = 0)
  BY ONLY <1>1, <1>4, <1>5, r \in Requests, ExistsIs
<1> HIDE DEF u
<1>7. /\ Goes(u, v, r) /\ v.pc[r] \in {"evict", "fetch", "send", "open", "lock"}
      /\ v.pc[r] = "evict" <=> u.rc = "full"
  BY ONLY <1>1, <1>6, r \in Requests, OpenedIs
<1> HIDE DEF v
<1>8. Sound(v) /\ Frame(u, v, r)
  BY <1>1, <1>6, <1>7, GoesIs
<1>9. Frame(World, v, r) /\ SameElse(v.req[r], World.req[r]) /\ v.req[r].node = u.req[r].node /\ v.del = World.del
  BY <1>6, <1>7, <1>8 DEF Frame, Goes, SameElse
<1>10. Rests(v, r)
  BY <1>5, <1>6, <1>7, <1>9 DEF Rests, SameElse, Using
<1>11. AllPlaced(v)
  <2>1. World.pc[r] = "exists" /\ v.req[r].sub = World.req[r].sub
    BY <1>2, <1>9, WorldIs DEF SameElse
  <2> QED BY <1>1, <1>9, <1>10, <2>1, PlacedStill
<1>12. Become(v)
  BY <1>3 DEF u, v
<1> QED BY ONLY IInv, <1>8, <1>11, <1>12, Becoming

\* A request that has no node and takes none may be anything.
LEMMA NewIs ==
  ASSUME Wellset, NEW k \in setup.kinds, NEW b \in BOOLEAN
  PROVE  New(k, b) \in Requested /\ NoFile \in Files
<1>1. k.key \in Keys /\ 0 \in Nat /\ 0 \in Int /\ 0 \in Slots \union {0}
  BY DEF Wellset
<1>2. NoFile \in Files
  BY DEF NoFile, Files
<1> QED BY <1>1, <1>2 DEF New, Requested

\* A request without a node may change as it likes, as long as it stays without.
LEMMA NodelessIs ==
  ASSUME Wellset, NEW w, Sound(w), NEW r \in Requests, w.req[r].node = 0, NEW v, Typed(v), v.req[r].node = 0,
         v.nodes = w.nodes, v.queue = w.queue, v.del = w.del, v.robbed = w.robbed,
         \A s \in Requests \ {r} : v.req[s] = w.req[s]
  PROVE  Sound(v)
<1>1. Typed(w) /\ Counted(w) /\ Named(w) /\ Queued(w) /\ Locked(w)
  BY DEF Sound
<1>2. Queued(v)
  BY <1>1 DEF Queued, Used
<1>3. Locked(v)
  <2>1. \A s \in Requests : HasLock(v, s) => s # r /\ HasLock(w, s) /\ w.req[s] = v.req[s]
    BY DEF HasLock
  <2>2. \A s \in Requests : HasLock(v, s) => HasLock(w, s) /\ w.req[s].node = v.req[s].node
    BY <2>1
  <2>3. ASSUME NEW s \in Requests, HasLock(v, s), v.req[s].node \notin v.robbed
        PROVE  /\ v.req[s].node \notin w.robbed /\ v.req[s].lockTime = w.req[s].lockTime
               /\ v.nodes[v.req[s].node].updating = w.nodes[v.req[s].node].updating
               /\ v.nodes[v.req[s].node].lockTime = w.nodes[v.req[s].node].lockTime
    BY <2>1, <2>3
  <2> QED BY ONLY <1>1, <2>2, <2>3, LockedStill
<1>4. Counted(v)
  <2>1. ASSUME NEW j \in Slots
        PROVE  v.nodes[j].count = w.nodes[j].count - Pointed(w.req, j, r) + Pointed(v.req, j, r)
    BY <1>1 DEF Pointed, Wellset, Typed, Nodes
  <2> QED BY <1>1, <2>1, CountedStill
<1>5. Named(v)
  BY <1>1 DEF Named
<1> QED BY <1>2, <1>3, <1>4, <1>5 DEF Sound

\* A request that has left its node is done.
LEMMA DoneIs ==
  ASSUME Wellset, NEW w, Sound(w), NEW r \in Requests, w.req[r].node = 0, NEW d \in Requested, d.node = 0
  PROVE  LET v == Goto([w EXCEPT !.req[r] = d], r, "done") IN
         Sound(v) /\ Frame(w, v, r) /\ v.pc[r] = "done" /\ v.req[r] = d
<1> DEFINE q == [w.req EXCEPT ![r] = d]
           u == [w EXCEPT !.req = q]
           v == Goto(u, r, "done")
<1>1. Typed(w)
  BY DEF Sound
<1>2. q \in [Requests -> Requested] /\ q[r] = d /\ \A s \in Requests \ {r} : q[s] = w.req[s]
  BY <1>1 DEF Typed
<1>3. u = [w EXCEPT !.req = q]
  OBVIOUS
<1> HIDE DEF q, u
<1>4. /\ Typed(u) /\ u.pc = w.pc /\ u.req = q /\ u.del = w.del /\ u.mgr = w.mgr
      /\ u.queue = w.queue /\ u.nodes = w.nodes /\ u.robbed = w.robbed
  BY <1>1, <1>2, <1>3 DEF Typed
<1>5. u.req[r].node = 0 /\ \A s \in Requests \ {r} : u.req[s] = w.req[s]
  BY <1>2, <1>4
<1>6. Sound(u)
  BY <1>4, <1>5, NodelessIs
<1>7. Goes(u, v, r) /\ v.pc[r] = "done" /\ v.req = u.req
  BY <1>6, GotoIs DEF States
<1> HIDE DEF v
<1>8. Sound(v) /\ Frame(u, v, r)
  BY <1>6, <1>7, GoesIs
<1>9. Frame(w, v, r) /\ v.req[r] = d
  BY <1>2, <1>4, <1>7, <1>8 DEF Frame
<1> QED BY <1>7, <1>8, <1>9 DEF v, u, q

\* What a request is after it has given the cache up: no node, no lock, no temporary file.
LEMMA PastIs ==
  ASSUME Wellset, Sound(World), NEW r \in Requests
  PROVE  /\ Past(r) \in Requested /\ Past(r).node = 0 /\ Past(r).sub = req[r].sub /\ Past(r).updated
         /\ ~Past(r).updating /\ ~Past(r).temp
<1> DEFINE n == New(req[r].kind, req[r].sub)
<1>1. req[r].kind \in setup.kinds /\ req[r].sub \in BOOLEAN
  BY WorldIs DEF Sound, Typed, Requested
<1>2. n \in Requested
  BY <1>1, NewIs
<1>3. n.node = 0 /\ n.sub = req[r].sub /\ ~n.updating /\ ~n.temp
  BY DEF New
<1> HIDE DEF n
<1>4. Past(r) = [n EXCEPT !.updated = TRUE]
  BY DEF Past, n
<1> QED BY <1>2, <1>3, <1>4 DEF Requested

\* A full zone: the oldest unused node is deleted before a second try.
LEMMA MakeRoomIs ==
  ASSUME IInv, NEW r \in Requests, MakeRoom(r)
  PROVE  IInv'
<1>1. Wellset /\ Sound(World) /\ AllPlaced(World)
  BY NowWellset
<1> DEFINE u == ForcedExpire(World, r)
           v == Goto(u, r, "retry")
<1>2. World.pc[r] = "evict" /\ Become(v)
  BY WorldIs DEF MakeRoom
<1>3. /\ World.req[r].node = 0 /\ ~World.req[r].updating /\ ~World.req[r].updated /\ World.del[r].node = 0
  BY <1>1, <1>2 DEF AllPlaced, Rests, Asking
<1>4. r \in Processes
  BY DEF Processes
<1>5. Sound(u) /\ Aside(World, u, r)
  BY ONLY <1>1, <1>3, <1>4, ForcedExpireIs
<1> HIDE DEF u
<1>6. Goes(u, v, r) /\ v.pc[r] = "retry" /\ v.req = u.req
  BY <1>1, <1>5, GotoIs DEF States
<1> HIDE DEF v
<1>7. Sound(v) /\ Frame(u, v, r)
  BY <1>1, <1>5, <1>6, GoesIs
<1>8. Beside(World, v, r) /\ v.req[r] = World.req[r]
  BY <1>5, <1>6, <1>7 DEF Beside, Aside, Frame
<1>9. Rests(v, r)
  BY <1>3, <1>6, <1>8 DEF Rests, Using
<1>10. AllPlaced(v)
  BY <1>1, <1>2, <1>8, <1>9, PlacedBeside
<1> QED BY ONLY IInv, <1>2, <1>7, <1>10, Becoming

\* The second try to allocate after the forced expire.
LEMMA RetryIs ==
  ASSUME IInv, NEW r \in Requests, Retry(r)
  PROVE  IInv'
<1>1. Wellset /\ Sound(World) /\ AllPlaced(World)
  BY NowWellset
<1>2. World.pc[r] = "retry" /\ World.del[r].node = 0
  BY WorldIs DEF Retry
<1>3. World.req[r].node = 0 /\ ~World.req[r].updating /\ ~World.req[r].updated
  BY <1>1, <1>2 DEF AllPlaced, Rests, Asking
<1>4. CASE Room(World) = {}
  <2> DEFINE d == Past(r)
             v == Goto([World EXCEPT !.req[r] = d], r, "done")
  <2>1. Become(v)
    BY <1>4 DEF Retry
  <2>2. /\ d \in Requested /\ d.node = 0 /\ d.sub = World.req[r].sub /\ d.updated /\ ~d.updating /\ ~d.temp
    BY <1>1, PastIs, WorldIs
  <2> HIDE DEF d
  <2>3. Sound(v) /\ Frame(World, v, r) /\ v.pc[r] = "done" /\ v.req[r] = d
    BY ONLY <1>1, <1>3, <2>2, r \in Requests, DoneIs
  <2> HIDE DEF v
  <2>4. Rests(v, r)
    BY <1>2, <2>2, <2>3 DEF Rests, Frame, Asking, Using
  <2>5. AllPlaced(v)
    BY <1>1, <1>2, <2>2, <2>3, <2>4, PlacedStill
  <2> QED BY ONLY IInv, <2>1, <2>3, <2>5, Becoming
<1>5. CASE Room(World) # {}
  <2> DEFINE u == Insert(World, r)
             v == Opened(u, r)
  <2>1. Become(v)
    BY <1>5 DEF Retry
  <2>2. /\ Sound(u) /\ u.pc = World.pc /\ Frame(World, u, r) /\ SameElse(u.req[r], World.req[r])
        /\ u.rc = "declined" /\ u.req[r].node # 0
    BY ONLY <1>1, <1>3, <1>5, r \in Requests, InsertIs
  <2> HIDE DEF u
  <2>3. /\ Goes(u, v, r) /\ v.pc[r] \in {"evict", "fetch", "send", "open", "lock"}
        /\ v.pc[r] = "evict" <=> u.rc = "full"
    BY ONLY <1>1, <2>2, r \in Requests, OpenedIs
  <2> HIDE DEF v
  <2>4. Sound(v) /\ Frame(u, v, r)
    BY <1>1, <2>2, <2>3, GoesIs
  <2>5. Frame(World, v, r) /\ SameElse(v.req[r], World.req[r]) /\ v.del = World.del /\ v.req[r].node # 0
    BY <2>2, <2>3, <2>4 DEF Frame, Goes, SameElse
  <2>6. Rests(v, r)
    BY <1>2, <1>3, <2>2, <2>3, <2>5 DEF Rests, SameElse, Using
  <2>7. AllPlaced(v)
    <3>1. v.req[r].sub = World.req[r].sub
      BY <2>5 DEF SameElse
    <3> QED BY <1>1, <1>2, <2>5, <2>6, <3>1, PlacedStill
  <2> QED BY ONLY IInv, <2>1, <2>4, <2>7, Becoming
<1> QED BY <1>4, <1>5

\* Only the request has changed, or only whether the accounts are upset.
ReqOnly(u, v, r, d) ==
  /\ Typed(v) /\ v.nodes = u.nodes /\ v.queue = u.queue /\ v.del = u.del /\ v.mgr = u.mgr /\ v.robbed = u.robbed
  /\ v.pc = u.pc /\ v.req[r] = d /\ \A s \in Requests \ {r} : v.req[s] = u.req[s]

\* Writing the fields of one request.
LEMMA ReqIs ==
  ASSUME NEW u, Typed(u), NEW r \in Requests, NEW d \in Requested
  PROVE  ReqOnly(u, [u EXCEPT !.req[r] = d], r, d)
<1> DEFINE q == [u.req EXCEPT ![r] = d]
           v == [u EXCEPT !.req = q]
<1>1. q \in [Requests -> Requested] /\ q[r] = d /\ \A s \in Requests \ {r} : q[s] = u.req[s]
  BY DEF Typed
<1>2. v = [u EXCEPT !.req = q]
  OBVIOUS
<1> HIDE DEF q, v
<1>3. /\ Typed(v) /\ v.pc = u.pc /\ v.req = q /\ v.del = u.del /\ v.mgr = u.mgr
      /\ v.queue = u.queue /\ v.nodes = u.nodes /\ v.robbed = u.robbed
  BY <1>1, <1>2 DEF Typed
<1> QED BY <1>1, <1>3 DEF ReqOnly, v, q

\* Noting that something was logged as an alert touches no node.
LEMMA UpsetIs ==
  ASSUME NEW w, NEW u, NEW r \in Requests, Goes(w, u, r), NEW b
  PROVE  LET v == [u EXCEPT !.upset = @ \/ b] IN Goes(w, v, r) /\ v.pc = u.pc /\ v.req = u.req
<1> DEFINE e == u.upset \/ b
           v == [u EXCEPT !.upset = e]
<1>1. Typed(u)
  BY DEF Goes
<1>2. e \in BOOLEAN
  OBVIOUS
<1>3. v = [u EXCEPT !.upset = e]
  OBVIOUS
<1> HIDE DEF e, v
<1>4. /\ Typed(v) /\ v.pc = u.pc /\ v.req = u.req /\ v.del = u.del /\ v.mgr = u.mgr
      /\ v.queue = u.queue /\ v.nodes = u.nodes /\ v.robbed = u.robbed
  BY <1>1, <1>2, <1>3 DEF Typed
<1>5. Goes(w, v, r)
  BY <1>4 DEF Goes
<1> QED BY <1>4, <1>5 DEF v, e

\* A step of a request that goes on.
LEMMA GoesOn ==
  ASSUME IInv, NEW r \in Requests, NEW STATE v, Goes(World, v, r), Become(v), pc[r] # "none", Rests(v, r),
         pc[r] \in {"send", "done", "dead"} => v.pc[r] \in {"send", "done", "dead"}
  PROVE  IInv'
<1>1. Wellset /\ Sound(World) /\ AllPlaced(World)
  BY NowWellset
<1>2. Sound(v) /\ Frame(World, v, r)
  BY <1>1, GoesIs
<1>3. v.req[r].sub = World.req[r].sub
  BY DEF Goes, SameElse
<1>4. AllPlaced(v)
  BY <1>1, <1>2, <1>3, WorldIs, PlacedStill
<1> QED BY ONLY IInv, Become(v), <1>2, <1>4, Becoming

\* A file of another variant: the node is left and the one of the variant looked up.
LEMMA ReopenIs ==
  ASSUME Wellset, NEW w, Sound(w), NEW r \in Requests, w.req[r].node # 0, ~w.req[r].secondary
  PROVE  LET v == Reopen(w, r) IN
         /\ Sound(v) /\ Frame(w, v, r) /\ v.pc[r] = "exists" /\ v.req[r].node = 0
         /\ v.req[r].sub = w.req[r].sub /\ v.req[r].updating = w.req[r].updating /\ v.req[r].updated = w.req[r].updated
         /\ v.sh = w.sh /\ v.disk = w.disk /\ v.todo = w.todo
         /\ v.upset = (w.upset \/ ~w.nodes[w.req[r].node].exists)
         /\ \A j \in Slots : SameFile(w.nodes[j], v.nodes[j])
         /\ v.req[r].kind = w.req[r].kind /\ v.req[r].secondary /\ v.req[r].status = w.req[r].status
<1> DEFINE c == w.req[r]
           i == c.node
           g == Goto(w, r, "exists")
           e == g.upset \/ ~w.nodes[i].exists
           x == [g.nodes[i] EXCEPT !.count = @ - 1]
           n == [g.nodes EXCEPT ![i] = x]
           d == [g.req[r] EXCEPT !.node = 0, !.secondary = TRUE, !.key = Variant(c.kind)]
           q == [g.req EXCEPT ![r] = d]
           v == Reopen(w, r)
<1>1. Typed(w)
  BY DEF Sound
<1>2. v = [g EXCEPT !.upset = e, !.nodes = n, !.req = q]
  <2>1. [g EXCEPT !.upset = @ \/ ~w.nodes[i].exists, !.nodes[i].count = @ - 1,
           !.req[r] = [@ EXCEPT !.node = 0, !.secondary = TRUE, !.key = Variant(c.kind)]]
        = [g EXCEPT !.upset = e, !.nodes = n, !.req = q]
    OBVIOUS
  <2> HIDE DEF g, n, q, e
  <2> QED BY <2>1 DEF Reopen, g
<1>3. Goes(w, g, r) /\ g.pc[r] = "exists" /\ g.req = w.req
  BY GotoIs DEF States
<1>4. Typed(g) /\ g.nodes = w.nodes /\ g.queue = w.queue /\ g.del = w.del /\ g.mgr = w.mgr /\ g.robbed = w.robbed
      /\ SameBooks(w, g)
  <2> DEFINE k == [w.pc EXCEPT ![r] = "exists"]
  <2>1. g = [w EXCEPT !.pc = k]
    BY DEF Goto
  <2> HIDE DEF g, k
  <2>2. SameBooks(w, g)
    BY <1>1, <2>1 DEF SameBooks, Typed
  <2> QED BY <1>3, <2>2 DEF Goes
<1>5. i \in Slots /\ c \in Requested /\ w.nodes[i] \in Nodes
  BY <1>1, NodePlace DEF Typed
<1> HIDE DEF g
<1>6. x \in Nodes /\ x.key = w.nodes[i].key /\ x.count = w.nodes[i].count - 1 /\ x.updating = w.nodes[i].updating
      /\ x.lockTime = w.nodes[i].lockTime /\ SameFile(w.nodes[i], x)
  <2>1. w.nodes[i].count - 1 \in Int
    BY <1>5 DEF Nodes
  <2> QED BY <1>4, <1>5, <2>1 DEF Nodes, SameFile
<1>7. d \in Requested /\ d.node = 0 /\ d.sub = c.sub /\ d.updating = c.updating /\ d.updated = c.updated
      /\ d.kind = c.kind /\ d.secondary /\ d.status = c.status
  <2>1. Variant(c.kind) \in Keys /\ 0 \in Slots \union {0}
    BY <1>5 DEF Requested, Wellset
  <2> QED BY <1>3, <1>5, <2>1 DEF Requested
<1> HIDE DEF x, d
<1>8. n \in [Slots -> Nodes] /\ n[i] = x /\ \A j \in Slots \ {i} : n[j] = w.nodes[j]
  BY <1>4, <1>5, <1>6 DEF Typed
<1>9. q \in [Requests -> Requested] /\ q[r] = d /\ \A s \in Requests \ {r} : q[s] = w.req[s]
  BY <1>3, <1>4, <1>7 DEF Typed
<1>10. e \in BOOLEAN /\ e = (w.upset \/ ~w.nodes[i].exists)
  BY <1>4 DEF SameBooks
<1> HIDE DEF n, q, e, v
<1>11. /\ Typed(v) /\ v.pc = g.pc /\ v.req = q /\ v.del = w.del /\ v.mgr = w.mgr
       /\ v.queue = w.queue /\ v.nodes = n /\ v.robbed = w.robbed
       /\ v.sh = w.sh /\ v.disk = w.disk /\ v.todo = w.todo /\ v.upset = e
  BY <1>2, <1>4, <1>8, <1>9, <1>10 DEF Typed, SameBooks
<1>12. Leaves(w, v, r, i, x, d)
  BY <1>6, <1>7, <1>8, <1>9, <1>11 DEF Leaves, SameNode
<1>13. Sound(v)
  BY <1>5, <1>12, LeavesIs
<1>14. Frame(w, v, r)
  BY <1>3, <1>9, <1>11 DEF Frame, Goes
<1>15. \A j \in Slots : SameFile(w.nodes[j], v.nodes[j])
  BY <1>6, <1>8, <1>11 DEF SameFile
<1> QED BY <1>3, <1>7, <1>9, <1>10, <1>11, <1>13, <1>14, <1>15 DEF v, c

\* The header of the cache file is read: ngx_http_file_cache_read.
LEMMA ReadIs ==
  ASSUME IInv, NEW r \in Requests, Read(r)
  PROVE  IInv'
<1> DEFINE c == req[r]
           f == disk[c.key]
           w == World
<1>1. Wellset /\ Sound(w) /\ AllPlaced(w)
  BY NowWellset
<1>2. pc[r] = "open" /\ w.pc[r] = "open" /\ w.req[r] = c
  BY WorldIs DEF Read
<1>3. c.node # 0 /\ ~c.updating /\ ~c.updated /\ w.del[r].node = 0
  BY <1>1, <1>2 DEF AllPlaced, Rests, Asking, Using
<1>4. c \in Requested /\ f \in Files /\ f.till \in Int
  <2>1. c \in Requested /\ c.key \in Keys
    BY <1>1, WorldIs DEF Sound, Typed, Requested
  <2>2. f \in Files
    BY <1>1, <2>1, WorldIs DEF Sound, Typed
  <2> QED BY <2>1, <2>2 DEF Files
<1>5. ASSUME NEW v, Goes(w, v, r), v.pc[r] \in {"lock", "fetch", "judge"}
      PROVE  Rests(v, r)
  BY <1>2, <1>3, <1>5 DEF Goes, Rests, SameElse
<1>6. CASE f = NoFile /\ (c.found \/ setup.minUses = 1)
  <2> DEFINE v == Goto(w, r, "lock")
  <2>1. Become(v)
    BY <1>6 DEF Read
  <2>2. Goes(w, v, r) /\ v.pc[r] = "lock"
    BY <1>1, GotoIs DEF States
  <2>3. Rests(v, r)
    BY <1>5, <2>2
  <2> HIDE DEF v
  <2> QED BY <1>2, <2>1, <2>2, <2>3, GoesOn
<1>7. CASE f = NoFile /\ ~(c.found \/ setup.minUses = 1)
  <2> DEFINE v == Ask(w, r, FALSE)
  <2>1. Become(v)
    BY <1>7 DEF Read
  <2>2. Goes(w, v, r) /\ v.pc[r] = "fetch"
    BY <1>1, AskIs
  <2>3. Rests(v, r)
    BY <1>5, <2>2
  <2> HIDE DEF v
  <2> QED BY <1>2, <2>1, <2>2, <2>3, GoesOn
<1>8. CASE f # NoFile /\ f.bad
  <2> DEFINE u == Ask(w, r, TRUE)
             b == ~nodes[c.node].exists
             v == [u EXCEPT !.upset = @ \/ b]
  <2>1. Become(v)
    BY <1>8 DEF Read
  <2>2. Goes(w, u, r) /\ u.pc[r] = "fetch"
    BY <1>1, AskIs
  <2> HIDE DEF u, b
  <2>3. Goes(w, v, r) /\ v.pc[r] = "fetch"
    BY <2>2, UpsetIs
  <2> HIDE DEF v
  <2>4. Rests(v, r)
    BY <1>5, <2>3
  <2> QED BY <1>2, <2>1, <2>3, <2>4, GoesOn
<1>9. CASE f # NoFile /\ ~f.bad /\ f.vary \notin {0, Variant(c.kind)} /\ c.secondary
  <2> DEFINE u == Ask(w, r, TRUE)
             b == ~w.nodes[c.node].exists
             v == [u EXCEPT !.upset = @ \/ b]
  <2>1. Become(v)
    <3>1. Become(Reopen(w, r))
      BY <1>9 DEF Read
    <3>2. Reopen(w, r) = v
      BY <1>2, <1>9 DEF Reopen
    <3> HIDE DEF v
    <3> QED BY <3>1, <3>2, Zenon
  <2>2. Goes(w, u, r) /\ u.pc[r] = "fetch"
    BY <1>1, AskIs
  <2> HIDE DEF u, b
  <2>3. Goes(w, v, r) /\ v.pc[r] = "fetch"
    BY <2>2, UpsetIs
  <2> HIDE DEF v
  <2>4. Rests(v, r)
    BY <1>5, <2>3
  <2> QED BY <1>2, <2>1, <2>3, <2>4, GoesOn
<1>10. CASE f # NoFile /\ ~f.bad /\ f.vary \notin {0, Variant(c.kind)} /\ ~c.secondary
  <2> DEFINE v == Reopen(w, r)
  <2>1. Become(v)
    BY <1>10 DEF Read
  <2>2. /\ Sound(v) /\ Frame(w, v, r) /\ v.pc[r] = "exists" /\ v.req[r].node = 0
        /\ v.req[r].sub = c.sub /\ v.req[r].updating = c.updating /\ v.req[r].updated = c.updated
    BY <1>1, <1>2, <1>3, <1>10, ReopenIs
  <2> HIDE DEF v
  <2>3. Rests(v, r)
    BY <1>2, <1>3, <2>2 DEF Frame, Rests, Using
  <2>4. AllPlaced(v)
    BY <1>1, <1>2, <2>2, <2>3, PlacedStill
  <2> QED BY ONLY IInv, <2>1, <2>2, <2>4, Becoming
<1>11. CASE f # NoFile /\ ~f.bad /\ f.vary \in {0, Variant(c.kind)}
  <2> DEFINE u == Goto(w, r, "judge")
             d == [u.req[r] EXCEPT !.file = f, !.till = f.till]
             v == [u EXCEPT !.req[r] = d]
  <2>1. Become(v)
    BY <1>11 DEF Read
  <2>2. Goes(w, u, r) /\ u.pc[r] = "judge" /\ u.req = w.req /\ Typed(u)
    BY <1>1, GotoIs DEF States, Goes
  <2> HIDE DEF u
  <2>3. d \in Requested /\ SameElse(d, u.req[r]) /\ d.node = u.req[r].node
    BY <1>2, <1>4, <2>2 DEF Requested, SameElse
  <2> HIDE DEF d
  <2>4. ReqOnly(u, v, r, d)
    BY ONLY <2>2, <2>3, r \in Requests, ReqIs
  <2> HIDE DEF v
  <2>5. Goes(w, v, r) /\ v.pc[r] = "judge"
    BY <1>1, <2>2, <2>3, <2>4, ChangeIs DEF ReqOnly
  <2>6. Rests(v, r)
    BY <1>5, <2>5
  <2> QED BY <1>2, <2>1, <2>5, <2>6, GoesOn
<1> QED BY <1>6, <1>7, <1>8, <1>9, <1>10, <1>11

\* A request takes the lock of its node, which nobody has.
Locks(w, v, r, i) ==
  /\ w.req[r].node = i /\ (~w.nodes[i].updating \/ w.nodes[i].lockTime <= now)
  /\ Typed(v) /\ v.del = w.del /\ v.robbed = w.robbed /\ v.queue = w.queue
  /\ \A s \in Requests \ {r} : v.req[s] = w.req[s]
  /\ v.req[r].node = i /\ v.req[r].key = w.req[r].key
  /\ \A j \in Slots \ {i} : v.nodes[j] = w.nodes[j]
  /\ v.nodes[i].key = w.nodes[i].key /\ v.nodes[i].count = w.nodes[i].count
  /\ v.nodes[i].updating /\ v.nodes[i].lockTime = v.req[r].lockTime

\* A request may get the lock of its node when the others that had it are marked robbed.
LEMMA LocksIs ==
  ASSUME Wellset, NEW w, Sound(w), NEW r \in Requests, NEW i \in Slots, NEW v, Locks(w, v, r, i)
  PROVE  Sound(v)
<1>1. Typed(w) /\ Counted(w) /\ Named(w) /\ Queued(w) /\ Locked(w)
  BY DEF Sound
<1>2. Typed(v) /\ v.del = w.del /\ v.robbed = w.robbed /\ v.queue = w.queue
  BY DEF Locks
<1>3. \A j \in Slots \ {i} : v.nodes[j] = w.nodes[j]
  BY DEF Locks
<1>4. /\ v.nodes[i].key = w.nodes[i].key /\ v.nodes[i].count = w.nodes[i].count
      /\ v.nodes[i].updating /\ v.nodes[i].lockTime = v.req[r].lockTime
  BY DEF Locks
<1>5. \A s \in Requests \ {r} : v.req[s] = w.req[s]
  BY DEF Locks
<1>6. /\ w.req[r].node = i /\ v.req[r].node = i /\ v.req[r].key = w.req[r].key
      /\ ~w.nodes[i].updating \/ w.nodes[i].lockTime <= now
  BY DEF Locks
<1>7. Queued(v)
  BY <1>1, <1>2, <1>3, <1>4 DEF Queued, Used
<1>8. i # 0 /\ w.nodes[i].key = w.req[r].key /\ w.nodes[i].count \in Int
  BY <1>1, <1>6 DEF Named, Wellset, Typed, Nodes
<1>9. ASSUME NEW s \in Requests \ {r}, HasLock(v, s)
      PROVE  /\ HasLock(w, s) /\ w.req[s] = v.req[s] /\ w.req[s].node \in Slots
             /\ v.req[s].node = i => i \in w.robbed
  <2>1. HasLock(w, s) /\ w.req[s] = v.req[s]
    BY <1>5, <1>9 DEF HasLock
  <2>2. w.req[s].node \in Slots /\ w.req[s].lockTime > now /\ w.req[s].lockTime \in Nat
    BY <1>1, <2>1, NodePlace DEF HasLock, Typed, Requested
  <2>3. CASE w.req[s].node = i /\ i \notin w.robbed
    <3>1. w.nodes[i].updating /\ w.nodes[i].lockTime = w.req[s].lockTime
      BY <1>1, <2>1, <2>3 DEF Locked
    <3> QED BY <1>6, <2>2, <3>1 DEF Wellset
  <2> QED BY <2>1, <2>2, <2>3
<1>10. Locked(v)
  <2> SUFFICES ASSUME NEW t \in Requests, HasLock(v, t), v.req[t].node \notin v.robbed
               PROVE  /\ v.nodes[v.req[t].node].updating /\ v.nodes[v.req[t].node].lockTime = v.req[t].lockTime
                      /\ \A s \in Requests : HasLock(v, s) /\ v.req[s].node = v.req[t].node => s = t
    BY DEF Locked
  <2>1. CASE t = r
    BY <1>2, <1>4, <1>6, <1>9, <2>1
  <2>2. CASE t # r
    <3>1. HasLock(w, t) /\ w.req[t] = v.req[t] /\ w.req[t].node \in Slots /\ v.req[t].node # i
      BY <1>2, <1>9, <2>2
    <3>2. /\ w.nodes[w.req[t].node].updating /\ w.nodes[w.req[t].node].lockTime = w.req[t].lockTime
          /\ \A s \in Requests : HasLock(w, s) /\ w.req[s].node = w.req[t].node => s = t
      BY <1>1, <1>2, <3>1 DEF Locked
    <3>3. \A s \in Requests : HasLock(v, s) /\ v.req[s].node = v.req[t].node => s = t
      BY <1>6, <1>9, <3>1, <3>2
    <3> QED BY <1>3, <3>1, <3>2, <3>3
  <2> QED BY <2>1, <2>2
<1>11. v.nodes[i].count = w.nodes[i].count - Pointed(w.req, i, r) + Pointed(v.req, i, r)
  BY <1>4, <1>6, <1>8 DEF Pointed
<1>12. \A j \in Slots \ {i} : SameNode(w.nodes[j], v.nodes[j])
  BY <1>3 DEF SameNode
<1>13. /\ Wellset /\ Sound(w) /\ r \in Requests /\ i \in Slots /\ w.req[r].node \in {0, i} /\ v.req[r].node \in {0, i}
       /\ v.req[r].node = i => v.nodes[i].key = v.req[r].key
  BY <1>4, <1>6, <1>8
<1> QED BY ONLY <1>2, <1>4, <1>5, <1>7, <1>10, <1>11, <1>12, <1>13, OneNode

\* What a request keeps while it takes the lock.
Keeps(c, d) ==
  /\ d.kind = c.kind /\ d.key = c.key /\ d.sub = c.sub /\ d.node = c.node /\ d.secondary = c.secondary
  /\ d.updated = c.updated /\ d.temp = c.temp

\* The request has the lock and asks the upstream, or answers from the cache.
LEMMA LockStep ==
  ASSUME IInv, NEW r \in Requests, NEW STATE u, Sound(u), Frame(World, u, r), u.pc = World.pc, Keeps(World.req[r], u.req[r]),
         World.req[r].node # 0, ~World.req[r].updated, World.pc[r] \in Asking,
         NEW STATE v, Goes(u, v, r), v.pc[r] \in {"send", "fetch"}
  PROVE  Sound(v) /\ Frame(World, v, r) /\ AllPlaced(v)
<1>1. Wellset /\ Sound(World) /\ AllPlaced(World)
  BY NowWellset
<1>2. Sound(v) /\ Frame(u, v, r)
  BY <1>1, GoesIs
<1>3. Frame(World, v, r)
  BY <1>2 DEF Frame
<1>4. (v.del = World.del /\ World.del[r].node = 0) \/ World.pc[r] = "retry"
  BY <1>1, <1>3 DEF AllPlaced, Rests, Asking, Frame
<1>5. World.pc[r] # "retry"
  BY <1>1 DEF AllPlaced, Rests
<1>6. v.req[r].sub = World.req[r].sub /\ v.req[r].node = World.req[r].node /\ v.req[r].updated = World.req[r].updated
  BY DEF Goes, SameElse, Keeps
<1>7. Rests(v, r)
  BY <1>4, <1>5, <1>6 DEF Rests, Asking
<1>8. AllPlaced(v)
  BY <1>1, <1>3, <1>6, <1>7, PlacedStill DEF Asking
<1> QED BY <1>2, <1>3, <1>8

\* ngx_http_file_cache_lock: the first request for a missing node fills it, the others wait.
LEMMA LockIs ==
  ASSUME IInv, NEW r \in Requests, Lock(r)
  PROVE  IInv'
<1> DEFINE c == req[r]
           i == c.node
           w == World
           free == ~nodes[i].updating \/ nodes[i].lockTime <= now
<1>1. Wellset /\ Sound(w) /\ AllPlaced(w)
  BY NowWellset
<1>2. pc[r] = "lock" /\ w.pc[r] = "lock" /\ w.req[r] = c /\ w.nodes = nodes
  BY WorldIs DEF Lock
<1>3. c.node # 0 /\ ~c.updating /\ ~c.updated /\ w.del[r].node = 0
  BY <1>1, <1>2 DEF AllPlaced, Rests, Asking, Using
<1>4. c \in Requested /\ i \in Slots /\ w.nodes[i] \in Nodes /\ now + setup.age \in Nat /\ now + setup.timeout \in Nat /\ Typed(w)
  <2>1. Typed(w)
    BY <1>1 DEF Sound
  <2>2. c \in Requested /\ i \in Slots
    BY <1>1, <1>2, <1>3, <2>1, NodePlace DEF Typed
  <2> QED BY <1>1, <2>1, <2>2 DEF Typed, Wellset
<1>5. ASSUME NEW v, Goes(w, v, r), v.pc[r] \in {"fetch", "wait"}
      PROVE  Rests(v, r)
  BY <1>2, <1>3, <1>5 DEF Goes, Rests, SameElse
<1>6. CASE ~setup.lock
  <2> DEFINE v == Ask(w, r, TRUE)
  <2>1. Become(v)
    BY <1>6 DEF Lock
  <2>2. Goes(w, v, r) /\ v.pc[r] = "fetch"
    BY <1>1, AskIs
  <2>3. Rests(v, r)
    BY <1>5, <2>2
  <2> HIDE DEF v
  <2> QED BY <1>2, <2>1, <2>2, <2>3, GoesOn
<1>7. CASE setup.lock /\ ~free /\ ~c.patient
  <2> DEFINE v == Ask(w, r, FALSE)
  <2>1. Become(v)
    BY <1>7 DEF Lock
  <2>2. Goes(w, v, r) /\ v.pc[r] = "fetch"
    BY <1>1, AskIs
  <2>3. Rests(v, r)
    BY <1>5, <2>2
  <2> HIDE DEF v
  <2> QED BY <1>2, <2>1, <2>2, <2>3, GoesOn
<1>8. CASE setup.lock /\ ~free /\ c.patient
  <2> DEFINE u == Goto(w, r, "wait")
             d == [u.req[r] EXCEPT !.waitTime = IF @ = 0 THEN now + setup.timeout ELSE @]
             v == [u EXCEPT !.req[r] = d]
  <2>1. Become(v)
    BY <1>8 DEF Lock
  <2>2. Goes(w, u, r) /\ u.pc[r] = "wait" /\ u.req = w.req /\ Typed(u)
    BY <1>1, GotoIs DEF States, Goes
  <2> HIDE DEF u
  <2>3. d \in Requested /\ SameElse(d, u.req[r]) /\ d.node = u.req[r].node
    <3>1. (IF c.waitTime = 0 THEN now + setup.timeout ELSE c.waitTime) \in Nat /\ u.req[r] = c
      BY <1>2, <1>4, <2>2 DEF Requested
    <3> QED BY <1>4, <3>1 DEF Requested, SameElse
  <2> HIDE DEF d
  <2>4. ReqOnly(u, v, r, d)
    BY ONLY <2>2, <2>3, r \in Requests, ReqIs
  <2> HIDE DEF v
  <2>5. Goes(w, v, r) /\ v.pc[r] = "wait"
    BY <1>1, <2>2, <2>3, <2>4, ChangeIs DEF ReqOnly
  <2>6. Rests(v, r)
    BY <1>5, <2>5
  <2> QED BY <1>2, <2>1, <2>5, <2>6, GoesOn
<1>9. CASE setup.lock /\ free
  <2> DEFINE x == [nodes[i] EXCEPT !.updating = TRUE, !.lockTime = now + setup.age]
             n == [nodes EXCEPT ![i] = x]
             d == [c EXCEPT !.updating = TRUE, !.lockTime = now + setup.age]
             q == [req EXCEPT ![r] = d]
             u == [w EXCEPT !.nodes = n, !.req = q]
             v == Ask(u, r, TRUE)
  <2>1. Become(v)
    <3>1. [World EXCEPT !.nodes[i] = [@ EXCEPT !.updating = TRUE, !.lockTime = now + setup.age],
                        !.req[r] = [@ EXCEPT !.updating = TRUE, !.lockTime = now + setup.age]] = u
      BY WorldIs
    <3>2. Become(Ask([World EXCEPT !.nodes[i] = [@ EXCEPT !.updating = TRUE, !.lockTime = now + setup.age],
                                   !.req[r] = [@ EXCEPT !.updating = TRUE, !.lockTime = now + setup.age]], r, TRUE))
      BY <1>9 DEF Lock
    <3> HIDE DEF u
    <3> QED BY <3>1, <3>2, Zenon
  <2>2. x \in Nodes /\ x.key = nodes[i].key /\ x.count = nodes[i].count /\ x.updating /\ x.lockTime = now + setup.age
    BY <1>2, <1>4 DEF Nodes
  <2>3. d \in Requested /\ Keeps(c, d) /\ d.lockTime = now + setup.age
    BY <1>4 DEF Requested, Keeps
  <2> HIDE DEF x, d
  <2>4. n \in [Slots -> Nodes] /\ n[i] = x /\ \A j \in Slots \ {i} : n[j] = w.nodes[j]
    BY <1>2, <1>4, <2>2 DEF Typed
  <2>5. q \in [Requests -> Requested] /\ q[r] = d /\ \A s \in Requests \ {r} : q[s] = w.req[s]
    BY <1>4, <2>3, WorldIs DEF Typed
  <2>6. u = [w EXCEPT !.nodes = n, !.req = q]
    OBVIOUS
  <2> HIDE DEF n, q, u, w
  <2>7. /\ Typed(u) /\ u.pc = w.pc /\ u.req = q /\ u.del = w.del /\ u.mgr = w.mgr
        /\ u.queue = w.queue /\ u.nodes = n /\ u.robbed = w.robbed
    BY <1>4, <2>4, <2>5, <2>6 DEF Typed
  <2>8. Locks(w, u, r, i)
    BY <1>2, <1>9, <2>2, <2>3, <2>4, <2>5, <2>7 DEF Locks, Keeps
  <2>9. Sound(u)
    BY <1>1, <1>4, <2>8, LocksIs
  <2>10. Goes(u, v, r) /\ v.pc[r] = "fetch"
    BY <1>1, <2>9, AskIs
  <2> HIDE DEF v
  <2>11. Frame(w, u, r) /\ Keeps(w.req[r], u.req[r])
    BY <1>2, <2>3, <2>5, <2>7 DEF Frame
  <2>12. w.req[r].node # 0 /\ ~w.req[r].updated /\ w.pc[r] \in Asking /\ v.pc[r] \in {"send", "fetch"}
    BY <1>2, <1>3, <2>10 DEF Asking
  <2>13. Sound(v) /\ AllPlaced(v)
    BY ONLY IInv, <2>7, <2>9, <2>10, <2>11, <2>12, r \in Requests, LockStep DEF w
  <2> QED BY ONLY IInv, <2>1, <2>13, Becoming
<1> QED BY <1>6, <1>7, <1>8, <1>9

\* A waiting request wakes up: the file is there, the lock is free, or it waited too long.
LEMMA LockWaitIs ==
  ASSUME IInv, NEW r \in Requests, LockWait(r)
  PROVE  IInv'
<1> DEFINE w == World
           u == Goto(w, r, "exists")
           b == ~(req[r].waitTime <= now)
           d == [u.req[r] EXCEPT !.patient = @ /\ b]
           v == [u EXCEPT !.req[r] = d]
<1>1. Wellset /\ Sound(w) /\ AllPlaced(w)
  BY NowWellset
<1>2. pc[r] = "wait" /\ w.pc[r] = "wait" /\ Become(v)
  BY WorldIs DEF LockWait
<1>3. ~w.req[r].updating /\ ~w.req[r].updated /\ w.del[r].node = 0 /\ w.req[r] \in Requested
  BY <1>1, <1>2 DEF AllPlaced, Rests, Asking, Sound, Typed
<1>4. Goes(w, u, r) /\ u.pc[r] = "exists" /\ u.req = w.req /\ Typed(u)
  BY <1>1, GotoIs DEF States, Goes
<1> HIDE DEF u
<1>5. d \in Requested /\ SameElse(d, u.req[r]) /\ d.node = u.req[r].node
  <2>1. (u.req[r].patient /\ b) \in BOOLEAN
    OBVIOUS
  <2> QED BY <1>3, <1>4, <2>1 DEF Requested, SameElse
<1> HIDE DEF d
<1>6. ReqOnly(u, v, r, d)
  BY ONLY <1>4, <1>5, r \in Requests, ReqIs
<1> HIDE DEF v
<1>7. Goes(w, v, r) /\ v.pc[r] = "exists"
  BY <1>1, <1>4, <1>5, <1>6, ChangeIs DEF ReqOnly
<1>8. Rests(v, r)
  BY <1>3, <1>7 DEF Goes, Rests, SameElse, Using
<1> QED BY <1>2, <1>7, <1>8, GoesOn

\* The request asks for what it found to be out of date.
LEMMA RenewIs ==
  ASSUME Wellset, NEW w, Sound(w), NEW r \in Requests
  PROVE  LET v == [Ask(w, r, TRUE) EXCEPT !.req[r] = [@ EXCEPT !.till = 0, !.status = "expired"]] IN
         Goes(w, v, r) /\ v.pc[r] = "fetch"
<1> DEFINE u == Ask(w, r, TRUE)
           d == [u.req[r] EXCEPT !.till = 0, !.status = "expired"]
           v == [u EXCEPT !.req[r] = d]
<1>1. Goes(w, u, r) /\ u.pc[r] = "fetch" /\ Typed(u)
  BY AskIs DEF Goes
<1> HIDE DEF u
<1>2. d \in Requested /\ SameElse(d, u.req[r]) /\ d.node = u.req[r].node
  <2>1. u.req[r] \in Requested /\ 0 \in Int
    BY <1>1 DEF Typed
  <2> QED BY <2>1 DEF Requested, SameElse
<1> HIDE DEF d
<1>3. ReqOnly(u, v, r, d)
  BY ONLY <1>1, <1>2, r \in Requests, ReqIs
<1> HIDE DEF v
<1>4. Goes(w, v, r) /\ v.pc[r] = "fetch"
  BY <1>1, <1>2, <1>3, ChangeIs DEF ReqOnly
<1> QED BY <1>4 DEF v, d, u

\* A request that is served starts another one in the background.
LEMMA StartIs ==
  ASSUME Wellset, NEW w, Sound(w), AllPlaced(w), NEW r \in Requests, w.pc[r] = "send", r <= setup.requests, setup.background,
         Sub(r) \in Requests => w.pc[Sub(r)] = "none", NEW k \in setup.kinds
  PROVE  LET v == [w EXCEPT !.pc[Sub(r)] = "exists", !.req[Sub(r)] = New(k, TRUE)] IN Sound(v) /\ AllPlaced(v)
<1> DEFINE s == Sub(r)
           d == New(k, TRUE)
           p == [w.pc EXCEPT ![s] = "exists"]
           q == [w.req EXCEPT ![s] = d]
           v == [w EXCEPT !.pc = p, !.req = q]
<1>1. Typed(w)
  BY DEF Sound
<1>2. v = [w EXCEPT !.pc = p, !.req = q]
  OBVIOUS
<1>3. CASE s \notin Requests
  <2>1. p = w.pc /\ q = w.req
    BY <1>1, <1>3 DEF Typed
  <2> HIDE DEF p, q
  <2>2. v = w
    BY <1>1, <2>1 DEF Typed
  <2> HIDE DEF v
  <2>3. Sound(v) /\ AllPlaced(v)
    BY <2>2
  <2> QED BY <2>3 DEF v, p, q
<1>4. CASE s \in Requests
  <2>1. w.pc[s] = "none" /\ s # r /\ s \in Nat /\ r \in Nat /\ r # 0 /\ s = r + 2 /\ setup.requests \in Nat /\ setup.requests <= 2
    BY <1>4 DEF Sub, Wellset
  <2>2. d \in Requested /\ d.node = 0 /\ d.sub /\ ~d.updating /\ ~d.updated
    BY NewIs DEF New
  <2> HIDE DEF d
  <2>3. p \in [Requests -> States] /\ p[s] = "exists" /\ \A t \in Requests \ {s} : p[t] = w.pc[t]
    BY <1>1, <1>4 DEF Typed, States
  <2>4. q \in [Requests -> Requested] /\ q[s] = d /\ \A t \in Requests \ {s} : q[t] = w.req[t]
    BY <1>1, <1>4, <2>2 DEF Typed
  <2>5. s # 0 /\ Rests(w, s) /\ w.req[s].node = 0 /\ w.del[s].node = 0
    BY <1>4, <2>1 DEF AllPlaced, Rests
  <2> HIDE DEF p, q, v
  <2>6. /\ Typed(v) /\ v.pc = p /\ v.req = q /\ v.del = w.del /\ v.mgr = w.mgr
        /\ v.queue = w.queue /\ v.nodes = w.nodes /\ v.robbed = w.robbed
    BY <1>1, <1>2, <2>3, <2>4 DEF Typed
  <2>7. Sound(v)
    <3>1. v.req[s].node = 0 /\ \A t \in Requests \ {s} : v.req[t] = w.req[t]
      BY <2>2, <2>4, <2>6
    <3> QED BY <1>4, <2>5, <2>6, <3>1, NodelessIs
  <2>8. ASSUME NEW t \in Requests
        PROVE  Rests(v, t) /\ Kin(v, t)
    <3>1. Rests(w, t) /\ Kin(w, t)
      BY DEF AllPlaced
    <3>2. t \in Nat
      BY DEF Wellset
    <3>3. CASE t = s
      <4>1. v.pc[s] = "exists" /\ v.req[s] = d /\ v.del[s].node = 0
        BY <2>3, <2>4, <2>5, <2>6
      <4>2. ~(s <= setup.requests)
        BY <2>1
      <4> HIDE DEF s
      <4> QED BY <2>2, <3>3, <4>1, <4>2 DEF Rests, Kin, Asking, Using
    <3>4. CASE t # s
      <4>1. v.pc[t] = w.pc[t] /\ v.req[t] = w.req[t] /\ v.del[t] = w.del[t]
        BY <2>3, <2>4, <2>6, <3>4
      <4>2. Rests(v, t)
        BY <3>1, <4>1 DEF Rests
      <4>3. CASE t = r
        BY <3>1, <4>1, <4>2, <4>3 DEF Kin
      <4>4. CASE t # r
        <5>1. Sub(t) # s
          BY <2>1, <3>2, <4>4 DEF Sub
        <5>2. Sub(t) \in Requests => v.pc[Sub(t)] = w.pc[Sub(t)]
          BY <2>3, <2>6, <5>1
        <5> QED BY <3>1, <4>1, <4>2, <5>2 DEF Kin
      <4> QED BY <4>3, <4>4
    <3> QED BY <3>3, <3>4
  <2>9. AllPlaced(v)
    BY <2>6, <2>8 DEF AllPlaced
  <2> QED BY <2>7, <2>9 DEF v, p, q, d
<1> QED BY <1>3, <1>4

\* The world when a request has judged a file: it is counted if the loader did not see it yet.
Judged(r) ==
  LET i == req[r].node IN
  IF ~(sh.cold /\ ~nodes[i].exists) THEN [World EXCEPT !.upset = @ \/ ~nodes[i].exists]
  ELSE [World EXCEPT !.nodes[i] = [World.nodes[i] EXCEPT !.uses = 1, !.exists = TRUE, !.fs = req[r].file.fs],
                     !.sh.size = @ + req[r].file.fs]

\* Counting it touches no lock and no count of those that hold the node.
LEMMA JudgedIs ==
  ASSUME IInv, NEW r \in Requests, pc[r] = "judge"
  PROVE  LET w == Judged(r)
             i == req[r].node
             counts == sh.cold /\ ~nodes[i].exists
         IN
         /\ Sound(w) /\ w.pc = pc /\ w.req = req /\ w.del = del /\ w.mgr = mgr /\ w.disk = disk /\ w.todo = todo
         /\ w.queue = queue /\ w.robbed = robbed
         /\ \A j \in Slots : SameNode(nodes[j], w.nodes[j])
         /\ \A j \in Slots \ {i} : w.nodes[j] = nodes[j]
         /\ ~counts => w.nodes[i] = nodes[i] /\ w.sh = sh /\ w.upset = (upset \/ ~nodes[i].exists)
         /\ counts => /\ w.sh = [sh EXCEPT !.size = @ + req[r].file.fs] /\ w.upset = upset
                      /\ w.nodes[i].exists /\ w.nodes[i].fs = req[r].file.fs /\ w.nodes[i].deleting = nodes[i].deleting
<1> DEFINE c == req[r]
           i == c.node
           counts == sh.cold /\ ~nodes[i].exists
           x == [World.nodes[i] EXCEPT !.uses = 1, !.exists = TRUE, !.fs = c.file.fs]
           w == Judged(r)
<1>1. Wellset /\ Sound(World) /\ AllPlaced(World) /\ Typed(World) /\ Queued(World)
  BY NowWellset DEF Sound
<1>2. World.pc[r] = "judge" /\ World.req[r] = c /\ World.nodes = nodes
  BY WorldIs
<1>3. c.node # 0
  BY <1>1, <1>2 DEF AllPlaced, Rests, Using
<1>4. c \in Requested /\ i \in Slots /\ nodes[i] \in Nodes /\ c.file.fs \in Nat
  <2>1. c \in Requested /\ i \in Slots
    BY <1>1, <1>2, <1>3, NodePlace DEF Typed
  <2>2. c.file \in Files
    BY <2>1 DEF Requested
  <2> QED BY <1>1, <1>2, <2>1, <2>2 DEF Typed, Files
<1>5. /\ Typed(w) /\ w.pc = pc /\ w.req = req /\ w.del = del /\ w.mgr = mgr /\ w.disk = disk /\ w.todo = todo
      /\ w.queue = queue /\ w.robbed = robbed /\ (\A j \in Slots : SameNode(nodes[j], w.nodes[j]))
      /\ (\A j \in Slots \ {i} : w.nodes[j] = nodes[j])
      /\ ~counts => w.nodes[i] = nodes[i] /\ w.sh = sh /\ w.upset = (upset \/ ~nodes[i].exists)
      /\ counts => /\ w.sh = [sh EXCEPT !.size = @ + c.file.fs] /\ w.upset = upset
                   /\ w.nodes[i].exists /\ w.nodes[i].fs = c.file.fs /\ w.nodes[i].deleting = nodes[i].deleting
  <2>1. CASE ~counts
    <3> DEFINE e == World.upset \/ ~nodes[i].exists
    <3>1. w = [World EXCEPT !.upset = e] /\ e \in BOOLEAN /\ e = (upset \/ ~nodes[i].exists)
      BY <2>1, WorldIs DEF Judged
    <3> HIDE DEF e, w
    <3>2. /\ Typed(w) /\ w.pc = World.pc /\ w.req = World.req /\ w.del = World.del /\ w.mgr = World.mgr
          /\ w.disk = World.disk /\ w.todo = World.todo /\ w.sh = World.sh /\ w.upset = e
          /\ w.queue = World.queue /\ w.robbed = World.robbed /\ w.nodes = World.nodes
      BY <1>1, <3>1 DEF Typed
    <3> QED BY <2>1, <3>1, <3>2, WorldIs DEF SameNode
  <2>2. CASE counts
    <3> DEFINE n == [World.nodes EXCEPT ![i] = x]
               h == [World.sh EXCEPT !.size = @ + c.file.fs]
    <3>1. w = [World EXCEPT !.nodes = n, !.sh = h]
      BY <2>2 DEF Judged
    <3>2. x \in Nodes /\ SameNode(nodes[i], x) /\ x.exists /\ x.fs = c.file.fs /\ x.deleting = nodes[i].deleting
      <4>1. 1 \in Nat
        OBVIOUS
      <4> QED BY <1>2, <1>4, <4>1 DEF Nodes, SameNode
    <3> HIDE DEF x
    <3>3. n \in [Slots -> Nodes] /\ (\A j \in Slots : SameNode(World.nodes[j], n[j])) /\ n[i] = x
          /\ \A j \in Slots \ {i} : n[j] = World.nodes[j]
      BY <1>1, <1>2, <1>4, <3>2 DEF Typed, SameNode
    <3>4. h = [sh EXCEPT !.size = @ + c.file.fs]
      BY WorldIs
    <3> HIDE DEF n, h, w
    <3>5. /\ Typed(w) /\ w.pc = World.pc /\ w.req = World.req /\ w.del = World.del /\ w.mgr = World.mgr
          /\ w.disk = World.disk /\ w.todo = World.todo /\ w.sh = h /\ w.upset = World.upset
          /\ w.queue = World.queue /\ w.robbed = World.robbed /\ w.nodes = n
      BY <1>1, <3>1, <3>3 DEF Typed
    <3> QED BY <2>2, <3>2, <3>3, <3>4, <3>5, WorldIs
  <2> QED BY <2>1, <2>2
<1> HIDE DEF w
<1>6. Sound(w)
  <2>1. Alike(World, w)
    BY <1>5, WorldIs DEF Alike, SameHold
  <2>2. Queued(w)
    BY <1>1, <1>5, WorldIs DEF Queued, Used, SameNode
  <2> QED BY <1>1, <1>5, <2>1, <2>2, AlikeIsSound
<1> QED BY <1>5, <1>6 DEF w

\* Stale or fresh: serve, update in the foreground or the background, or wait.
LEMMA JudgeIs ==
  ASSUME IInv, NEW r \in Requests, Judge(r)
  PROVE  IInv'
<1> DEFINE c == req[r]
           i == c.node
           counts == sh.cold /\ ~nodes[i].exists
           x == [World.nodes[i] EXCEPT !.uses = 1, !.exists = TRUE, !.fs = c.file.fs]
           w == IF ~counts THEN [World EXCEPT !.upset = @ \/ ~nodes[i].exists]
                ELSE [World EXCEPT !.nodes[i] = x, !.sh.size = @ + c.file.fs]
           d == [w.req[r] EXCEPT !.updating = TRUE, !.lockTime = nodes[i].lockTime]
           mine == [w EXCEPT !.nodes[i].updating = TRUE, !.req[r] = d]
           Renew(u) == [Ask(u, r, TRUE) EXCEPT !.req[r] = [@ EXCEPT !.till = 0, !.status = "expired"]]
<1>1. Wellset /\ Sound(World) /\ AllPlaced(World) /\ Typed(World) /\ Queued(World)
  BY NowWellset DEF Sound
<1>2. pc[r] = "judge" /\ World.pc[r] = "judge" /\ World.req[r] = c /\ World.nodes = nodes
  BY WorldIs DEF Judge
<1>3. c.node # 0 /\ ~c.updating /\ ~c.updated /\ World.del[r].node = 0
  BY <1>1, <1>2 DEF AllPlaced, Rests, Asking, Using
<1>4. c \in Requested /\ i \in Slots /\ nodes[i] \in Nodes /\ c.file.fs \in Nat
  <2>1. c \in Requested /\ i \in Slots
    BY <1>1, <1>2, <1>3, NodePlace DEF Typed
  <2>2. c.file \in Files
    BY <2>1 DEF Requested
  <2> QED BY <1>1, <1>2, <2>1, <2>2 DEF Typed, Files
<1>5. Become(IF c.till >= now THEN Serve(w, r, "hit")
             ELSE IF nodes[i].updating THEN IF setup.useStale /\ ~c.sub THEN Serve(w, r, "updating") ELSE Renew(w)
             ELSE IF setup.background /\ setup.useStale /\ ~c.sub
             THEN [Serve(mine, r, "stale") EXCEPT !.pc[Sub(r)] = "exists", !.req[Sub(r)] = New(c.kind, TRUE)]
             ELSE Renew(mine))
  BY DEF Judge
<1>6. /\ Typed(w) /\ Sound(w) /\ w.pc = World.pc /\ w.req = World.req /\ w.del = World.del /\ w.mgr = World.mgr
      /\ w.queue = World.queue /\ w.robbed = World.robbed /\ \A j \in Slots : SameNode(World.nodes[j], w.nodes[j])
  <2>1. w = Judged(r)
    BY DEF Judged
  <2> HIDE DEF w
  <2> QED BY <1>2, <2>1, WorldIs, JudgedIs DEF Sound
<1> HIDE DEF w
<1>7. Sound(w)
  BY <1>6
<1>8. Frame(World, w, r) /\ Keeps(World.req[r], w.req[r])
  BY <1>6 DEF Frame, Keeps
<1>9. /\ World.req[r].node # 0 /\ ~World.req[r].updated /\ World.pc[r] \in Asking /\ w.pc = World.pc
  BY <1>2, <1>3, <1>6 DEF Asking
<1>10. CASE c.till >= now
  <2> DEFINE v == Serve(w, r, "hit")
  <2>1. Become(v)
    BY <1>5, <1>10
  <2>2. Goes(w, v, r) /\ v.pc[r] = "send"
    BY <1>1, <1>7, ServeIs
  <2> HIDE DEF v
  <2>3. v.pc[r] \in {"send", "fetch"}
    BY <2>2
  <2>4. Sound(v) /\ AllPlaced(v)
    BY ONLY IInv, <1>7, <1>8, <1>9, <2>2, <2>3, r \in Requests, LockStep
  <2> QED BY ONLY IInv, <2>1, <2>4, Becoming
<1>11. CASE ~(c.till >= now) /\ nodes[i].updating /\ setup.useStale /\ ~c.sub
  <2> DEFINE v == Serve(w, r, "updating")
  <2>1. Become(v)
    BY <1>5, <1>11
  <2>2. Goes(w, v, r) /\ v.pc[r] = "send"
    BY <1>1, <1>7, ServeIs
  <2> HIDE DEF v
  <2>3. v.pc[r] \in {"send", "fetch"}
    BY <2>2
  <2>4. Sound(v) /\ AllPlaced(v)
    BY ONLY IInv, <1>7, <1>8, <1>9, <2>2, <2>3, r \in Requests, LockStep
  <2> QED BY ONLY IInv, <2>1, <2>4, Becoming
<1>12. CASE ~(c.till >= now) /\ nodes[i].updating /\ ~(setup.useStale /\ ~c.sub)
  <2> DEFINE v == Renew(w)
  <2>1. Become(v)
    BY <1>5, <1>12
  <2>2. Goes(w, v, r) /\ v.pc[r] = "fetch"
    BY <1>1, <1>7, RenewIs
  <2> HIDE DEF v
  <2>3. v.pc[r] \in {"send", "fetch"}
    BY <2>2
  <2>4. Sound(v) /\ AllPlaced(v)
    BY ONLY IInv, <1>7, <1>8, <1>9, <2>2, <2>3, r \in Requests, LockStep
  <2> QED BY ONLY IInv, <2>1, <2>4, Becoming
<1>13. CASE ~(c.till >= now) /\ ~nodes[i].updating
  <2> DEFINE y == [w.nodes[i] EXCEPT !.updating = TRUE]
             n == [w.nodes EXCEPT ![i] = y]
             q == [w.req EXCEPT ![r] = d]
  <2>1. mine = [w EXCEPT !.nodes = n, !.req = q]
    OBVIOUS
  <2>2. w.nodes[i] \in Nodes /\ SameNode(nodes[i], w.nodes[i]) /\ w.req[r] = c
    BY <1>2, <1>4, <1>6 DEF Typed
  <2>3. y \in Nodes /\ y.key = w.nodes[i].key /\ y.count = w.nodes[i].count /\ y.updating /\ y.lockTime = nodes[i].lockTime
    BY <2>2 DEF Nodes, SameNode
  <2>4. d \in Requested /\ Keeps(c, d) /\ d.lockTime = nodes[i].lockTime
    <3>1. nodes[i].lockTime \in Nat
      BY <1>4 DEF Nodes
    <3> QED BY <1>4, <2>2, <3>1 DEF Requested, Keeps
  <2> HIDE DEF y, d
  <2>5. n \in [Slots -> Nodes] /\ n[i] = y /\ \A j \in Slots \ {i} : n[j] = w.nodes[j]
    BY <1>4, <1>6, <2>3 DEF Typed
  <2>6. q \in [Requests -> Requested] /\ q[r] = d /\ \A s \in Requests \ {r} : q[s] = w.req[s]
    BY <1>6, <2>4 DEF Typed
  <2> HIDE DEF n, q, mine
  <2>7. /\ Typed(mine) /\ mine.pc = w.pc /\ mine.req = q /\ mine.del = w.del /\ mine.mgr = w.mgr
        /\ mine.queue = w.queue /\ mine.nodes = n /\ mine.robbed = w.robbed
    BY <1>6, <2>1, <2>5, <2>6 DEF Typed
  <2>8. Locks(w, mine, r, i)
    BY <1>13, <2>2, <2>3, <2>4, <2>5, <2>6, <2>7 DEF Locks, Keeps, SameNode
  <2>9. Sound(mine)
    BY <1>1, <1>4, <1>7, <2>8, LocksIs
  <2>10. Frame(World, mine, r) /\ Keeps(World.req[r], mine.req[r]) /\ mine.pc = World.pc
    BY <1>2, <1>6, <2>4, <2>6, <2>7 DEF Frame
  <2>11. CASE setup.background /\ setup.useStale /\ ~c.sub
    <3> DEFINE u == Serve(mine, r, "stale")
               v == [u EXCEPT !.pc[Sub(r)] = "exists", !.req[Sub(r)] = New(c.kind, TRUE)]
    <3>1. Become(v)
      BY <1>5, <1>13, <2>11
    <3>2. Goes(mine, u, r) /\ u.pc[r] = "send"
      BY <1>1, <2>9, ServeIs
    <3> HIDE DEF u
    <3>3. u.pc[r] \in {"send", "fetch"}
      BY <3>2
    <3>4. Sound(u) /\ AllPlaced(u) /\ Frame(World, u, r)
      BY ONLY IInv, <2>9, <2>10, <1>9, <3>2, <3>3, r \in Requests, LockStep
    <3>5. r <= setup.requests /\ (Sub(r) \in Requests => World.pc[Sub(r)] = "none") /\ Sub(r) # r
      <4>1. Kin(World, r)
        BY <1>1 DEF AllPlaced
      <4> QED BY <1>1, <1>2, <2>11, <4>1 DEF Kin, Sub, Wellset
    <3>6. Sub(r) \in Requests => u.pc[Sub(r)] = "none"
      BY <3>4, <3>5 DEF Frame
    <3>7. c.kind \in setup.kinds
      BY <1>4 DEF Requested
    <3>8. Sound(v) /\ AllPlaced(v)
      BY <1>1, <2>11, <3>2, <3>4, <3>5, <3>6, <3>7, StartIs
    <3> HIDE DEF v
    <3> QED BY ONLY IInv, <3>1, <3>8, Becoming
  <2>12. CASE ~(setup.background /\ setup.useStale /\ ~c.sub)
    <3> DEFINE v == Renew(mine)
    <3>1. Become(v)
      BY <1>5, <1>13, <2>12
    <3>2. Goes(mine, v, r) /\ v.pc[r] = "fetch"
      BY <1>1, <2>9, RenewIs
    <3> HIDE DEF v
    <3>3. v.pc[r] \in {"send", "fetch"}
      BY <3>2
    <3>4. Sound(v) /\ AllPlaced(v)
      BY ONLY IInv, <1>9, <2>9, <2>10, <3>2, <3>3, r \in Requests, LockStep
    <3> QED BY ONLY IInv, <3>1, <3>4, Becoming
  <2> QED BY <2>11, <2>12
<1> QED BY <1>10, <1>11, <1>12, <1>13

-----------------------------------------------------------------------------
(* The upstream answers.                                                     *)
\* A request changes what neither its node nor its lock depends on.
LEMMA RecordIs ==
  ASSUME Wellset, NEW w, Sound(w), NEW r \in Requests, NEW d \in Requested, SameHold(w.req[r], d)
  PROVE  LET v == [w EXCEPT !.req[r] = d] IN
         Sound(v) /\ Frame(w, v, r) /\ v.pc = w.pc /\ v.req[r] = d /\ v.nodes = w.nodes
<1> DEFINE v == [w EXCEPT !.req[r] = d]
<1>1. Typed(w) /\ Queued(w)
  BY DEF Sound
<1>2. ReqOnly(w, v, r, d)
  BY ONLY <1>1, r \in Requests, d \in Requested, ReqIs
<1> HIDE DEF v
<1>3. /\ Typed(v) /\ v.nodes = w.nodes /\ v.queue = w.queue /\ v.del = w.del /\ v.mgr = w.mgr /\ v.robbed = w.robbed
      /\ v.pc = w.pc /\ v.req[r] = d /\ \A s \in Requests \ {r} : v.req[s] = w.req[s]
  BY <1>2 DEF ReqOnly
<1>4. Alike(w, v)
  BY <1>3 DEF Alike, SameHold, SameNode
<1>5. Queued(v)
  BY <1>1, <1>3 DEF Queued, Used
<1>6. Sound(v)
  BY ONLY Wellset, Sound(w), <1>3, <1>4, <1>5, AlikeIsSound
<1>7. Frame(w, v, r)
  BY <1>3 DEF Frame
<1> QED BY <1>3, <1>6, <1>7 DEF v

\* The files on the disk do not matter to the nodes.
LEMMA DiskIs ==
  ASSUME Wellset, NEW w, Sound(w), NEW f \in [Keys -> Files]
  PROVE  LET v == [w EXCEPT !.disk = f] IN
         /\ Sound(v) /\ v.pc = w.pc /\ v.req = w.req /\ v.del = w.del /\ v.mgr = w.mgr /\ v.nodes = w.nodes
         /\ v.queue = w.queue /\ v.robbed = w.robbed
<1> DEFINE v == [w EXCEPT !.disk = f]
<1>1. Typed(w) /\ Queued(w)
  BY DEF Sound
<1>2. v = [w EXCEPT !.disk = f]
  OBVIOUS
<1> HIDE DEF v
<1>3. /\ Typed(v) /\ v.nodes = w.nodes /\ v.queue = w.queue /\ v.del = w.del /\ v.mgr = w.mgr /\ v.robbed = w.robbed
      /\ v.pc = w.pc /\ v.req = w.req
  BY <1>1, <1>2 DEF Typed
<1>4. Alike(w, v) /\ Queued(v)
  BY <1>1, <1>3 DEF Alike, SameHold, SameNode, Queued, Used
<1>5. Sound(v)
  BY ONLY Wellset, Sound(w), <1>3, <1>4, AlikeIsSound
<1> QED BY <1>3, <1>5 DEF v

\* A request that is served without the answer being stored leaves its node.
LEMMA ServedIs ==
  ASSUME IInv, NEW r \in Requests, pc[r] \in Using, NEW STATE w, Sound(w), Frame(World, w, r), w.pc = World.pc,
         ~w.req[r].updated, w.req[r].sub = World.req[r].sub,
         NEW st \in {"miss", "hit", "updating", "stale", "expired", "revalidated"},
         Become(Serve(FreeCache(w, r), r, st))
  PROVE  IInv'
<1> DEFINE u == FreeCache(w, r)
           v == Serve(u, r, st)
<1>1. Wellset /\ Sound(World) /\ AllPlaced(World)
  BY NowWellset
<1>2. /\ Sound(u) /\ u.pc = w.pc /\ Frame(w, u, r) /\ u.req[r].node = 0 /\ u.req[r].sub = w.req[r].sub
  BY <1>1, FreeCacheIs
<1> HIDE DEF u
<1>3. Goes(u, v, r) /\ v.pc[r] = "send"
  BY <1>1, <1>2, ServeIs
<1>4. Become(v)
  BY DEF u
<1> HIDE DEF v
<1>5. Sound(v) /\ Frame(u, v, r)
  BY <1>1, <1>2, <1>3, GoesIs
<1>6. Frame(World, v, r) /\ v.req[r].node = 0 /\ v.req[r].sub = World.req[r].sub /\ v.del = World.del
  BY <1>2, <1>3, <1>5 DEF Frame, Goes, SameElse
<1>7. World.pc[r] \in Using /\ World.pc[r] # "none" /\ World.del[r].node = 0 /\ World.pc[r] \notin {"send", "done", "dead"}
  BY <1>1, WorldIs DEF AllPlaced, Rests, Using
<1>8. Rests(v, r)
  BY <1>3, <1>6, <1>7 DEF Rests, Asking, Using
<1>9. AllPlaced(v)
  BY <1>1, <1>6, <1>7, <1>8, PlacedStill
<1> QED BY ONLY IInv, <1>4, <1>5, <1>9, Becoming

\* A request leaves the node of a variant, and clears its lock whoever has it.
Moving(w, r) ==
  LET c == w.req[r] IN
  [Rob(w, r) EXCEPT !.nodes[c.node] = [w.nodes[c.node] EXCEPT !.count = @ - 1, !.updating = FALSE],
                    !.req[r] = [@ EXCEPT !.node = 0, !.key = c.kind.key]]

\* What it leaves behind is sound, and the books are as they were.
LEMMA MovingIs ==
  ASSUME Wellset, NEW w, Sound(w), NEW r \in Requests, w.req[r].node # 0, w.req[r].secondary
  PROVE  LET u == Moving(w, r) IN
         /\ Sound(u) /\ u.pc = w.pc /\ Frame(w, u, r) /\ SameBooks(w, u)
         /\ \A i \in Slots : u.nodes[i].key = w.nodes[i].key /\ SameFile(w.nodes[i], u.nodes[i])
         /\ u.req[r].node = 0 /\ Moved(u.req[r]) /\ u.req[r].key = w.req[r].kind.key /\ u.req[r].kind = w.req[r].kind
         /\ u.req[r].updated = w.req[r].updated /\ u.req[r].sub = w.req[r].sub
<1> DEFINE c == w.req[r]
           j == c.node
           x == [w.nodes[j] EXCEPT !.count = @ - 1, !.updating = FALSE]
           b == Rob(w, r)
           d == [b.req[r] EXCEPT !.node = 0, !.key = c.kind.key]
           n == [b.nodes EXCEPT ![j] = x]
           q == [b.req EXCEPT ![r] = d]
           u == [b EXCEPT !.nodes = n, !.req = q]
<1>1. Typed(w) /\ Locked(w)
  BY DEF Sound
<1>2. Moving(w, r) = u
  BY DEF Moving
<1>3. /\ Sound(b) /\ b.pc = w.pc /\ b.req = w.req /\ b.del = w.del /\ b.mgr = w.mgr
      /\ b.nodes = w.nodes /\ b.queue = w.queue /\ w.robbed \subseteq b.robbed /\ SameBooks(w, b)
      /\ \A s \in Requests \ {r} : HasLock(w, s) /\ w.req[s].node = j => j \in b.robbed
  BY ONLY Wellset, Sound(w), r \in Requests, RobIs
<1> HIDE DEF b
<1>4. Typed(b)
  BY <1>3 DEF Sound
<1>5. c \in Requested /\ j \in Slots /\ w.nodes[j] \in Nodes /\ c.kind.key \in Keys
  <2>1. c \in Requested /\ j \in Slots
    BY <1>1, NodePlace DEF Typed
  <2>2. c.kind \in setup.kinds
    BY <2>1 DEF Requested
  <2> QED BY <1>1, <2>1, <2>2 DEF Typed, Wellset
<1>6. x \in Nodes /\ x.key = w.nodes[j].key /\ x.count = w.nodes[j].count - 1 /\ SameFile(w.nodes[j], x)
  <2>1. w.nodes[j].count - 1 \in Int
    BY <1>5 DEF Nodes
  <2> QED BY <1>5, <2>1 DEF Nodes, SameFile
<1>7. /\ d \in Requested /\ d.node = 0 /\ d.key = d.kind.key /\ d.secondary /\ d.kind = c.kind
      /\ d.updated = c.updated /\ d.sub = c.sub
  <2>1. 0 \in Slots \union {0} /\ b.req[r] = c
    BY <1>3
  <2> QED BY <1>5, <2>1 DEF Requested
<1> HIDE DEF x, d
<1>8. n \in [Slots -> Nodes] /\ n[j] = x /\ \A k \in Slots \ {j} : n[k] = w.nodes[k]
  BY <1>3, <1>4, <1>5, <1>6 DEF Typed
<1>9. q \in [Requests -> Requested] /\ q[r] = d /\ \A s \in Requests \ {r} : q[s] = w.req[s]
  BY <1>3, <1>4, <1>7 DEF Typed
<1> HIDE DEF n, q
<1>10. u = [b EXCEPT !.nodes = n, !.req = q]
  OBVIOUS
<1> HIDE DEF u
<1>11. /\ Typed(u) /\ u.pc = b.pc /\ u.req = q /\ u.del = b.del /\ u.mgr = b.mgr
       /\ u.queue = b.queue /\ u.nodes = n /\ u.robbed = b.robbed /\ SameBooks(w, u)
  BY <1>3, <1>4, <1>8, <1>9, <1>10 DEF Typed, SameBooks
<1>12. Leaves(w, u, r, j, x, d)
  BY <1>3, <1>6, <1>7, <1>8, <1>9, <1>11 DEF Leaves, SameNode
<1>13. Sound(u)
  BY ONLY Wellset, Sound(w), r \in Requests, <1>5, <1>12, LeavesIs
<1>14. \A k \in Slots : u.nodes[k].key = w.nodes[k].key /\ SameFile(w.nodes[k], u.nodes[k])
  BY <1>6, <1>8, <1>11 DEF SameFile
<1>15. /\ u.req[r].node = 0 /\ Moved(u.req[r]) /\ u.req[r].key = c.kind.key /\ u.req[r].kind = c.kind
       /\ Frame(w, u, r) /\ u.pc = w.pc /\ u.req[r].updated = c.updated /\ u.req[r].sub = c.sub
  BY <1>3, <1>7, <1>9, <1>11 DEF Moved, Frame
<1>16. /\ Sound(u) /\ u.pc = w.pc /\ Frame(w, u, r) /\ SameBooks(w, u)
       /\ \A i \in Slots : u.nodes[i].key = w.nodes[i].key /\ SameFile(w.nodes[i], u.nodes[i])
       /\ u.req[r].node = 0 /\ Moved(u.req[r]) /\ u.req[r].key = w.req[r].kind.key /\ u.req[r].kind = w.req[r].kind
       /\ u.req[r].updated = w.req[r].updated /\ u.req[r].sub = w.req[r].sub
  BY <1>11, <1>13, <1>14, <1>15
<1> HIDE DEF c, j
<1> QED BY ONLY <1>2, <1>16

\* It takes the node of the main key.
LEMMA UpdateVariantIs ==
  ASSUME Wellset, NEW w, Sound(w), NEW r \in Requests, w.req[r].node # 0, w.req[r].secondary, NEW i \in Slots \union {0},
         i # 0 => w.nodes[i].key = w.req[r].kind.key, i = 0 => Room(w) # {}
  PROVE  LET v == UpdateVariant(w, r, i) IN
         /\ Sound(v) /\ v.pc = w.pc /\ Frame(w, v, r) /\ v.req[r].node # 0
         /\ v.req[r].updated = w.req[r].updated /\ v.req[r].sub = w.req[r].sub
<1> DEFINE u == Moving(w, r)
           v == UpdateVariant(w, r, i)
<1>1. v = Exists(u, r, i)
  BY DEF UpdateVariant, Moving
<1>2. /\ Sound(u) /\ u.pc = w.pc /\ Frame(w, u, r)
      /\ \A k \in Slots : u.nodes[k].key = w.nodes[k].key
      /\ u.req[r].node = 0 /\ Moved(u.req[r]) /\ u.req[r].key = w.req[r].kind.key
      /\ u.req[r].updated = w.req[r].updated /\ u.req[r].sub = w.req[r].sub
  BY MovingIs
<1> HIDE DEF u, v
<1>3. Sound(v) /\ v.pc = u.pc /\ Frame(u, v, r) /\ SameElse(v.req[r], u.req[r]) /\ v.req[r].node # 0
  <2>1. CASE i = 0
    <3>1. Room(u) # {}
      BY <1>2, <2>1 DEF Room
    <3>2. v = Insert(u, r)
      BY <1>1, <2>1, <3>1 DEF Exists
    <3> QED BY <1>2, <3>1, <3>2, InsertIs
  <2>2. CASE i # 0
    <3>1. v = Take(u, r, i) /\ i \in Slots /\ u.nodes[i].key = u.req[r].key
      BY <1>1, <1>2, <2>2 DEF Exists
    <3> QED BY <1>2, <3>1, TakeIs
  <2> QED BY <2>1, <2>2
<1>4. v.req[r].updated = w.req[r].updated /\ v.req[r].sub = w.req[r].sub /\ Frame(w, v, r)
  BY <1>2, <1>3 DEF SameElse, Frame
<1> QED BY <1>2, <1>3, <1>4 DEF v

\* An answer that may be stored is, at the node of the request or at that of the main key.
LEMMA AnsweredIs ==
  ASSUME IInv, NEW r \in Requests, pc[r] = "fetch", NEW a \in setup.answers, Answered(r, a)
  PROVE  IInv'
<1> DEFINE F == [fs |-> a.fs, till |-> now + a.till, vary |-> IF a.vary THEN Variant(req[r].kind) ELSE 0, bad |-> FALSE]
           d == [World.req[r] EXCEPT !.till = now + a.till, !.temp = TRUE, !.file = F]
           w == [World EXCEPT !.req[r] = d]
           moves == req[r].secondary /\ ~a.vary
<1>1. Wellset /\ Sound(World) /\ AllPlaced(World) /\ Typed(World)
  BY NowWellset DEF Sound
<1>2. World.pc[r] = "fetch" /\ World.req = req /\ World.nodes = nodes
  BY WorldIs
<1>3. req[r].node # 0 /\ ~req[r].updated /\ World.del[r].node = 0 /\ req[r] \in Requested
  BY <1>1, <1>2 DEF AllPlaced, Rests, Using, Typed
<1>4. CASE ~req[r].cacheable
  <2>1. Become(Serve(FreeCache(World, r), r, "miss"))
    BY <1>4 DEF Answered
  <2>2. Frame(World, World, r) /\ pc[r] \in Using
    BY DEF Frame, Using
  <2> QED BY <1>1, <1>2, <1>3, <2>1, <2>2, ServedIs
<1>5. CASE req[r].cacheable
  <2>1. PICK i \in IF moves THEN Lookup(w, req[r].kind.key) ELSE {0} :
          /\ moves /\ i = 0 => Room(w) # {}
          /\ Become(Goto(IF moves THEN UpdateVariant(w, r, i) ELSE w, r, "pipe"))
    BY <1>5, Zenon DEF Answered
  <2>2. d \in Requested /\ SameHold(World.req[r], d) /\ d.updated = req[r].updated /\ d.sub = req[r].sub
    <3>1. req[r].kind \in setup.kinds
      BY <1>3 DEF Requested
    <3>2. Variant(req[r].kind) \in Nat /\ a.fs \in Nat /\ a.till \in Nat /\ now \in Nat
      BY <1>1, <3>1 DEF Wellset
    <3>3. F \in Files
      BY <3>2 DEF Files
    <3> HIDE DEF F
    <3>4. World.req[r] \in Requested /\ now + a.till \in Int /\ TRUE \in BOOLEAN
      BY <1>2, <1>3, <3>2
    <3>5. d \in Requested
      BY <3>3, <3>4 DEF Requested
    <3> QED BY <1>2, <3>4, <3>5 DEF Requested, SameHold
  <2> HIDE DEF d
  <2>3. Sound(w) /\ Frame(World, w, r) /\ w.pc = World.pc /\ w.req[r] = d /\ w.nodes = World.nodes
    BY ONLY <1>1, <2>2, r \in Requests, RecordIs
  <2> HIDE DEF w
  <2> DEFINE u == IF moves THEN UpdateVariant(w, r, i) ELSE w
             v == Goto(u, r, "pipe")
  <2>4. Become(v)
    BY <2>1
  <2>5. /\ Sound(u) /\ u.pc = w.pc /\ Frame(w, u, r) /\ u.req[r].node # 0 /\ ~u.req[r].updated
        /\ u.req[r].sub = req[r].sub
    <3>1. CASE ~moves
      BY <1>2, <1>3, <2>2, <2>3, <3>1 DEF Frame, SameHold
    <3>2. CASE moves
      <4>1. i \in Slots \union {0} /\ (i # 0 => w.nodes[i].key = req[r].kind.key)
        BY <2>1, <3>2 DEF Lookup
      <4>2. w.req[r].node # 0 /\ w.req[r].secondary /\ w.req[r].kind = req[r].kind
        BY <1>2, <1>3, <2>2, <2>3, <3>2 DEF SameHold
      <4>3. i = 0 => Room(w) # {}
        BY <2>1, <3>2
      <4>4. LET x == UpdateVariant(w, r, i) IN
            /\ Sound(x) /\ x.pc = w.pc /\ Frame(w, x, r) /\ x.req[r].node # 0
            /\ x.req[r].updated = w.req[r].updated /\ x.req[r].sub = w.req[r].sub
        BY <1>1, <2>3, <4>1, <4>2, <4>3, UpdateVariantIs
      <4> QED BY <1>3, <2>2, <2>3, <3>2, <4>4
    <3> QED BY <3>1, <3>2
  <2> HIDE DEF u
  <2>6. Goes(u, v, r) /\ v.pc[r] = "pipe" /\ v.req = u.req
    BY <1>1, <2>5, GotoIs DEF States
  <2> HIDE DEF v
  <2>7. Sound(v) /\ Frame(u, v, r)
    BY <1>1, <2>5, <2>6, GoesIs
  <2>8. Frame(World, v, r) /\ v.del = World.del
    BY <2>3, <2>5, <2>7 DEF Frame
  <2>9. Rests(v, r)
    BY <1>3, <2>5, <2>6, <2>8 DEF Rests, Asking
  <2>10. AllPlaced(v)
    <3>1. v.req[r].sub = World.req[r].sub /\ World.pc[r] # "none" /\ World.pc[r] \notin {"send", "done", "dead"}
      BY <1>2, <2>5, <2>6
    <3> QED BY <1>1, <2>8, <2>9, <3>1, PlacedStill
  <2> QED BY ONLY IInv, <2>4, <2>7, <2>10, Becoming
<1> QED BY <1>4, <1>5

\* An upstream that failed: the stale answer is served or the error cached.
LEMMA FailedIs ==
  ASSUME IInv, NEW r \in Requests, pc[r] = "fetch", NEW a \in setup.answers, Failed(r, a)
  PROVE  IInv'
<1> DEFINE d == [World.req[r] EXCEPT !.error = TRUE, !.till = now + a.till]
           w == IF a.till > 0 /\ req[r].cacheable THEN [World EXCEPT !.req[r] = d] ELSE World
<1>1. Wellset /\ Sound(World) /\ AllPlaced(World) /\ Typed(World)
  BY NowWellset DEF Sound
<1>2. World.pc[r] = "fetch" /\ World.req = req
  BY WorldIs
<1>3. ~req[r].updated /\ World.req[r] \in Requested
  BY <1>1, <1>2 DEF AllPlaced, Rests, Typed
<1>4. Become(Serve(FreeCache(w, r), r, "miss"))
  BY DEF Failed
<1>5. d \in Requested /\ SameHold(World.req[r], d) /\ d.updated = req[r].updated /\ d.sub = req[r].sub
  <2>1. now + a.till \in Int
    BY <1>1 DEF Wellset
  <2> QED BY <1>2, <1>3, <2>1 DEF Requested, SameHold
<1> HIDE DEF d
<1>6. /\ Sound(w) /\ Frame(World, w, r) /\ w.pc = World.pc /\ ~w.req[r].updated /\ w.req[r].sub = World.req[r].sub
  <2>1. CASE a.till > 0 /\ req[r].cacheable
    <3>1. LET x == [World EXCEPT !.req[r] = d] IN
          Sound(x) /\ Frame(World, x, r) /\ x.pc = World.pc /\ x.req[r] = d
      BY <1>1, <1>5, RecordIs
    <3>2. w = [World EXCEPT !.req[r] = d]
      BY <2>1
    <3> HIDE DEF w
    <3> QED BY <1>2, <1>3, <1>5, <3>1, <3>2
  <2>2. CASE ~(a.till > 0 /\ req[r].cacheable)
    BY <1>1, <1>2, <1>3, <2>2 DEF Frame
  <2> QED BY <2>1, <2>2
<1> HIDE DEF w
<1>7. pc[r] \in Using
  BY DEF Using
<1> QED BY <1>4, <1>6, <1>7, ServedIs

\* A 304 of the upstream: the cached answer has its time renewed.
LEMMA RevalidatedIs ==
  ASSUME IInv, NEW r \in Requests, pc[r] = "fetch", NEW a \in setup.answers, Revalidated(r, a)
  PROVE  IInv'
<1> DEFINE t == now + a.till
           w == UpdateHeader(World, r, t)
           k == World.req[r].key
           f == [World.disk EXCEPT ![k].till = t]
<1>1. Wellset /\ Sound(World) /\ AllPlaced(World) /\ Typed(World)
  BY NowWellset DEF Sound
<1>2. World.pc[r] = "fetch" /\ World.req = req
  BY WorldIs
<1>3. ~req[r].updated /\ World.req[r] \in Requested /\ k \in Keys
  <2>1. ~req[r].updated /\ World.req[r] \in Requested
    BY <1>1, <1>2 DEF AllPlaced, Rests, Typed
  <2> QED BY <2>1 DEF Requested
<1>4. Become(Serve(FreeCache(w, r), r, "revalidated"))
  BY DEF Revalidated
<1>5. f \in [Keys -> Files]
  <2>1. t \in Int
    BY <1>1 DEF Wellset
  <2>2. World.disk \in [Keys -> Files]
    BY <1>1 DEF Typed
  <2> HIDE DEF t
  <2>3. \A g \in Files : [g EXCEPT !.till = t] \in Files
    BY <2>1 DEF Files
  <2>4. [World.disk[k] EXCEPT !.till = t] \in Files
    BY <1>3, <2>2, <2>3
  <2> QED BY <1>3, <2>2, <2>4
<1>6. w = [World EXCEPT !.disk = f] \/ w = World
  BY DEF UpdateHeader
<1> HIDE DEF f, w
<1>7. Sound(w) /\ w.pc = World.pc /\ w.req = World.req /\ w.del = World.del /\ w.mgr = World.mgr
  <2>1. CASE w = World
    BY <1>1, <2>1
  <2>2. CASE w = [World EXCEPT !.disk = f]
    <3>1. LET x == [World EXCEPT !.disk = f] IN
          Sound(x) /\ x.pc = World.pc /\ x.req = World.req /\ x.del = World.del /\ x.mgr = World.mgr
      BY ONLY <1>1, <1>5, DiskIs
    <3> QED BY ONLY <2>2, <3>1
  <2> QED BY <1>6, <2>1, <2>2
<1>8. Frame(World, w, r) /\ ~w.req[r].updated /\ w.req[r].sub = World.req[r].sub /\ pc[r] \in Using
  BY <1>2, <1>3, <1>7 DEF Frame, Using
<1> QED BY <1>4, <1>7, <1>8, ServedIs

\* The upstream answers.
LEMMA AnswerIs ==
  ASSUME IInv, NEW r \in Requests, Answer(r)
  PROVE  IInv'
<1>1. pc[r] = "fetch"
  BY DEF Answer
<1>2. PICK a \in setup.answers :
       CASE a.kind = "good" -> Answered(r, a)
         [] a.kind = "private" -> Become(Serve(FreeCache(World, r), r, "miss"))
         [] a.kind = "error" -> IF req[r].status = "expired" /\ setup.useStale THEN Become(Serve(FreeCache(World, r), r, "stale"))
                                ELSE Failed(r, a)
         [] OTHER -> req[r].status = "expired" /\ Revalidated(r, a)
  BY Zenon DEF Answer
<1>3. \/ Answered(r, a) \/ Failed(r, a) \/ Revalidated(r, a)
      \/ \E st \in {"miss", "stale"} : Become(Serve(FreeCache(World, r), r, st))
  BY <1>2
<1>4. ASSUME NEW st \in {"miss", "stale"}, Become(Serve(FreeCache(World, r), r, st))
      PROVE  IInv'
  <2>1. Wellset /\ Sound(World) /\ AllPlaced(World)
    BY NowWellset
  <2>2. Frame(World, World, r) /\ pc[r] \in Using
    BY <1>1 DEF Frame, Using
  <2>3. ~World.req[r].updated
    BY <1>1, <2>1, WorldIs DEF AllPlaced, Rests
  <2>4. st \in {"miss", "hit", "updating", "stale", "expired", "revalidated"}
    OBVIOUS
  <2> QED BY ONLY IInv, r \in Requests, <1>4, <2>1, <2>2, <2>3, <2>4, ServedIs
<1> QED BY <1>1, <1>3, <1>4, AnsweredIs, FailedIs, RevalidatedIs

\* The file could not be put in place: the request leaves the node all the same.
LEMMA UnplacedIs ==
  ASSUME IInv, NEW r \in Requests, pc[r] = "pipe", Unplaced(r)
  PROVE  IInv'
<1> DEFINE w == World
           i == req[r].node
           b == Rob(w, r)
           u == Serve(b, r, "miss")
           x == [nodes[i] EXCEPT !.count = @ - 1, !.error = FALSE, !.fs = 0, !.updating = FALSE]
           d == [u.req[r] EXCEPT !.updated = TRUE, !.updating = FALSE, !.node = 0, !.temp = FALSE]
           n == [u.nodes EXCEPT ![i] = x]
           h == [u.sh EXCEPT !.size = @ - nodes[i].fs]
           q == [u.req EXCEPT ![r] = d]
           v == [u EXCEPT !.nodes = n, !.sh = h, !.req = q]
<1>1. Wellset /\ Sound(w) /\ AllPlaced(w) /\ Typed(w)
  BY NowWellset DEF Sound
<1>2. w.pc[r] = "pipe" /\ w.req = req /\ w.nodes = nodes
  BY WorldIs
<1>3. i # 0 /\ ~req[r].updated /\ w.del[r].node = 0 /\ req[r] \in Requested
  BY <1>1, <1>2 DEF AllPlaced, Rests, Using, Typed
<1>4. i \in Slots /\ nodes[i] \in Nodes
  <2>1. i \in Slots
    BY <1>1, <1>2, <1>3, NodePlace
  <2> QED BY <1>1, <1>2, <2>1 DEF Typed
<1>5. Become(v)
  BY DEF Unplaced
<1>6. x \in Nodes /\ x.key = nodes[i].key /\ x.count = nodes[i].count - 1
  <2>1. nodes[i].count - 1 \in Int
    BY <1>4 DEF Nodes
  <2> QED BY <1>4, <2>1 DEF Nodes
<1>7. /\ Sound(b) /\ b.pc = w.pc /\ b.req = w.req /\ b.del = w.del /\ b.mgr = w.mgr
      /\ b.nodes = w.nodes /\ b.queue = w.queue /\ w.robbed \subseteq b.robbed
      /\ \A s \in Requests \ {r} : HasLock(w, s) /\ w.req[s].node = w.req[r].node => w.req[r].node \in b.robbed
  BY ONLY <1>1, r \in Requests, RobIs
<1> HIDE DEF b, x
<1>8. Goes(b, u, r) /\ u.pc[r] = "send"
  BY <1>1, <1>7, ServeIs
<1> HIDE DEF u
<1>9. /\ Typed(u) /\ u.nodes = nodes /\ u.queue = w.queue /\ u.del = w.del /\ u.mgr = w.mgr /\ u.robbed = b.robbed
      /\ \A s \in Requests \ {r} : u.pc[s] = w.pc[s] /\ u.req[s] = w.req[s]
      /\ u.req[r].sub = w.req[r].sub /\ u.req[r].temp = w.req[r].temp
  BY <1>2, <1>7, <1>8 DEF Goes, SameElse
<1>10. d \in Requested /\ d.node = 0 /\ d.sub = w.req[r].sub
  <2>1. u.req[r] \in Requested /\ 0 \in Slots \union {0}
    BY <1>9 DEF Typed
  <2> QED BY <1>9, <2>1 DEF Requested
<1> HIDE DEF d
<1>11. n \in [Slots -> Nodes] /\ n[i] = x /\ \A k \in Slots \ {i} : n[k] = nodes[k]
  BY <1>4, <1>6, <1>9 DEF Typed
<1>12. q \in [Requests -> Requested] /\ q[r] = d /\ \A s \in Requests \ {r} : q[s] = w.req[s]
  BY <1>9, <1>10 DEF Typed
<1>13. v = [u EXCEPT !.nodes = n, !.sh = h, !.req = q]
  OBVIOUS
<1> HIDE DEF n, h, q, v, w
<1>14. /\ Typed(v) /\ v.pc = u.pc /\ v.req = q /\ v.del = u.del /\ v.mgr = u.mgr
       /\ v.queue = u.queue /\ v.nodes = n /\ v.robbed = u.robbed
  BY <1>9, <1>11, <1>12, <1>13 DEF Typed
<1>15. Leaves(w, v, r, i, x, d)
  BY <1>2, <1>6, <1>7, <1>9, <1>10, <1>11, <1>12, <1>14 DEF Leaves, SameNode
<1>16. Sound(v)
  BY ONLY <1>1, r \in Requests, <1>4, <1>15, LeavesIs
<1>17. Frame(w, v, r) /\ v.pc[r] = "send" /\ v.req[r].node = 0 /\ v.req[r].sub = w.req[r].sub
  BY <1>8, <1>9, <1>10, <1>12, <1>14 DEF Frame
<1>18. Rests(v, r)
  BY <1>3, <1>17 DEF Rests, Frame, Asking, Using
<1>19. AllPlaced(v)
  <2>1. w.pc[r] # "none" /\ w.pc[r] \notin {"send", "done", "dead"}
    BY <1>2
  <2> QED BY <1>1, <1>17, <1>18, <2>1, PlacedStill
<1> QED BY ONLY IInv, <1>5, <1>16, <1>19, Becoming

\* The file of a key is written, or the answer broke off.
LEMMA StoredIs ==
  ASSUME IInv, NEW r \in Requests, Stored(r)
  PROVE  IInv'
<1> DEFINE u == Goto(World, r, "update")
           f == [u.disk EXCEPT ![req[r].key] = req[r].file]
           d == [u.req[r] EXCEPT !.temp = FALSE]
           a == [u EXCEPT !.disk = f]
           v == [a EXCEPT !.req[r] = d]
<1>1. Wellset /\ Sound(World) /\ AllPlaced(World) /\ Typed(World)
  BY NowWellset DEF Sound
<1>2. pc[r] = "pipe" /\ World.pc[r] = "pipe" /\ World.req = req
  BY WorldIs DEF Stored
<1>3. World.req[r].node # 0 /\ ~World.req[r].updated /\ World.del[r].node = 0 /\ World.req[r] \in Requested
  BY <1>1, <1>2 DEF AllPlaced, Rests, Using, Typed
<1>4. Become(v) \/ Unplaced(r) \/ Become(Serve(FreeCache(World, r), r, "miss"))
  BY DEF Stored
<1>5. CASE Become(Serve(FreeCache(World, r), r, "miss"))
  <2>1. Frame(World, World, r) /\ pc[r] \in Using
    BY <1>2 DEF Frame, Using
  <2> QED BY <1>1, <1>3, <1>5, <2>1, ServedIs
<1>6. CASE Become(v)
  <2>1. Goes(World, u, r) /\ u.pc[r] = "update" /\ u.req = World.req /\ Typed(u)
    BY <1>1, GotoIs DEF States, Goes
  <2> HIDE DEF u
  <2>2. Sound(u) /\ Frame(World, u, r)
    BY <1>1, <2>1, GoesIs
  <2>3. f \in [Keys -> Files]
    <3>1. req[r].key \in Keys /\ req[r].file \in Files
      BY <1>2, <1>3 DEF Requested
    <3> QED BY <2>1, <3>1 DEF Typed
  <2> HIDE DEF f
  <2>4. Sound(a) /\ a.pc = u.pc /\ a.req = u.req /\ a.del = u.del /\ a.mgr = u.mgr
    BY ONLY <1>1, <2>2, <2>3, DiskIs
  <2> HIDE DEF a
  <2>5. d \in Requested /\ SameHold(a.req[r], d) /\ d.updated = World.req[r].updated /\ d.sub = World.req[r].sub
    BY <1>3, <2>1, <2>4 DEF Requested, SameHold
  <2> HIDE DEF d
  <2>6. Sound(v) /\ Frame(a, v, r) /\ v.pc = a.pc /\ v.req[r] = d
    BY ONLY <1>1, <2>4, <2>5, r \in Requests, RecordIs
  <2> HIDE DEF v
  <2>7. Frame(World, v, r) /\ v.pc[r] = "update" /\ v.req[r].node = World.req[r].node
    BY <2>1, <2>2, <2>4, <2>5, <2>6 DEF Frame, SameHold
  <2>8. Rests(v, r)
    BY <1>3, <2>5, <2>6, <2>7 DEF Rests, Frame, Asking
  <2>9. AllPlaced(v)
    <3>1. World.pc[r] # "none" /\ World.pc[r] \notin {"send", "done", "dead"} /\ v.req[r].sub = World.req[r].sub
      BY <1>2, <2>5, <2>6
    <3> QED BY <1>1, <2>7, <2>8, <3>1, PlacedStill
  <2> QED BY ONLY IInv, <1>6, <2>6, <2>9, Becoming
<1>7. CASE Unplaced(r)
  BY <1>2, <1>7, UnplacedIs
<1> QED BY <1>4, <1>5, <1>6, <1>7

\* The node has the file: the request leaves it, and clears its lock whoever has it.
LEMMA UpdateIs ==
  ASSUME IInv, NEW r \in Requests, Update(r)
  PROVE  IInv'
<1> DEFINE w == World
           i == req[r].node
           b == Rob(w, r)
           u == Serve(b, r, "miss")
           x == [nodes[i] EXCEPT !.count = @ - 1, !.error = FALSE, !.fs = req[r].file.fs, !.exists = TRUE, !.updating = FALSE]
           d == [u.req[r] EXCEPT !.updated = TRUE, !.updating = FALSE, !.node = 0]
           n == [u.nodes EXCEPT ![i] = x]
           h == [u.sh EXCEPT !.size = @ + req[r].file.fs - nodes[i].fs]
           q == [u.req EXCEPT ![r] = d]
           v == [u EXCEPT !.nodes = n, !.sh = h, !.req = q]
<1>1. Wellset /\ Sound(w) /\ AllPlaced(w) /\ Typed(w)
  BY NowWellset DEF Sound
<1>2. pc[r] = "update" /\ w.pc[r] = "update" /\ w.req = req /\ w.nodes = nodes
  BY WorldIs DEF Update
<1>3. i # 0 /\ ~req[r].updated /\ w.del[r].node = 0 /\ req[r] \in Requested
  BY <1>1, <1>2 DEF AllPlaced, Rests, Using, Typed
<1>4. i \in Slots /\ nodes[i] \in Nodes /\ req[r].file.fs \in Nat
  <2>1. i \in Slots /\ req[r].file \in Files
    BY <1>1, <1>2, <1>3, NodePlace DEF Requested
  <2> QED BY <1>1, <1>2, <2>1 DEF Typed, Files
<1>5. Become(v)
  BY DEF Update
<1>6. x \in Nodes /\ x.key = nodes[i].key /\ x.count = nodes[i].count - 1
  <2>1. nodes[i].count - 1 \in Int
    BY <1>4 DEF Nodes
  <2> QED BY <1>4, <2>1 DEF Nodes
<1>7. /\ Sound(b) /\ b.pc = w.pc /\ b.req = w.req /\ b.del = w.del /\ b.mgr = w.mgr
      /\ b.nodes = w.nodes /\ b.queue = w.queue /\ w.robbed \subseteq b.robbed
      /\ \A s \in Requests \ {r} : HasLock(w, s) /\ w.req[s].node = w.req[r].node => w.req[r].node \in b.robbed
  BY ONLY <1>1, r \in Requests, RobIs
<1> HIDE DEF b, x
<1>8. Goes(b, u, r) /\ u.pc[r] = "send"
  BY <1>1, <1>7, ServeIs
<1> HIDE DEF u
<1>9. /\ Typed(u) /\ u.nodes = nodes /\ u.queue = w.queue /\ u.del = w.del /\ u.mgr = w.mgr /\ u.robbed = b.robbed
      /\ \A s \in Requests \ {r} : u.pc[s] = w.pc[s] /\ u.req[s] = w.req[s]
      /\ u.req[r].sub = w.req[r].sub /\ u.req[r].temp = w.req[r].temp
  BY <1>2, <1>7, <1>8 DEF Goes, SameElse
<1>10. d \in Requested /\ d.node = 0 /\ d.sub = w.req[r].sub
  <2>1. u.req[r] \in Requested /\ 0 \in Slots \union {0}
    BY <1>9 DEF Typed
  <2> QED BY <1>9, <2>1 DEF Requested
<1> HIDE DEF d
<1>11. n \in [Slots -> Nodes] /\ n[i] = x /\ \A k \in Slots \ {i} : n[k] = nodes[k]
  BY <1>4, <1>6, <1>9 DEF Typed
<1>12. q \in [Requests -> Requested] /\ q[r] = d /\ \A s \in Requests \ {r} : q[s] = w.req[s]
  BY <1>9, <1>10 DEF Typed
<1>13. v = [u EXCEPT !.nodes = n, !.sh = h, !.req = q]
  OBVIOUS
<1> HIDE DEF n, h, q, v, w
<1>14. /\ Typed(v) /\ v.pc = u.pc /\ v.req = q /\ v.del = u.del /\ v.mgr = u.mgr
       /\ v.queue = u.queue /\ v.nodes = n /\ v.robbed = u.robbed
  BY <1>9, <1>11, <1>12, <1>13 DEF Typed
<1>15. Leaves(w, v, r, i, x, d)
  BY <1>2, <1>6, <1>7, <1>9, <1>10, <1>11, <1>12, <1>14 DEF Leaves, SameNode
<1>16. Sound(v)
  BY ONLY <1>1, r \in Requests, <1>4, <1>15, LeavesIs
<1>17. Frame(w, v, r) /\ v.pc[r] = "send" /\ v.req[r].node = 0 /\ v.req[r].sub = w.req[r].sub
  BY <1>8, <1>9, <1>10, <1>12, <1>14 DEF Frame
<1>18. Rests(v, r)
  BY <1>3, <1>17 DEF Rests, Frame, Asking, Using
<1>19. AllPlaced(v)
  <2>1. w.pc[r] # "none" /\ w.pc[r] \notin {"send", "done", "dead"}
    BY <1>2
  <2> QED BY <1>1, <1>17, <1>18, <2>1, PlacedStill
<1> QED BY ONLY IInv, <1>5, <1>16, <1>19, Becoming

\* The request ends, or its connection breaks, with all it holds: ngx_http_file_cache_free.
LEMMA EndIs ==
  ASSUME IInv, NEW r \in Requests, End(r)
  PROVE  IInv'
<1> DEFINE w == FreeCache(World, r)
           d == Past(r)
           v == Goto([w EXCEPT !.req[r] = d], r, "done")
<1>1. Wellset /\ Sound(World) /\ AllPlaced(World)
  BY NowWellset
<1>2. World.pc[r] = "send" /\ Become(v)
  BY WorldIs DEF End
<1>3. (World.req[r].updated => World.req[r].node = 0) /\ World.del[r].node = 0
  BY <1>1, <1>2 DEF AllPlaced, Rests
<1>4. /\ Sound(w) /\ w.pc = World.pc /\ Frame(World, w, r) /\ w.req[r].node = 0
  BY ONLY <1>1, <1>3, r \in Requests, FreeCacheIs
<1>5. /\ d \in Requested /\ d.node = 0 /\ d.sub = World.req[r].sub /\ d.updated /\ ~d.updating /\ ~d.temp
  BY <1>1, PastIs, WorldIs
<1> HIDE DEF d, w
<1>6. Sound(v) /\ Frame(w, v, r) /\ v.pc[r] = "done" /\ v.req[r] = d
  BY ONLY <1>1, <1>4, <1>5, r \in Requests, DoneIs
<1> HIDE DEF v
<1>7. Frame(World, v, r)
  BY <1>4, <1>6 DEF Frame
<1>8. Rests(v, r)
  BY <1>3, <1>5, <1>6, <1>7 DEF Rests, Frame, Asking, Using
<1>9. AllPlaced(v)
  BY <1>1, <1>2, <1>5, <1>6, <1>7, <1>8, PlacedStill
<1> QED BY ONLY IInv, <1>2, <1>6, <1>9, Becoming

-----------------------------------------------------------------------------
(* The workers that end, the manager and the loader.                         *)
\* A request that is dead keeps its node counted, but no lock.
LEMMA CrashIs ==
  ASSUME IInv, NEW r \in Requests, Crash(r)
  PROVE  IInv'
<1> DEFINE w == World
           d == [Past(r) EXCEPT !.node = req[r].node, !.key = req[r].key]
           p == [pc EXCEPT ![r] = "dead"]
           q == [req EXCEPT ![r] = d]
           v == [w EXCEPT !.pc = p, !.req = q, !.upset = upset']
<1>1. /\ Wellset /\ Sound(w) /\ AllPlaced(w) /\ Typed(w) /\ Counted(w) /\ Named(w) /\ Queued(w) /\ Locked(w)
  BY NowWellset DEF Sound
<1>2. /\ pc[r] \notin {"none", "done", "dead"} /\ pc' = p /\ req' = q /\ upset' \in BOOLEAN
      /\ UNCHANGED <<nodes, queue, sh, disk, del, mgr, todo, now, robbed, setup>>
  BY DEF Crash
<1>3. w.pc = pc /\ w.req = req /\ w.nodes = nodes /\ w.queue = queue /\ w.disk = disk /\ w.del = del /\ w.mgr = mgr
      /\ w.todo = todo /\ w.robbed = robbed
  BY WorldIs
<1>4. d \in Requested /\ d.node = req[r].node /\ d.key = req[r].key /\ d.sub = req[r].sub /\ ~d.updating
  <2>1. /\ Past(r) \in Requested /\ Past(r).sub = req[r].sub /\ ~Past(r).updating
    BY <1>1, PastIs
  <2>2. req[r].node \in Slots \union {0} /\ req[r].key \in Keys
    BY <1>1, <1>3 DEF Typed, Requested
  <2> QED BY <2>1, <2>2 DEF Requested
<1> HIDE DEF d
<1>5. p \in [Requests -> States] /\ p[r] = "dead" /\ \A s \in Requests \ {r} : p[s] = w.pc[s]
  BY <1>1, <1>3 DEF Typed, States
<1>6. q \in [Requests -> Requested] /\ q[r] = d /\ \A s \in Requests \ {r} : q[s] = w.req[s]
  BY <1>1, <1>3, <1>4 DEF Typed
<1>7. v = [w EXCEPT !.pc = p, !.req = q, !.upset = upset']
  OBVIOUS
<1> HIDE DEF w, p, q, v
<1>8. /\ Typed(v) /\ v.pc = p /\ v.req = q /\ v.nodes = w.nodes /\ v.queue = w.queue /\ v.disk = w.disk /\ v.del = w.del
      /\ v.mgr = w.mgr /\ v.todo = w.todo /\ v.robbed = w.robbed /\ v.upset = upset'
  BY <1>1, <1>2, <1>5, <1>6, <1>7 DEF Typed
<1>9. \A s \in Requests : v.req[s].node = w.req[s].node /\ v.req[s].key = w.req[s].key
  BY <1>3, <1>4, <1>6, <1>8
<1>10. Counted(v)
  <2> SUFFICES ASSUME NEW i \in Slots
               PROVE  v.nodes[i].count = Cardinality(At(v.req, i)) + Cardinality(At(v.del, i))
    BY DEF Counted
  <2>1. At(v.req, i) = At(w.req, i) /\ At(v.del, i) = At(w.del, i)
    BY <1>1, <1>8, <1>9, NodePlace DEF At
  <2> QED BY <1>1, <1>8, <2>1 DEF Counted
<1>11. Named(v) /\ Queued(v)
  BY <1>1, <1>8, <1>9 DEF Named, Queued, Used
<1>12. Locked(v)
  <2>1. \A s \in Requests : HasLock(v, s) => s # r /\ HasLock(w, s) /\ w.req[s] = v.req[s]
    BY <1>4, <1>6, <1>8 DEF HasLock
  <2> QED BY <1>1, <1>8, <2>1, LockedStill
<1>13. Sound(v)
  BY <1>8, <1>10, <1>11, <1>12 DEF Sound
<1>14. Frame(w, v, r) /\ v.pc[r] = "dead"
  BY <1>5, <1>6, <1>8 DEF Frame
<1>15. Rests(v, r)
  BY <1>14 DEF Rests, Asking, Using
<1>16. AllPlaced(v)
  <2>1. w.pc[r] # "none" /\ v.req[r].sub = w.req[r].sub
    BY <1>2, <1>3, <1>4, <1>6, <1>8
  <2> QED BY <1>1, <1>14, <1>15, <2>1, PlacedStill
<1>17. /\ pc' = v.pc /\ req' = v.req /\ nodes' = v.nodes /\ queue' = v.queue /\ disk' = v.disk /\ del' = v.del
       /\ mgr' = v.mgr /\ todo' = v.todo /\ upset' = v.upset /\ robbed' = v.robbed /\ UNCHANGED <<now, setup>>
  BY <1>2, <1>3, <1>8
<1> QED BY ONLY IInv, <1>13, <1>16, <1>17, BecomeIs

\* What the manager, the loader and those that delete do leaves the requests where they are.
LEMMA PlacedApart ==
  ASSUME NEW w, NEW v, AllPlaced(w), v.pc = w.pc, v.req = w.req,
         \A r \in Requests : w.del[r].node = 0 => v.del[r].node = 0,
         v.mgr = "force" => v.del[Manager].node = 0
  PROVE  AllPlaced(v)
<1>1. ASSUME NEW r \in Requests
      PROVE  Rests(v, r) /\ Kin(v, r)
  <2>1. Rests(w, r) /\ Kin(w, r) /\ (w.del[r].node = 0 => v.del[r].node = 0)
    BY DEF AllPlaced
  <2> QED BY <2>1 DEF Rests, Kin
<1> QED BY <1>1 DEF AllPlaced

\* The file of a node is deleted while the node is held.
LEMMA UnlinkIs ==
  ASSUME IInv, NEW p \in Processes, Unlink(p)
  PROVE  IInv'
<1> DEFINE w == World
           k == nodes[del[p].node].key
           e == [w.del[p] EXCEPT !.gone = TRUE]
           D == [w.del EXCEPT ![p] = e]
           f == [w.disk EXCEPT ![k] = NoFile]
           v == [w EXCEPT !.del = D, !.disk = f]
<1>1. Wellset /\ Sound(w) /\ AllPlaced(w) /\ Typed(w) /\ Queued(w)
  BY NowWellset DEF Sound
<1>2. del[p].node # 0 /\ w.del = del /\ Become(v)
  BY WorldIs DEF Unlink
<1>3. e \in Deletions /\ e.node = w.del[p].node
  <2>1. w.del[p] \in Deletions /\ w.del[p].node # 0
    BY <1>1, <1>2 DEF Typed
  <2>2. w.del[p] \in [node : Slots, gone : BOOLEAN]
    BY <2>1 DEF Deletions
  <2>3. e \in [node : Slots, gone : BOOLEAN] /\ e.node = w.del[p].node
    BY <2>2
  <2> QED BY <2>3 DEF Deletions
<1> HIDE DEF e
<1>4. D \in [Processes -> Deletions] /\ \A s \in Processes : D[s].node = w.del[s].node
  BY <1>1, <1>3 DEF Typed
<1>5. f \in [Keys -> Files]
  <2>1. NoFile \in Files
    BY DEF NoFile, Files
  <2> QED BY <1>1, <2>1 DEF Typed
<1>6. v = [w EXCEPT !.del = D, !.disk = f]
  OBVIOUS
<1> HIDE DEF D, f, v
<1>7. /\ Typed(v) /\ v.pc = w.pc /\ v.req = w.req /\ v.del = D /\ v.mgr = w.mgr
      /\ v.queue = w.queue /\ v.nodes = w.nodes /\ v.robbed = w.robbed
  BY <1>1, <1>4, <1>5, <1>6 DEF Typed
<1>8. Alike(w, v) /\ Queued(v)
  BY <1>1, <1>4, <1>7 DEF Alike, SameHold, SameNode, Queued, Used
<1>9. Sound(v)
  BY ONLY <1>1, <1>7, <1>8, AlikeIsSound
<1>10. AllPlaced(v)
  <2>1. /\ \A r \in Requests : w.del[r].node = 0 => v.del[r].node = 0
        /\ v.mgr = "force" => v.del[Manager].node = 0
    BY <1>1, <1>4, <1>7 DEF Processes, AllPlaced
  <2> QED BY ONLY <1>1, <1>7, <2>1, PlacedApart
<1> QED BY ONLY IInv, <1>2, <1>9, <1>10, Becoming

\* Afterwards the node is left, and goes when nobody else holds it.
LEMMA UnlinkedIs ==
  ASSUME IInv, NEW p \in Processes, Unlinked(p)
  PROVE  IInv'
<1> DEFINE i == del[p].node
           x == [nodes[i] EXCEPT !.count = @ - 1, !.deleting = FALSE]
           e == [node |-> 0, gone |-> FALSE]
           n == [World.nodes EXCEPT ![i] = x]
           D == [World.del EXCEPT ![p] = e]
           w == [World EXCEPT !.nodes = n, !.del = D]
           v == IF w.nodes[i].count = 0 THEN Drop(w, i) ELSE w
<1>1. Wellset /\ Sound(World) /\ AllPlaced(World) /\ Typed(World) /\ Named(World)
  BY NowWellset DEF Sound
<1>2. del[p].gone /\ World.del = del /\ World.nodes = nodes
  BY WorldIs DEF Unlinked
<1>3. Become(v)
  BY DEF Unlinked
<1>4. i \in Slots /\ i # 0 /\ nodes[i] \in Nodes /\ nodes[i].key # 0 /\ nodes[i].count \in Int
  <2>1. i \in Slots /\ i # 0
    BY <1>1, <1>2 DEF Typed, Deletions, Wellset
  <2> QED BY <1>1, <1>2, <2>1 DEF Typed, Named, Nodes
<1>5. /\ x \in Nodes /\ x.key = nodes[i].key /\ x.count = nodes[i].count - 1
      /\ x.updating = nodes[i].updating /\ x.lockTime = nodes[i].lockTime
  <2>1. nodes[i].count - 1 \in Int
    BY <1>4
  <2> QED BY <1>4, <2>1 DEF Nodes
<1>6. e \in Deletions /\ e.node = 0
  BY DEF Deletions
<1> HIDE DEF x, e
<1>7. n \in [Slots -> Nodes] /\ n[i] = x /\ \A j \in Slots \ {i} : n[j] = World.nodes[j]
  BY <1>1, <1>4, <1>5 DEF Typed
<1>8. D \in [Processes -> Deletions] /\ D[p] = e /\ \A s \in Processes \ {p} : D[s] = World.del[s]
  BY <1>1, <1>6 DEF Typed
<1>9. w = [World EXCEPT !.nodes = n, !.del = D]
  OBVIOUS
<1>10. v = Drop(w, i) \/ v = w
  OBVIOUS
<1>11. w.nodes[i].count # 0 => v = w
  OBVIOUS
<1> HIDE DEF n, D, w, v
<1>12. /\ Typed(w) /\ w.pc = World.pc /\ w.req = World.req /\ w.del = D /\ w.mgr = World.mgr
       /\ w.queue = World.queue /\ w.nodes = n /\ w.robbed = World.robbed
  BY <1>1, <1>7, <1>8, <1>9 DEF Typed
<1>13. w.nodes[i].count = World.nodes[i].count - Pointed(World.del, i, p) + Pointed(w.del, i, p)
  <2>1. Pointed(World.del, i, p) = 1 /\ Pointed(w.del, i, p) = 0
    BY <1>2, <1>4, <1>6, <1>8, <1>12 DEF Pointed
  <2> QED BY <1>2, <1>4, <1>5, <1>7, <1>12, <2>1
<1>14. Holds(World, w, p, i)
  <2>1. World.del[p].node = i /\ w.del[p].node = 0
    BY <1>2, <1>6, <1>8, <1>12
  <2> QED BY <1>2, <1>4, <1>5, <1>7, <1>8, <1>12, <1>13, <2>1 DEF Holds
<1>15. Sound(w)
  BY ONLY <1>1, <1>4, <1>14, p \in Processes, HoldsIs
<1>16. Sound(v) /\ v.pc = w.pc /\ v.req = w.req /\ v.del = w.del /\ v.mgr = w.mgr
  <2>1. CASE w.nodes[i].count # 0
    BY <1>11, <1>15, <2>1
  <2>2. CASE w.nodes[i].count = 0 /\ v = Drop(w, i)
    BY <1>1, <1>4, <1>15, <2>2, DropIs
  <2> QED BY <1>10, <1>15, <2>1, <2>2
<1>17. AllPlaced(v)
  <2>1. \A s \in Processes : World.del[s].node = 0 => v.del[s].node = 0
    BY <1>6, <1>8, <1>12, <1>16
  <2>2. /\ \A r \in Requests : World.del[r].node = 0 => v.del[r].node = 0
        /\ v.mgr = "force" => v.del[Manager].node = 0
    BY <1>1, <1>12, <1>16, <2>1 DEF Processes, AllPlaced
  <2> QED BY <1>1, <1>12, <1>16, <2>2, PlacedApart
<1> QED BY ONLY IInv, <1>3, <1>16, <1>17, Becoming

\* Where the manager is changes nothing else.
LEMMA ManagerIs ==
  ASSUME Wellset, NEW w, Sound(w), NEW m \in {"idle", "expire", "check", "force"}
  PROVE  LET v == [w EXCEPT !.mgr = m] IN Sound(v) /\ v.pc = w.pc /\ v.req = w.req /\ v.del = w.del /\ v.mgr = m
<1> DEFINE v == [w EXCEPT !.mgr = m]
<1>1. Typed(w) /\ Queued(w)
  BY DEF Sound
<1>2. v = [w EXCEPT !.mgr = m]
  OBVIOUS
<1> HIDE DEF v
<1>3. /\ Typed(v) /\ v.nodes = w.nodes /\ v.queue = w.queue /\ v.del = w.del /\ v.mgr = m /\ v.robbed = w.robbed
      /\ v.pc = w.pc /\ v.req = w.req
  BY <1>1, <1>2 DEF Typed
<1>4. Alike(w, v) /\ Queued(v)
  BY <1>1, <1>3 DEF Alike, SameHold, SameNode, Queued, Used
<1>5. Sound(v)
  BY ONLY Wellset, Sound(w), <1>3, <1>4, AlikeIsSound
<1> QED BY <1>3, <1>5 DEF v

\* The cache manager goes on to another of its loops.
LEMMA ManagerStep ==
  ASSUME IInv, NEW m \in {"idle", "expire", "check", "force"}, m = "force" => del[Manager].node = 0,
         Become([World EXCEPT !.mgr = m])
  PROVE  IInv'
<1> DEFINE v == [World EXCEPT !.mgr = m]
<1>1. Wellset /\ Sound(World) /\ AllPlaced(World) /\ World.del = del
  BY NowWellset, WorldIs
<1>2. Sound(v) /\ v.pc = World.pc /\ v.req = World.req /\ v.del = World.del /\ v.mgr = m
  BY <1>1, ManagerIs
<1> HIDE DEF v
<1>3. AllPlaced(v)
  <2>1. /\ \A r \in Requests : World.del[r].node = 0 => v.del[r].node = 0
        /\ v.mgr = "force" => v.del[Manager].node = 0
    BY <1>1, <1>2
  <2> QED BY <1>1, <1>2, <2>1, PlacedApart
<1>4. Become(v)
  BY DEF v
<1> QED BY ONLY IInv, <1>2, <1>3, <1>4, Becoming

\* The cache manager deletes the oldest node when it was inactive long enough.
LEMMA ExpireIs ==
  ASSUME IInv, Expire
  PROVE  IInv'
<1> DEFINE i == Last(queue)
           stops == queue = <<>> \/ nodes[i].expire > now \/ (nodes[i].count > 0 /\ nodes[i].deleting)
<1>1. Wellset /\ Sound(World) /\ AllPlaced(World) /\ Typed(World) /\ Queued(World)
  BY NowWellset DEF Sound
<1>2. World.mgr = "expire" /\ World.del[Manager].node = 0 /\ World.nodes = nodes /\ World.queue = queue
  BY WorldIs DEF Expire
<1>3. CASE stops
  <2>1. Become([World EXCEPT !.mgr = "check"])
    BY <1>3 DEF Expire
  <2> QED BY <2>1, ManagerStep
<1>4. CASE ~stops
  <2>1. i \in Slots /\ nodes[i].key # 0
    <3>1. queue \in Seq(Slots) /\ queue # <<>>
      BY <1>1, <1>2, <1>4 DEF Typed
    <3>2. i = queue[Len(queue)] /\ Len(queue) \in DOMAIN queue
      BY <3>1 DEF Last
    <3>3. i \in Range(queue)
      BY <3>2 DEF Range
    <3> QED BY <1>1, <1>2, <3>3 DEF Queued, Used
  <2>2. CASE nodes[i].count = 0
    <3> DEFINE v == Delete(World, Manager, i)
    <3>1. Become(v)
      BY <1>4, <2>2 DEF Expire
    <3>2. Manager \in Processes /\ World.nodes[i].count = 0 /\ World.nodes[i].key # 0 /\ i \in Slots
      BY <1>2, <2>1, <2>2 DEF Processes
    <3>3. Sound(v) /\ Aside(World, v, Manager)
      BY ONLY <1>1, <1>2, <3>2, DeleteIs
    <3> HIDE DEF v
    <3>4. AllPlaced(v)
      <4>1. \A r \in Requests : v.del[r] = World.del[r]
        BY <1>1, <3>3 DEF Aside, Processes, Manager, Wellset
      <4>2. v.mgr # "force" /\ v.pc = World.pc /\ v.req = World.req
        BY <1>2, <3>3 DEF Aside
      <4> QED BY <1>1, <4>1, <4>2, PlacedApart
    <3> QED BY ONLY IInv, <3>1, <3>3, <3>4, Becoming
  <2>3. CASE nodes[i].count # 0
    <3> DEFINE v == Touch(World, i)
    <3>1. Become(v)
      BY <1>4, <2>3 DEF Expire
    <3>2. IsInjective(World.queue) /\ i \in Slots
      BY <1>1, <2>1 DEF Queued
    <3>3. /\ Typed(v) /\ Alike(World, v) /\ v.pc = World.pc /\ v.req = World.req /\ v.del = World.del /\ v.mgr = World.mgr
          /\ IsInjective(v.queue) /\ Range(v.queue) = Range(World.queue) \union {i}
      BY ONLY <1>1, <3>2, TouchIs
    <3> HIDE DEF v
    <3>4. Queued(v)
      BY <1>1, <1>2, <2>1, <3>3 DEF Queued, Used, Alike, SameNode
    <3>5. Sound(v)
      BY ONLY <1>1, <3>3, <3>4, AlikeIsSound
    <3>6. AllPlaced(v)
      <4>1. v.mgr # "force"
        BY <1>2, <3>3
      <4> QED BY <1>1, <3>3, <4>1, PlacedApart
    <3> QED BY ONLY IInv, <3>1, <3>5, <3>6, Becoming
  <2> QED BY <2>2, <2>3
<1> QED BY <1>3, <1>4

\* The cache manager begins a round or goes on to the size check.
LEMMA ManageIs ==
  ASSUME IInv, Manage
  PROVE  IInv'
<1>1. PICK m \in {"idle", "force"} : Become([World EXCEPT !.mgr = m])
  BY DEF Manage
<1>2. del[Manager].node = 0 /\ m \in {"idle", "expire", "check", "force"}
  BY DEF Manage
<1> QED BY ONLY IInv, <1>1, <1>2, ManagerStep

\* A process that waited for the disk goes on with the node it was deleting.
LEMMA WakeIs ==
  ASSUME IInv, Wake
  PROVE  IInv'
BY ManagerStep DEF Wake

\* The manager deletes one that nobody holds, or finds none.
LEMMA EvictIs ==
  ASSUME IInv, Evict
  PROVE  IInv'
<1> DEFINE u == ForcedExpire(World, Manager)
           m == IF u.rc = "one" THEN "check" ELSE "idle"
           v == [u EXCEPT !.mgr = m]
<1>1. Wellset /\ Sound(World) /\ AllPlaced(World)
  BY NowWellset
<1>2. World.mgr = "force" /\ Become(v)
  BY WorldIs DEF Evict
<1>3. World.del[Manager].node = 0 /\ Manager \in Processes
  BY <1>1, <1>2 DEF AllPlaced, Processes
<1>4. Sound(u) /\ Aside(World, u, Manager)
  BY ONLY <1>1, <1>3, ForcedExpireIs
<1> HIDE DEF u
<1>5. m \in {"idle", "expire", "check", "force"} /\ m # "force"
  OBVIOUS
<1> HIDE DEF m
<1>6. Sound(v) /\ v.pc = u.pc /\ v.req = u.req /\ v.del = u.del /\ v.mgr = m
  BY ONLY <1>1, <1>4, <1>5, ManagerIs
<1> HIDE DEF v
<1>7. AllPlaced(v)
  <2>1. \A r \in Requests : v.del[r] = World.del[r]
    BY <1>1, <1>4, <1>6 DEF Aside, Processes, Manager, Wellset
  <2>2. v.mgr # "force" /\ v.pc = World.pc /\ v.req = World.req
    BY <1>4, <1>5, <1>6 DEF Aside
  <2> QED BY <1>1, <2>1, <2>2, PlacedApart
<1> QED BY ONLY IInv, <1>2, <1>6, <1>7, Becoming

\* A step that leaves all alone that the invariant speaks of.
LEMMA ApartStep ==
  ASSUME IInv, NEW STATE v, Typed(v), v.pc = pc, v.req = req, v.nodes = nodes, v.queue = queue, v.del = del, v.mgr = mgr,
         v.robbed = robbed
  PROVE  Sound(v) /\ AllPlaced(v)
<1>1. Wellset /\ Sound(World) /\ AllPlaced(World) /\ Queued(World)
  BY NowWellset DEF Sound
<1>2. /\ v.pc = World.pc /\ v.req = World.req /\ v.nodes = World.nodes /\ v.queue = World.queue /\ v.del = World.del
      /\ v.mgr = World.mgr /\ v.robbed = World.robbed
  BY WorldIs
<1>3. Alike(World, v) /\ Queued(v)
  BY <1>1, <1>2 DEF Alike, SameHold, SameNode, Queued, Used
<1>4. Sound(v)
  BY ONLY <1>1, <1>3, Typed(v), AlikeIsSound
<1>5. AllPlaced(v)
  BY <1>1, <1>2, PlacedApart DEF AllPlaced
<1> QED BY <1>4, <1>5

\* The loader starts with what is on the disk.
LEMMA LoadIs ==
  ASSUME IInv, Load
  PROVE  IInv'
<1> DEFINE T == {k \in Keys : disk[k] # NoFile}
           h == [World.sh EXCEPT !.loading = TRUE]
           v == [World EXCEPT !.sh = h, !.todo = T]
<1>1. Typed(World)
  BY NowWellset DEF Sound
<1>2. Become(v)
  BY DEF Load
<1>3. v = [World EXCEPT !.sh = h, !.todo = T] /\ T \subseteq Keys
  OBVIOUS
<1> HIDE DEF T, h, v
<1>4. /\ Typed(v) /\ v.pc = pc /\ v.req = req /\ v.nodes = nodes /\ v.queue = queue /\ v.del = del /\ v.mgr = mgr
      /\ v.robbed = robbed
  BY <1>1, <1>3, WorldIs DEF Typed
<1>5. Sound(v) /\ AllPlaced(v)
  BY ONLY IInv, <1>4, ApartStep
<1> QED BY ONLY IInv, <1>2, <1>5, Becoming

\* The loader has seen every file.
LEMMA LoadedIs ==
  ASSUME IInv, Loaded
  PROVE  IInv'
<1> DEFINE h == [[World.sh EXCEPT !.loading = FALSE] EXCEPT !.cold = FALSE]
           v == [World EXCEPT !.sh = h]
<1>1. Typed(World)
  BY NowWellset DEF Sound
<1>2. Become(v)
  <2>1. Become([World EXCEPT !.sh.loading = FALSE, !.sh.cold = FALSE])
    BY DEF Loaded
  <2>2. [World EXCEPT !.sh.loading = FALSE, !.sh.cold = FALSE] = v
    BY <1>1 DEF Typed
  <2> HIDE DEF v
  <2> QED BY <2>1, <2>2, Zenon
<1>3. v = [World EXCEPT !.sh = h]
  OBVIOUS
<1> HIDE DEF h, v
<1>4. /\ Typed(v) /\ v.pc = pc /\ v.req = req /\ v.nodes = nodes /\ v.queue = queue /\ v.del = del /\ v.mgr = mgr
      /\ v.robbed = robbed
  BY <1>1, <1>3, WorldIs DEF Typed
<1>5. Sound(v) /\ AllPlaced(v)
  BY ONLY IInv, <1>4, ApartStep
<1> QED BY ONLY IInv, <1>2, <1>5, Becoming

\* The loader is told to quit before it is done.
LEMMA LoaderQuitsIs ==
  ASSUME IInv, LoaderQuits
  PROVE  IInv'
<1> DEFINE v == [World EXCEPT !.todo = {}]
<1>1. Typed(World)
  BY NowWellset DEF Sound
<1>2. v = [World EXCEPT !.todo = {}]
  OBVIOUS
<1> HIDE DEF v
<1>3. /\ Typed(v) /\ v.pc = pc /\ v.req = req /\ v.nodes = nodes /\ v.queue = queue /\ v.del = del /\ v.mgr = mgr
      /\ v.robbed = robbed /\ v.disk = disk /\ v.upset = upset /\ v.todo = {}
  BY <1>1, <1>2, WorldIs DEF Typed
<1>4. Sound(v) /\ AllPlaced(v)
  BY ONLY IInv, <1>3, ApartStep
<1>5. /\ pc' = v.pc /\ req' = v.req /\ nodes' = v.nodes /\ queue' = v.queue /\ disk' = v.disk /\ del' = v.del
      /\ mgr' = v.mgr /\ todo' = v.todo /\ upset' = v.upset /\ robbed' = v.robbed /\ UNCHANGED <<now, setup>>
  BY <1>3 DEF LoaderQuits
<1> QED BY ONLY IInv, <1>4, <1>5, BecomeIs

\* The loader puts a node that nobody holds into a place that was free.
LEMMA PutNewIs ==
  ASSUME Wellset, NEW w, Sound(w), NEW i \in Slots, w.nodes[i].key = 0, NEW x \in Nodes, x.key # 0, x.count = 0
  PROVE  LET v == Touch([w EXCEPT !.nodes = [w.nodes EXCEPT ![i] = x]], i) IN
         Sound(v) /\ v.pc = w.pc /\ v.req = w.req /\ v.del = w.del /\ v.mgr = w.mgr
<1> DEFINE v == Touch([w EXCEPT !.nodes = [w.nodes EXCEPT ![i] = x]], i)
<1>1. Typed(w) /\ Counted(w) /\ Named(w) /\ Queued(w) /\ Locked(w)
  BY DEF Sound
<1>2. /\ Typed(v) /\ v.pc = w.pc /\ v.req = w.req /\ v.del = w.del /\ v.mgr = w.mgr /\ v.robbed = w.robbed
      /\ IsInjective(v.queue) /\ Range(v.queue) = Range(w.queue) \union {i}
      /\ SameNode(x, v.nodes[i]) /\ \A j \in Slots \ {i} : SameNode(w.nodes[j], v.nodes[j])
  BY ONLY Wellset, Sound(w), i \in Slots, x \in Nodes, PutNodeIs
<1>3. /\ \A r \in Requests : w.req[r].node # i
      /\ \A p \in Processes : w.del[p].node # i
      /\ w.nodes[i].count = 0
  BY <1>1, NoneHold
<1> HIDE DEF v
<1>4. Counted(v)
  <2> SUFFICES ASSUME NEW j \in Slots
               PROVE  v.nodes[j].count = Cardinality(At(v.req, j)) + Cardinality(At(v.del, j))
    BY DEF Counted
  <2>1. v.nodes[j].count = w.nodes[j].count
    BY <1>2, <1>3 DEF SameNode
  <2> QED BY <1>1, <1>2, <2>1 DEF Counted
<1>5. Named(v)
  <2>1. \A j \in Slots \ {i} : v.nodes[j].key = w.nodes[j].key
    BY <1>2 DEF SameNode
  <2>2. \A r \in Requests : w.req[r].node # 0 => w.req[r].node \in Slots \ {i}
    BY <1>1, <1>3, NodePlace
  <2>3. \A p \in Processes : w.del[p].node # 0 => w.del[p].node \in Slots \ {i}
    BY <1>1, <1>3, NodePlace
  <2> QED BY <1>1, <1>2, <2>1, <2>2, <2>3 DEF Named
<1>6. Queued(v)
  BY <1>1, <1>2 DEF Queued, Used, SameNode
<1>7. Locked(v)
  <2>1. \A s \in Requests : HasLock(v, s) => HasLock(w, s) /\ w.req[s].node = v.req[s].node
    BY <1>2 DEF HasLock
  <2>2. ASSUME NEW s \in Requests, HasLock(v, s), v.req[s].node \notin v.robbed
        PROVE  /\ v.req[s].node \notin w.robbed /\ v.req[s].lockTime = w.req[s].lockTime
               /\ v.nodes[v.req[s].node].updating = w.nodes[v.req[s].node].updating
               /\ v.nodes[v.req[s].node].lockTime = w.nodes[v.req[s].node].lockTime
    <3>1. v.req[s].node \in Slots \ {i}
      BY <1>1, <1>2, <1>3, <2>2, NodePlace DEF HasLock
    <3> QED BY <1>2, <2>2, <3>1 DEF SameNode
  <2> QED BY ONLY <1>1, <2>1, <2>2, LockedStill
<1>8. Sound(v)
  BY <1>2, <1>4, <1>5, <1>6, <1>7 DEF Sound
<1> QED BY <1>2, <1>8 DEF v

\* The loader adds a file of the disk to the tree: ngx_http_file_cache_add.
LEMMA AddIs ==
  ASSUME IInv, NEW k \in Keys, Add(k)
  PROVE  IInv'
<1> DEFINE T == World.todo \ {k}
           w == [World EXCEPT !.todo = T]
           i == Min(Room(w))
           x == [Free EXCEPT !.key = k, !.uses = 1, !.exists = TRUE, !.fs = disk[k].fs]
<1>1. Wellset /\ Sound(World) /\ AllPlaced(World) /\ Typed(World)
  BY NowWellset DEF Sound
<1>2. w = [World EXCEPT !.todo = T] /\ T \subseteq Keys
  BY <1>1 DEF Typed
<1>3. \/ disk[k] = NoFile /\ Become(w)
      \/ disk[k] # NoFile /\ \E j \in Lookup(w, k) :
           Become(IF j # 0 THEN Touch(w, j)
                  ELSE IF Room(w) = {} THEN [FullZone(w) EXCEPT !.disk[k] = NoFile]
                  ELSE Touch([w EXCEPT !.nodes[i] = x, !.sh.size = @ + disk[k].fs], i))
  BY Zenon DEF Add
<1> HIDE DEF T, w
<1>4. /\ Typed(w) /\ w.pc = pc /\ w.req = req /\ w.nodes = nodes /\ w.queue = queue /\ w.del = del /\ w.mgr = mgr
      /\ w.robbed = robbed /\ w.disk = disk
  BY <1>1, <1>2, WorldIs DEF Typed
<1>5. Sound(w) /\ AllPlaced(w)
  BY ONLY IInv, <1>4, ApartStep
<1>6. CASE Become(w)
  BY ONLY IInv, <1>5, <1>6, Becoming
<1>7. ASSUME disk[k] # NoFile, NEW j \in Lookup(w, k), j # 0, Become(Touch(w, j))
      PROVE  IInv'
  <2> DEFINE v == Touch(w, j)
  <2>1. j \in Slots /\ w.nodes[j].key = k /\ k # 0 /\ IsInjective(w.queue) /\ Queued(w)
    BY <1>1, <1>5, <1>7 DEF Lookup, Wellset, Sound, Queued
  <2>2. /\ Typed(v) /\ Alike(w, v) /\ v.pc = w.pc /\ v.req = w.req /\ v.del = w.del /\ v.mgr = w.mgr
        /\ IsInjective(v.queue) /\ Range(v.queue) = Range(w.queue) \union {j}
    BY ONLY <1>1, <1>4, <2>1, TouchIs
  <2>3. Become(v)
    BY <1>7
  <2> HIDE DEF v
  <2>4. Queued(v)
    BY <2>1, <2>2 DEF Queued, Used, Alike, SameNode
  <2>5. Sound(v)
    BY ONLY <1>1, <1>5, <2>2, <2>4, AlikeIsSound
  <2>6. AllPlaced(v)
    BY <1>5, <2>2, PlacedApart DEF AllPlaced
  <2> QED BY ONLY IInv, <2>3, <2>5, <2>6, Becoming
<1>8. ASSUME disk[k] # NoFile, Room(w) = {}, Become([FullZone(w) EXCEPT !.disk[k] = NoFile])
      PROVE  IInv'
  <2> DEFINE u == FullZone(w)
             f == [u.disk EXCEPT ![k] = NoFile]
             v == [u EXCEPT !.disk = f]
             h == [w.sh EXCEPT !.watermark = Cardinality(Slots \ Room(w)) - Cardinality(Slots \ Room(w)) \div 8]
  <2>1. Become(v)
    BY <1>8
  <2>2. u = [w EXCEPT !.sh = h, !.rc = "full"]
    BY DEF FullZone
  <2> HIDE DEF u, h
  <2>3. /\ Typed(u) /\ u.pc = pc /\ u.req = req /\ u.nodes = nodes /\ u.queue = queue /\ u.del = del /\ u.mgr = mgr
        /\ u.robbed = robbed
    BY <1>4, <2>2 DEF Typed
  <2>4. f \in [Keys -> Files]
    <3>1. NoFile \in Files
      BY DEF NoFile, Files
    <3> QED BY <2>3, <3>1 DEF Typed
  <2>5. v = [u EXCEPT !.disk = f]
    OBVIOUS
  <2> HIDE DEF f, v
  <2>6. /\ Typed(v) /\ v.pc = pc /\ v.req = req /\ v.nodes = nodes /\ v.queue = queue /\ v.del = del /\ v.mgr = mgr
        /\ v.robbed = robbed
    BY <2>3, <2>4, <2>5 DEF Typed
  <2>7. Sound(v) /\ AllPlaced(v)
    BY ONLY IInv, <2>6, ApartStep
  <2> QED BY ONLY IInv, <2>1, <2>7, Becoming
<1>9. ASSUME disk[k] # NoFile, Room(w) # {}, Become(Touch([w EXCEPT !.nodes[i] = x, !.sh.size = @ + disk[k].fs], i))
      PROVE  IInv'
  <2> DEFINE h == [w.sh EXCEPT !.size = @ + disk[k].fs]
             u == [w EXCEPT !.sh = h]
             v == Touch([u EXCEPT !.nodes = [u.nodes EXCEPT ![i] = x]], i)
  <2>1. i \in Slots /\ w.nodes[i].key = 0
    <3>1. Room(w) \subseteq Slots /\ Room(w) \subseteq Nat
      BY <1>1 DEF Room, Wellset
    <3>2. i \in Room(w)
      BY <1>9, <3>1, MinIn
    <3> QED BY <3>2 DEF Room
  <2>2. x \in Nodes /\ x.key # 0 /\ x.count = 0
    <3>1. disk[k].fs \in Nat
      BY <1>4 DEF Typed, Files
    <3>2. k # 0 /\ k \in Keys \union {0}
      BY <1>1 DEF Wellset
    <3> QED BY <1>1, <3>1, <3>2, FreeIsNode DEF Free, Nodes
  <2> HIDE DEF x, i
  <2>3. u = [w EXCEPT !.sh = h]
    OBVIOUS
  <2>4. Become(v)
    <3>1. [w EXCEPT !.nodes[i] = x, !.sh.size = @ + disk[k].fs] = [u EXCEPT !.nodes = [u.nodes EXCEPT ![i] = x]]
      <4> DEFINE n == [w.nodes EXCEPT ![i] = x]
      <4>1. [w EXCEPT !.nodes[i] = x, !.sh.size = @ + disk[k].fs] = [w EXCEPT !.nodes = n, !.sh = h]
        BY <1>4 DEF Typed
      <4>2. [u.nodes EXCEPT ![i] = x] = n
        BY <1>4, <2>3 DEF Typed
      <4> HIDE DEF n, h, u
      <4>3. [w EXCEPT !.nodes = n, !.sh = h] = [u EXCEPT !.nodes = n]
        BY <1>4, <2>3 DEF Typed
      <4> QED BY <4>1, <4>2, <4>3
    <3> HIDE DEF u
    <3> QED BY <1>9, <3>1
  <2> HIDE DEF h, u
  <2>5. /\ Typed(u) /\ u.pc = pc /\ u.req = req /\ u.nodes = nodes /\ u.queue = queue /\ u.del = del /\ u.mgr = mgr
        /\ u.robbed = robbed
    BY <1>4, <2>3 DEF Typed
  <2>6. Sound(u) /\ AllPlaced(u)
    BY ONLY IInv, <2>5, ApartStep
  <2>7. u.nodes[i].key = 0
    BY <1>4, <2>1, <2>5
  <2>8. Sound(v) /\ v.pc = u.pc /\ v.req = u.req /\ v.del = u.del /\ v.mgr = u.mgr
    BY ONLY <1>1, <2>1, <2>2, <2>6, <2>7, PutNewIs
  <2> HIDE DEF v
  <2>9. AllPlaced(v)
    BY <2>6, <2>8, PlacedApart DEF AllPlaced
  <2> QED BY ONLY IInv, <2>4, <2>8, <2>9, Becoming
<1> QED BY <1>3, <1>6, <1>7, <1>8, <1>9

\* Time goes on: a lock runs out, and none is taken.
LEMMA TickIs ==
  ASSUME IInv, Tick
  PROVE  IInv'
<1>1. /\ setup \in Setups /\ now \in Nat /\ Sound(World) /\ AllPlaced(World)
      /\ Typed(World) /\ Counted(World) /\ Named(World) /\ Queued(World) /\ Locked(World)
  BY DEF IInv, Sound
<1>2. now' = now + 1 /\ setup' = setup /\ World' = World
  BY DEF Tick, World
<1>3. Slots' = Slots /\ Keys' = Keys /\ Processes' = Processes
  BY <1>2 DEF Slots, Keys, Processes
<1>4. Requested' = Requested /\ Nodes' = Nodes /\ Deletions' = Deletions
  BY <1>2, <1>3 DEF Requested, Nodes, Deletions
<1>5. Typed(World)'
  BY <1>1, <1>2, <1>3, <1>4 DEF Typed
<1>6. Counted(World)' /\ Named(World)' /\ Queued(World)'
  BY <1>1, <1>2, <1>3 DEF Counted, Named, Queued, Used
<1>7. \A r \in Requests : HasLock(World, r)' => HasLock(World, r)
  <2>1. \A r \in Requests : World.req[r].lockTime \in Nat
    BY <1>1 DEF Typed, Requested
  <2>2. \A r \in Requests : World.req[r].lockTime > now' => World.req[r].lockTime > now
    BY <1>1, <1>2, <2>1
  <2> QED BY <1>2, <2>2 DEF HasLock
<1>8. Locked(World)'
  BY <1>1, <1>2, <1>7 DEF Locked
<1>9. AllPlaced(World)'
  BY <1>1, <1>2, <1>3 DEF AllPlaced, Rests, Kin
<1> QED BY <1>1, <1>2, <1>5, <1>6, <1>8, <1>9 DEF IInv, Sound

-----------------------------------------------------------------------------
(* The start, and the theorems.                                              *)
LEMMA KeysAreFinite ==
  ASSUME setup \in Setups
  PROVE  IsFiniteSet(Keys)
<1> DEFINE K == setup.kinds
<1>1. IsFiniteSet(K)
  BY FileCacheAssumption
<1>2. IsFiniteSet({k.key : k \in K})
  <2> DEFINE T == {k.key : k \in K}
             f == [k \in K |-> k.key]
  <2>1. f \in Surjection(K, T)
    BY DEF Surjection
  <2> HIDE DEF T, f
  <2>2. IsFiniteSet(T)
    BY ONLY <1>1, <2>1, FS_Surjection
  <2> QED BY <2>2 DEF T
<1>3. IsFiniteSet({Variant(k) : k \in K})
  <2> DEFINE T == {Variant(k) : k \in K}
             f == [k \in K |-> Variant(k)]
  <2>1. f \in Surjection(K, T)
    BY DEF Surjection
  <2> HIDE DEF T, f
  <2>2. IsFiniteSet(T)
    BY ONLY <1>1, <2>1, FS_Surjection
  <2> QED BY <2>2 DEF T
<1> QED BY <1>2, <1>3, FS_Union DEF Keys, KeysOf

\* Nodes of what is on the disk, in the order of the queue.
LEMMA InitIs == Init => IInv
<1> SUFFICES ASSUME Init
             PROVE  IInv
  OBVIOUS
<1> DEFINE w == World
           S == {k \in Keys : disk[k] # NoFile}
           on == IF setup.cold THEN <<>> ELSE SetToSeq(S)
           o == [node |-> 0, gone |-> FALSE]
           N(i) == IF i > Len(on) THEN Free
                   ELSE [Free EXCEPT !.key = on[i], !.uses = 1, !.exists = TRUE, !.fs = disk[on[i]].fs, !.expire = setup.inactive]
<1>1. setup \in Setups /\ now = 0 /\ Wellset
  BY SetupIsWellset DEF Init
<1>2. /\ req \in [Requests -> {New(k, FALSE) : k \in setup.kinds}]
      /\ pc = [r \in Requests |-> IF r <= setup.requests THEN "exists" ELSE "none"]
      /\ disk \in setup.files
      /\ nodes = [i \in Slots |-> N(i)] /\ queue = [i \in DOMAIN on |-> i]
      /\ del = [p \in Requests \union {Manager} |-> o]
      /\ mgr = "idle" /\ todo = {} /\ upset = FALSE /\ robbed = {}
  BY DEF Init
<1>3. disk \in [Keys -> Files]
  BY <1>1, <1>2, FileCacheAssumption DEF Keys
<1>4. on \in Seq(Keys) /\ Len(on) <= setup.slots
  <2>1. CASE setup.cold
    BY <1>1, <2>1 DEF Wellset
  <2>2. CASE ~setup.cold
    <3>1. IsFiniteSet(S) /\ S \subseteq Keys
      BY <1>1, KeysAreFinite, FS_Subset
    <3>2. on = SetToSeq(S)
      BY <2>2
    <3>3. on \in Seq(S) /\ Len(on) = Cardinality(S)
      BY <3>1, <3>2, SetToSeqIs
    <3>4. Cardinality(S) <= setup.slots
      BY <1>1, <1>2, <2>2, FileCacheAssumption DEF Keys
    <3> QED BY <3>1, <3>3, <3>4
  <2>3. setup.cold \in BOOLEAN
    BY <1>1, FileCacheAssumption
  <2> QED BY <2>1, <2>2
<1> HIDE DEF on
<1>5. \A i \in Slots : i <= Len(on) => on[i] \in Keys /\ on[i] # 0
  BY <1>1, <1>4 DEF Slots, Wellset
<1>6. \A i \in Slots : N(i) \in Nodes /\ N(i).count = 0 /\ (N(i).key # 0 <=> i <= Len(on))
  <2> SUFFICES ASSUME NEW i \in Slots
               PROVE  N(i) \in Nodes /\ N(i).count = 0 /\ (N(i).key # 0 <=> i <= Len(on))
    OBVIOUS
  <2>1. Free \in Nodes /\ Free.count = 0 /\ Free.key = 0 /\ i \in Nat /\ Len(on) \in Nat
    BY <1>1, <1>4, FreeIsNode DEF Free, Wellset
  <2>2. CASE i > Len(on)
    BY <2>1, <2>2
  <2>3. CASE ~(i > Len(on))
    <3> DEFINE x == [Free EXCEPT !.key = on[i], !.uses = 1, !.exists = TRUE, !.fs = disk[on[i]].fs, !.expire = setup.inactive]
    <3>1. on[i] \in Keys /\ on[i] # 0 /\ i <= Len(on)
      BY <1>5, <2>1, <2>3
    <3>2. disk[on[i]].fs \in Nat /\ setup.inactive \in Nat /\ 1 \in Nat
      BY <1>1, <1>3, <3>1 DEF Files, Wellset
    <3>3. x \in Nodes /\ x.count = 0 /\ x.key = on[i]
      BY <2>1, <3>1, <3>2 DEF Nodes
    <3>4. N(i) = x
      BY <2>3
    <3> HIDE DEF x, N
    <3> QED BY <3>1, <3>3, <3>4
  <2> QED BY <2>2, <2>3
<1> HIDE DEF N
<1>7. /\ nodes \in [Slots -> Nodes] /\ \A i \in Slots : nodes[i].count = 0 /\ (nodes[i].key # 0 <=> i <= Len(on))
  BY <1>2, <1>6
<1>8. queue \in Seq(Slots) /\ IsInjective(queue) /\ Range(queue) = {i \in Slots : nodes[i].key # 0}
  <2>1. DOMAIN on = 1 .. Len(on) /\ Len(on) \in Nat /\ setup.slots \in Nat
    BY <1>1, <1>4 DEF Wellset
  <2>2. queue \in [1 .. Len(on) -> Slots]
    BY <1>2, <1>4, <2>1 DEF Slots
  <2>3. queue \in Seq(Slots)
    BY <2>1, <2>2
  <2>4. DOMAIN queue = 1 .. Len(on) /\ \A i \in 1 .. Len(on) : queue[i] = i
    BY <1>2, <2>1
  <2>5. IsInjective(queue)
    BY <2>4 DEF IsInjective
  <2>6. Range(queue) = 1 .. Len(on)
    BY <2>4 DEF Range
  <2>7. {i \in Slots : nodes[i].key # 0} = 1 .. Len(on)
    BY <1>4, <1>7, <2>1 DEF Slots
  <2> QED BY <2>3, <2>5, <2>6, <2>7
<1>9. ASSUME NEW r \in Requests
      PROVE  /\ req[r] \in Requested /\ req[r].node = 0 /\ ~req[r].updating /\ ~req[r].updated /\ ~req[r].temp /\ ~req[r].sub
             /\ pc[r] = IF r <= setup.requests THEN "exists" ELSE "none"
  <2>1. PICK k \in setup.kinds : req[r] = New(k, FALSE)
    BY <1>2
  <2>2. New(k, FALSE) \in Requested
    BY <1>1, NewIs
  <2> QED BY <1>2, <2>1, <2>2 DEF New
<1>10. req \in [Requests -> Requested] /\ pc \in [Requests -> States]
  BY <1>2, <1>9 DEF States
<1>11. del \in [Processes -> Deletions] /\ \A p \in Processes : del[p].node = 0
  BY <1>2 DEF Processes, Deletions
<1>12. /\ w.pc = pc /\ w.req = req /\ w.nodes = nodes /\ w.queue = queue /\ w.disk = disk /\ w.del = del /\ w.mgr = mgr
       /\ w.todo = todo /\ w.upset = upset /\ w.robbed = robbed
  BY WorldIs
<1>13. Typed(w)
  <2>1. w = [pc |-> w.pc, req |-> w.req, nodes |-> w.nodes, queue |-> w.queue, sh |-> w.sh, disk |-> w.disk, del |-> w.del,
             mgr |-> w.mgr, todo |-> w.todo, upset |-> w.upset, robbed |-> w.robbed, rc |-> w.rc]
    BY DEF World
  <2> HIDE DEF w
  <2> QED BY <1>2, <1>3, <1>7, <1>8, <1>10, <1>11, <1>12, <2>1 DEF Typed
<1> HIDE DEF w
<1>14. Counted(w)
  <2> SUFFICES ASSUME NEW i \in Slots
               PROVE  w.nodes[i].count = Cardinality(At(w.req, i)) + Cardinality(At(w.del, i))
    BY DEF Counted
  <2>1. i # 0
    BY <1>1 DEF Wellset
  <2>2. At(w.req, i) = {} /\ At(w.del, i) = {}
    BY <1>9, <1>10, <1>11, <1>12, <2>1 DEF At
  <2>3. Cardinality(At(w.req, i)) = 0 /\ Cardinality(At(w.del, i)) = 0
    BY <2>2, FS_EmptySet
  <2> QED BY <1>7, <1>12, <2>3
<1>15. Named(w) /\ Queued(w) /\ Locked(w)
  BY <1>8, <1>9, <1>11, <1>12 DEF Named, Queued, Used, Locked, HasLock
<1>16. AllPlaced(w)
  <2>1. ASSUME NEW r \in Requests
        PROVE  Rests(w, r) /\ Kin(w, r)
    <3>1. r \in Nat /\ r # 0 /\ r \in Processes /\ setup.requests \in Nat
      BY <1>1 DEF Wellset, Processes
    <3>2. Rests(w, r)
      BY <1>9, <1>11, <1>12, <3>1 DEF Rests, Using
    <3>3. setup.background /\ Sub(r) \in Requests => w.pc[Sub(r)] = "none"
      <4>1. setup.background => ~(Sub(r) <= setup.requests)
        BY <1>1, <3>1 DEF Sub, Wellset
      <4> HIDE DEF Sub
      <4> QED BY <1>9, <1>12, <4>1
    <3>4. w.pc[r] # "none" => r <= setup.requests
      BY <1>9, <1>12
    <3> QED BY <3>2, <3>3, <3>4 DEF Kin
  <2> QED BY <1>2, <1>12, <2>1 DEF AllPlaced
<1> QED BY <1>1, <1>13, <1>14, <1>15, <1>16 DEF IInv, Sound, w

\* Every step keeps the invariant.
LEMMA NextIs == IInv /\ [Next]_vars => IInv'
<1> SUFFICES ASSUME IInv, [Next]_vars
             PROVE  IInv'
  OBVIOUS
<1>1. CASE UNCHANGED vars
  <2>1. /\ pc' = World.pc /\ req' = World.req /\ nodes' = World.nodes /\ queue' = World.queue /\ disk' = World.disk
        /\ del' = World.del /\ mgr' = World.mgr /\ todo' = World.todo /\ upset' = World.upset /\ robbed' = World.robbed
        /\ UNCHANGED <<now, setup>>
    BY <1>1, WorldIs DEF vars
  <2>2. Sound(World) /\ AllPlaced(World)
    BY NowWellset
  <2> QED BY ONLY IInv, <2>1, <2>2, BecomeIs
<1>2. ASSUME NEW r \in Requests, Step(r)
      PROVE  IInv'
  BY <1>2, OpenIs, MakeRoomIs, RetryIs, ReadIs, JudgeIs, LockIs, LockWaitIs DEF Step
<1>3. ASSUME NEW r \in Requests, Use(r)
      PROVE  IInv'
  BY <1>3, AnswerIs, StoredIs, UpdateIs, EndIs DEF Use
<1>4. ASSUME NEW r \in Requests, Crash(r)
      PROVE  IInv'
  BY <1>4, CrashIs
<1>5. ASSUME NEW p \in Requests \union {Manager}, Unlink(p) \/ Unlinked(p)
      PROVE  IInv'
  BY <1>5, UnlinkIs, UnlinkedIs DEF Processes
<1>6. CASE Wake \/ Expire \/ Manage \/ Evict \/ Load \/ Loaded \/ Tick \/ LoaderQuits
  BY <1>6, WakeIs, ExpireIs, ManageIs, EvictIs, LoadIs, LoadedIs, TickIs, LoaderQuitsIs
<1>7. ASSUME NEW k \in Keys, Add(k)
      PROVE  IInv'
  BY <1>7, AddIs
<1> QED BY <1>1, <1>2, <1>3, <1>4, <1>5, <1>6, <1>7 DEF Next

\* What the invariant says of the nodes, the queue and the locks.
LEMMA IInvIsInv == IInv => Inv
<1> SUFFICES ASSUME IInv
             PROVE  Inv
  OBVIOUS
<1>1. /\ setup \in Setups /\ now \in Nat /\ Typed(World) /\ Counted(World) /\ Named(World) /\ Queued(World)
      /\ Locked(World) /\ AllPlaced(World) /\ Wellset
  BY NowWellset DEF IInv, Sound
<1>2. /\ World.pc = pc /\ World.req = req /\ World.nodes = nodes /\ World.queue = queue /\ World.disk = disk
      /\ World.del = del /\ World.mgr = mgr /\ World.todo = todo /\ World.upset = upset /\ World.robbed = robbed
  BY WorldIs
<1>3. TypeOK
  BY <1>1, <1>2 DEF TypeOK, Typed, Processes
<1>4. HeldNodes
  <2>1. ASSUME NEW i \in Slots
        PROVE  nodes[i].count = Cardinality({r \in Requests : req[r].node = i}) + Cardinality({p \in DOMAIN del : del[p].node = i})
    <3>1. At(req, i) = {r \in Requests : req[r].node = i} /\ At(del, i) = {p \in DOMAIN del : del[p].node = i}
      BY <1>1, <1>2 DEF At, Typed
    <3> QED BY <1>1, <1>2, <3>1 DEF Counted
  <2>2. \A r \in Requests : req[r].node # 0 => nodes[req[r].node].key = req[r].key
    BY <1>1, <1>2 DEF Named
  <2>3. IsInjective(queue) /\ Range(queue) = {i \in Slots : nodes[i].key # 0}
    BY <1>1, <1>2 DEF Queued, Used
  <2>4. \A r \in Requests : pc[r] = "done" => req[r].node = 0 /\ ~req[r].temp
    BY <1>1, <1>2 DEF AllPlaced, Rests
  <2> QED BY <2>1, <2>2, <2>3, <2>4 DEF HeldNodes
<1>5. LockIsExclusive
  BY <1>1, <1>2 DEF LockIsExclusive, Locked
<1> QED BY <1>3, <1>4, <1>5 DEF Inv

\* Whatever the workers, the manager and the loader do, in whatever order, and whoever of the
\* workers is killed: the count of a node is the number of those that hold it, so that no node is
\* freed under a request (ngx_http_file_cache_free, ngx_http_file_cache_delete), the queue has every node
\* once, and one request has the lock of a node that was not robbed (ngx_http_file_cache_lock).
THEOREM CacheIsSafe == Spec => []Inv
<1>1. IInv /\ [Next]_vars => IInv'
  BY NextIs
<1>2. Init => IInv
  BY InitIs
<1>3. IInv => Inv
  BY IInvIsInv
<1> QED BY <1>1, <1>2, <1>3, PTL DEF Spec

-----------------------------------------------------------------------------
(* The books: the size, and the files on the disk.                           *)
Keepers == {"open", "judge", "update"}
Known(w, k) ==
  \/ \E i \in Slots : w.nodes[i].key = k /\ w.nodes[i].exists
  \/ \E r \in Requests : w.pc[r] \in Keepers /\ w.req[r].key = k
Kept(w, k) == w.disk[k] # NoFile => Known(w, k)
\* The loader is still to come to the file of a key that has no node.
Unseen(w, k) == w.sh.cold /\ (\A i \in Slots : w.nodes[i].key # k) /\ (w.sh.loading => k \in w.todo)

\* A key has one node; one without a file has no size; one whose file is being deleted
\* is left alone by the requests, and one process deletes it.
Vacant(n) == ~n.exists /\ ~n.deleting /\ n.fs = 0
Single(w) == \A i, j \in Slots : w.nodes[i].key # 0 /\ w.nodes[i].key = w.nodes[j].key => i = j
Blank(w) == \A i \in Slots : (~w.nodes[i].exists => Vacant(w.nodes[i])) /\ (w.nodes[i].key = 0 => ~w.nodes[i].exists)
Gone(w) ==
  /\ \A i \in Slots : w.nodes[i].deleting => /\ \A r \in Requests : w.req[r].node # i
                                             /\ \E p \in Processes : w.del[p].node = i
  /\ \A p \in Processes : w.del[p].node # 0 =>
       /\ w.nodes[w.del[p].node].deleting
       /\ w.del[p].gone => w.disk[w.nodes[w.del[p].node].key] = NoFile
       /\ \A q \in Processes : w.del[q].node = w.del[p].node => p = q
Worth(n) == IF n.exists /\ ~n.deleting THEN n.fs ELSE 0
Sizes(w) == [i \in Slots |-> Worth(w.nodes[i])]
Sheet(w) ==
  /\ w.sh = [size |-> w.sh.size, cold |-> w.sh.cold, loading |-> w.sh.loading, watermark |-> w.sh.watermark]
  /\ w.sh.cold \in BOOLEAN /\ w.sh.loading \in BOOLEAN
Sized(w) == w.sh.size = Sum(Sizes(w), setup.slots)
Filed(w) == \A k \in Keys : Kept(w, k) \/ Unseen(w, k)
\* What a request is like, by where it is.
Fits(c, st) ==
  /\ st \in Asking => c.status = "miss"
  /\ st = "fetch" /\ c.status = "expired" => c.file # NoFile
  /\ st = "judge" => c.file # NoFile
  /\ st # "dead" /\ ~c.secondary => c.key = c.kind.key
Asks(w, r) == Fits(w.req[r], w.pc[r]) /\ (w.req[r].secondary => Kept(w, w.req[r].kind.key))
Booked(w) == Single(w) /\ Blank(w) /\ Gone(w) /\ Sized(w) /\ Filed(w) /\ \A r \in Requests : Asks(w, r)
Books(w) == Sheet(w) /\ (w.upset \/ Booked(w))

\* What a step of request r leaves as it is in the books.
Elsewhere(w, v, r) ==
  /\ v.disk = w.disk /\ v.todo = w.todo /\ v.del = w.del
  /\ v.sh.size = w.sh.size /\ v.sh.cold = w.sh.cold /\ v.sh.loading = w.sh.loading /\ (Sheet(w) => Sheet(v))
  /\ w.upset => v.upset
  /\ \A s \in Requests \ {r} : v.pc[s] = w.pc[s] /\ v.req[s] = w.req[s]
\* A node stays what it is to the books, or had no file and is freed, or is a new one.
Stays(w, v, i) ==
  \/ SameFile(w.nodes[i], v.nodes[i])
  \/ /\ ~w.nodes[i].exists /\ Vacant(v.nodes[i])
     /\ \/ v.nodes[i].key = 0
        \/ /\ w.nodes[i].key = 0 /\ Kept(v, v.nodes[i].key)
           /\ \A j \in Slots \ {i} : v.nodes[j].key # v.nodes[i].key
Ready(w, v, r) ==
  /\ w.pc[r] \in Keepers => Kept(v, w.req[r].key)
  /\ \A i \in Slots : v.req[r].node = i => ~v.nodes[i].deleting
  /\ Fits(v.req[r], v.pc[r])
  /\ v.req[r].secondary => Kept(v, v.req[r].kind.key) \/ (w.req[r].secondary /\ v.req[r].kind = w.req[r].kind)

\* A file that is known stays so, when a request that had it in its hands hands it on.
LEMMA KeptStill ==
  ASSUME NEW w, NEW v, NEW r, Elsewhere(w, v, r), \A i \in Slots : Stays(w, v, i),
         r \in Requests /\ w.pc[r] \in Keepers => Kept(v, w.req[r].key), NEW k, Kept(w, k)
  PROVE  Kept(v, k)
<1> SUFFICES ASSUME v.disk[k] # NoFile
             PROVE  Known(v, k)
  BY DEF Kept
<1>1. Known(w, k) /\ w.disk = v.disk
  BY DEF Kept, Elsewhere
<1>2. ASSUME NEW i \in Slots, w.nodes[i].key = k, w.nodes[i].exists
      PROVE  Known(v, k)
  <2>1. SameFile(w.nodes[i], v.nodes[i])
    BY <1>2 DEF Stays
  <2> QED BY <1>2, <2>1 DEF Known, SameFile
<1>3. ASSUME NEW s \in Requests, w.pc[s] \in Keepers, w.req[s].key = k
      PROVE  Known(v, k)
  <2>1. CASE s = r
    BY <1>3, <2>1 DEF Kept
  <2>2. CASE s # r
    <3>1. v.pc[s] = w.pc[s] /\ v.req[s] = w.req[s]
      BY <2>2 DEF Elsewhere
    <3> QED BY <1>3, <3>1 DEF Known
  <2> QED BY <2>1, <2>2
<1> QED BY <1>1, <1>2, <1>3 DEF Known

\* Such a step keeps the books.
LEMMA BooksStay ==
  ASSUME Wellset, NEW w, NEW v, NEW r, Typed(w), Books(w), Elsewhere(w, v, r),
         ~v.upset => \A i \in Slots : Stays(w, v, i),
         ~v.upset /\ r \in Requests => Ready(w, v, r)
  PROVE  Books(v)
<1>1. Sheet(v)
  BY DEF Books, Elsewhere
<1> SUFFICES ASSUME ~v.upset
             PROVE  Booked(v)
  BY <1>1 DEF Books
<1>2. Booked(w) /\ (\A i \in Slots : Stays(w, v, i)) /\ (r \in Requests => Ready(w, v, r))
  BY DEF Books, Elsewhere
<1>3. Single(w) /\ Blank(w) /\ Gone(w) /\ Sized(w) /\ Filed(w) /\ \A s \in Requests : Asks(w, s)
  BY <1>2 DEF Booked
<1>4. \A k : Kept(w, k) => Kept(v, k)
  BY <1>2, KeptStill DEF Ready
<1>5. Blank(v)
  BY <1>2, <1>3 DEF Blank, Stays, SameFile, Vacant
<1>6. Single(v)
  <2> SUFFICES ASSUME NEW i \in Slots, NEW j \in Slots, v.nodes[i].key # 0, v.nodes[i].key = v.nodes[j].key, i # j
               PROVE  FALSE
    BY DEF Single
  <2>1. w.nodes[i].key = v.nodes[i].key /\ w.nodes[j].key = v.nodes[j].key
    BY <1>2 DEF Stays, SameFile
  <2> QED BY <1>3, <2>1 DEF Single
<1>7. Sized(v)
  <2>1. \A i \in Slots : Worth(v.nodes[i]) = Worth(w.nodes[i])
    BY <1>2 DEF Stays, SameFile, Vacant, Worth
  <2>2. Sizes(v) = Sizes(w)
    BY <2>1 DEF Sizes
  <2> QED BY <1>3, <2>2 DEF Sized, Elsewhere
<1>8. Filed(v)
  <2> SUFFICES ASSUME NEW k \in Keys
               PROVE  Kept(v, k) \/ Unseen(v, k)
    BY DEF Filed
  <2>1. CASE Kept(w, k)
    BY <1>4, <2>1
  <2>2. CASE Unseen(w, k)
    <3>1. CASE \E i \in Slots : v.nodes[i].key = k
      <4>1. PICK i \in Slots : v.nodes[i].key = k
        BY <3>1
      <4>2. w.nodes[i].key # k /\ k # 0
        BY <2>2 DEF Unseen, Wellset
      <4> QED BY <1>2, <4>1, <4>2 DEF Stays, SameFile
    <3>2. CASE \A i \in Slots : v.nodes[i].key # k
      BY <2>2, <3>2 DEF Unseen, Elsewhere
    <3> QED BY <3>1, <3>2
  <2> QED BY <1>3, <2>1, <2>2 DEF Filed
<1>9. \A s \in Requests : Asks(v, s)
  <2> SUFFICES ASSUME NEW s \in Requests
               PROVE  Asks(v, s)
    OBVIOUS
  <2>1. Asks(w, s)
    BY <1>3
  <2>2. CASE s = r
    BY <1>2, <1>4, <2>1, <2>2 DEF Ready, Asks
  <2>3. CASE s # r
    <3>1. v.pc[s] = w.pc[s] /\ v.req[s] = w.req[s]
      BY <2>3 DEF Elsewhere
    <3> QED BY <1>4, <2>1, <3>1 DEF Asks
  <2> QED BY <2>2, <2>3
<1>10. Gone(v)
  <2>1. v.del = w.del /\ v.disk = w.disk
    BY DEF Elsewhere
  <2>2. ASSUME NEW i \in Slots, v.nodes[i].deleting
        PROVE  /\ \A s \in Requests : v.req[s].node # i
               /\ \E p \in Processes : v.del[p].node = i
    <3>1. w.nodes[i].deleting
      BY <1>2, <2>2 DEF Stays, SameFile, Vacant
    <3>2. (\A s \in Requests : w.req[s].node # i) /\ \E p \in Processes : w.del[p].node = i
      BY <1>3, <3>1 DEF Gone
    <3>3. \A s \in Requests : v.req[s].node # i
      BY <1>2, <2>2, <3>2 DEF Elsewhere, Ready
    <3> QED BY <2>1, <3>2, <3>3
  <2>3. ASSUME NEW p \in Processes, v.del[p].node # 0
        PROVE  /\ v.nodes[v.del[p].node].deleting
               /\ v.del[p].gone => v.disk[v.nodes[v.del[p].node].key] = NoFile
               /\ \A q \in Processes : v.del[q].node = v.del[p].node => p = q
    <3> DEFINE i == w.del[p].node
    <3>1. i \in Slots /\ i # 0
      BY <2>1, <2>3, NodePlace
    <3>2. /\ w.nodes[i].deleting
          /\ w.del[p].gone => w.disk[w.nodes[i].key] = NoFile
          /\ \A q \in Processes : w.del[q].node = i => p = q
      BY <1>3, <3>1 DEF Gone
    <3>3. w.nodes[i].exists
      BY <1>3, <3>1, <3>2 DEF Blank, Vacant
    <3>4. SameFile(w.nodes[i], v.nodes[i])
      BY <1>2, <3>1, <3>3 DEF Stays
    <3> QED BY <2>1, <3>2, <3>4 DEF SameFile
  <2> QED BY <2>2, <2>3 DEF Gone
<1> QED BY <1>5, <1>6, <1>7, <1>8, <1>9, <1>10 DEF Booked

\* The books of the world after a step.
LEMMA BooksAre ==
  ASSUME NEW STATE v, Books(v),
         pc' = v.pc, req' = v.req, nodes' = v.nodes, disk' = v.disk, sh' = v.sh, upset' = v.upset,
         del' = v.del, todo' = v.todo, UNCHANGED setup
  PROVE  Books(World)'
<1>1. /\ pc' = v.pc /\ req' = v.req /\ nodes' = v.nodes /\ disk' = v.disk /\ sh' = v.sh /\ upset' = v.upset
      /\ del' = v.del /\ todo' = v.todo /\ setup' = setup
  OBVIOUS
<1>2. Slots' = Slots /\ Keys' = Keys /\ Processes' = Processes
  BY <1>1 DEF Slots, Keys, Processes
<1>3. Sheet(World)' /\ (Sized(v) => Sized(World)')
  BY <1>1, <1>2 DEF Books, Sheet, Sized, Sizes, Worth, World
<1>4. \A k : (Known(v, k) => Known(World, k)') /\ (Kept(v, k) => Kept(World, k)') /\ (Unseen(v, k) => Unseen(World, k)')
  BY <1>1, <1>2 DEF Kept, Known, Unseen, World
<1>5. CASE v.upset
  BY <1>1, <1>3, <1>5 DEF Books, World
<1>6. CASE Booked(v)
  <2>1. Single(World)' /\ Blank(World)' /\ Gone(World)'
    BY <1>1, <1>2, <1>6 DEF Booked, Single, Blank, Gone, World, Vacant
  <2>2. Filed(World)'
    BY <1>2, <1>4, <1>6 DEF Booked, Filed
  <2>3. \A s \in Requests : Asks(World, s)'
    BY <1>1, <1>4, <1>6 DEF Booked, Asks, World, Fits
  <2> QED BY <1>2, <1>3, <1>6, <2>1, <2>2, <2>3 DEF Books, Booked
<1> QED BY <1>5, <1>6 DEF Books

\* A step that leads to a world with good books.
LEMMA BooksBecome ==
  ASSUME IInv, NEW STATE v, Become(v), Books(v)
  PROVE  Books(World)'
<1>1. /\ pc' = v.pc /\ req' = v.req /\ nodes' = v.nodes /\ disk' = v.disk /\ sh' = v.sh /\ upset' = v.upset
      /\ del' = v.del /\ todo' = v.todo /\ setup' = setup
  BY DEF Become
<1> QED BY ONLY <1>1, Books(v), BooksAre

-----------------------------------------------------------------------------
(* The books through what a request does without its node.                   *)
Talks(w, v, r) ==
  /\ Elsewhere(w, v, r) /\ v.nodes = w.nodes
  /\ v.req[r].kind = w.req[r].kind /\ v.req[r].key = w.req[r].key /\ v.req[r].node = w.req[r].node
  /\ v.req[r].secondary = w.req[r].secondary

\* It may have to see that a file that it had in its hands is still known.
LEMMA TalkBooks ==
  ASSUME Wellset, NEW w, NEW v, NEW r \in Requests, Typed(w), Books(w), Talks(w, v, r),
         ~v.upset => Fits(v.req[r], v.pc[r]) /\ (w.pc[r] \in Keepers => Kept(v, w.req[r].key))
  PROVE  Books(v)
<1>1. Elsewhere(w, v, r) /\ v.nodes = w.nodes
  BY DEF Talks
<1>2. \A i \in Slots : Stays(w, v, i)
  BY <1>1 DEF Stays, SameFile
<1>3. ASSUME ~v.upset
      PROVE  Ready(w, v, r)
  <2>1. Gone(w)
    BY <1>1, <1>3 DEF Elsewhere, Books, Booked
  <2>2. ASSUME NEW i \in Slots, v.req[r].node = i
        PROVE  ~v.nodes[i].deleting
    <3>1. w.nodes[i].deleting => \A s \in Requests : w.req[s].node # i
      BY <2>1, Zenon DEF Gone
    <3>2. w.req[r].node = i
      BY <2>2 DEF Talks
    <3> QED BY <1>1, <3>1, <3>2
  <2> QED BY <1>3, <2>2 DEF Ready, Talks
<1> QED BY <1>1, <1>2, <1>3, BooksStay

\* A request goes on to another place.
LEMMA GotoTalks ==
  ASSUME NEW w, Typed(w), NEW r \in Requests, NEW st
  PROVE  LET v == Goto(w, r, st) IN
         Talks(w, v, r) /\ v.pc[r] = st /\ v.req = w.req /\ v.upset = w.upset /\ v.sh = w.sh
<1> DEFINE v == Goto(w, r, st)
           k == [w.pc EXCEPT ![r] = st]
<1>1. k[r] = st /\ \A s \in Requests \ {r} : k[s] = w.pc[s]
  BY DEF Typed
<1>2. v = [w EXCEPT !.pc = k]
  BY DEF Goto
<1> HIDE DEF k, v
<1>3. /\ v.pc = k /\ v.req = w.req /\ v.nodes = w.nodes /\ v.sh = w.sh /\ v.disk = w.disk /\ v.todo = w.todo
      /\ v.del = w.del /\ v.upset = w.upset
  BY <1>2 DEF Typed
<1> QED BY <1>1, <1>3 DEF Talks, Elsewhere, Sheet, v

\* A request changes what the books do not speak of.
LEMMA RecordTalks ==
  ASSUME NEW w, Typed(w), NEW r \in Requests, NEW d, d.kind = w.req[r].kind, d.key = w.req[r].key, d.node = w.req[r].node,
         d.secondary = w.req[r].secondary
  PROVE  LET v == [w EXCEPT !.req[r] = d] IN
         Talks(w, v, r) /\ v.pc = w.pc /\ v.req[r] = d /\ v.upset = w.upset /\ v.sh = w.sh
<1> DEFINE q == [w.req EXCEPT ![r] = d]
           v == [w EXCEPT !.req = q]
<1>1. q[r] = d /\ \A s \in Requests \ {r} : q[s] = w.req[s]
  BY DEF Typed
<1>2. v = [w EXCEPT !.req = q]
  OBVIOUS
<1> HIDE DEF q, v
<1>3. /\ v.pc = w.pc /\ v.req = q /\ v.nodes = w.nodes /\ v.sh = w.sh /\ v.disk = w.disk /\ v.todo = w.todo
      /\ v.del = w.del /\ v.upset = w.upset
  BY <1>2 DEF Typed
<1>4. Talks(w, v, r) /\ v.pc = w.pc /\ v.req[r] = d /\ v.upset = w.upset /\ v.sh = w.sh
  BY <1>1, <1>3 DEF Talks, Elsewhere, Sheet
<1> QED BY <1>4 DEF v, q

\* One after the other.
LEMMA TalkOn ==
  ASSUME NEW w, NEW u, NEW v, NEW r, Talks(w, u, r), Talks(u, v, r)
  PROVE  Talks(w, v, r)
BY DEF Talks, Elsewhere

\* A request that is served.
LEMMA ServeTalks ==
  ASSUME Wellset, NEW w, Sound(w), NEW r \in Requests, NEW st \in {"miss", "hit", "updating", "stale", "expired", "revalidated"}
  PROVE  LET v == Serve(w, r, st) IN
         Talks(w, v, r) /\ v.pc[r] = "send" /\ v.upset = w.upset /\ v.sh = w.sh
<1> DEFINE u == Goto(w, r, "send")
           d == [u.req[r] EXCEPT !.status = st]
           v == [u EXCEPT !.req[r] = d]
<1>1. Talks(w, u, r) /\ u.pc[r] = "send" /\ u.upset = w.upset /\ u.sh = w.sh /\ u.req = w.req
  BY GotoTalks DEF Sound
<1>2. Typed(u)
  BY GotoIs DEF Goes, States
<1>3. Serve(w, r, st) = v
  BY DEF Serve
<1> HIDE DEF u
<1>4. d.kind = u.req[r].kind /\ d.key = u.req[r].key /\ d.node = u.req[r].node /\ d.secondary = u.req[r].secondary
  BY <1>2 DEF Typed, Requested
<1> HIDE DEF d
<1>5. Talks(u, v, r) /\ v.pc = u.pc /\ v.upset = u.upset /\ v.sh = u.sh
  BY <1>2, <1>4, RecordTalks
<1> HIDE DEF v
<1>6. Talks(w, v, r)
  BY <1>1, <1>5, TalkOn
<1> QED BY <1>1, <1>3, <1>5, <1>6

\* A request that asks the upstream.
LEMMA AskTalks ==
  ASSUME Wellset, NEW w, Sound(w), NEW r \in Requests, NEW b \in BOOLEAN
  PROVE  LET v == Ask(w, r, b) IN
         /\ Talks(w, v, r) /\ v.pc[r] = "fetch" /\ v.req[r].status = w.req[r].status /\ v.req[r].file = w.req[r].file
         /\ v.upset = w.upset /\ v.sh = w.sh
<1> DEFINE u == Goto(w, r, "fetch")
           d == [u.req[r] EXCEPT !.cacheable = @ /\ b]
           v == [u EXCEPT !.req[r] = d]
<1>1. Talks(w, u, r) /\ u.pc[r] = "fetch" /\ u.upset = w.upset /\ u.sh = w.sh /\ u.req = w.req
  BY GotoTalks DEF Sound
<1>2. Typed(u)
  BY GotoIs DEF Goes, States
<1>3. Ask(w, r, b) = v
  BY DEF Ask
<1> HIDE DEF u
<1>4. /\ d.kind = u.req[r].kind /\ d.key = u.req[r].key /\ d.node = u.req[r].node /\ d.secondary = u.req[r].secondary
      /\ d.status = u.req[r].status /\ d.file = u.req[r].file
  BY <1>2 DEF Typed, Requested
<1> HIDE DEF d
<1>5. Talks(u, v, r) /\ v.pc = u.pc /\ v.upset = u.upset /\ v.sh = u.sh /\ v.req[r] = d
  BY <1>2, <1>4, RecordTalks
<1> HIDE DEF v
<1>6. Talks(w, v, r)
  BY <1>1, <1>5, TalkOn
<1> QED BY <1>1, <1>3, <1>4, <1>5, <1>6

\* A request finds the zone full.
LEMMA FullTalks ==
  ASSUME NEW w, Typed(w), NEW r \in Requests
  PROVE  LET v == FullZone(w) IN Talks(w, v, r) /\ v.pc = w.pc /\ v.req = w.req /\ v.upset = w.upset
<1> DEFINE v == FullZone(w)
           x == Cardinality(Slots \ Room(w)) - Cardinality(Slots \ Room(w)) \div 8
           h == [w.sh EXCEPT !.watermark = x]
<1>1. v = [w EXCEPT !.sh = h, !.rc = "full"]
  BY DEF FullZone
<1>2. h.size = w.sh.size /\ h.cold = w.sh.cold /\ h.loading = w.sh.loading
      /\ (w.sh = [size |-> w.sh.size, cold |-> w.sh.cold, loading |-> w.sh.loading, watermark |-> w.sh.watermark] =>
            h = [size |-> h.size, cold |-> h.cold, loading |-> h.loading, watermark |-> h.watermark])
  <2> HIDE DEF x
  <2> QED OBVIOUS
<1> HIDE DEF h, v
<1>3. /\ v.pc = w.pc /\ v.req = w.req /\ v.nodes = w.nodes /\ v.sh = h /\ v.disk = w.disk /\ v.todo = w.todo
      /\ v.del = w.del /\ v.upset = w.upset
  BY <1>1 DEF Typed
<1> QED BY <1>2, <1>3 DEF Talks, Elsewhere, Sheet, v

-----------------------------------------------------------------------------
(* The books through a lookup.                                               *)
\* The request has a node that nobody is deleting: one that stays what it is, or a new one of its key.
Fresh(w, v, r, i) ==
  /\ w.nodes[i].key = 0 /\ Vacant(v.nodes[i]) /\ v.nodes[i].key = v.req[r].key /\ v.rc = "declined"
  /\ \A j \in Slots \ {i} : v.nodes[j].key # v.req[r].key
Finds(w, v, r) ==
  /\ Elsewhere(w, v, r) /\ v.pc = w.pc
  /\ v.req[r].kind = w.req[r].kind /\ v.req[r].secondary = w.req[r].secondary
  /\ ~v.upset /\ Blank(w) => \A i \in Slots :
       /\ SameFile(w.nodes[i], v.nodes[i]) \/ Fresh(w, v, r, i)
       /\ v.req[r].node = i => ~v.nodes[i].deleting \/ (w.req[r].node = i /\ w.nodes[i].deleting)

\* A node is changed, and put first into the queue.
LEMMA PutFiles ==
  ASSUME Wellset, NEW w, Typed(w), NEW i \in Slots, NEW x \in Nodes
  PROVE  LET t == Touch([w EXCEPT !.nodes = [w.nodes EXCEPT ![i] = x]], i) IN
         /\ t.pc = w.pc /\ t.req = w.req /\ t.del = w.del /\ t.sh = w.sh /\ t.disk = w.disk /\ t.todo = w.todo
         /\ t.upset = w.upset /\ SameFile(x, t.nodes[i]) /\ \A j \in Slots \ {i} : t.nodes[j] = w.nodes[j]
<1> DEFINE n == [w.nodes EXCEPT ![i] = x]
           a == [w EXCEPT !.nodes = n]
           y == [a.nodes[i] EXCEPT !.expire = now + setup.inactive]
           m == [a.nodes EXCEPT ![i] = y]
           q == <<i>> \o Without(a.queue, i)
           t == Touch(a, i)
<1>1. n \in [Slots -> Nodes] /\ n[i] = x /\ \A j \in Slots \ {i} : n[j] = w.nodes[j]
  BY DEF Typed
<1> HIDE DEF n
<1>2. /\ a.pc = w.pc /\ a.req = w.req /\ a.del = w.del /\ a.sh = w.sh /\ a.disk = w.disk /\ a.todo = w.todo
      /\ a.upset = w.upset /\ a.nodes = n
      /\ a = [pc |-> a.pc, req |-> a.req, nodes |-> a.nodes, queue |-> a.queue, sh |-> a.sh, disk |-> a.disk, del |-> a.del,
              mgr |-> a.mgr, todo |-> a.todo, upset |-> a.upset, robbed |-> a.robbed, rc |-> a.rc]
  BY DEF Typed
<1>3. t = [a EXCEPT !.queue = q, !.nodes = m]
  BY DEF Touch
<1> HIDE DEF a
<1>4. y.key = x.key /\ y.exists = x.exists /\ y.deleting = x.deleting /\ y.fs = x.fs
  BY <1>1, <1>2 DEF Nodes
<1> HIDE DEF y
<1>5. m[i] = y /\ \A j \in Slots \ {i} : m[j] = w.nodes[j]
  BY <1>1, <1>2
<1> HIDE DEF m, q, t
<1>6. /\ t.pc = w.pc /\ t.req = w.req /\ t.del = w.del /\ t.sh = w.sh /\ t.disk = w.disk /\ t.todo = w.todo
      /\ t.upset = w.upset /\ t.nodes = m
  BY <1>2, <1>3
<1> QED BY <1>4, <1>5, <1>6 DEF SameFile, t, a, n

\* What the request that found a node is told.
LEMMA FoundIs ==
  ASSUME NEW t, Typed(t), NEW r \in Requests, NEW d, NEW u, NEW k
  PROVE  LET v == [t EXCEPT !.req = [t.req EXCEPT ![r] = d], !.upset = u, !.rc = k] IN
         /\ v.pc = t.pc /\ v.req[r] = d /\ (\A s \in Requests \ {r} : v.req[s] = t.req[s]) /\ v.nodes = t.nodes
         /\ v.sh = t.sh /\ v.disk = t.disk /\ v.todo = t.todo /\ v.del = t.del /\ v.upset = u /\ v.rc = k
<1> DEFINE q == [t.req EXCEPT ![r] = d]
<1>1. q[r] = d /\ \A s \in Requests \ {r} : q[s] = t.req[s]
  BY DEF Typed
<1> HIDE DEF q
<1>2. /\ [t EXCEPT !.req = q, !.upset = u, !.rc = k].pc = t.pc
      /\ [t EXCEPT !.req = q, !.upset = u, !.rc = k].req = q
      /\ [t EXCEPT !.req = q, !.upset = u, !.rc = k].nodes = t.nodes
      /\ [t EXCEPT !.req = q, !.upset = u, !.rc = k].sh = t.sh
      /\ [t EXCEPT !.req = q, !.upset = u, !.rc = k].disk = t.disk
      /\ [t EXCEPT !.req = q, !.upset = u, !.rc = k].todo = t.todo
      /\ [t EXCEPT !.req = q, !.upset = u, !.rc = k].del = t.del
      /\ [t EXCEPT !.req = q, !.upset = u, !.rc = k].upset = u
      /\ [t EXCEPT !.req = q, !.upset = u, !.rc = k].rc = k
  BY DEF Typed
<1> QED BY <1>1, <1>2 DEF q

\* The node of the key stays what it is, unless the step upsets the books.
LEMMA TakeFinds ==
  ASSUME Wellset, NEW w, Sound(w), NEW r \in Requests, NEW i \in Slots, w.nodes[i].key = w.req[r].key
  PROVE  LET v == Take(w, r, i) IN Finds(w, v, r) /\ SameAsk(w.req[r], v.req[r]) /\ v.sh = w.sh
<1> DEFINE o == w.nodes[i]
           again == w.req[r].node = i
           renew == o.error /\ o.till < now
           known == [o EXCEPT !.uses = IF again THEN @ ELSE Min({@ + 1, setup.minUses}), !.count = IF again THEN @ ELSE @ + 1]
           blank == [Free EXCEPT !.key = o.key, !.count = known.count, !.uses = known.uses, !.updating = o.updating,
                                 !.deleting = o.deleting, !.lockTime = o.lockTime]
           x == IF renew THEN blank ELSE known
           c == w.req[r]
           d == [c EXCEPT !.node = i, !.error = x.error, !.found = x.exists]
           a == [w EXCEPT !.nodes = [w.nodes EXCEPT ![i] = x]]
           t == Touch(a, i)
           u == w.upset \/ o.deleting \/ (renew /\ o.exists)
           k == IF renew THEN "declined"
                ELSE IF x.error \/ x.exists \/ x.uses >= setup.minUses THEN "ok" ELSE "scarce"
           v == Take(w, r, i)
<1>1. Typed(w) /\ IsInjective(w.queue)
  BY DEF Sound, Queued
<1>2. v = [t EXCEPT !.req = [t.req EXCEPT ![r] = [@ EXCEPT !.node = i, !.error = x.error, !.found = x.exists]],
                    !.upset = @ \/ o.deleting \/ (renew /\ o.exists), !.rc = k]
  BY DEF Take
<1>3. o \in Nodes /\ o.count \in Int /\ o.uses \in Nat /\ i # 0 /\ i \in Slots \union {0}
  BY <1>1 DEF Typed, Nodes, Wellset
<1>4. c \in Requested /\ c.key # 0
  BY <1>1 DEF Typed, Requested, Wellset
<1>5. Min({o.uses + 1, setup.minUses}) \in Nat
  <2>1. {o.uses + 1, setup.minUses} \in SUBSET Nat /\ {o.uses + 1, setup.minUses} # {}
    BY <1>3 DEF Wellset
  <2> QED BY <2>1, MinIn, Zenon
<1>6. known \in Nodes /\ SameFile(o, known)
  <2>1. CASE again
    BY <1>3, <2>1 DEF Nodes, SameFile
  <2>2. CASE ~again
    <3>1. o.count + 1 \in Int
      BY <1>3
    <3>2. known = [o EXCEPT !.uses = Min({o.uses + 1, setup.minUses}), !.count = o.count + 1]
      BY <2>2
    <3> QED BY <1>3, <1>5, <2>2, <3>1, <3>2 DEF Nodes, SameFile
  <2> QED BY <2>1, <2>2
<1> HIDE DEF known
<1>7. blank \in Nodes /\ blank.key = o.key /\ ~blank.exists /\ blank.fs = 0 /\ blank.deleting = o.deleting
  <2>1. /\ o.key \in Keys \union {0} /\ known.count \in Int /\ known.uses \in Nat /\ o.updating \in BOOLEAN
        /\ o.deleting \in BOOLEAN /\ o.lockTime \in Nat
    BY <1>3, <1>6 DEF Nodes
  <2> HIDE DEF o
  <2> QED BY <2>1, FreeIsNode DEF Nodes, Free
<1> HIDE DEF blank
<1>8. x \in Nodes
  BY <1>6, <1>7
<1>9. ASSUME ~u, Blank(w)
      PROVE  SameFile(o, x) /\ ~x.deleting
  <2>1. ~o.deleting /\ (renew => ~o.exists)
    BY <1>9
  <2>2. ~o.exists => o.fs = 0
    BY <1>9 DEF Blank, Vacant
  <2> HIDE DEF o
  <2>3. CASE renew
    <3>1. o.exists \in BOOLEAN /\ blank.exists \in BOOLEAN
      BY <1>3, <1>7 DEF Nodes
    <3>2. x = blank /\ o.exists = FALSE /\ blank.exists = FALSE
      BY <1>7, <2>1, <2>3, <3>1
    <3> QED BY <1>7, <2>1, <2>2, <3>2 DEF SameFile
  <2>4. CASE ~renew
    <3>1. x = known
      BY <2>4
    <3> HIDE DEF x, renew
    <3> QED BY <1>6, <2>1, <3>1 DEF SameFile
  <2> QED BY <2>3, <2>4
<1>10. d \in Requested /\ d.node = i /\ d.kind = c.kind /\ d.secondary = c.secondary /\ SameAsk(c, d)
  <2>1. x.error \in BOOLEAN /\ x.exists \in BOOLEAN
    BY <1>8 DEF Nodes
  <2> HIDE DEF x
  <2> QED BY <1>3, <1>4, <2>1 DEF Requested, SameAsk
<1> HIDE DEF x
<1>11. t.req = w.req /\ t.upset = w.upset
  BY DEF Touch
<1>12. v = [t EXCEPT !.req = [t.req EXCEPT ![r] = d], !.upset = u, !.rc = k]
  <2> HIDE DEF t, v, k, o
  <2> QED BY <1>2, <1>11
<1>13. w.upset => u
  OBVIOUS
<1> HIDE DEF d, u, k, v, o
<1>14. /\ Typed(t) /\ t.pc = w.pc /\ t.req = w.req /\ t.del = w.del /\ t.sh = w.sh /\ t.disk = w.disk /\ t.todo = w.todo
       /\ SameFile(x, t.nodes[i]) /\ \A j \in Slots \ {i} : t.nodes[j] = w.nodes[j]
  <2>1. Typed(t)
    BY <1>8, PutNodeIs
  <2>2. /\ t.pc = w.pc /\ t.req = w.req /\ t.del = w.del /\ t.sh = w.sh /\ t.disk = w.disk /\ t.todo = w.todo
        /\ SameFile(x, t.nodes[i]) /\ \A j \in Slots \ {i} : t.nodes[j] = w.nodes[j]
    BY <1>1, <1>8, PutFiles
  <2> QED BY <2>1, <2>2
<1> HIDE DEF t
<1>15. /\ Elsewhere(w, v, r) /\ v.pc = w.pc /\ v.req[r] = d /\ v.nodes = t.nodes /\ v.upset = u /\ v.rc = k
       /\ v.sh = w.sh
  <2>1. /\ v.pc = t.pc /\ v.req[r] = d /\ (\A s \in Requests \ {r} : v.req[s] = t.req[s]) /\ v.nodes = t.nodes
        /\ v.sh = t.sh /\ v.disk = t.disk /\ v.todo = t.todo /\ v.del = t.del /\ v.upset = u /\ v.rc = k
    BY ONLY <1>12, <1>14, r \in Requests, FoundIs
  <2> QED BY <1>13, <1>14, <2>1 DEF Elsewhere, Sheet
<1>16. ASSUME ~v.upset, Blank(w), NEW j \in Slots
       PROVE  SameFile(w.nodes[j], v.nodes[j]) /\ (v.req[r].node = j => ~v.nodes[j].deleting)
  <2>1. SameFile(o, x) /\ ~x.deleting
    BY <1>9, <1>15, <1>16
  <2>2. CASE j = i
    BY <1>14, <1>15, <2>1, <2>2 DEF o, SameFile
  <2>3. CASE j # i
    BY <1>10, <1>14, <1>15, <2>3 DEF SameFile
  <2> QED BY <2>2, <2>3
<1>17. Finds(w, v, r) /\ SameAsk(w.req[r], v.req[r])
  BY <1>10, <1>15, <1>16 DEF Finds, c
<1> QED BY <1>15, <1>17 DEF v

\* A new node, of a key that has no other unless the step upsets the books.
LEMMA InsertFinds ==
  ASSUME Wellset, NEW w, Sound(w), NEW r \in Requests, Room(w) # {}
  PROVE  LET v == Insert(w, r) IN Finds(w, v, r) /\ SameAsk(w.req[r], v.req[r]) /\ v.sh = w.sh /\ v.rc = "declined"
<1> DEFINE i == Min(Room(w))
           c == w.req[r]
           d == [c EXCEPT !.node = i, !.error = FALSE, !.found = FALSE]
           x == [Free EXCEPT !.key = c.key, !.count = 1, !.uses = 1]
           a == [w EXCEPT !.nodes = [w.nodes EXCEPT ![i] = x]]
           t == Touch(a, i)
           u == w.upset \/ (\E j \in Slots : w.nodes[j].key = c.key)
           v == Insert(w, r)
<1>1. Typed(w)
  BY DEF Sound
<1>2. i \in Slots /\ w.nodes[i].key = 0
  <2>1. Room(w) \in SUBSET Nat
    BY DEF Room, Wellset
  <2>2. i \in Room(w)
    BY <2>1, MinIn
  <2> QED BY <2>2 DEF Room
<1>3. v = [t EXCEPT !.req = [t.req EXCEPT ![r] = [@ EXCEPT !.node = i, !.error = FALSE, !.found = FALSE]],
                    !.upset = @ \/ (\E j \in Slots : w.nodes[j].key = c.key), !.rc = "declined"]
  BY DEF Insert
<1> HIDE DEF i
<1>4. c \in Requested /\ c.key \in Keys \union {0} /\ i \in Slots \union {0}
  BY <1>1, <1>2 DEF Typed, Requested
<1>5. x \in Nodes /\ x.key = c.key /\ Vacant(x)
  <2>1. 1 \in Int /\ 1 \in Nat
    OBVIOUS
  <2> QED BY <1>4, <2>1, FreeIsNode DEF Nodes, Free, Vacant
<1>6. d \in Requested /\ d.node = i /\ d.kind = c.kind /\ d.secondary = c.secondary /\ SameAsk(c, d)
  BY <1>4 DEF Requested, SameAsk
<1>7. t.req = w.req /\ t.upset = w.upset
  BY DEF Touch
<1>8. v = [t EXCEPT !.req = [t.req EXCEPT ![r] = d], !.upset = u, !.rc = "declined"]
  <2> HIDE DEF t, v
  <2> QED BY <1>3, <1>7
<1>9. w.upset => u
  OBVIOUS
<1> HIDE DEF x, d, v
<1>10. /\ Typed(t) /\ t.pc = w.pc /\ t.req = w.req /\ t.del = w.del /\ t.sh = w.sh /\ t.disk = w.disk /\ t.todo = w.todo
       /\ SameFile(x, t.nodes[i]) /\ \A j \in Slots \ {i} : t.nodes[j] = w.nodes[j]
  <2>1. Typed(t)
    BY <1>2, <1>5, PutNodeIs
  <2>2. /\ t.pc = w.pc /\ t.req = w.req /\ t.del = w.del /\ t.sh = w.sh /\ t.disk = w.disk /\ t.todo = w.todo
        /\ SameFile(x, t.nodes[i]) /\ \A j \in Slots \ {i} : t.nodes[j] = w.nodes[j]
    BY <1>1, <1>2, <1>5, PutFiles
  <2> QED BY <2>1, <2>2
<1> HIDE DEF t, u
<1>11. /\ Elsewhere(w, v, r) /\ v.pc = w.pc /\ v.req[r] = d /\ v.nodes = t.nodes /\ v.upset = u /\ v.rc = "declined"
       /\ v.sh = w.sh
  <2>1. /\ v.pc = t.pc /\ v.req[r] = d /\ (\A s \in Requests \ {r} : v.req[s] = t.req[s]) /\ v.nodes = t.nodes
        /\ v.sh = t.sh /\ v.disk = t.disk /\ v.todo = t.todo /\ v.del = t.del /\ v.upset = u /\ v.rc = "declined"
    BY ONLY <1>8, <1>10, r \in Requests, FoundIs
  <2> QED BY <1>9, <1>10, <2>1 DEF Elsewhere, Sheet
<1>12. ASSUME ~v.upset, NEW j \in Slots
       PROVE  /\ SameFile(w.nodes[j], v.nodes[j]) \/ Fresh(w, v, r, j)
              /\ v.req[r].node = j => ~v.nodes[j].deleting
  <2>1. CASE j = i
    <3>1. Vacant(v.nodes[i]) /\ v.nodes[i].key = c.key /\ v.req[r].key = c.key
      BY <1>5, <1>6, <1>10, <1>11 DEF SameFile, Vacant, SameAsk
    <3>2. \A l \in Slots \ {i} : v.nodes[l].key # c.key
      BY <1>10, <1>11, <1>12 DEF u
    <3>3. Fresh(w, v, r, i)
      BY <1>2, <1>11, <3>1, <3>2 DEF Fresh
    <3> QED BY <2>1, <3>1, <3>3 DEF Vacant
  <2>2. CASE j # i
    BY <1>6, <1>10, <1>11, <2>2 DEF SameFile
  <2> QED BY <2>1, <2>2
<1>13. Finds(w, v, r) /\ SameAsk(w.req[r], v.req[r])
  BY <1>6, <1>11, <1>12 DEF Finds, c
<1> QED BY <1>11, <1>13 DEF v

\* A request finds a node, takes a new one or finds the zone full.
LEMMA ExistsFinds ==
  ASSUME Wellset, NEW w, Sound(w), NEW r \in Requests, NEW i \in Slots \union {0}, w.req[r].node \in {0, i},
         i # 0 => w.nodes[i].key = w.req[r].key
  PROVE  LET v == Exists(w, r, i) IN
         /\ Finds(w, v, r) /\ SameAsk(w.req[r], v.req[r]) /\ v.sh.cold = w.sh.cold
<1> DEFINE v == Exists(w, r, i)
<1>1. CASE i # 0
  <2>1. v = Take(w, r, i) /\ i \in Slots
    BY <1>1 DEF Exists
  <2> HIDE DEF v
  <2>2. Finds(w, v, r) /\ SameAsk(w.req[r], v.req[r]) /\ v.sh = w.sh
    BY <1>1, <2>1, TakeFinds
  <2> QED BY <2>2 DEF v
<1>2. CASE i = 0 /\ Room(w) # {}
  <2>1. v = Insert(w, r)
    BY <1>2 DEF Exists
  <2> HIDE DEF v
  <2>2. Finds(w, v, r) /\ SameAsk(w.req[r], v.req[r]) /\ v.sh = w.sh
    BY <1>2, <2>1, InsertFinds
  <2> QED BY <2>2 DEF v
<1>3. CASE i = 0 /\ Room(w) = {}
  <2>1. v = FullZone(w)
    BY <1>3 DEF Exists
  <2> HIDE DEF v
  <2>2. Talks(w, v, r) /\ v.pc = w.pc /\ v.req = w.req
    BY <2>1, FullTalks DEF Sound
  <2>3. w.req[r].node = 0
    BY <1>3
  <2>4. Finds(w, v, r)
    BY <2>2, <2>3 DEF Finds, Talks, SameFile, Wellset
  <2>5. SameAsk(w.req[r], v.req[r]) /\ v.sh.cold = w.sh.cold
    BY <2>2 DEF SameAsk, Talks, Elsewhere
  <2> QED BY <2>4, <2>5 DEF v
<1> QED BY <1>1, <1>2, <1>3

\* A request that found a node, and what it does then.
LEMMA FindsBooks ==
  ASSUME Wellset, NEW w, NEW u, NEW v, NEW r \in Requests, Typed(w), Books(w), Finds(w, u, r), Talks(u, v, r),
         w.pc[r] \notin Keepers, v.req[r].key \in Keys, ~v.upset => Fits(v.req[r], v.pc[r]),
         u.rc = "declined" /\ w.sh.cold =>
           v.pc[r] = "open" \/ (w.req[r].secondary /\ v.req[r].key = w.req[r].kind.key)
  PROVE  Books(v)
<1>1. Elsewhere(w, v, r)
  BY DEF Finds, Talks, Elsewhere
<1>2. ASSUME ~v.upset
      PROVE  (\A i \in Slots : Stays(w, v, i)) /\ Ready(w, v, r)
  <2>1. ~u.upset /\ ~w.upset
    BY <1>2 DEF Talks, Finds, Elsewhere
  <2>2. Booked(w) /\ Blank(w) /\ Gone(w) /\ Filed(w) /\ Asks(w, r)
    BY <2>1 DEF Books, Booked
  <2>3. v.nodes = u.nodes /\ v.req[r].node = u.req[r].node /\ v.req[r].key = u.req[r].key
        /\ v.req[r].kind = w.req[r].kind /\ v.req[r].secondary = w.req[r].secondary
    BY DEF Talks, Finds
  <2>4. \A i \in Slots : /\ SameFile(w.nodes[i], v.nodes[i]) \/ Fresh(w, u, r, i)
                         /\ v.req[r].node = i => ~v.nodes[i].deleting \/ (w.req[r].node = i /\ w.nodes[i].deleting)
    BY <2>1, <2>2, <2>3 DEF Finds
  <2>5. \A i \in Slots : v.req[r].node = i => ~v.nodes[i].deleting
    BY <2>2, <2>4 DEF Gone
  <2>6. ASSUME NEW k, Kept(w, k)
        PROVE  Kept(v, k)
    <3> SUFFICES ASSUME v.disk[k] # NoFile
                 PROVE  Known(v, k)
      BY DEF Kept
    <3>1. Known(w, k)
      BY <1>1, <2>6 DEF Kept, Elsewhere
    <3>2. ASSUME NEW i \in Slots, w.nodes[i].key = k, w.nodes[i].exists
          PROVE  Known(v, k)
      <4>1. SameFile(w.nodes[i], v.nodes[i])
        BY <2>2, <2>4, <3>2 DEF Fresh, Blank
      <4> QED BY <3>2, <4>1 DEF Known, SameFile
    <3>3. ASSUME NEW s \in Requests, w.pc[s] \in Keepers, w.req[s].key = k
          PROVE  Known(v, k)
      <4>1. s # r
        BY <3>3
      <4>2. v.pc[s] = w.pc[s] /\ v.req[s] = w.req[s]
        BY <1>1, <4>1 DEF Elsewhere
      <4> QED BY <3>3, <4>2 DEF Known
    <3> QED BY <3>1, <3>2, <3>3 DEF Known
  <2>7. u.rc = "declined" => Kept(v, v.req[r].key)
    <3>1. CASE w.sh.cold
      <4>1. CASE u.rc = "declined" /\ v.pc[r] = "open"
        BY <4>1 DEF Kept, Known, Keepers
      <4>2. CASE w.req[r].secondary /\ v.req[r].key = w.req[r].kind.key
        BY <2>2, <2>6, <4>2 DEF Asks
      <4> QED BY <3>1, <4>1, <4>2
    <3>2. CASE ~w.sh.cold
      <4>1. Kept(w, v.req[r].key)
        BY <2>2, <3>2 DEF Filed, Unseen
      <4> QED BY <2>6, <4>1
    <3> QED BY <3>1, <3>2
  <2>8. \A i \in Slots : Stays(w, v, i)
    <3> SUFFICES ASSUME NEW i \in Slots, Fresh(w, u, r, i)
                 PROVE  Stays(w, v, i)
      BY <2>4 DEF Stays
    <3>1. ~w.nodes[i].exists
      BY <2>2 DEF Fresh, Blank
    <3> QED BY <2>3, <2>7, <3>1 DEF Fresh, Stays
  <2>9. Ready(w, v, r)
    BY <1>2, <2>3, <2>5 DEF Ready
  <2> QED BY <2>8, <2>9
<1> QED BY <1>1, <1>2, BooksStay

\* What a request does with the answer to its lookup.
LEMMA OpenedTalks ==
  ASSUME Wellset, NEW w, Sound(w), NEW r \in Requests, w.rc \in {"full", "declined", "ok", "scarce"}
  PROVE  LET v == Opened(w, r) IN
         /\ Talks(w, v, r) /\ v.pc[r] \in {"evict", "fetch", "send", "open", "lock"}
         /\ v.pc[r] # "send" => v.req[r].status = w.req[r].status
         /\ w.rc = "declined" /\ w.sh.cold => v.pc[r] = "open"
<1> DEFINE v == Opened(w, r)
           c == w.req[r]
<1>0. Typed(w)
  BY DEF Sound
<1>1. CASE w.rc = "full"
  <2>1. v = Goto(w, r, "evict")
    BY <1>1 DEF Opened
  <2> QED BY <1>0, <1>1, <2>1, GotoTalks
<1>2. CASE w.rc = "scarce"
  <2>1. v = Ask(w, r, FALSE)
    BY <1>2 DEF Opened
  <2>2. FALSE \in BOOLEAN
    OBVIOUS
  <2> HIDE DEF v
  <2>3. Talks(w, v, r) /\ v.pc[r] = "fetch" /\ v.req[r].status = w.req[r].status
    BY ONLY <2>1, <2>2, Wellset, Sound(w), r \in Requests, AskTalks
  <2> QED BY <1>2, <2>3 DEF v
<1>3. CASE w.rc = "ok" /\ c.error
  <2>1. v = Serve(w, r, "hit")
    BY <1>3 DEF Opened
  <2> QED BY <1>3, <2>1, ServeTalks
<1>4. CASE w.rc = "ok" /\ ~c.error
  <2>1. v = Goto(w, r, IF c.found THEN "open" ELSE "lock")
    BY <1>4 DEF Opened
  <2>2. CASE c.found
    <3>1. v = Goto(w, r, "open")
      BY <2>1, <2>2
    <3> QED BY <1>0, <1>4, <3>1, GotoTalks
  <2>3. CASE ~c.found
    <3>1. v = Goto(w, r, "lock")
      BY <2>1, <2>3
    <3> QED BY <1>0, <1>4, <3>1, GotoTalks
  <2> QED BY <2>2, <2>3
<1>5. CASE w.rc = "declined" /\ w.sh.cold
  <2>1. v = Goto(w, r, "open")
    BY <1>5 DEF Opened
  <2> QED BY <1>0, <1>5, <2>1, GotoTalks
<1>6. CASE w.rc = "declined" /\ ~w.sh.cold /\ setup.minUses > 1
  <2>1. v = Ask(w, r, FALSE)
    BY <1>6 DEF Opened
  <2>2. FALSE \in BOOLEAN
    OBVIOUS
  <2> HIDE DEF v
  <2>3. Talks(w, v, r) /\ v.pc[r] = "fetch" /\ v.req[r].status = w.req[r].status
    BY ONLY <2>1, <2>2, Wellset, Sound(w), r \in Requests, AskTalks
  <2> QED BY <1>6, <2>3 DEF v
<1>7. CASE w.rc = "declined" /\ ~w.sh.cold /\ ~(setup.minUses > 1)
  <2>1. v = Goto(w, r, "lock")
    BY <1>7 DEF Opened
  <2> QED BY <1>0, <1>7, <2>1, GotoTalks
<1> QED BY <1>1, <1>2, <1>3, <1>4, <1>5, <1>6, <1>7

-----------------------------------------------------------------------------
(* The books through each step.                                              *)
\* A request that looked for a node goes on.
LEMMA LookedUp ==
  ASSUME Wellset, NEW w, Sound(w), Books(w), NEW r \in Requests, w.pc[r] \in {"exists", "retry"},
         NEW u, Sound(u), Finds(w, u, r), SameAsk(w.req[r], u.req[r]), u.sh.cold = w.sh.cold,
         u.rc \in {"full", "declined", "ok", "scarce"}
  PROVE  Books(Opened(u, r))
<1> DEFINE v == Opened(u, r)
<1>1. /\ Talks(u, v, r) /\ v.pc[r] \in {"evict", "fetch", "send", "open", "lock"}
      /\ v.pc[r] # "send" => v.req[r].status = u.req[r].status
      /\ u.rc = "declined" /\ u.sh.cold => v.pc[r] = "open"
  BY OpenedTalks
<1> HIDE DEF v
<1>2. v.req[r].key = u.req[r].key /\ v.req[r].kind = w.req[r].kind /\ v.req[r].secondary = w.req[r].secondary
  BY <1>1 DEF Talks, Finds
<1>3. v.req[r].key \in Keys
  BY <1>2 DEF Sound, Typed, Requested
<1>4. ASSUME ~v.upset
      PROVE  Fits(v.req[r], v.pc[r])
  <2>1. ~w.upset
    BY <1>1, <1>4 DEF Talks, Finds, Elsewhere
  <2>2. Fits(w.req[r], w.pc[r])
    BY <2>1 DEF Books, Booked, Asks
  <2>3. w.req[r].status = "miss" /\ (~w.req[r].secondary => w.req[r].key = w.req[r].kind.key)
    BY <2>2 DEF Fits, Asking
  <2>4. w.req[r].key = u.req[r].key /\ w.req[r].status = u.req[r].status
    BY DEF SameAsk
  <2> QED BY <1>1, <1>2, <2>3, <2>4 DEF Fits, Asking
<1>5. w.pc[r] \notin Keepers /\ Typed(w)
  BY DEF Keepers, Sound
<1>6. u.rc = "declined" /\ w.sh.cold => v.pc[r] = "open"
  BY <1>1
<1>7. Wellset /\ r \in Requests /\ Books(w) /\ Finds(w, u, r) /\ Talks(u, v, r)
  BY <1>1
<1> QED BY ONLY <1>3, <1>4, <1>5, <1>6, <1>7, FindsBooks DEF v

\* A lookup keeps the books.
LEMMA OpenBooks ==
  ASSUME IInv, Books(World), NEW r \in Requests, Open(r)
  PROVE  Books(World)'
<1>1. Wellset /\ Sound(World) /\ AllPlaced(World)
  BY NowWellset
<1>2. World.pc[r] = "exists"
  BY WorldIs DEF Open, MayOpen
<1>3. PICK i \in IF req[r].node # 0 THEN {req[r].node} ELSE Lookup(World, req[r].key) :
        Become(Opened(Exists(World, r, i), r))
  BY Zenon DEF Open
<1> DEFINE u == Exists(World, r, i)
           v == Opened(u, r)
<1>4. /\ World.req[r].node \in {0, i} /\ i \in Slots \union {0}
      /\ i # 0 => World.nodes[i].key = World.req[r].key
  <2>1. CASE req[r].node # 0
    BY <1>1, <1>3, <2>1, WorldIs, NodePlace DEF Sound, Named
  <2>2. CASE req[r].node = 0
    BY <1>3, <2>2, WorldIs DEF Lookup
  <2> QED BY <2>1, <2>2
<1>5. ~World.req[r].updating
  BY <1>1, <1>2, WorldIs DEF AllPlaced, Rests, Asking
<1>6. Sound(u) /\ u.rc \in {"full", "declined", "ok", "scarce"}
  BY ONLY <1>1, <1>4, <1>5, r \in Requests, ExistsIs
<1>7. Finds(World, u, r) /\ SameAsk(World.req[r], u.req[r]) /\ u.sh.cold = World.sh.cold
  BY ONLY <1>1, <1>4, r \in Requests, ExistsFinds
<1>8. Become(v)
  BY <1>3
<1> HIDE DEF u
<1>9. Books(v)
  BY ONLY <1>1, <1>2, <1>6, <1>7, Books(World), r \in Requests, LookedUp
<1> HIDE DEF v
<1> QED BY ONLY IInv, <1>8, <1>9, BooksBecome

\* A request that has given the cache up.
LEMMA DoneTalks ==
  ASSUME Wellset, NEW w, Sound(w), NEW r \in Requests, NEW d \in Requested, d.kind = w.req[r].kind, d.node = w.req[r].node, 
         d.node = 0, ~d.secondary, d.key = d.kind.key, Books(w), w.pc[r] \notin Keepers
  PROVE  Books(Goto([w EXCEPT !.req[r] = d], r, "done"))
<1> DEFINE q == [w.req EXCEPT ![r] = d]
           u == [w EXCEPT !.req = q]
           v == Goto(u, r, "done")
<1>1. Typed(w)
  BY DEF Sound
<1>2. q \in [Requests -> Requested] /\ q[r] = d /\ \A s \in Requests \ {r} : q[s] = w.req[s]
  BY <1>1 DEF Typed
<1> HIDE DEF q
<1>3. /\ Typed(u) /\ u.pc = w.pc /\ u.req = q /\ u.del = w.del /\ u.nodes = w.nodes /\ u.sh = w.sh
      /\ u.disk = w.disk /\ u.todo = w.todo /\ u.upset = w.upset
  <2>1. u = [w EXCEPT !.req = q]
    OBVIOUS
  <2> HIDE DEF u
  <2>2. /\ u.pc = w.pc /\ u.req = q /\ u.del = w.del /\ u.nodes = w.nodes /\ u.sh = w.sh
        /\ u.disk = w.disk /\ u.todo = w.todo /\ u.upset = w.upset
    BY <1>1, <2>1 DEF Typed
  <2>3. Typed(u)
    BY <1>1, <1>2, <2>1 DEF Typed
  <2> QED BY <2>2, <2>3
<1> HIDE DEF u
<1>4. Talks(u, v, r) /\ v.pc[r] = "done" /\ v.req = u.req /\ v.upset = u.upset /\ v.sh = u.sh
  BY <1>3, GotoTalks
<1> HIDE DEF v
<1>5. Elsewhere(w, v, r) /\ v.req[r] = d /\ v.nodes = w.nodes
  BY <1>2, <1>3, <1>4 DEF Talks, Elsewhere, Sheet
<1>6. \A i \in Slots : Stays(w, v, i)
  BY <1>5 DEF Stays, SameFile
<1>7. Ready(w, v, r)
  <2>1. \A i \in Slots : i # 0
    BY DEF Wellset
  <2>2. Fits(v.req[r], v.pc[r])
    BY <1>4, <1>5 DEF Fits, Asking
  <2> QED BY <1>5, <2>1, <2>2 DEF Ready
<1>8. Books(v)
  BY ONLY <1>1, <1>5, <1>6, <1>7, Wellset, Books(w), BooksStay
<1> QED BY <1>8 DEF v, u, q

\* The second try to find room keeps the books.
LEMMA RetryBooks ==
  ASSUME IInv, Books(World), NEW r \in Requests, Retry(r)
  PROVE  Books(World)'
<1>1. Wellset /\ Sound(World) /\ AllPlaced(World)
  BY NowWellset
<1>2. World.pc[r] = "retry" /\ World.del[r].node = 0
  BY WorldIs DEF Retry
<1>3. World.req[r].node = 0 /\ ~World.req[r].updating /\ ~World.req[r].updated
  BY <1>1, <1>2 DEF AllPlaced, Rests, Asking
<1>4. CASE Room(World) = {}
  <2> DEFINE d == Past(r)
             v == Goto([World EXCEPT !.req[r] = d], r, "done")
  <2>1. Become(v)
    BY <1>4 DEF Retry
  <2>2. d \in Requested /\ d.node = 0
    BY <1>1, PastIs
  <2>3. d.kind = World.req[r].kind /\ ~d.secondary /\ d.key = d.kind.key
    BY WorldIs DEF Past, New
  <2>4. World.pc[r] \notin Keepers
    BY <1>2 DEF Keepers
  <2> HIDE DEF d
  <2>5. Books(v)
    BY <1>1, <1>3, <2>2, <2>3, <2>4, DoneTalks
  <2> HIDE DEF v
  <2> QED BY ONLY IInv, <2>1, <2>5, BooksBecome
<1>5. CASE Room(World) # {}
  <2> DEFINE u == Insert(World, r)
             v == Opened(u, r)
  <2>1. Become(v)
    BY <1>5 DEF Retry
  <2>2. Sound(u) /\ u.rc = "declined"
    BY ONLY <1>1, <1>3, <1>5, r \in Requests, InsertIs
  <2>3. Finds(World, u, r) /\ SameAsk(World.req[r], u.req[r]) /\ u.sh = World.sh
    BY ONLY <1>1, <1>5, r \in Requests, InsertFinds
  <2> HIDE DEF u
  <2>4. Books(v)
    <3>1. u.sh.cold = World.sh.cold /\ World.pc[r] \in {"exists", "retry"} /\ u.rc \in {"full", "declined", "ok", "scarce"}
      BY <1>2, <2>2, <2>3
    <3> QED BY ONLY <1>1, <2>2, <2>3, <3>1, Books(World), r \in Requests, LookedUp
  <2> HIDE DEF v
  <2> QED BY ONLY IInv, <2>1, <2>4, BooksBecome
<1> QED BY <1>4, <1>5

-----------------------------------------------------------------------------
(* The books when a node is left, and when its file is deleted.              *)
\* A step of no request that at most frees nodes without a file.
LEMMA IdlyBooks ==
  ASSUME Wellset, NEW w, NEW v, Sound(w), Books(w), v.pc = w.pc, v.req = w.req, Idly(w, v)
  PROVE  Books(v)
<1>1. Elsewhere(w, v, 0) /\ 0 \notin Requests
  BY DEF Idly, SameBooks, Elsewhere, Sheet, Wellset
<1>2. \A i \in Slots : Stays(w, v, i)
  BY DEF Idly, Emptied, Stays, Vacant, Free
<1>3. Typed(w)
  BY DEF Sound
<1> QED BY ONLY <1>1, <1>2, <1>3, Wellset, Books(w), BooksStay

\* The size goes down when a file is to be deleted, and the node stays the one that knows it.
LEMMA GivesUpBooks ==
  ASSUME Wellset, NEW w, Sound(w), Books(w), NEW p \in Processes, w.del[p].node = 0, NEW i \in Slots,
         NEW v, Typed(v), Aside(w, v, p), GivesUp(w, v, p, i)
  PROVE  Books(v)
<1>1. Typed(w) /\ Counted(w) /\ Named(w)
  BY DEF Sound
<1>2. /\ \A r \in Requests : w.req[r].node # i
      /\ \A q \in Processes : w.del[q].node # i
  BY <1>1, NoneHold DEF GivesUp
<1>3. Sheet(w) /\ (w.upset => v.upset)
  BY DEF Books, GivesUp
<1>4. Sheet(v) /\ v.sh.cold = w.sh.cold /\ v.sh.loading = w.sh.loading /\ v.sh.size = w.sh.size - w.nodes[i].fs
  <2>1. v.sh = [w.sh EXCEPT !.size = @ - w.nodes[i].fs]
    BY DEF GivesUp
  <2> QED BY <1>3, <2>1 DEF Sheet
<1> SUFFICES ASSUME ~v.upset
             PROVE  Booked(v)
  BY <1>4 DEF Books
<1>5. Single(w) /\ Blank(w) /\ Gone(w) /\ Sized(w) /\ Filed(w) /\ \A r \in Requests : Asks(w, r)
  BY <1>3 DEF Books, Booked
<1>6. /\ \A j \in Slots : v.nodes[j].key = w.nodes[j].key /\ v.nodes[j].exists = w.nodes[j].exists /\ v.nodes[j].fs = w.nodes[j].fs
      /\ \A j \in Slots \ {i} : v.nodes[j].deleting = w.nodes[j].deleting
  <2>1. w.nodes[i].exists \in BOOLEAN /\ v.nodes[i].exists \in BOOLEAN
    BY <1>1 DEF Typed, Nodes
  <2> QED BY <2>1 DEF GivesUp, SameFile
<1>7. v.disk = w.disk /\ v.todo = w.todo /\ v.pc = w.pc /\ v.req = w.req /\ v.nodes[i].deleting
  BY DEF GivesUp, Aside
<1>8. \A k : (Kept(w, k) => Kept(v, k)) /\ (Unseen(w, k) => Unseen(v, k))
  BY <1>4, <1>6, <1>7 DEF Kept, Known, Unseen
<1>9. Single(v) /\ Filed(v) /\ \A r \in Requests : Asks(v, r)
  BY <1>5, <1>6, <1>7, <1>8 DEF Single, Filed, Asks
<1>10. Blank(v)
  <2>1. ASSUME NEW j \in Slots, ~v.nodes[j].exists
        PROVE  Vacant(v.nodes[j])
    <3>1. j # i
      BY <2>1 DEF GivesUp
    <3> QED BY <1>5, <1>6, <2>1, <3>1 DEF Blank, Vacant
  <2> QED BY <1>5, <1>6, <2>1 DEF Blank
<1>11. ~w.nodes[i].deleting
  BY <1>2, <1>5 DEF Gone
<1>12. Sized(v)
  <2> DEFINE f == Sizes(w)
             g == Sizes(v)
             n == setup.slots
  <2>1. n \in Nat /\ i \in 1 .. n /\ Slots = 1 .. n
    BY DEF Wellset, Slots
  <2>2. \A j \in Slots : w.nodes[j].fs \in Int /\ v.nodes[j].fs \in Int
    <3>1. Typed(v)
      OBVIOUS
    <3>2. \A j \in Slots : w.nodes[j] \in Nodes /\ v.nodes[j] \in Nodes
      BY <1>1, <3>1 DEF Typed
    <3>3. \A x \in Nodes : x.fs \in Int
      BY DEF Nodes
    <3> QED BY <3>2, <3>3
  <2>3. f \in [1 .. n -> Int] /\ g \in [1 .. n -> Int]
    BY <2>1, <2>2 DEF Sizes, Worth
  <2>4. f[i] = w.nodes[i].fs /\ g[i] = 0
    BY <1>7, <1>11 DEF Sizes, Worth, GivesUp
  <2>5. \A j \in 1 .. n : j # i => g[j] = f[j]
    BY <1>6, <2>1 DEF Sizes, Worth
  <2>6. w.sh.size = Sum(f, n) /\ w.nodes[i].fs \in Int
    BY <1>5, <2>2 DEF Sized
  <2> HIDE DEF f, g, n
  <2>7. Sum(g, n) = Sum(f, n) - f[i] + g[i]
    BY ONLY <2>1, <2>3, <2>5, SumChanges
  <2>8. Sum(f, n) \in Int
    BY ONLY <2>1, <2>3, SumTyped
  <2>9. v.sh.size = Sum(g, n)
    BY <1>4, <2>4, <2>6, <2>7, <2>8
  <2> QED BY <2>9 DEF Sized, g, n
<1>13. Gone(v)
  <2>1. v.del[p] = [node |-> i, gone |-> FALSE] /\ \A q \in Processes \ {p} : v.del[q] = w.del[q]
    BY DEF GivesUp, Aside
  <2>2. ASSUME NEW j \in Slots, v.nodes[j].deleting
        PROVE  (\A r \in Requests : v.req[r].node # j) /\ \E q \in Processes : v.del[q].node = j
    <3>1. CASE j = i
      BY <1>2, <1>7, <2>1, <3>1
    <3>2. CASE j # i
      <4>1. w.nodes[j].deleting /\ j # 0
        BY <1>6, <2>2, <3>2 DEF Wellset
      <4>2. PICK q \in Processes : w.del[q].node = j
        BY <1>5, <4>1 DEF Gone
      <4>3. q # p
        BY <4>1, <4>2
      <4> QED BY <1>5, <1>7, <2>1, <4>1, <4>2, <4>3 DEF Gone
    <3> QED BY <3>1, <3>2
  <2>3. ASSUME NEW q \in Processes, v.del[q].node # 0
        PROVE  /\ v.nodes[v.del[q].node].deleting
               /\ v.del[q].gone => v.disk[v.nodes[v.del[q].node].key] = NoFile
               /\ \A s \in Processes : v.del[s].node = v.del[q].node => q = s
    <3>1. CASE q = p
      BY <1>2, <1>7, <2>1, <3>1
    <3>2. CASE q # p
      <4> DEFINE j == w.del[q].node
      <4>1. v.del[q] = w.del[q] /\ j # 0 /\ j \in Slots /\ j # i
        BY <1>1, <1>2, <2>1, <2>3, <3>2, NodePlace
      <4>2. /\ w.nodes[j].deleting
            /\ w.del[q].gone => w.disk[w.nodes[j].key] = NoFile
            /\ \A s \in Processes : w.del[s].node = j => q = s
        BY <1>5, <4>1 DEF Gone
      <4> HIDE DEF j
      <4>3. \A s \in Processes : v.del[s].node = j => q = s
        BY <2>1, <4>1, <4>2
      <4> QED BY <1>6, <1>7, <4>1, <4>2, <4>3 DEF j
    <3> QED BY <3>1, <3>2
  <2> QED BY <2>2, <2>3 DEF Gone
<1> QED BY <1>9, <1>10, <1>12, <1>13 DEF Booked

\* A request that leaves its node, and may free it, keeps the books.
LEMMA FreeCacheBooks ==
  ASSUME Wellset, NEW w, Sound(w), Books(w), NEW r \in Requests, w.req[r].updated => w.req[r].node = 0
  PROVE  Books(FreeCache(w, r))
<1> DEFINE v == FreeCache(w, r)
<1>1. /\ v.pc = w.pc /\ Frame(w, v, r) /\ v.req[r].node = 0
      /\ SameBooks(w, v) /\ SameAsk(w.req[r], v.req[r]) /\ \A j \in Slots : Emptied(w.nodes[j], v.nodes[j])
      /\ v.req[r].kind = w.req[r].kind /\ v.req[r].secondary = w.req[r].secondary
  BY FreeCacheIs
<1> HIDE DEF v
<1>2. Elsewhere(w, v, r)
  BY <1>1 DEF Frame, SameBooks, Elsewhere, Sheet
<1>3. \A i \in Slots : Stays(w, v, i)
  BY <1>1 DEF Emptied, Stays, Vacant, Free
<1>4. ASSUME ~v.upset
      PROVE  Ready(w, v, r)
  <2>1. Asks(w, r)
    BY <1>1, <1>4 DEF Books, Booked, SameBooks
  <2>2. w.pc[r] \in Keepers => Kept(v, w.req[r].key)
    BY <1>1 DEF Kept, Known, SameAsk
  <2>3. \A i \in Slots : i # 0
    BY DEF Wellset
  <2> QED BY <1>1, <2>1, <2>2, <2>3 DEF Ready, Asks, Fits, SameAsk
<1>5. Typed(w)
  BY DEF Sound
<1>6. Books(v)
  BY ONLY <1>2, <1>3, <1>4, <1>5, Wellset, Books(w), BooksStay
<1> QED BY <1>6 DEF v

\* A request that is served and has no file in its hands that only it knows.
LEMMA ServeBooks ==
  ASSUME Wellset, NEW w, Sound(w), Books(w), NEW r \in Requests, w.pc[r] # "dead",
         NEW st \in {"miss", "hit", "updating", "stale", "expired", "revalidated"},
         w.pc[r] \in Keepers /\ ~w.upset => \E i \in Slots : w.nodes[i].key = w.req[r].key /\ w.nodes[i].exists
  PROVE  Books(Serve(w, r, st))
<1> DEFINE v == Serve(w, r, st)
<1>1. Talks(w, v, r) /\ v.pc[r] = "send" /\ v.upset = w.upset
  BY ServeTalks
<1> HIDE DEF v
<1>2. ASSUME ~v.upset
      PROVE  Fits(v.req[r], v.pc[r]) /\ (w.pc[r] \in Keepers => Kept(v, w.req[r].key))
  <2>1. Fits(w.req[r], w.pc[r])
    BY <1>1, <1>2 DEF Books, Booked, Asks
  <2>2. v.req[r].kind = w.req[r].kind /\ v.req[r].key = w.req[r].key /\ v.req[r].secondary = w.req[r].secondary /\ v.nodes = w.nodes
    BY <1>1 DEF Talks
  <2> QED BY <1>1, <1>2, <2>1, <2>2 DEF Fits, Asking, Kept, Known
<1>3. Typed(w)
  BY DEF Sound
<1>4. Books(v)
  BY ONLY <1>1, <1>2, <1>3, Wellset, Books(w), r \in Requests, TalkBooks
<1> QED BY <1>4 DEF v

\* A request that leaves its node and is served.
LEMMA ServedBooks ==
  ASSUME Wellset, NEW w, Sound(w), Books(w), NEW r \in Requests, w.pc[r] \notin Keepers \union {"dead"},
         w.req[r].updated => w.req[r].node = 0,
         NEW st \in {"miss", "hit", "updating", "stale", "expired", "revalidated"}
  PROVE  Books(Serve(FreeCache(w, r), r, st))
<1> DEFINE u == FreeCache(w, r)
<1>1. Sound(u) /\ u.pc = w.pc
  BY FreeCacheIs
<1>2. Books(u)
  BY FreeCacheBooks
<1> HIDE DEF u
<1>3. u.pc[r] # "dead" /\ u.pc[r] \notin Keepers
  BY <1>1
<1>4. Books(Serve(u, r, st))
  BY <1>1, <1>2, <1>3, ServeBooks
<1> QED BY <1>4 DEF u

\* A full zone: a node is deleted to make room.
LEMMA MakeRoomBooks ==
  ASSUME IInv, Books(World), NEW r \in Requests, MakeRoom(r)
  PROVE  Books(World)'
<1>1. Wellset /\ Sound(World) /\ AllPlaced(World)
  BY NowWellset
<1> DEFINE u == ForcedExpire(World, r)
           v == Goto(u, r, "retry")
<1>2. World.pc[r] = "evict" /\ Become(v)
  BY WorldIs DEF MakeRoom
<1>3. World.del[r].node = 0 /\ r \in Processes
  BY <1>1, <1>2 DEF AllPlaced, Rests, Processes
<1>4. Sound(u) /\ Aside(World, u, r) /\ (Idly(World, u) \/ \E i \in Slots : GivesUp(World, u, r, i))
  BY ONLY <1>1, <1>3, ForcedExpireIs
<1> HIDE DEF u
<1>5. Books(u)
  <2>1. CASE Idly(World, u)
    BY <1>1, <1>4, <2>1, IdlyBooks DEF Aside
  <2>2. CASE \E i \in Slots : GivesUp(World, u, r, i)
    <3>1. Typed(u)
      BY <1>4 DEF Sound
    <3> QED BY <1>1, <1>3, <1>4, <2>2, <3>1, GivesUpBooks
  <2> QED BY <1>4, <2>1, <2>2
<1>6. Typed(u) /\ u.pc[r] = "evict"
  BY <1>2, <1>4 DEF Sound, Aside
<1>7. Talks(u, v, r) /\ v.pc[r] = "retry" /\ v.req = u.req /\ v.upset = u.upset
  BY ONLY <1>6, r \in Requests, GotoTalks
<1> HIDE DEF v
<1>8. ASSUME ~v.upset
      PROVE  Fits(v.req[r], v.pc[r]) /\ (u.pc[r] \in Keepers => Kept(v, u.req[r].key))
  <2>1. Fits(u.req[r], u.pc[r])
    BY <1>5, <1>7, <1>8 DEF Books, Booked, Asks
  <2> QED BY <1>6, <1>7, <2>1 DEF Fits, Asking, Keepers
<1>9. Books(v)
  BY ONLY <1>1, <1>5, <1>6, <1>7, <1>8, r \in Requests, TalkBooks
<1> QED BY ONLY IInv, <1>2, <1>9, BooksBecome

-----------------------------------------------------------------------------
(* The books when a file is read.                                            *)
\* Noting that a file may be left that no node knows.
LEMMA UpsetTalks ==
  ASSUME NEW w, NEW u, NEW r \in Requests, Typed(u), Talks(w, u, r), NEW b
  PROVE  LET v == [u EXCEPT !.upset = @ \/ b] IN
         Talks(w, v, r) /\ v.pc = u.pc /\ v.req = u.req /\ v.upset = (u.upset \/ b)
<1> DEFINE e == u.upset \/ b
           v == [u EXCEPT !.upset = e]
<1>1. v = [u EXCEPT !.upset = e] /\ (u.upset => e)
  OBVIOUS
<1> HIDE DEF e, v
<1>2. /\ v.pc = u.pc /\ v.req = u.req /\ v.nodes = u.nodes /\ v.sh = u.sh /\ v.disk = u.disk /\ v.todo = u.todo
      /\ v.del = u.del /\ v.upset = e
  BY <1>1 DEF Typed
<1>3. Talks(w, v, r)
  BY <1>1, <1>2 DEF Talks, Elsewhere, Sheet
<1> QED BY <1>2, <1>3 DEF v, e

\* The file is gone, kept by the node, or in the hands of the request.
LEMMA ReadBooks ==
  ASSUME IInv, Books(World), NEW r \in Requests, Read(r)
  PROVE  Books(World)'
<1> DEFINE c == req[r]
           f == disk[c.key]
           w == World
<1>1. Wellset /\ Sound(w) /\ AllPlaced(w) /\ Typed(w) /\ Named(w)
  BY NowWellset DEF Sound
<1>2. pc[r] = "open" /\ w.pc[r] = "open" /\ w.req[r] = c
  BY WorldIs DEF Read
<1>3. c.node \in Slots /\ w.nodes[c.node].key = c.key
  BY <1>1, <1>2, NodePlace DEF AllPlaced, Rests, Using, Named
<1>4. ~w.upset => c.status = "miss" /\ (~c.secondary => c.key = c.kind.key) /\ (c.secondary => Kept(w, c.kind.key))
  BY <1>2 DEF Books, Booked, Asks, Fits, Asking
<1>5. ASSUME NEW STATE v, Become(v), Talks(w, v, r), v.pc[r] \in {"lock", "fetch"}, v.req[r].status = c.status,
             ~v.upset => Kept(v, c.key)
      PROVE  Books(World)'
  <2>1. ASSUME ~v.upset
        PROVE  Fits(v.req[r], v.pc[r]) /\ (w.pc[r] \in Keepers => Kept(v, w.req[r].key))
    <3>1. ~w.upset
      BY <1>5, <2>1 DEF Talks, Elsewhere
    <3> QED BY <1>2, <1>4, <1>5, <2>1, <3>1 DEF Fits, Talks
  <2>2. Books(v)
    BY ONLY <1>1, <1>5, <2>1, Books(World), r \in Requests, TalkBooks
  <2> QED BY ONLY IInv, <1>5, <2>2, BooksBecome
<1>6. CASE f = NoFile /\ (c.found \/ setup.minUses = 1)
  <2> DEFINE v == Goto(w, r, "lock")
  <2>1. Become(v)
    BY <1>6 DEF Read
  <2>2. Talks(w, v, r) /\ v.pc[r] = "lock" /\ v.req = w.req
    BY <1>1, GotoTalks
  <2> HIDE DEF v
  <2>3. Kept(v, c.key)
    BY <1>6, <2>2, WorldIs DEF Kept, Talks, Elsewhere
  <2> QED BY <1>2, <1>5, <2>1, <2>2, <2>3
<1>7. CASE f = NoFile /\ ~(c.found \/ setup.minUses = 1)
  <2> DEFINE v == Ask(w, r, FALSE)
  <2>1. Become(v)
    BY <1>7 DEF Read
  <2>2. Talks(w, v, r) /\ v.pc[r] = "fetch" /\ v.req[r].status = c.status
    <3>1. FALSE \in BOOLEAN
      OBVIOUS
    <3>2. Talks(w, v, r) /\ v.pc[r] = "fetch" /\ v.req[r].status = w.req[r].status
      BY ONLY <1>1, <3>1, r \in Requests, AskTalks
    <3> HIDE DEF v
    <3> QED BY <1>2, <3>2
  <2> HIDE DEF v
  <2>3. Kept(v, c.key)
    BY <1>7, <2>2, WorldIs DEF Kept, Talks, Elsewhere
  <2> QED BY <1>5, <2>1, <2>2, <2>3
<1> DEFINE b == ~w.nodes[c.node].exists
           t == [Ask(w, r, TRUE) EXCEPT !.upset = @ \/ b]
<1>8. ASSUME Become(t)
      PROVE  Books(World)'
  <2> DEFINE u == Ask(w, r, TRUE)
             v == [u EXCEPT !.upset = @ \/ b]
  <2>1. Become(v)
    BY <1>8
  <2>2. TRUE \in BOOLEAN
    OBVIOUS
  <2>3. Talks(w, u, r) /\ u.pc[r] = "fetch" /\ u.req[r].status = c.status
    <3>1. Talks(w, u, r) /\ u.pc[r] = "fetch" /\ u.req[r].status = w.req[r].status
      BY ONLY <1>1, <2>2, r \in Requests, AskTalks
    <3> HIDE DEF u
    <3> QED BY <1>2, <3>1
  <2>4. Goes(w, u, r)
    BY ONLY <1>1, <2>2, r \in Requests, AskIs
  <2>5. Typed(u)
    BY <2>4 DEF Goes
  <2> HIDE DEF u, b
  <2>6. Talks(w, v, r) /\ v.pc = u.pc /\ v.req = u.req /\ v.upset = (u.upset \/ b)
    BY ONLY <2>3, <2>5, r \in Requests, UpsetTalks
  <2> HIDE DEF v
  <2>7. ~v.upset => Kept(v, c.key)
    BY <1>3, <2>6 DEF Kept, Known, Talks, b
  <2> QED BY <1>5, <2>1, <2>3, <2>6, <2>7
<1>9. CASE f # NoFile /\ f.bad
  BY <1>8, <1>9, WorldIs DEF Read
<1>10. CASE f # NoFile /\ ~f.bad /\ f.vary \notin {0, Variant(c.kind)} /\ c.secondary
  <2>1. Become(Reopen(w, r))
    BY <1>10 DEF Read
  <2>2. Reopen(w, r) = t
    BY <1>2, <1>10 DEF Reopen
  <2> HIDE DEF t
  <2>3. Become(t)
    BY <2>1, <2>2, Zenon
  <2> QED BY <1>8, <2>3
<1>11. CASE f # NoFile /\ ~f.bad /\ f.vary \notin {0, Variant(c.kind)} /\ ~c.secondary
  <2> DEFINE v == Reopen(w, r)
  <2>1. Become(v)
    BY <1>11 DEF Read
  <2>2. c.node # 0
    BY <1>1, <1>3 DEF Wellset
  <2>3. /\ Frame(w, v, r) /\ v.pc[r] = "exists" /\ v.req[r].node = 0
        /\ v.sh = w.sh /\ v.disk = w.disk /\ v.todo = w.todo
        /\ v.upset = (w.upset \/ ~w.nodes[c.node].exists)
        /\ \A j \in Slots : SameFile(w.nodes[j], v.nodes[j])
        /\ v.req[r].kind = c.kind /\ v.req[r].secondary /\ v.req[r].status = c.status
    BY <1>1, <1>2, <1>11, <2>2, ReopenIs
  <2> HIDE DEF v
  <2>4. Elsewhere(w, v, r) /\ \A i \in Slots : Stays(w, v, i)
    BY <2>3 DEF Frame, Elsewhere, Sheet, Stays
  <2>5. ASSUME ~v.upset
        PROVE  Ready(w, v, r)
    <3>1. c.status = "miss" /\ c.key = c.kind.key /\ w.nodes[c.node].exists
      BY <1>4, <1>11, <2>3, <2>5
    <3>2. Kept(v, c.key)
      BY <1>3, <2>3, <3>1 DEF Kept, Known, SameFile
    <3>3. \A i \in Slots : i # 0
      BY <1>1 DEF Wellset
    <3> QED BY <1>2, <2>3, <3>1, <3>2, <3>3 DEF Ready, Fits
  <2>6. Books(v)
    BY ONLY <1>1, <2>4, <2>5, Books(World), BooksStay
  <2> QED BY ONLY IInv, <2>1, <2>6, BooksBecome
<1>12. CASE f # NoFile /\ ~f.bad /\ f.vary \in {0, Variant(c.kind)}
  <2> DEFINE u == Goto(w, r, "judge")
             d == [u.req[r] EXCEPT !.file = f, !.till = f.till]
             v == [u EXCEPT !.req[r] = d]
  <2>1. Become(v)
    BY <1>12 DEF Read
  <2>2. Goes(w, u, r) /\ u.req = w.req /\ Typed(u)
    BY <1>1, GotoIs DEF States, Goes
  <2>3. Talks(w, u, r) /\ u.pc[r] = "judge"
    BY ONLY <1>1, r \in Requests, GotoTalks
  <2> HIDE DEF u
  <2>4. c \in Requested
    BY <1>1, WorldIs DEF Typed
  <2>5. d.kind = u.req[r].kind /\ d.key = u.req[r].key /\ d.node = u.req[r].node /\ d.secondary = u.req[r].secondary
        /\ d.file = f /\ d.status = c.status
    BY <1>2, <2>2, <2>4 DEF Requested
  <2> HIDE DEF d
  <2>6. Talks(u, v, r) /\ v.pc = u.pc /\ v.req[r] = d
    BY <2>2, <2>5, RecordTalks
  <2> HIDE DEF v
  <2>7. Talks(w, v, r)
    BY <2>3, <2>6, TalkOn
  <2>8. ASSUME ~v.upset
        PROVE  Fits(v.req[r], v.pc[r]) /\ (w.pc[r] \in Keepers => Kept(v, w.req[r].key))
    <3>1. ~w.upset
      BY <2>7, <2>8 DEF Talks, Elsewhere
    <3>2. v.pc[r] = "judge" /\ v.req[r].key = c.key
      BY <1>2, <2>3, <2>6, <2>7 DEF Talks
    <3>3. Kept(v, c.key)
      BY <3>2 DEF Kept, Known, Keepers
    <3>4. v.req[r].file # NoFile /\ v.req[r].status = "miss" /\ v.req[r].kind = c.kind /\ v.req[r].secondary = c.secondary
      BY <1>2, <1>4, <1>12, <2>5, <2>6, <2>7, <3>1 DEF Talks
    <3> QED BY <1>2, <1>4, <3>1, <3>2, <3>3, <3>4 DEF Fits
  <2>9. Books(v)
    BY ONLY <1>1, <2>7, <2>8, Books(World), r \in Requests, TalkBooks
  <2> QED BY ONLY IInv, <2>1, <2>9, BooksBecome
<1> QED BY <1>6, <1>7, <1>9, <1>10, <1>11, <1>12

\* The same when a node changes in what the books do not speak of, before.
Marks(w, v, r) ==
  /\ Elsewhere(w, v, r) /\ v.pc = w.pc /\ v.upset = w.upset /\ \A i \in Slots : SameFile(w.nodes[i], v.nodes[i])
  /\ v.req[r].kind = w.req[r].kind /\ v.req[r].key = w.req[r].key /\ v.req[r].node = w.req[r].node
  /\ v.req[r].secondary = w.req[r].secondary /\ v.req[r].status = w.req[r].status /\ v.req[r].file = w.req[r].file

\* Such a step, and then one that talks, keep the books.
LEMMA MarkedBooks ==
  ASSUME Wellset, NEW w, NEW u, NEW v, NEW r \in Requests, Typed(w), Books(w), Marks(w, u, r), Talks(u, v, r),
         ~v.upset => Fits(v.req[r], v.pc[r]) /\ (w.pc[r] \in Keepers => Kept(v, w.req[r].key))
  PROVE  Books(v)
<1>1. Elsewhere(w, v, r) /\ \A i \in Slots : SameFile(w.nodes[i], v.nodes[i])
  BY DEF Marks, Talks, Elsewhere
<1>2. \A i \in Slots : Stays(w, v, i)
  BY <1>1 DEF Stays
<1>3. ASSUME ~v.upset
      PROVE  Ready(w, v, r)
  <2>1. Gone(w)
    BY <1>1, <1>3 DEF Elsewhere, Books, Booked
  <2>2. ASSUME NEW i \in Slots, v.req[r].node = i
        PROVE  ~v.nodes[i].deleting
    <3>1. w.nodes[i].deleting => \A s \in Requests : w.req[s].node # i
      BY <2>1, Zenon DEF Gone
    <3>2. w.req[r].node = i
      BY <2>2 DEF Marks, Talks
    <3>3. v.nodes[i].deleting = w.nodes[i].deleting
      BY <1>1 DEF SameFile
    <3> QED BY <3>1, <3>2, <3>3
  <2>3. v.req[r].secondary = w.req[r].secondary /\ v.req[r].kind = w.req[r].kind
    BY DEF Marks, Talks
  <2> QED BY <1>3, <2>2, <2>3 DEF Ready
<1> QED BY <1>1, <1>2, <1>3, BooksStay

\* A request that renews what is out of date.
LEMMA RenewTalks ==
  ASSUME Wellset, NEW w, Sound(w), NEW r \in Requests
  PROVE  LET v == [Ask(w, r, TRUE) EXCEPT !.req[r] = [@ EXCEPT !.till = 0, !.status = "expired"]] IN
         /\ Talks(w, v, r) /\ v.pc[r] = "fetch" /\ v.req[r].status = "expired" /\ v.req[r].file = w.req[r].file
         /\ v.upset = w.upset
<1> DEFINE u == Ask(w, r, TRUE)
           d == [u.req[r] EXCEPT !.till = 0, !.status = "expired"]
           v == [u EXCEPT !.req[r] = d]
<1>0. TRUE \in BOOLEAN
  OBVIOUS
<1>1. /\ Talks(w, u, r) /\ u.pc[r] = "fetch" /\ u.req[r].status = w.req[r].status /\ u.req[r].file = w.req[r].file
      /\ u.upset = w.upset /\ u.sh = w.sh
  BY ONLY <1>0, Wellset, Sound(w), r \in Requests, AskTalks
<1>2. Typed(u)
  BY <1>0, AskIs DEF Goes
<1> HIDE DEF u
<1>3. /\ d.kind = u.req[r].kind /\ d.key = u.req[r].key /\ d.node = u.req[r].node /\ d.secondary = u.req[r].secondary
      /\ d.status = "expired" /\ d.file = u.req[r].file
  BY <1>2 DEF Typed, Requested
<1> HIDE DEF d
<1>4. Talks(u, v, r) /\ v.pc = u.pc /\ v.upset = u.upset /\ v.sh = u.sh /\ v.req[r] = d
  BY <1>2, <1>3, RecordTalks
<1> HIDE DEF v
<1>5. Talks(w, v, r)
  BY <1>1, <1>4, TalkOn
<1>6. /\ Talks(w, v, r) /\ v.pc[r] = "fetch" /\ v.req[r].status = "expired" /\ v.req[r].file = w.req[r].file
      /\ v.upset = w.upset
  BY <1>1, <1>3, <1>4, <1>5
<1> QED BY <1>6 DEF v, d, u

\* A request that starts in the background has no node yet, and asks for the main key.
LEMMA StartBooks ==
  ASSUME Wellset, NEW w, Sound(w), Books(w), NEW s, s \in Requests => w.pc[s] = "none", NEW k \in setup.kinds
  PROVE  Books([w EXCEPT !.pc[s] = "exists", !.req[s] = New(k, TRUE)])
<1> DEFINE d == New(k, TRUE)
           p == [w.pc EXCEPT ![s] = "exists"]
           q == [w.req EXCEPT ![s] = d]
           v == [w EXCEPT !.pc = p, !.req = q]
<1>1. Typed(w)
  BY DEF Sound
<1>2. v = [w EXCEPT !.pc = p, !.req = q]
  OBVIOUS
<1>3. p \in [Requests -> States] /\ q \in [Requests -> {w.req[t] : t \in Requests} \union {d}]
      /\ (\A t \in Requests \ {s} : p[t] = w.pc[t] /\ q[t] = w.req[t])
      /\ (s \in Requests => p[s] = "exists" /\ q[s] = d)
  BY <1>1 DEF Typed, States
<1>4. d.node = 0 /\ ~d.secondary /\ d.status = "miss" /\ d.key = d.kind.key
  BY DEF New
<1> HIDE DEF p, q, d
<1>5. /\ v.pc = p /\ v.req = q /\ v.nodes = w.nodes /\ v.sh = w.sh /\ v.disk = w.disk /\ v.todo = w.todo
      /\ v.del = w.del /\ v.upset = w.upset
  BY <1>1, <1>2 DEF Typed
<1> HIDE DEF v
<1>6. Elsewhere(w, v, s) /\ \A i \in Slots : Stays(w, v, i)
  BY <1>3, <1>5 DEF Elsewhere, Sheet, Stays, SameFile
<1>7. ASSUME s \in Requests
      PROVE  Ready(w, v, s)
  <2>1. \A i \in Slots : i # 0
    BY DEF Wellset
  <2>2. Fits(d, "exists")
    BY <1>4 DEF Fits, Asking
  <2>3. v.pc[s] = "exists" /\ v.req[s] = d /\ w.pc[s] \notin Keepers
    BY <1>3, <1>5, <1>7 DEF Keepers
  <2> QED BY <1>4, <2>1, <2>2, <2>3 DEF Ready
<1>8. Books(v)
  BY ONLY <1>1, <1>6, <1>7, Wellset, Books(w), BooksStay
<1> QED BY <1>8 DEF v, p, q, d

\* Node i gets a file, for a key that no other node has, and is counted with it.
Counts(w, v, i) ==
  /\ v.disk = w.disk /\ v.del = w.del /\ (w.upset => v.upset)
  /\ v.sh.cold = w.sh.cold /\ v.sh.loading = w.sh.loading /\ v.sh.size = w.sh.size + v.nodes[i].fs - w.nodes[i].fs
  /\ v.nodes[i].exists /\ v.nodes[i].key # 0 /\ v.nodes[i].deleting = w.nodes[i].deleting
  /\ \A j \in Slots \ {i} : SameFile(w.nodes[j], v.nodes[j])
  /\ v.nodes[i].key = w.nodes[i].key \/ (w.nodes[i].key = 0 /\ \A j \in Slots : w.nodes[j].key # v.nodes[i].key)
  /\ \A k \in w.todo : k \in v.todo \/ k = v.nodes[i].key
\* A request keeps its node or leaves it, and the file it has in its hands is known by node i if it leaves that.
Carries(w, v, i) ==
  \A s \in Requests : /\ v.req[s].secondary => w.req[s].secondary /\ v.req[s].kind = w.req[s].kind
                      /\ v.req[s].node \in {0, w.req[s].node}
                      /\ ~v.upset => Fits(v.req[s], v.pc[s])
                      /\ w.pc[s] \in Keepers => (v.pc[s] \in Keepers /\ v.req[s].key = w.req[s].key)
                                                \/ w.req[s].key = v.nodes[i].key
\* A node that gets a file keeps the books.
LEMMA CountsBooks ==
  ASSUME Wellset, NEW w, Typed(w), Books(w), NEW v, Typed(v), Sheet(v), NEW i \in Slots, Counts(w, v, i),
         ~w.upset => ~w.nodes[i].deleting,
         Carries(w, v, i)
  PROVE  Books(v)
<1> SUFFICES ASSUME ~v.upset
             PROVE  Booked(v)
  BY DEF Books
<1>1. Single(w) /\ Blank(w) /\ Gone(w) /\ Sized(w) /\ Filed(w) /\ (\A s \in Requests : Asks(w, s)) /\ ~w.nodes[i].deleting
  BY DEF Books, Booked, Counts
<1>2. /\ v.disk = w.disk /\ v.del = w.del /\ v.sh.cold = w.sh.cold /\ v.sh.loading = w.sh.loading
      /\ v.sh.size = w.sh.size + v.nodes[i].fs - w.nodes[i].fs
      /\ v.nodes[i].exists /\ v.nodes[i].key # 0 /\ v.nodes[i].deleting = w.nodes[i].deleting
      /\ v.nodes[i].key = w.nodes[i].key \/ (w.nodes[i].key = 0 /\ \A j \in Slots : w.nodes[j].key # v.nodes[i].key)
      /\ \A k \in w.todo : k \in v.todo \/ k = v.nodes[i].key
  BY DEF Counts
<1>3. \A j \in Slots \ {i} : /\ v.nodes[j].key = w.nodes[j].key /\ v.nodes[j].exists = w.nodes[j].exists
                            /\ v.nodes[j].deleting = w.nodes[j].deleting /\ v.nodes[j].fs = w.nodes[j].fs
  BY DEF Counts, SameFile
<1> USE DEF Carries
<1>4. Single(v)
  <2> SUFFICES ASSUME NEW j \in Slots, NEW k \in Slots, v.nodes[j].key # 0, v.nodes[j].key = v.nodes[k].key, j # k
               PROVE  FALSE
    BY DEF Single
  <2>1. CASE v.nodes[i].key = w.nodes[i].key
    <3>1. w.nodes[j].key = v.nodes[j].key /\ w.nodes[k].key = v.nodes[k].key
      BY <1>3, <2>1
    <3> QED BY <1>1, <3>1 DEF Single
  <2>2. CASE \A l \in Slots : w.nodes[l].key # v.nodes[i].key
    <3>1. CASE j = i \/ k = i
      BY <1>3, <2>2, <3>1
    <3>2. CASE j # i /\ k # i
      BY <1>1, <1>3, <3>2 DEF Single
    <3> QED BY <3>1, <3>2
  <2> QED BY <1>2, <2>1, <2>2
<1>5. Blank(v)
  <2> SUFFICES ASSUME NEW j \in Slots
               PROVE  (~v.nodes[j].exists => Vacant(v.nodes[j])) /\ (v.nodes[j].key = 0 => ~v.nodes[j].exists)
    BY DEF Blank
  <2>1. CASE j = i
    BY <1>2, <2>1
  <2>2. CASE j # i
    BY <1>1, <1>3, <2>2 DEF Blank, Vacant
  <2> QED BY <2>1, <2>2
<1>6. \A j \in Slots : v.nodes[j].deleting = w.nodes[j].deleting
  BY <1>2, <1>3
<1>7. Gone(v)
  <2>1. \A p \in Processes : w.del[p].node # 0 => w.del[p].node \in Slots \ {i}
    <3>1. \A p \in Processes : w.del[p].node # 0 => w.del[p].node \in Slots
      BY NodePlace
    <3> QED BY <1>1, <3>1 DEF Gone
  <2>2. \A j \in Slots : v.nodes[j].deleting => /\ \A s \in Requests : v.req[s].node # j
                                                /\ \E p \in Processes : v.del[p].node = j
    <3>1. \A j \in Slots : j # 0
      BY DEF Wellset
    <3> QED BY <1>1, <1>2, <1>6, <3>1 DEF Gone
  <2>3. \A p \in Processes : v.del[p].node # 0 =>
          /\ v.nodes[v.del[p].node].deleting
          /\ v.del[p].gone => v.disk[v.nodes[v.del[p].node].key] = NoFile
          /\ \A q \in Processes : v.del[q].node = v.del[p].node => p = q
    BY <1>1, <1>2, <1>3, <2>1 DEF Gone
  <2> QED BY <2>2, <2>3 DEF Gone
<1>8. Sized(v)
  <2> DEFINE f == Sizes(w)
             g == Sizes(v)
             n == setup.slots
  <2>1. n \in Nat /\ i \in 1 .. n /\ Slots = 1 .. n
    BY DEF Wellset, Slots
  <2>2. \A j \in Slots : w.nodes[j].fs \in Int /\ v.nodes[j].fs \in Int
    <3>1. Typed(v)
      OBVIOUS
    <3>2. \A j \in Slots : w.nodes[j] \in Nodes /\ v.nodes[j] \in Nodes
      BY <3>1 DEF Typed
    <3>3. \A x \in Nodes : x.fs \in Int
      BY DEF Nodes
    <3> QED BY <3>2, <3>3
  <2>3. f \in [1 .. n -> Int] /\ g \in [1 .. n -> Int]
    BY <2>1, <2>2 DEF Sizes, Worth
  <2>4. f[i] = w.nodes[i].fs /\ g[i] = v.nodes[i].fs /\ f[i] \in Int /\ g[i] \in Int
    <3>1. f[i] = w.nodes[i].fs
      <4>1. CASE w.nodes[i].exists
        BY <1>1, <4>1 DEF Sizes, Worth
      <4>2. CASE ~w.nodes[i].exists
        BY <1>1, <4>2 DEF Sizes, Worth, Blank, Vacant
      <4> QED BY <4>1, <4>2
    <3> QED BY <1>1, <1>2, <2>2, <3>1 DEF Sizes, Worth
  <2>5. \A j \in 1 .. n : j # i => g[j] = f[j]
    BY <1>3, <2>1 DEF Sizes, Worth
  <2>6. w.sh.size = Sum(f, n)
    BY <1>1 DEF Sized
  <2> HIDE DEF f, g, n
  <2>7. Sum(g, n) = Sum(f, n) - f[i] + g[i]
    BY ONLY <2>1, <2>3, <2>5, SumChanges
  <2>8. Sum(f, n) \in Int
    BY ONLY <2>1, <2>3, SumTyped
  <2>9. v.sh.size = Sum(g, n)
    BY <1>2, <2>4, <2>6, <2>7, <2>8
  <2> QED BY <2>9 DEF Sized, g, n
<1>9. \A k : Kept(w, k) => Kept(v, k)
  <2> SUFFICES ASSUME NEW k, Known(w, k)
               PROVE  Known(v, k)
    BY <1>2 DEF Kept
  <2>1. ASSUME NEW j \in Slots, w.nodes[j].key = k, w.nodes[j].exists
        PROVE  Known(v, k)
    <3>1. CASE j = i
      BY <1>1, <1>2, <2>1, <3>1 DEF Blank, Known
    <3>2. CASE j # i
      BY <1>3, <2>1, <3>2 DEF Known
    <3> QED BY <3>1, <3>2
  <2>2. ASSUME NEW s \in Requests, w.pc[s] \in Keepers, w.req[s].key = k
        PROVE  Known(v, k)
    BY <1>2, <2>2 DEF Known
  <2> QED BY <2>1, <2>2 DEF Known
<1>10. Filed(v)
  <2> SUFFICES ASSUME NEW k \in Keys, ~Kept(v, k)
               PROVE  Unseen(v, k)
    BY DEF Filed
  <2>1. k # v.nodes[i].key
    BY <1>2 DEF Kept, Known
  <2>2. Unseen(w, k)
    BY <1>1, <1>9 DEF Filed
  <2> QED BY <1>2, <1>3, <2>1, <2>2 DEF Unseen
<1>11. \A s \in Requests : Asks(v, s)
  BY <1>1, <1>9 DEF Asks
<1> QED BY <1>4, <1>5, <1>7, <1>8, <1>10, <1>11 DEF Booked

\* A file that the loader did not see yet is counted when it is judged; after that the node knows it.
LEMMA JudgedBooks ==
  ASSUME IInv, Books(World), NEW r \in Requests, pc[r] = "judge"
  PROVE  LET w == Judged(r)
             i == req[r].node
         IN Books(w) /\ i \in Slots /\ (~w.upset => w.nodes[i].key = req[r].key /\ w.nodes[i].exists)
<1> DEFINE w == Judged(r)
           i == req[r].node
           counts == sh.cold /\ ~nodes[i].exists
<1>1. Wellset /\ Sound(World) /\ AllPlaced(World) /\ Typed(World) /\ Named(World)
  BY NowWellset DEF Sound
<1>2. World.pc[r] = "judge" /\ World.req = req /\ World.nodes = nodes
  BY WorldIs
<1>3. i \in Slots /\ nodes[i].key = req[r].key /\ req[r].key # 0
  BY <1>1, <1>2, NodePlace DEF AllPlaced, Rests, Using, Named
<1>4. /\ Sound(w) /\ w.pc = pc /\ w.req = req /\ w.del = del /\ w.mgr = mgr /\ w.disk = disk /\ w.todo = todo
      /\ \A j \in Slots : SameNode(nodes[j], w.nodes[j])
      /\ \A j \in Slots \ {i} : w.nodes[j] = nodes[j]
      /\ ~counts => w.nodes[i] = nodes[i] /\ w.sh = sh /\ w.upset = (upset \/ ~nodes[i].exists)
      /\ counts => /\ w.sh = [sh EXCEPT !.size = @ + req[r].file.fs] /\ w.upset = upset
                   /\ w.nodes[i].exists /\ w.nodes[i].fs = req[r].file.fs /\ w.nodes[i].deleting = nodes[i].deleting
  BY JudgedIs
<1> HIDE DEF w
<1>5. \A j \in Slots : w.nodes[j].key = nodes[j].key
  BY <1>4 DEF SameNode
<1>6. CASE ~counts
  <2>1. w.nodes[i] = nodes[i] /\ w.upset = (upset \/ ~nodes[i].exists) /\ w.sh = sh
    BY <1>4, <1>6
  <2>2. \A j \in Slots : w.nodes[j] = nodes[j]
    BY <1>4, <2>1
  <2>3. Elsewhere(World, w, r)
    BY <1>4, <2>1, WorldIs DEF Elsewhere, Sheet
  <2>4. \A j \in Slots : Stays(World, w, j)
    BY <1>2, <2>2 DEF Stays, SameFile
  <2>5. ASSUME ~w.upset
        PROVE  Ready(World, w, r)
    <3>1. Gone(World) /\ Asks(World, r)
      BY <2>3, <2>5 DEF Elsewhere, Books, Booked
    <3>2. \A j \in Slots : w.req[r].node = j => ~w.nodes[j].deleting
      <4>1. \A j \in Slots : nodes[j].deleting => \A s \in Requests : req[s].node # j
        BY <1>2, <3>1 DEF Gone
      <4> QED BY <1>4, <2>2, <4>1
    <3>3. Kept(w, req[r].key)
      BY <1>4, WorldIs DEF Kept, Known, Keepers
    <3>4. w.pc[r] = World.pc[r] /\ w.req[r] = World.req[r]
      BY <1>4, WorldIs
    <3> QED BY <1>2, <3>1, <3>2, <3>3, <3>4 DEF Ready, Asks
  <2>6. Books(w)
    BY ONLY <1>1, <2>3, <2>4, <2>5, Books(World), BooksStay
  <2> QED BY <1>3, <2>1, <2>6 DEF w
<1>7. CASE counts
  <2>1. /\ w.sh = [sh EXCEPT !.size = @ + req[r].file.fs] /\ w.upset = upset
        /\ w.nodes[i].exists /\ w.nodes[i].fs = req[r].file.fs /\ w.nodes[i].deleting = nodes[i].deleting
    BY <1>4, <1>7
  <2>2. Sheet(World)
    BY DEF Books
  <2>3. Sheet(w) /\ w.sh.cold = sh.cold /\ w.sh.loading = sh.loading /\ w.sh.size = sh.size + req[r].file.fs
    BY <2>1, <2>2, WorldIs DEF Sheet
  <2>4. World.upset = upset /\ World.sh = sh /\ World.disk = disk /\ World.del = del /\ World.todo = todo
        /\ World.pc = pc /\ World.req = req /\ World.nodes = nodes
    BY WorldIs
  <2>5. ASSUME upset
        PROVE  Books(w)
    BY <2>1, <2>3, <2>5 DEF Books
  <2>6. ASSUME ~upset
        PROVE  Books(w)
    <3>1. Booked(World)
      BY <2>4, <2>6 DEF Books
    <3>2. nodes[i].fs = 0 /\ (\A s \in Requests : Asks(World, s)) /\ ~nodes[i].deleting
      BY <1>3, <1>7, <2>4, <3>1 DEF Booked, Blank, Vacant, Gone
    <3>3. sh.size + req[r].file.fs = sh.size + req[r].file.fs - 0
      <4>1. req[r].file.fs \in Int
        BY <1>1, <2>4 DEF Typed, Requested, Files
      <4>2. sh.size = Sum(Sizes(World), setup.slots)
        BY <2>4, <3>1 DEF Booked, Sized
      <4>3. \A n \in Nodes : n.fs \in Int
        BY DEF Nodes
      <4>4. Sizes(World) \in [1 .. setup.slots -> Int] /\ setup.slots \in Nat
        BY <1>1, <4>3 DEF Sizes, Worth, Typed, Slots, Wellset
      <4>5. Sum(Sizes(World), setup.slots) \in Int
        BY <4>4, SumTyped
      <4> QED BY <4>1, <4>2, <4>5
    <3>4. \A j \in Slots \ {i} : SameFile(nodes[j], w.nodes[j])
      BY <1>4 DEF SameFile
    <3>5. Counts(World, w, i)
      BY <1>3, <1>4, <1>5, <2>1, <2>3, <2>4, <3>2, <3>3, <3>4 DEF Counts
    <3>6. Carries(World, w, i)
      BY <1>4, <2>4, <3>2 DEF Asks, Carries
    <3>7. Typed(w) /\ (~World.upset => ~World.nodes[i].deleting)
      BY <1>4, <2>4, <3>2 DEF Sound
    <3>8. i \in Slots
      BY <1>3
    <3> HIDE DEF i, counts
    <3> QED BY ONLY <1>1, <2>3, <3>5, <3>6, <3>7, <3>8, Books(World), CountsBooks
  <2>7. Books(w)
    BY <2>5, <2>6
  <2> QED BY <1>3, <1>5, <2>1, <2>7 DEF w
<1> QED BY <1>6, <1>7 DEF w

\* A file is judged: sent, or renewed by one request that asks the upstream.
LEMMA JudgeBooks ==
  ASSUME IInv, Books(World), NEW r \in Requests, Judge(r)
  PROVE  Books(World)'
<1> DEFINE c == req[r]
           i == c.node
           w == Judged(r)
           d == [w.req[r] EXCEPT !.updating = TRUE, !.lockTime = nodes[i].lockTime]
           mine == [w EXCEPT !.nodes[i].updating = TRUE, !.req[r] = d]
           Renew(u) == [Ask(u, r, TRUE) EXCEPT !.req[r] = [@ EXCEPT !.till = 0, !.status = "expired"]]
<1>1. Wellset /\ Sound(World) /\ AllPlaced(World)
  BY NowWellset
<1>2. pc[r] = "judge" /\ World.pc[r] = "judge" /\ World.req[r] = c
  BY WorldIs DEF Judge
<1>3. Become(IF c.till >= now THEN Serve(w, r, "hit")
             ELSE IF nodes[i].updating THEN IF setup.useStale /\ ~c.sub THEN Serve(w, r, "updating") ELSE Renew(w)
             ELSE IF setup.background /\ setup.useStale /\ ~c.sub
             THEN [Serve(mine, r, "stale") EXCEPT !.pc[Sub(r)] = "exists", !.req[Sub(r)] = New(c.kind, TRUE)]
             ELSE Renew(mine))
  BY WorldIs DEF Judge, Judged
<1>4. Books(w) /\ i \in Slots /\ (~w.upset => w.nodes[i].key = c.key /\ w.nodes[i].exists)
  BY <1>2, JudgedBooks
<1>5. Sound(w) /\ Typed(w) /\ w.pc = pc /\ w.req = req /\ \A j \in Slots : SameNode(nodes[j], w.nodes[j])
  BY <1>2, JudgedIs DEF Sound
<1> HIDE DEF w
<1>6. w.pc[r] = "judge" /\ w.req[r] = c
  BY <1>2, <1>5
<1>7. ~w.upset => c.file # NoFile /\ (~c.secondary => c.key = c.kind.key) /\ Fits(w.req[r], w.pc[r])
  BY <1>4, <1>6 DEF Books, Booked, Asks, Fits
<1>8. w.pc[r] # "dead" /\ (w.pc[r] \in Keepers /\ ~w.upset => \E j \in Slots : w.nodes[j].key = w.req[r].key /\ w.nodes[j].exists)
  BY <1>4, <1>6
<1>9. CASE c.till >= now
  <2> DEFINE v == Serve(w, r, "hit")
  <2>1. Become(v)
    BY <1>3, <1>9
  <2>2. Books(v)
    BY <1>1, <1>4, <1>5, <1>8, ServeBooks
  <2> HIDE DEF v
  <2> QED BY ONLY IInv, <2>1, <2>2, BooksBecome
<1>10. CASE ~(c.till >= now) /\ nodes[i].updating /\ setup.useStale /\ ~c.sub
  <2> DEFINE v == Serve(w, r, "updating")
  <2>1. Become(v)
    BY <1>3, <1>10
  <2>2. Books(v)
    BY <1>1, <1>4, <1>5, <1>8, ServeBooks
  <2> HIDE DEF v
  <2> QED BY ONLY IInv, <2>1, <2>2, BooksBecome
\* From the world in which it is judged, perhaps marked as being updated, to one where it is asked for anew.
<1>11. ASSUME NEW u, Sound(u), Marks(w, u, r), NEW STATE v, v = Renew(u)
       PROVE  Books(v)
  <2>1. /\ Talks(u, v, r) /\ v.pc[r] = "fetch" /\ v.req[r].status = "expired" /\ v.req[r].file = u.req[r].file
        /\ v.upset = u.upset
    BY <1>1, <1>11, RenewTalks
  <2>2. ASSUME ~v.upset
        PROVE  Fits(v.req[r], v.pc[r]) /\ (w.pc[r] \in Keepers => Kept(v, w.req[r].key))
    <3>1. ~w.upset /\ v.req[r].kind = c.kind /\ v.req[r].key = c.key /\ v.req[r].secondary = c.secondary
          /\ v.req[r].file = c.file /\ SameFile(w.nodes[i], v.nodes[i])
      BY <1>4, <1>6, <1>11, <2>1, <2>2 DEF Marks, Talks
    <3>2. Fits(v.req[r], v.pc[r])
      BY <1>7, <2>1, <3>1 DEF Fits, Asking
    <3>3. Kept(v, c.key)
      BY <1>4, <3>1 DEF Kept, Known, SameFile
    <3> QED BY <1>6, <3>2, <3>3
  <2> QED BY ONLY <1>1, <1>4, <1>5, <1>11, <2>1, <2>2, r \in Requests, MarkedBooks
<1>12. CASE ~(c.till >= now) /\ nodes[i].updating /\ ~(setup.useStale /\ ~c.sub)
  <2> DEFINE v == Renew(w)
  <2>1. Become(v)
    BY <1>3, <1>12
  <2>2. Marks(w, w, r)
    BY DEF Marks, Elsewhere, SameFile
  <2>3. Books(v)
    BY <1>5, <1>11, <2>2
  <2> HIDE DEF v
  <2> QED BY ONLY IInv, <2>1, <2>3, BooksBecome
<1>13. CASE ~(c.till >= now) /\ ~nodes[i].updating
  <2> DEFINE y == [w.nodes[i] EXCEPT !.updating = TRUE]
             n == [w.nodes EXCEPT ![i] = y]
             q == [w.req EXCEPT ![r] = d]
  <2>1. mine = [w EXCEPT !.nodes = n, !.req = q]
    OBVIOUS
  <2>2. w.nodes[i] \in Nodes /\ SameNode(nodes[i], w.nodes[i]) /\ c \in Requested
    BY <1>4, <1>5, <1>6 DEF Typed
  <2>3. y \in Nodes /\ y.key = w.nodes[i].key /\ y.count = w.nodes[i].count /\ y.updating /\ y.lockTime = nodes[i].lockTime
        /\ SameFile(w.nodes[i], y)
    BY <2>2 DEF Nodes, SameNode, SameFile
  <2>4. d \in Requested /\ d.kind = c.kind /\ d.key = c.key /\ d.node = c.node /\ d.secondary = c.secondary
        /\ d.status = c.status /\ d.file = c.file /\ d.lockTime = nodes[i].lockTime
    <3>1. nodes[i].lockTime \in Nat
      BY <2>2 DEF Nodes, SameNode
    <3> QED BY <1>6, <2>2, <3>1 DEF Requested
  <2> HIDE DEF y, d
  <2>5. n \in [Slots -> Nodes] /\ n[i] = y /\ \A j \in Slots \ {i} : n[j] = w.nodes[j]
    BY <1>4, <1>5, <2>3 DEF Typed
  <2>6. q \in [Requests -> Requested] /\ q[r] = d /\ \A s \in Requests \ {r} : q[s] = w.req[s]
    BY <1>5, <2>4 DEF Typed
  <2> HIDE DEF n, q, mine
  <2>7. /\ Typed(mine) /\ mine.pc = w.pc /\ mine.req = q /\ mine.del = w.del
        /\ mine.queue = w.queue /\ mine.nodes = n /\ mine.robbed = w.robbed
        /\ mine.sh = w.sh /\ mine.disk = w.disk /\ mine.todo = w.todo /\ mine.upset = w.upset
    BY <1>5, <2>1, <2>5, <2>6 DEF Typed
  <2>8. Locks(w, mine, r, i)
    BY <1>6, <1>13, <2>2, <2>3, <2>4, <2>5, <2>6, <2>7 DEF Locks, SameNode
  <2>9. Sound(mine)
    BY <1>1, <1>4, <1>5, <2>8, LocksIs
  <2>10. Marks(w, mine, r)
    <3>1. Elsewhere(w, mine, r)
      BY <2>6, <2>7 DEF Elsewhere, Sheet
    <3>2. \A j \in Slots : SameFile(w.nodes[j], mine.nodes[j])
      BY <2>3, <2>5, <2>7 DEF SameFile
    <3> QED BY <1>6, <2>4, <2>6, <2>7, <3>1, <3>2 DEF Marks
  <2>11. CASE setup.background /\ setup.useStale /\ ~c.sub
    <3> DEFINE s == Sub(r)
               u == Serve(mine, r, "stale")
               v == [u EXCEPT !.pc[s] = "exists", !.req[s] = New(c.kind, TRUE)]
    <3>1. Become(v)
      BY <1>3, <1>13, <2>11
    <3>2. Goes(mine, u, r)
      BY <1>1, <2>9, ServeIs
    <3>3. Talks(mine, u, r) /\ u.pc[r] = "send" /\ u.upset = mine.upset
      BY <1>1, <2>9, ServeTalks
    <3> HIDE DEF u
    <3>4. Sound(u)
      BY <1>1, <2>9, <3>2, GoesIs
    <3>5. ASSUME ~u.upset
          PROVE  Fits(u.req[r], u.pc[r]) /\ (w.pc[r] \in Keepers => Kept(u, w.req[r].key))
      <4>1. ~w.upset /\ u.req[r].kind = c.kind /\ u.req[r].key = c.key /\ u.req[r].secondary = c.secondary
            /\ SameFile(w.nodes[i], u.nodes[i])
        BY <1>4, <1>6, <2>10, <3>3, <3>5 DEF Marks, Talks
      <4>2. Fits(u.req[r], u.pc[r])
        BY <1>7, <3>3, <4>1 DEF Fits, Asking
      <4>3. Kept(u, c.key)
        BY <1>4, <4>1 DEF Kept, Known, SameFile
      <4> QED BY <1>6, <4>2, <4>3
    <3>6. Books(u)
      BY ONLY <1>1, <1>4, <1>5, <2>10, <3>3, <3>5, r \in Requests, MarkedBooks
    <3>7. s \in Requests => u.pc[s] = "none"
      <4>1. Kin(World, r) /\ s # r
        BY <1>1 DEF AllPlaced, Sub, Wellset
      <4>2. s \in Requests => pc[s] = "none"
        BY <1>2, <2>11, <4>1, WorldIs DEF Kin
      <4> QED BY <1>5, <2>7, <3>3, <4>1, <4>2 DEF Talks, Elsewhere
    <3>8. c.kind \in setup.kinds
      BY <2>2 DEF Requested
    <3> HIDE DEF s
    <3>9. Books(v)
      BY ONLY <1>1, <3>4, <3>6, <3>7, <3>8, StartBooks
    <3> HIDE DEF v
    <3> QED BY ONLY IInv, <3>1, <3>9, BooksBecome
  <2>12. CASE ~(setup.background /\ setup.useStale /\ ~c.sub)
    <3> DEFINE v == Renew(mine)
    <3>1. Become(v)
      BY <1>3, <1>13, <2>12
    <3>2. Books(v)
      BY <1>11, <2>9, <2>10
    <3> HIDE DEF v
    <3> QED BY ONLY IInv, <3>1, <3>2, BooksBecome
  <2> QED BY <2>11, <2>12
<1> QED BY <1>9, <1>10, <1>12, <1>13

\* The lock of a node, and the wait for it, are nothing to the books.
LEMMA LockBooks ==
  ASSUME IInv, Books(World), NEW r \in Requests, Lock(r)
  PROVE  Books(World)'
<1> DEFINE c == req[r]
           i == c.node
           w == World
           free == ~nodes[i].updating \/ nodes[i].lockTime <= now
<1>1. Wellset /\ Sound(w) /\ AllPlaced(w) /\ Typed(w)
  BY NowWellset DEF Sound
<1>2. pc[r] = "lock" /\ w.pc[r] = "lock" /\ w.req[r] = c /\ w.nodes = nodes
  BY WorldIs DEF Lock
<1>3. c \in Requested /\ i \in Slots /\ w.nodes[i] \in Nodes /\ now + setup.age \in Nat
  <2>1. c \in Requested /\ i \in Slots
    BY <1>1, <1>2, NodePlace DEF Typed, AllPlaced, Rests, Using
  <2> QED BY <1>1, <2>1 DEF Typed, Wellset
<1>4. ~w.upset => c.status = "miss" /\ (~c.secondary => c.key = c.kind.key)
  BY <1>2 DEF Books, Booked, Asks, Fits, Asking
<1>5. ASSUME NEW STATE v, Become(v), NEW u, Marks(w, u, r), Talks(u, v, r), v.pc[r] \in {"wait", "fetch"}, v.req[r].status = c.status
      PROVE  Books(World)'
  <2>1. ASSUME ~v.upset
        PROVE  Fits(v.req[r], v.pc[r]) /\ (w.pc[r] \in Keepers => Kept(v, w.req[r].key))
    <3>1. ~w.upset /\ v.req[r].kind = c.kind /\ v.req[r].key = c.key /\ v.req[r].secondary = c.secondary
      BY <1>2, <1>5, <2>1 DEF Marks, Talks, Elsewhere
    <3> QED BY <1>2, <1>4, <1>5, <3>1 DEF Fits, Keepers
  <2>2. Books(v)
    BY ONLY <1>1, <1>5, <2>1, Books(World), r \in Requests, MarkedBooks
  <2> QED BY ONLY IInv, <1>5, <2>2, BooksBecome
<1>6. Marks(w, w, r)
  BY DEF Marks, Elsewhere, SameFile
<1>7. ASSUME NEW u, Sound(u), Marks(w, u, r), NEW b \in BOOLEAN, NEW STATE v, v = Ask(u, r, b), Become(v)
      PROVE  Books(World)'
  <2>1. Talks(u, v, r) /\ v.pc[r] = "fetch" /\ v.req[r].status = u.req[r].status
    BY <1>1, <1>7, AskTalks
  <2>2. v.req[r].status = c.status
    BY <1>2, <1>7, <2>1 DEF Marks
  <2> QED BY <1>5, <1>7, <2>1, <2>2
<1>8. CASE ~setup.lock
  <2> DEFINE v == Ask(w, r, TRUE)
  <2>1. Become(v) /\ TRUE \in BOOLEAN
    BY <1>8 DEF Lock
  <2>2. v = Ask(w, r, TRUE)
    OBVIOUS
  <2> HIDE DEF v
  <2> QED BY <1>1, <1>6, <1>7, <2>1, <2>2
<1>9. CASE setup.lock /\ ~free /\ ~c.patient
  <2> DEFINE v == Ask(w, r, FALSE)
  <2>1. Become(v) /\ FALSE \in BOOLEAN
    BY <1>9 DEF Lock
  <2>2. v = Ask(w, r, FALSE)
    OBVIOUS
  <2> HIDE DEF v
  <2> QED BY <1>1, <1>6, <1>7, <2>1, <2>2
<1>10. CASE setup.lock /\ ~free /\ c.patient
  <2> DEFINE u == Goto(w, r, "wait")
             d == [u.req[r] EXCEPT !.waitTime = IF @ = 0 THEN now + setup.timeout ELSE @]
             v == [u EXCEPT !.req[r] = d]
  <2>1. Become(v)
    BY <1>10 DEF Lock
  <2>2. Goes(w, u, r) /\ u.req = w.req /\ Typed(u)
    BY <1>1, GotoIs DEF States, Goes
  <2>3. Talks(w, u, r) /\ u.pc[r] = "wait"
    BY <1>1, GotoTalks
  <2> HIDE DEF u
  <2>4. d.kind = u.req[r].kind /\ d.key = u.req[r].key /\ d.node = u.req[r].node /\ d.secondary = u.req[r].secondary
        /\ d.status = c.status
    BY <1>2, <1>3, <2>2 DEF Requested
  <2> HIDE DEF d
  <2>5. Talks(u, v, r) /\ v.pc = u.pc /\ v.req[r] = d
    BY <2>2, <2>4, RecordTalks
  <2> HIDE DEF v
  <2>6. Talks(w, v, r)
    BY <2>3, <2>5, TalkOn
  <2> QED BY <1>5, <1>6, <2>1, <2>3, <2>4, <2>5, <2>6
<1>11. CASE setup.lock /\ free
  <2> DEFINE x == [nodes[i] EXCEPT !.updating = TRUE, !.lockTime = now + setup.age]
             n == [nodes EXCEPT ![i] = x]
             d == [c EXCEPT !.updating = TRUE, !.lockTime = now + setup.age]
             q == [req EXCEPT ![r] = d]
             u == [w EXCEPT !.nodes = n, !.req = q]
             v == Ask(u, r, TRUE)
  <2>1. Become(v)
    <3>1. [World EXCEPT !.nodes[i] = [@ EXCEPT !.updating = TRUE, !.lockTime = now + setup.age],
                        !.req[r] = [@ EXCEPT !.updating = TRUE, !.lockTime = now + setup.age]] = u
      BY WorldIs
    <3>2. Become(Ask([World EXCEPT !.nodes[i] = [@ EXCEPT !.updating = TRUE, !.lockTime = now + setup.age],
                                   !.req[r] = [@ EXCEPT !.updating = TRUE, !.lockTime = now + setup.age]], r, TRUE))
      BY <1>11 DEF Lock
    <3> HIDE DEF u
    <3> QED BY <3>1, <3>2, Zenon
  <2>2. /\ x \in Nodes /\ x.key = nodes[i].key /\ x.count = nodes[i].count /\ x.updating /\ x.lockTime = now + setup.age
        /\ SameFile(nodes[i], x)
    BY <1>2, <1>3 DEF Nodes, SameFile
  <2>3. d \in Requested /\ d.kind = c.kind /\ d.key = c.key /\ d.node = c.node /\ d.secondary = c.secondary
        /\ d.status = c.status /\ d.file = c.file /\ d.lockTime = now + setup.age
    BY <1>3 DEF Requested
  <2> HIDE DEF x, d
  <2>4. n \in [Slots -> Nodes] /\ n[i] = x /\ \A j \in Slots \ {i} : n[j] = w.nodes[j]
    BY <1>1, <1>2, <1>3, <2>2 DEF Typed
  <2>5. q \in [Requests -> Requested] /\ q[r] = d /\ \A s \in Requests \ {r} : q[s] = w.req[s]
    BY <1>1, <2>3, WorldIs DEF Typed
  <2>6. u = [w EXCEPT !.nodes = n, !.req = q]
    OBVIOUS
  <2>7. v = Ask(u, r, TRUE) /\ TRUE \in BOOLEAN
    OBVIOUS
  <2> HIDE DEF n, q, u, v, w
  <2>8. /\ Typed(u) /\ u.pc = w.pc /\ u.req = q /\ u.del = w.del
        /\ u.queue = w.queue /\ u.nodes = n /\ u.robbed = w.robbed
        /\ u.sh = w.sh /\ u.disk = w.disk /\ u.todo = w.todo /\ u.upset = w.upset
    BY <1>1, <2>4, <2>5, <2>6 DEF Typed
  <2>9. Locks(w, u, r, i)
    BY <1>2, <1>11, <2>2, <2>3, <2>4, <2>5, <2>8 DEF Locks
  <2>10. Sound(u)
    BY <1>1, <1>3, <2>9, LocksIs
  <2>11. Marks(w, u, r)
    <3>1. Elsewhere(w, u, r)
      BY <2>5, <2>8 DEF Elsewhere, Sheet
    <3>2. \A j \in Slots : SameFile(w.nodes[j], u.nodes[j])
      BY <1>2, <2>2, <2>4, <2>8 DEF SameFile
    <3> QED BY <1>2, <2>3, <2>5, <2>8, <3>1, <3>2 DEF Marks
  <2> QED BY <1>7, <2>1, <2>7, <2>10, <2>11
<1> QED BY <1>8, <1>9, <1>10, <1>11

\* A request that has waited.
LEMMA LockWaitBooks ==
  ASSUME IInv, Books(World), NEW r \in Requests, LockWait(r)
  PROVE  Books(World)'
<1> DEFINE w == World
           u == Goto(w, r, "exists")
           b == ~(req[r].waitTime <= now)
           d == [u.req[r] EXCEPT !.patient = @ /\ b]
           v == [u EXCEPT !.req[r] = d]
<1>1. Wellset /\ Sound(w) /\ AllPlaced(w) /\ Typed(w)
  BY NowWellset DEF Sound
<1>2. pc[r] = "wait" /\ w.pc[r] = "wait" /\ Become(v)
  BY WorldIs DEF LockWait
<1>3. Goes(w, u, r) /\ u.req = w.req /\ Typed(u) /\ w.req[r] \in Requested
  BY <1>1, GotoIs DEF States, Goes, Typed
<1>4. Talks(w, u, r) /\ u.pc[r] = "exists"
  BY <1>1, GotoTalks
<1> HIDE DEF u
<1>5. d.kind = u.req[r].kind /\ d.key = u.req[r].key /\ d.node = u.req[r].node /\ d.secondary = u.req[r].secondary
      /\ d.status = u.req[r].status
  BY <1>3 DEF Requested
<1> HIDE DEF d
<1>6. Talks(u, v, r) /\ v.pc = u.pc /\ v.req[r] = d
  BY <1>3, <1>5, RecordTalks
<1> HIDE DEF v
<1>7. Talks(w, v, r)
  BY <1>4, <1>6, TalkOn
<1>8. ASSUME ~v.upset
      PROVE  Fits(v.req[r], v.pc[r]) /\ (w.pc[r] \in Keepers => Kept(v, w.req[r].key))
  <2>1. Fits(w.req[r], w.pc[r])
    BY <1>7, <1>8 DEF Talks, Elsewhere, Books, Booked, Asks
  <2> QED BY <1>2, <1>3, <1>4, <1>5, <1>6, <2>1 DEF Fits, Asking, Keepers
<1>9. Books(v)
  BY ONLY <1>1, <1>7, <1>8, Books(World), r \in Requests, TalkBooks
<1> QED BY ONLY IInv, <1>2, <1>9, BooksBecome

-----------------------------------------------------------------------------
(* The books when the upstream answers.                                      *)
\* A request that moves to the node of the main key, which had a file that is known.
LEMMA MovesFinds ==
  ASSUME Wellset, NEW w, Sound(w), NEW r \in Requests, w.req[r].node # 0, w.req[r].secondary, NEW i \in Slots \union {0},
         i # 0 => w.nodes[i].key = w.req[r].kind.key
  PROVE  LET v == UpdateVariant(w, r, i) IN Finds(w, v, r) /\ v.req[r].key = w.req[r].kind.key
<1> DEFINE u == Moving(w, r)
           v == UpdateVariant(w, r, i)
<1>1. v = Exists(u, r, i)
  BY DEF UpdateVariant, Moving
<1>2. /\ Sound(u) /\ u.pc = w.pc /\ Frame(w, u, r) /\ SameBooks(w, u)
      /\ \A j \in Slots : u.nodes[j].key = w.nodes[j].key /\ SameFile(w.nodes[j], u.nodes[j])
      /\ u.req[r].node = 0 /\ Moved(u.req[r]) /\ u.req[r].key = w.req[r].kind.key /\ u.req[r].kind = w.req[r].kind
  BY MovingIs
<1> HIDE DEF u, v
<1>3. u.req[r].node \in {0, i} /\ (i # 0 => u.nodes[i].key = u.req[r].key)
  BY <1>2
<1>4. Finds(u, v, r) /\ SameAsk(u.req[r], v.req[r])
  BY <1>1, <1>2, <1>3, ExistsFinds
<1>5. Elsewhere(w, u, r) /\ u.req[r].secondary
  BY <1>2 DEF Frame, SameBooks, Elsewhere, Sheet, Moved
<1>6. Elsewhere(w, v, r) /\ v.pc = w.pc /\ v.req[r].kind = w.req[r].kind /\ v.req[r].secondary = w.req[r].secondary
  <2>1. w.req[r].secondary \in BOOLEAN /\ u.req[r].secondary \in BOOLEAN
    BY <1>2 DEF Sound, Typed, Requested
  <2> QED BY <1>2, <1>4, <1>5, <2>1 DEF Finds, Elsewhere
<1>7. ASSUME ~v.upset, Blank(w), NEW j \in Slots
      PROVE  /\ SameFile(w.nodes[j], v.nodes[j]) \/ Fresh(w, v, r, j)
             /\ v.req[r].node = j => ~v.nodes[j].deleting
  <2>1. Blank(u)
    BY <1>2, <1>7 DEF Blank, SameFile, Vacant
  <2>2. /\ SameFile(u.nodes[j], v.nodes[j]) \/ Fresh(u, v, r, j)
        /\ v.req[r].node = j => ~v.nodes[j].deleting \/ (u.req[r].node = j /\ u.nodes[j].deleting)
    BY <1>4, <1>7, <2>1 DEF Finds
  <2>3. j # 0
    BY DEF Wellset
  <2> QED BY <1>2, <2>2, <2>3 DEF SameFile, Fresh
<1>8. Finds(w, v, r)
  BY <1>6, <1>7 DEF Finds
<1> QED BY <1>2, <1>4, <1>8 DEF SameAsk, v

\* A request that is served, and leaves its node, from a world with good books.
LEMMA ServedKeeps ==
  ASSUME IInv, NEW r \in Requests, NEW STATE w, Sound(w), Books(w), w.pc = pc, pc[r] \in {"fetch", "pipe"}, ~w.req[r].updated,
         NEW st \in {"miss", "hit", "updating", "stale", "expired", "revalidated"},
         Become(Serve(FreeCache(w, r), r, st))
  PROVE  Books(World)'
<1> DEFINE v == Serve(FreeCache(w, r), r, st)
<1>1. Wellset
  BY NowWellset
<1>2. w.pc[r] \notin Keepers \union {"dead"}
  BY DEF Keepers
<1>3. Books(v)
  BY <1>1, <1>2, ServedBooks
<1>4. Become(v)
  OBVIOUS
<1> HIDE DEF v
<1> QED BY ONLY IInv, <1>3, <1>4, BooksBecome

\* An answer that may be stored.
LEMMA AnsweredBooks ==
  ASSUME IInv, Books(World), NEW r \in Requests, pc[r] = "fetch", NEW a \in setup.answers, Answered(r, a)
  PROVE  Books(World)'
<1> DEFINE F == [fs |-> a.fs, till |-> now + a.till, vary |-> IF a.vary THEN Variant(req[r].kind) ELSE 0, bad |-> FALSE]
           c == World.req[r]
           d == [c EXCEPT !.till = now + a.till, !.temp = TRUE, !.file = F]
           w == [World EXCEPT !.req[r] = d]
           moves == req[r].secondary /\ ~a.vary
<1>1. Wellset /\ Sound(World) /\ AllPlaced(World) /\ Typed(World)
  BY NowWellset DEF Sound
<1>2. World.pc[r] = "fetch" /\ World.req = req /\ World.nodes = nodes /\ World.pc = pc
  BY WorldIs
<1>3. req[r].node # 0 /\ ~World.req[r].updated /\ req[r] \in Requested
  BY <1>1, <1>2 DEF AllPlaced, Rests, Using, Typed
<1>4. CASE ~req[r].cacheable
  <2>1. Become(Serve(FreeCache(World, r), r, "miss"))
    BY <1>4 DEF Answered
  <2> QED BY <1>1, <1>2, <1>3, <2>1, ServedKeeps
<1>5. CASE req[r].cacheable
  <2>1. PICK i \in IF moves THEN Lookup(w, req[r].kind.key) ELSE {0} :
          /\ moves /\ i = 0 => Room(w) # {}
          /\ Become(Goto(IF moves THEN UpdateVariant(w, r, i) ELSE w, r, "pipe"))
    BY <1>5, Zenon DEF Answered
  <2>2. /\ d \in Requested /\ SameHold(c, d) /\ d.updated = req[r].updated /\ d.sub = req[r].sub
        /\ d.kind = c.kind /\ d.key = c.key /\ d.node = c.node /\ d.secondary = c.secondary
    <3>1. req[r].kind \in setup.kinds
      BY <1>3 DEF Requested
    <3>2. Variant(req[r].kind) \in Nat /\ a.fs \in Nat /\ a.till \in Nat /\ now \in Nat
      BY <1>1, <3>1 DEF Wellset
    <3>3. F \in Files
      BY <3>2 DEF Files
    <3> HIDE DEF F
    <3>4. c \in Requested /\ now + a.till \in Int /\ TRUE \in BOOLEAN
      BY <1>2, <1>3, <3>2
    <3>5. d \in Requested
      BY <3>3, <3>4 DEF Requested
    <3> QED BY <1>2, <3>4, <3>5 DEF Requested, SameHold
  <2> HIDE DEF d
  <2>3. Sound(w) /\ w.pc = World.pc /\ w.req[r] = d
    BY ONLY <1>1, <2>2, r \in Requests, RecordIs
  <2>4. Talks(World, w, r)
    BY <1>1, <2>2, RecordTalks
  <2> HIDE DEF w
  <2>5. ~World.upset => (~c.secondary => c.key = c.kind.key)
    BY <1>2 DEF Books, Booked, Asks, Fits
  <2>6. CASE ~moves
    <3> DEFINE v == Goto(w, r, "pipe")
    <3>1. Become(v)
      BY <2>1, <2>6
    <3>2. Talks(w, v, r) /\ v.pc[r] = "pipe" /\ v.req = w.req
      BY <2>3, GotoTalks DEF Sound
    <3> HIDE DEF v
    <3>3. Talks(World, v, r)
      BY <2>4, <3>2, TalkOn
    <3>4. ASSUME ~v.upset
          PROVE  Fits(v.req[r], v.pc[r]) /\ (World.pc[r] \in Keepers => Kept(v, World.req[r].key))
      <4>1. ~World.upset
        BY <3>3, <3>4 DEF Talks, Elsewhere
      <4> QED BY <1>2, <2>2, <2>3, <2>5, <3>2, <4>1 DEF Fits, Asking, Keepers
    <3>5. Books(v)
      BY ONLY <1>1, <3>3, <3>4, Books(World), r \in Requests, TalkBooks
    <3> QED BY ONLY IInv, <3>1, <3>5, BooksBecome
  <2>7. CASE moves
    <3> DEFINE u == UpdateVariant(w, r, i)
               v == Goto(u, r, "pipe")
    <3>1. Become(v)
      BY <2>1, <2>7
    <3>2. i \in Slots \union {0} /\ (i # 0 => w.nodes[i].key = w.req[r].kind.key) /\ (i = 0 => Room(w) # {})
      BY <1>2, <2>1, <2>2, <2>3, <2>7 DEF Lookup
    <3>3. w.req[r].node # 0 /\ w.req[r].secondary /\ w.req[r].kind = c.kind /\ c.secondary
      BY <1>2, <1>3, <2>2, <2>3, <2>7
    <3>4. Finds(w, u, r) /\ u.req[r].key = c.kind.key
      BY ONLY <1>1, <2>3, <3>2, <3>3, r \in Requests, MovesFinds
    <3>5. Sound(u) /\ u.pc = w.pc
      BY ONLY <1>1, <2>3, <3>2, <3>3, r \in Requests, UpdateVariantIs
    <3> HIDE DEF u
    <3>6. Talks(u, v, r) /\ v.pc[r] = "pipe" /\ v.req = u.req
      BY <3>5, GotoTalks DEF Sound
    <3> HIDE DEF v
    <3>7. Finds(World, u, r)
      <4>1. Elsewhere(World, u, r) /\ u.pc = World.pc /\ u.req[r].kind = c.kind /\ u.req[r].secondary = c.secondary
        BY <2>3, <2>4, <3>4 DEF Talks, Finds, Elsewhere
      <4>2. w.nodes = World.nodes /\ w.req[r].node = c.node
        BY <2>4 DEF Talks
      <4>3. Blank(World) => Blank(w)
        BY <4>2 DEF Blank
      <4> QED BY <3>4, <4>1, <4>2, <4>3 DEF Finds, Fresh
    <3>8. ASSUME ~v.upset
          PROVE  Fits(v.req[r], v.pc[r])
      <4>1. v.req[r].secondary
        BY <3>3, <3>6, <3>7 DEF Finds
      <4> QED BY <3>6, <4>1 DEF Fits, Asking
    <3>9. v.req[r].key \in Keys /\ v.req[r].key = World.req[r].kind.key
      BY <3>4, <3>5, <3>6 DEF Sound, Typed, Requested
    <3>10. World.pc[r] \notin Keepers /\ World.req[r].secondary
      BY <1>2, <3>3 DEF Keepers
    <3>11. Books(v)
      BY ONLY <1>1, <3>6, <3>7, <3>8, <3>9, <3>10, Books(World), r \in Requests, FindsBooks
    <3> QED BY ONLY IInv, <3>1, <3>11, BooksBecome
  <2> QED BY <2>6, <2>7
<1> QED BY <1>4, <1>5

\* An error, noted at the node or not.
LEMMA FailedBooks ==
  ASSUME IInv, Books(World), NEW r \in Requests, pc[r] = "fetch", NEW a \in setup.answers, Failed(r, a)
  PROVE  Books(World)'
<1> DEFINE c == World.req[r]
           d == [c EXCEPT !.error = TRUE, !.till = now + a.till]
           w == IF a.till > 0 /\ req[r].cacheable THEN [World EXCEPT !.req[r] = d] ELSE World
<1>1. Wellset /\ Sound(World) /\ AllPlaced(World) /\ Typed(World)
  BY NowWellset DEF Sound
<1>2. World.pc[r] = "fetch" /\ World.req = req /\ World.pc = pc
  BY WorldIs
<1>3. ~c.updated /\ c \in Requested
  BY <1>1, <1>2 DEF AllPlaced, Rests, Typed
<1>4. Become(Serve(FreeCache(w, r), r, "miss"))
  BY DEF Failed
<1>5. /\ d \in Requested /\ SameHold(c, d) /\ d.updated = c.updated
      /\ d.kind = c.kind /\ d.key = c.key /\ d.node = c.node /\ d.secondary = c.secondary /\ d.status = c.status /\ d.file = c.file
  <2>1. now + a.till \in Int
    BY <1>1 DEF Wellset
  <2> QED BY <1>3, <2>1 DEF Requested, SameHold
<1> HIDE DEF d
<1>6. Sound(w) /\ w.pc = pc /\ ~w.req[r].updated /\ Books(w)
  <2>1. CASE a.till > 0 /\ req[r].cacheable
    <3> DEFINE x == [World EXCEPT !.req[r] = d]
    <3>1. Sound(x) /\ x.pc = World.pc /\ x.req[r] = d
      BY ONLY <1>1, <1>5, r \in Requests, RecordIs
    <3>2. Talks(World, x, r)
      BY <1>1, <1>5, RecordTalks
    <3>3. w = x
      BY <2>1
    <3> HIDE DEF w, x
    <3>4. ASSUME ~x.upset
          PROVE  Fits(x.req[r], x.pc[r]) /\ (World.pc[r] \in Keepers => Kept(x, World.req[r].key))
      <4>1. Fits(c, World.pc[r])
        BY <3>2, <3>4 DEF Talks, Elsewhere, Books, Booked, Asks
      <4> QED BY <1>2, <1>5, <3>1, <4>1 DEF Fits, Keepers
    <3>5. Books(x)
      BY ONLY <1>1, <3>2, <3>4, Books(World), r \in Requests, TalkBooks
    <3> QED BY <1>2, <1>3, <1>5, <3>1, <3>3, <3>5
  <2>2. CASE ~(a.till > 0 /\ req[r].cacheable)
    BY <1>1, <1>2, <1>3, <2>2
  <2> QED BY <2>1, <2>2
<1> HIDE DEF w
<1> QED BY <1>4, <1>6, ServedKeeps

\* Files that change; one that comes is known, and its node is not being deleted.
LEMMA DiskBooks ==
  ASSUME Wellset, NEW w, Typed(w), Books(w), NEW f \in [Keys -> Files],
         ~w.upset => \A k \in Keys : f[k] # NoFile /\ w.disk[k] = NoFile =>
           Known(w, k) /\ \A i \in Slots : w.nodes[i].key = k => ~w.nodes[i].deleting
  PROVE  Books([w EXCEPT !.disk = f])
<1> DEFINE v == [w EXCEPT !.disk = f]
<1>1. v = [w EXCEPT !.disk = f]
  OBVIOUS
<1> HIDE DEF v
<1>2. /\ v.pc = w.pc /\ v.req = w.req /\ v.nodes = w.nodes /\ v.sh = w.sh /\ v.disk = f /\ v.todo = w.todo
      /\ v.del = w.del /\ v.upset = w.upset
  BY <1>1 DEF Typed
<1>3. Sheet(v)
  BY <1>2 DEF Books, Sheet
<1>4. ASSUME ~v.upset
      PROVE  Booked(v)
  <2>1. Single(w) /\ Blank(w) /\ Gone(w) /\ Sized(w) /\ Filed(w) /\ \A s \in Requests : Asks(w, s)
    BY <1>2, <1>4 DEF Books, Booked
  <2>2. \A k \in Keys : f[k] # NoFile /\ w.disk[k] = NoFile =>
          Known(w, k) /\ \A i \in Slots : w.nodes[i].key = k => ~w.nodes[i].deleting
    BY <1>2, <1>4
  <2>3. \A k \in Keys : (Kept(w, k) => Kept(v, k)) /\ (Unseen(w, k) => Unseen(v, k))
    BY <1>2, <2>2 DEF Kept, Known, Unseen
  <2>4. Single(v) /\ Blank(v) /\ Sized(v)
    BY <1>2, <2>1 DEF Single, Blank, Sized, Sizes
  <2>5. Filed(v)
    BY <2>1, <2>3 DEF Filed
  <2>6. \A s \in Requests : Asks(v, s)
    <3>1. \A s \in Requests : w.req[s].kind.key \in Keys
      BY DEF Typed, Requested, Wellset
    <3> QED BY <1>2, <2>1, <2>3, <3>1 DEF Asks
  <2>7. Gone(v)
    <3> SUFFICES ASSUME NEW p \in Processes, w.del[p].node # 0, w.del[p].gone
                 PROVE  f[w.nodes[w.del[p].node].key] = NoFile
      BY <1>2, <2>1 DEF Gone
    <3>1. w.disk[w.nodes[w.del[p].node].key] = NoFile /\ w.nodes[w.del[p].node].deleting
      BY <2>1 DEF Gone
    <3>2. w.del[p].node \in Slots
      BY NodePlace
    <3>3. w.nodes[w.del[p].node].key # 0
      BY <2>1, <3>1, <3>2 DEF Blank, Vacant
    <3>4. w.nodes[w.del[p].node].key \in Keys
      BY <3>2, <3>3 DEF Typed, Nodes
    <3> QED BY <2>2, <3>1, <3>2, <3>4
  <2> QED BY <2>1, <2>4, <2>5, <2>6, <2>7 DEF Booked
<1> QED BY <1>3, <1>4 DEF Books, v

\* The header of a file is written anew.
LEMMA RevalidatedBooks ==
  ASSUME IInv, Books(World), NEW r \in Requests, pc[r] = "fetch", req[r].status = "expired", NEW a \in setup.answers, Revalidated(r, a)
  PROVE  Books(World)'
<1> DEFINE t == now + a.till
           w == UpdateHeader(World, r, t)
           k == World.req[r].key
           f == [World.disk EXCEPT ![k].till = t]
<1>1. Wellset /\ Sound(World) /\ AllPlaced(World) /\ Typed(World)
  BY NowWellset DEF Sound
<1>2. World.pc[r] = "fetch" /\ World.req = req /\ World.pc = pc
  BY WorldIs
<1>3. ~req[r].updated /\ k \in Keys
  <2>1. ~req[r].updated /\ World.req[r] \in Requested
    BY <1>1, <1>2 DEF AllPlaced, Rests, Typed
  <2> QED BY <2>1 DEF Requested
<1>4. Become(Serve(FreeCache(w, r), r, "revalidated"))
  BY DEF Revalidated
<1>5. CASE World.disk[k] # World.req[r].file
  <2>1. w = World
    BY <1>5 DEF UpdateHeader
  <2> HIDE DEF w
  <2>2. Become(Serve(FreeCache(World, r), r, "revalidated"))
    BY <1>4, <2>1
  <2> QED BY <1>1, <1>2, <1>3, <2>2, ServedKeeps
<1>6. CASE World.disk[k] = World.req[r].file
  <2>1. w = [World EXCEPT !.disk = f]
    BY <1>6 DEF UpdateHeader
  <2>2. t \in Int /\ World.disk \in [Keys -> Files]
    BY <1>1 DEF Wellset, Typed
  <2> HIDE DEF t
  <2>3. \A g \in Files : [g EXCEPT !.till = t] \in Files
    BY <2>2 DEF Files
  <2>4. [World.disk[k] EXCEPT !.till = t] \in Files
    BY <1>3, <2>2, <2>3
  <2>5. f \in [Keys -> Files] /\ f[k] = [World.disk[k] EXCEPT !.till = t] /\ \A l \in Keys \ {k} : f[l] = World.disk[l]
    BY <1>3, <2>2, <2>4
  <2>6. ASSUME ~World.upset
        PROVE  \A l \in Keys : f[l] # NoFile => World.disk[l] # NoFile
    <3>1. Fits(World.req[r], "fetch")
      BY <1>2, <2>6 DEF Books, Booked, Asks
    <3>2. World.disk[k] # NoFile
      BY <1>2, <1>6, <3>1 DEF Fits
    <3> QED BY <2>5, <3>2
  <2>7. Books([World EXCEPT !.disk = f])
    BY ONLY <1>1, <2>5, <2>6, Books(World), DiskBooks
  <2>8. LET x == [World EXCEPT !.disk = f] IN Sound(x) /\ x.pc = World.pc /\ x.req = World.req
    BY ONLY <1>1, <2>5, DiskIs
  <2> HIDE DEF w, f
  <2>9. Sound(w) /\ w.pc = pc /\ ~w.req[r].updated /\ Books(w)
    BY <1>2, <1>3, <2>1, <2>7, <2>8
  <2> QED BY <1>4, <2>9, ServedKeeps
<1> QED BY <1>5, <1>6

\* The answer of the upstream.
LEMMA AnswerBooks ==
  ASSUME IInv, Books(World), NEW r \in Requests, Answer(r)
  PROVE  Books(World)'
<1>1. pc[r] = "fetch"
  BY DEF Answer
<1>2. PICK a \in setup.answers :
       CASE a.kind = "good" -> Answered(r, a)
         [] a.kind = "private" -> Become(Serve(FreeCache(World, r), r, "miss"))
         [] a.kind = "error" -> IF req[r].status = "expired" /\ setup.useStale THEN Become(Serve(FreeCache(World, r), r, "stale"))
                                ELSE Failed(r, a)
         [] OTHER -> req[r].status = "expired" /\ Revalidated(r, a)
  BY Zenon DEF Answer
<1>3. \/ Answered(r, a) \/ Failed(r, a) \/ (req[r].status = "expired" /\ Revalidated(r, a))
      \/ \E st \in {"miss", "stale"} : Become(Serve(FreeCache(World, r), r, st))
  BY <1>2
<1>4. ASSUME NEW st \in {"miss", "stale"}, Become(Serve(FreeCache(World, r), r, st))
      PROVE  Books(World)'
  <2>1. Sound(World) /\ AllPlaced(World) /\ World.pc = pc
    BY NowWellset, WorldIs
  <2>2. ~World.req[r].updated
    BY <1>1, <2>1 DEF AllPlaced, Rests
  <2>3. st \in {"miss", "hit", "updating", "stale", "expired", "revalidated"} /\ pc[r] \in {"fetch", "pipe"}
    BY <1>1
  <2> QED BY ONLY IInv, Books(World), r \in Requests, <1>4, <2>1, <2>2, <2>3, ServedKeeps
<1> QED BY <1>1, <1>3, <1>4, AnsweredBooks, FailedBooks, RevalidatedBooks

\* A node whose file could not be replaced counts for nothing; one that had none stays as it was.
LEMMA UnplacedBooks ==
  ASSUME IInv, Books(World), NEW r \in Requests, pc[r] = "pipe", Unplaced(r)
  PROVE  Books(World)'
<1> DEFINE w == World
           i == req[r].node
           b == Rob(w, r)
           u == Serve(b, r, "miss")
           x == [nodes[i] EXCEPT !.count = @ - 1, !.error = FALSE, !.fs = 0, !.updating = FALSE]
           d == [u.req[r] EXCEPT !.updated = TRUE, !.updating = FALSE, !.node = 0, !.temp = FALSE]
           n == [u.nodes EXCEPT ![i] = x]
           h == [u.sh EXCEPT !.size = @ - nodes[i].fs]
           q == [u.req EXCEPT ![r] = d]
           v == [u EXCEPT !.nodes = n, !.sh = h, !.req = q]
<1>1. Wellset /\ Sound(w) /\ AllPlaced(w) /\ Typed(w) /\ Named(w)
  BY NowWellset DEF Sound
<1>2. w.pc[r] = "pipe" /\ w.req = req /\ w.nodes = nodes
  BY WorldIs
<1>3. i # 0 /\ req[r] \in Requested
  BY <1>1, <1>2 DEF AllPlaced, Rests, Using, Typed
<1>4. i \in Slots /\ nodes[i] \in Nodes /\ nodes[i].key = req[r].key /\ req[r].key # 0
  <2>1. i \in Slots /\ req[r].key # 0
    BY <1>1, <1>2, <1>3, NodePlace
  <2> QED BY <1>1, <1>2, <1>3, <2>1 DEF Typed, Named
<1>5. Become(v)
  BY DEF Unplaced
<1>6. x \in Nodes /\ x.key = nodes[i].key /\ x.exists = nodes[i].exists /\ x.fs = 0 /\ x.deleting = nodes[i].deleting
  <2>1. nodes[i].count - 1 \in Int
    BY <1>4 DEF Nodes
  <2> QED BY <1>4, <2>1 DEF Nodes
<1>7. Sound(b) /\ b.pc = w.pc /\ b.req = w.req /\ b.del = w.del /\ b.nodes = w.nodes /\ SameBooks(w, b)
  BY ONLY <1>1, r \in Requests, RobIs
<1> HIDE DEF b, x
<1>8. Goes(b, u, r)
  BY <1>1, <1>7, ServeIs
<1>9. Talks(b, u, r) /\ u.pc[r] = "send" /\ u.upset = b.upset /\ u.sh = b.sh
  BY <1>1, <1>7, ServeTalks
<1> HIDE DEF u
<1>10. /\ Typed(u) /\ u.nodes = nodes /\ u.sh = w.sh /\ u.disk = w.disk /\ u.todo = w.todo /\ u.del = w.del /\ u.upset = w.upset
       /\ \A s \in Requests \ {r} : u.pc[s] = w.pc[s] /\ u.req[s] = w.req[s]
       /\ u.req[r].kind = w.req[r].kind /\ u.req[r].key = w.req[r].key /\ u.req[r].secondary = w.req[r].secondary
  BY <1>2, <1>7, <1>8, <1>9 DEF Goes, Talks, Elsewhere, SameBooks
<1>11. d \in Requested /\ d.node = 0 /\ d.kind = w.req[r].kind /\ d.key = w.req[r].key /\ d.secondary = w.req[r].secondary
  <2>1. u.req[r] \in Requested /\ 0 \in Slots \union {0}
    BY <1>10 DEF Typed
  <2> QED BY <1>10, <2>1 DEF Requested
<1> HIDE DEF d
<1>12. n \in [Slots -> Nodes] /\ n[i] = x /\ \A j \in Slots \ {i} : n[j] = nodes[j]
  BY <1>4, <1>6, <1>10 DEF Typed
<1>13. q \in [Requests -> Requested] /\ q[r] = d /\ \A s \in Requests \ {r} : q[s] = w.req[s]
  BY <1>10, <1>11 DEF Typed
<1>14. v = [u EXCEPT !.nodes = n, !.sh = h, !.req = q]
  OBVIOUS
<1>15. Sheet(w)
  BY DEF Books
<1>16. /\ h = [size |-> h.size, cold |-> h.cold, loading |-> h.loading, watermark |-> h.watermark]
       /\ h.cold = w.sh.cold /\ h.loading = w.sh.loading /\ h.size = w.sh.size - nodes[i].fs
  BY <1>10, <1>15 DEF Sheet
<1> HIDE DEF n, h, q, v, w
<1>17. /\ Typed(v) /\ v.pc = u.pc /\ v.req = q /\ v.del = u.del /\ v.nodes = n /\ v.sh = h /\ v.disk = u.disk
       /\ v.todo = u.todo /\ v.upset = u.upset
  BY <1>10, <1>12, <1>13, <1>14 DEF Typed
<1>18. Sheet(v)
  BY <1>15, <1>16, <1>17 DEF Sheet
<1>19. CASE w.upset
  <2>1. Books(v)
    BY <1>10, <1>17, <1>18, <1>19 DEF Books
  <2> QED BY ONLY IInv, <1>5, <2>1, BooksBecome
<1>20. v.pc[r] = "send" /\ v.req[r] = d /\ \A s \in Requests \ {r} : v.pc[s] = w.pc[s] /\ v.req[s] = w.req[s]
  BY <1>9, <1>10, <1>13, <1>17
<1>21. ASSUME ~w.upset
       PROVE  Booked(w) /\ ~w.nodes[i].deleting /\ Fits(w.req[r], "pipe") /\ Fits(d, "send")
  <2>1. Booked(w)
    BY <1>21 DEF Books, w
  <2>2. ~w.nodes[i].deleting /\ Fits(w.req[r], "pipe")
    BY <1>2, <1>4, <2>1 DEF Booked, Gone, Asks
  <2> QED BY <1>11, <2>1, <2>2 DEF Fits, Asking
<1>22. Books(w) /\ i \in Slots
  BY <1>4 DEF w
<1>23. nodes[i].fs \in Nat /\ (~w.upset => w.sh.size \in Int)
  <2>1. \A j \in Slots : w.nodes[j].fs \in Int
    <3>1. \A j \in Slots : w.nodes[j] \in Nodes
      BY <1>1 DEF Typed
    <3> QED BY <3>1 DEF Nodes
  <2>2. Sizes(w) \in [1 .. setup.slots -> Int] /\ setup.slots \in Nat
    BY <1>1, <2>1 DEF Sizes, Worth, Slots, Wellset
  <2>3. Sum(Sizes(w), setup.slots) \in Int
    BY ONLY <2>2, SumTyped
  <2> QED BY <1>4, <1>21, <2>3 DEF Booked, Sized, Nodes
<1>24. CASE ~w.upset /\ w.nodes[i].exists
  <2>1. Counts(w, v, i)
    <3>1. v.sh.size = w.sh.size + v.nodes[i].fs - w.nodes[i].fs
      BY <1>2, <1>6, <1>12, <1>16, <1>17, <1>23, <1>24
    <3>2. \A j \in Slots \ {i} : SameFile(w.nodes[j], v.nodes[j])
      BY <1>2, <1>12, <1>17 DEF SameFile
    <3>3. v.nodes[i].exists /\ v.nodes[i].key # 0 /\ v.nodes[i].key = w.nodes[i].key /\ v.nodes[i].deleting = w.nodes[i].deleting
      BY <1>2, <1>4, <1>6, <1>12, <1>17, <1>24
    <3>4. /\ v.disk = w.disk /\ v.del = w.del /\ v.todo = w.todo /\ v.upset = w.upset
          /\ v.sh.cold = w.sh.cold /\ v.sh.loading = w.sh.loading
      BY <1>10, <1>16, <1>17
    <3> QED BY <3>1, <3>2, <3>3, <3>4 DEF Counts
  <2>2. Carries(w, v, i)
    <3> SUFFICES ASSUME NEW s \in Requests
                 PROVE  /\ v.req[s].secondary => w.req[s].secondary /\ v.req[s].kind = w.req[s].kind
                        /\ v.req[s].node \in {0, w.req[s].node}
                        /\ ~v.upset => Fits(v.req[s], v.pc[s])
                        /\ w.pc[s] \in Keepers => (v.pc[s] \in Keepers /\ v.req[s].key = w.req[s].key)
                                                  \/ w.req[s].key = v.nodes[i].key
      BY DEF Carries
    <3>1. CASE s = r
      BY <1>2, <1>11, <1>20, <1>21, <1>24, <3>1 DEF Keepers
    <3>2. CASE s # r
      BY <1>20, <1>21, <1>24, <3>2 DEF Booked, Asks
    <3> QED BY <3>1, <3>2
  <2> HIDE DEF i
  <2>3. Books(v)
    BY ONLY <1>1, <1>17, <1>18, <1>21, <1>22, <1>24, <2>1, <2>2, CountsBooks
  <2> QED BY ONLY IInv, <1>5, <2>3, BooksBecome
<1>25. CASE ~w.upset /\ ~w.nodes[i].exists
  <2>1. w.nodes[i].fs = 0
    BY <1>21, <1>22, <1>25 DEF Booked, Blank, Vacant
  <2>2. h.size = w.sh.size /\ \A j \in Slots : SameFile(w.nodes[j], v.nodes[j])
    BY <1>2, <1>6, <1>12, <1>16, <1>17, <1>23, <1>25, <2>1 DEF SameFile
  <2>3. Elsewhere(w, v, r)
    BY <1>10, <1>16, <1>17, <1>18, <1>20, <2>2 DEF Elsewhere
  <2>4. Ready(w, v, r)
    <3>1. \A j \in Slots : j # 0
      BY <1>1 DEF Wellset
    <3>2. \A j \in Slots : v.req[r].node # j
      BY <1>11, <1>20, <3>1
    <3> QED BY <1>2, <1>11, <1>20, <1>21, <1>25, <3>2 DEF Ready, Keepers
  <2>5. \A j \in Slots : Stays(w, v, j)
    BY <2>2 DEF Stays
  <2>6. Books(v)
    BY ONLY <1>1, <1>22, <2>3, <2>4, <2>5, BooksStay
  <2> QED BY ONLY IInv, <1>5, <2>6, BooksBecome
<1> QED BY <1>19, <1>24, <1>25

\* The file is written while the request that has it in its hands has a node for it.
LEMMA StoredBooks ==
  ASSUME IInv, Books(World), NEW r \in Requests, Stored(r)
  PROVE  Books(World)'
<1> DEFINE w == World
           k == req[r].key
           u == Goto(w, r, "update")
           f == [u.disk EXCEPT ![k] = req[r].file]
           a == [u EXCEPT !.disk = f]
           d == [u.req[r] EXCEPT !.temp = FALSE]
           v == [a EXCEPT !.req[r] = d]
<1>1. Wellset /\ Sound(w) /\ AllPlaced(w) /\ Typed(w) /\ Named(w)
  BY NowWellset DEF Sound
<1>2. pc[r] = "pipe" /\ w.pc[r] = "pipe" /\ w.req = req /\ w.pc = pc
  BY WorldIs DEF Stored
<1>3. w.req[r].node # 0 /\ ~w.req[r].updated /\ w.req[r] \in Requested
  BY <1>1, <1>2 DEF AllPlaced, Rests, Using, Typed
<1>4. w.req[r].node \in Slots /\ w.nodes[w.req[r].node].key = k /\ k \in Keys /\ k # 0
  <2>1. k \in Keys /\ w.req[r].node \in Slots
    BY <1>1, <1>2, <1>3, NodePlace DEF Requested
  <2> QED BY <1>1, <1>2, <1>3, <2>1 DEF Named, Wellset
<1>5. Become(v) \/ Unplaced(r) \/ Become(Serve(FreeCache(w, r), r, "miss"))
  BY DEF Stored
<1>6. CASE Become(Serve(FreeCache(w, r), r, "miss"))
  BY <1>1, <1>2, <1>3, <1>6, ServedKeeps
<1>7. CASE Become(v)
  <2>1. Goes(w, u, r) /\ u.req = w.req /\ Typed(u)
    BY <1>1, GotoIs DEF States, Goes
  <2>2. Talks(w, u, r) /\ u.pc[r] = "update" /\ u.upset = w.upset
    BY ONLY <1>1, r \in Requests, GotoTalks
  <2> HIDE DEF u
  <2>3. ASSUME ~u.upset
        PROVE  Fits(u.req[r], u.pc[r]) /\ (w.pc[r] \in Keepers => Kept(u, w.req[r].key))
    <3>1. Fits(w.req[r], w.pc[r])
      BY <2>2, <2>3 DEF Books, Booked, Asks
    <3> QED BY <1>2, <2>1, <2>2, <3>1 DEF Fits, Asking, Keepers
  <2>4. Books(u)
    BY ONLY <1>1, <2>2, <2>3, Books(World), r \in Requests, TalkBooks
  <2>5. f \in [Keys -> Files] /\ f[k] = req[r].file /\ \A l \in Keys \ {k} : f[l] = u.disk[l]
    <3>1. req[r].file \in Files
      BY <1>2, <1>3 DEF Requested
    <3> QED BY <1>4, <2>1, <3>1 DEF Typed
  <2>6. Known(u, k)
    BY <1>2, <2>1, <2>2 DEF Known, Keepers
  <2>7. ASSUME ~u.upset, NEW i \in Slots, u.nodes[i].key = k
        PROVE  ~u.nodes[i].deleting
    <3>1. Single(u) /\ Gone(u)
      BY <2>4, <2>7 DEF Books, Booked
    <3>2. u.nodes = w.nodes /\ u.req[r].node = w.req[r].node
      BY <2>2 DEF Talks
    <3>3. i = u.req[r].node
      BY <1>4, <2>7, <3>1, <3>2 DEF Single
    <3> QED BY <3>1, <3>3 DEF Gone
  <2>8. Books(a)
    <3>1. ~u.upset => \A l \in Keys : f[l] # NoFile /\ u.disk[l] = NoFile =>
            Known(u, l) /\ \A i \in Slots : u.nodes[i].key = l => ~u.nodes[i].deleting
      BY <2>5, <2>6, <2>7
    <3> HIDE DEF f
    <3> QED BY ONLY <1>1, <2>1, <2>4, <2>5, <3>1, DiskBooks
  <2>9. Sound(u)
    BY <1>1, <2>1, GoesIs
  <2>10. Sound(a) /\ a.pc = u.pc /\ a.req = u.req /\ a.nodes = u.nodes
    <3> HIDE DEF f
    <3> QED BY ONLY <1>1, <2>5, <2>9, DiskIs
  <2> HIDE DEF a
  <2>11. Typed(a) /\ a.req[r] \in Requested
    BY <2>10 DEF Sound, Typed
  <2>12. /\ d.kind = a.req[r].kind /\ d.key = a.req[r].key /\ d.node = a.req[r].node /\ d.secondary = a.req[r].secondary
         /\ d.status = a.req[r].status /\ d.file = a.req[r].file
    BY <2>10, <2>11 DEF Requested
  <2> HIDE DEF d
  <2>13. Talks(a, v, r) /\ v.pc = a.pc /\ v.req[r] = d
    BY <2>11, <2>12, RecordTalks
  <2> HIDE DEF v
  <2>14. ASSUME ~v.upset
         PROVE  Fits(v.req[r], v.pc[r]) /\ (a.pc[r] \in Keepers => Kept(v, a.req[r].key))
    <3>1. Fits(a.req[r], a.pc[r])
      BY <2>8, <2>13, <2>14 DEF Talks, Elsewhere, Books, Booked, Asks
    <3>2. v.pc[r] = "update" /\ v.req[r].key = a.req[r].key
      BY <2>2, <2>10, <2>12, <2>13
    <3>3. Kept(v, a.req[r].key)
      BY <3>2 DEF Kept, Known, Keepers
    <3> QED BY <2>12, <2>13, <3>1, <3>3 DEF Fits
  <2>15. Books(v)
    BY ONLY <1>1, <2>8, <2>11, <2>13, <2>14, r \in Requests, TalkBooks
  <2> QED BY ONLY IInv, <1>7, <2>15, BooksBecome
<1>8. CASE Unplaced(r)
  BY <1>2, <1>8, UnplacedBooks
<1> QED BY <1>5, <1>6, <1>7, <1>8

\* The node gets the file that was written for it, and knows it from then on.
LEMMA UpdateBooks ==
  ASSUME IInv, Books(World), NEW r \in Requests, Update(r)
  PROVE  Books(World)'
<1> DEFINE w == World
           i == req[r].node
           b == Rob(w, r)
           u == Serve(b, r, "miss")
           x == [nodes[i] EXCEPT !.count = @ - 1, !.error = FALSE, !.fs = req[r].file.fs, !.exists = TRUE, !.updating = FALSE]
           d == [u.req[r] EXCEPT !.updated = TRUE, !.updating = FALSE, !.node = 0]
           n == [u.nodes EXCEPT ![i] = x]
           h == [u.sh EXCEPT !.size = @ + req[r].file.fs - nodes[i].fs]
           q == [u.req EXCEPT ![r] = d]
           v == [u EXCEPT !.nodes = n, !.sh = h, !.req = q]
<1>1. Wellset /\ Sound(w) /\ AllPlaced(w) /\ Typed(w) /\ Named(w)
  BY NowWellset DEF Sound
<1>2. pc[r] = "update" /\ w.pc[r] = "update" /\ w.req = req /\ w.nodes = nodes
  BY WorldIs DEF Update
<1>3. i # 0 /\ req[r] \in Requested
  BY <1>1, <1>2 DEF AllPlaced, Rests, Using, Typed
<1>4. i \in Slots /\ nodes[i] \in Nodes /\ req[r].file.fs \in Nat /\ nodes[i].key = req[r].key /\ req[r].key # 0
  <2>1. i \in Slots /\ req[r].file \in Files /\ req[r].key # 0
    BY <1>1, <1>2, <1>3, NodePlace DEF Requested
  <2> QED BY <1>1, <1>2, <1>3, <2>1 DEF Typed, Files, Named
<1>5. Become(v)
  BY DEF Update
<1>6. x \in Nodes /\ x.key = nodes[i].key /\ x.exists /\ x.fs = req[r].file.fs /\ x.deleting = nodes[i].deleting
  <2>1. nodes[i].count - 1 \in Int
    BY <1>4 DEF Nodes
  <2> QED BY <1>4, <2>1 DEF Nodes
<1>7. Sound(b) /\ b.pc = w.pc /\ b.req = w.req /\ b.del = w.del /\ b.nodes = w.nodes /\ SameBooks(w, b)
  BY ONLY <1>1, r \in Requests, RobIs
<1> HIDE DEF b, x
<1>8. Goes(b, u, r)
  BY <1>1, <1>7, ServeIs
<1>9. Talks(b, u, r) /\ u.pc[r] = "send" /\ u.upset = b.upset /\ u.sh = b.sh
  BY <1>1, <1>7, ServeTalks
<1> HIDE DEF u
<1>10. /\ Typed(u) /\ u.nodes = nodes /\ u.sh = w.sh /\ u.disk = w.disk /\ u.todo = w.todo /\ u.del = w.del /\ u.upset = w.upset
       /\ \A s \in Requests \ {r} : u.pc[s] = w.pc[s] /\ u.req[s] = w.req[s]
       /\ u.req[r].kind = w.req[r].kind /\ u.req[r].key = w.req[r].key /\ u.req[r].secondary = w.req[r].secondary
  BY <1>2, <1>7, <1>8, <1>9 DEF Goes, Talks, Elsewhere, SameBooks
<1>11. d \in Requested /\ d.node = 0 /\ d.kind = w.req[r].kind /\ d.key = w.req[r].key /\ d.secondary = w.req[r].secondary
  <2>1. u.req[r] \in Requested /\ 0 \in Slots \union {0}
    BY <1>10 DEF Typed
  <2> QED BY <1>10, <2>1 DEF Requested
<1> HIDE DEF d
<1>12. n \in [Slots -> Nodes] /\ n[i] = x /\ \A j \in Slots \ {i} : n[j] = nodes[j]
  BY <1>4, <1>6, <1>10 DEF Typed
<1>13. q \in [Requests -> Requested] /\ q[r] = d /\ \A s \in Requests \ {r} : q[s] = w.req[s]
  BY <1>10, <1>11 DEF Typed
<1>14. v = [u EXCEPT !.nodes = n, !.sh = h, !.req = q]
  OBVIOUS
<1>15. Sheet(w)
  BY DEF Books
<1>16. /\ h = [size |-> h.size, cold |-> h.cold, loading |-> h.loading, watermark |-> h.watermark]
       /\ h.cold = w.sh.cold /\ h.loading = w.sh.loading /\ h.size = w.sh.size + req[r].file.fs - nodes[i].fs
  BY <1>10, <1>15 DEF Sheet
<1> HIDE DEF n, h, q, v, w
<1>17. /\ Typed(v) /\ v.pc = u.pc /\ v.req = q /\ v.del = u.del /\ v.nodes = n /\ v.sh = h /\ v.disk = u.disk
       /\ v.todo = u.todo /\ v.upset = u.upset
  BY <1>10, <1>12, <1>13, <1>14 DEF Typed
<1>18. Sheet(v)
  BY <1>15, <1>16, <1>17 DEF Sheet
<1>19. CASE w.upset
  <2>1. Books(v)
    BY <1>10, <1>17, <1>18, <1>19 DEF Books
  <2> QED BY ONLY IInv, <1>5, <2>1, BooksBecome
<1>20. CASE ~w.upset
  <2>1. Gone(w) /\ \A s \in Requests : Asks(w, s)
    BY <1>20 DEF Books, Booked, w
  <2>2. ~w.nodes[i].deleting
    BY <1>2, <1>4, <2>1 DEF Gone
  <2>3. Counts(w, v, i)
    BY <1>2, <1>4, <1>6, <1>10, <1>12, <1>16, <1>17 DEF Counts, SameFile
  <2>4. Carries(w, v, i)
    <3> SUFFICES ASSUME NEW s \in Requests
                 PROVE  /\ v.req[s].secondary => w.req[s].secondary /\ v.req[s].kind = w.req[s].kind
                        /\ v.req[s].node \in {0, w.req[s].node}
                        /\ ~v.upset => Fits(v.req[s], v.pc[s])
                        /\ w.pc[s] \in Keepers => (v.pc[s] \in Keepers /\ v.req[s].key = w.req[s].key)
                                                  \/ w.req[s].key = v.nodes[i].key
      BY DEF Carries
    <3>1. CASE s = r
      <4>1. v.pc[r] = "send" /\ v.req[r] = d /\ v.nodes[i].key = w.req[r].key
        BY <1>2, <1>4, <1>6, <1>9, <1>12, <1>13, <1>17
      <4>2. Fits(w.req[r], "update")
        BY <1>2, <2>1 DEF Asks
      <4> QED BY <1>11, <3>1, <4>1, <4>2 DEF Fits, Asking
    <3>2. CASE s # r
      <4>1. v.pc[s] = w.pc[s] /\ v.req[s] = w.req[s]
        BY <1>10, <1>13, <1>17, <3>2
      <4>2. Fits(w.req[s], w.pc[s])
        BY <2>1 DEF Asks
      <4> QED BY <4>1, <4>2
    <3> QED BY <3>1, <3>2
  <2>5. Books(w)
    BY DEF w
  <2>6. i \in Slots
    BY <1>4
  <2> HIDE DEF i
  <2>7. Books(v)
    BY ONLY <1>1, <1>17, <1>18, <2>2, <2>3, <2>4, <2>5, <2>6, CountsBooks
  <2> QED BY ONLY IInv, <1>5, <2>7, BooksBecome
<1> QED BY <1>19, <1>20

\* A request that ends leaves its node.
LEMMA EndBooks ==
  ASSUME IInv, Books(World), NEW r \in Requests, End(r)
  PROVE  Books(World)'
<1> DEFINE w == FreeCache(World, r)
           d == Past(r)
           v == Goto([w EXCEPT !.req[r] = d], r, "done")
<1>1. Wellset /\ Sound(World) /\ AllPlaced(World)
  BY NowWellset
<1>2. World.pc[r] = "send" /\ Become(v)
  BY WorldIs DEF End
<1>3. World.req[r].updated => World.req[r].node = 0
  BY <1>1, <1>2 DEF AllPlaced, Rests
<1>4. /\ Sound(w) /\ w.pc = World.pc /\ w.req[r].node = 0 /\ w.req[r].kind = World.req[r].kind
  BY ONLY <1>1, <1>3, r \in Requests, FreeCacheIs
<1>5. Books(w)
  BY ONLY <1>1, <1>3, Books(World), r \in Requests, FreeCacheBooks
<1>6. d \in Requested /\ d.node = 0
  BY <1>1, PastIs
<1>7. d.kind = World.req[r].kind /\ ~d.secondary /\ d.key = d.kind.key
  BY WorldIs DEF Past, New
<1>8. w.pc[r] \notin Keepers
  BY <1>2, <1>4 DEF Keepers
<1> HIDE DEF d, w
<1>9. Books(v)
  BY <1>1, <1>4, <1>5, <1>6, <1>7, <1>8, DoneTalks
<1> HIDE DEF v
<1> QED BY ONLY IInv, <1>2, <1>9, BooksBecome

-----------------------------------------------------------------------------
(* The books through what the workers that end, the manager and the loader do. *)
\* A request that is killed leaves a file that only it knows only where Crash says so.
LEMMA CrashBooks ==
  ASSUME IInv, Books(World), NEW r \in Requests, Crash(r)
  PROVE  Books(World)'
<1> DEFINE w == World
           d == [Past(r) EXCEPT !.node = req[r].node, !.key = req[r].key]
           p == [pc EXCEPT ![r] = "dead"]
           q == [req EXCEPT ![r] = d]
           v == [w EXCEPT !.pc = p, !.req = q, !.upset = upset']
<1>1. /\ Wellset /\ Sound(w) /\ AllPlaced(w) /\ Typed(w) /\ Named(w)
  BY NowWellset DEF Sound
<1>2. /\ pc' = p /\ req' = q /\ UNCHANGED <<nodes, sh, disk, del, todo, setup>>
      /\ upset' = (upset \/ pc[r] = "update" \/ (pc[r] \in {"open", "judge"} /\ \E i \in Slots : req[r].node = i /\ ~nodes[i].exists))
  BY DEF Crash
<1>3. w.pc = pc /\ w.req = req /\ w.nodes = nodes /\ w.disk = disk /\ w.del = del /\ w.todo = todo /\ w.sh = sh /\ w.upset = upset
  BY WorldIs
<1>4. d.node = req[r].node /\ ~d.secondary
  BY DEF Past, New
<1> HIDE DEF d
<1>5. p[r] = "dead" /\ q[r] = d /\ \A s \in Requests \ {r} : p[s] = w.pc[s] /\ q[s] = w.req[s]
  BY <1>1, <1>3 DEF Typed
<1>6. v = [w EXCEPT !.pc = p, !.req = q, !.upset = upset']
  OBVIOUS
<1>7. Books(w)
  OBVIOUS
<1> HIDE DEF w, p, q, v
<1>8. /\ v.pc = p /\ v.req = q /\ v.nodes = w.nodes /\ v.disk = w.disk /\ v.del = w.del /\ v.todo = w.todo /\ v.sh = w.sh
      /\ v.upset = upset'
  BY <1>1, <1>6 DEF Typed
<1>9. Elsewhere(w, v, r)
  BY <1>2, <1>3, <1>5, <1>8 DEF Elsewhere, Sheet
<1>10. \A i \in Slots : Stays(w, v, i)
  BY <1>8 DEF Stays, SameFile
<1>11. ASSUME ~v.upset
       PROVE  Ready(w, v, r)
  <2>1. Gone(w)
    BY <1>7, <1>9, <1>11 DEF Elsewhere, Books, Booked
  <2>2. ASSUME w.pc[r] \in Keepers
        PROVE  Kept(v, w.req[r].key)
    <3>1. w.pc[r] \in {"open", "judge"}
      BY <1>2, <1>3, <1>8, <1>11, <2>2 DEF Keepers
    <3>2. w.req[r].node # 0
      BY <1>1, <3>1 DEF AllPlaced, Rests, Using
    <3>3. w.req[r].node \in Slots /\ w.nodes[w.req[r].node].key = w.req[r].key
      BY <1>1, <3>2, NodePlace DEF Named
    <3>4. w.nodes[w.req[r].node].exists
      BY <1>2, <1>3, <1>8, <1>11, <3>1, <3>3
    <3> QED BY <1>8, <3>3, <3>4 DEF Kept, Known
  <2>3. ASSUME NEW i \in Slots, v.req[r].node = i
        PROVE  ~v.nodes[i].deleting
    <3>1. w.nodes[i].deleting => \A s \in Requests : w.req[s].node # i
      BY <2>1, Zenon DEF Gone
    <3>2. w.req[r].node = i
      BY <1>3, <1>4, <1>5, <1>8, <2>3
    <3> QED BY <1>8, <3>1, <3>2
  <2>4. Fits(v.req[r], v.pc[r])
    BY <1>5, <1>8 DEF Fits, Asking
  <2> QED BY <1>4, <1>5, <1>8, <2>2, <2>3, <2>4 DEF Ready
<1>12. Books(v)
  BY ONLY <1>1, <1>7, <1>9, <1>10, <1>11, BooksStay
<1>13. /\ pc' = v.pc /\ req' = v.req /\ nodes' = v.nodes /\ disk' = v.disk /\ sh' = v.sh /\ upset' = v.upset
       /\ del' = v.del /\ todo' = v.todo /\ UNCHANGED setup
  BY <1>2, <1>3, <1>8
<1> QED BY ONLY <1>12, <1>13, BooksAre

\* A step of no request: files may go, and what it does not see any more is known.
Apart(w, v) ==
  /\ v.pc = w.pc /\ v.req = w.req /\ v.upset = w.upset /\ v.sh.size = w.sh.size
  /\ \A i \in Slots : SameFile(w.nodes[i], v.nodes[i])
  /\ \A p \in Processes : /\ v.del[p].node = w.del[p].node
                          /\ v.del[p].gone /\ w.del[p].node # 0 =>
                               w.del[p].gone \/ v.disk[w.nodes[w.del[p].node].key] = NoFile
  /\ \A k \in Keys : v.disk[k] # NoFile => w.disk[k] = v.disk[k]

\* A step of no request keeps the books, if a file that was to be seen is seen.
LEMMA ApartBooks ==
  ASSUME Wellset, NEW w, Typed(w), Books(w), NEW v, Sheet(v), Apart(w, v),
         ~w.upset => \A k \in Keys : Unseen(w, k) => Kept(v, k) \/ Unseen(v, k)
  PROVE  Books(v)
<1> SUFFICES ASSUME ~v.upset
             PROVE  Booked(v)
  BY DEF Books
<1>1. Single(w) /\ Blank(w) /\ Gone(w) /\ Sized(w) /\ Filed(w) /\ (\A s \in Requests : Asks(w, s)) /\ ~w.upset
  BY DEF Books, Booked, Apart
<1>2. /\ v.pc = w.pc /\ v.req = w.req /\ v.sh.size = w.sh.size
      /\ \A k \in Keys : v.disk[k] # NoFile => w.disk[k] = v.disk[k]
  BY DEF Apart
<1>3. \A i \in Slots : /\ v.nodes[i].key = w.nodes[i].key /\ v.nodes[i].exists = w.nodes[i].exists
                       /\ v.nodes[i].deleting = w.nodes[i].deleting /\ v.nodes[i].fs = w.nodes[i].fs
  BY DEF Apart, SameFile
<1>4. Single(v) /\ Blank(v)
  BY <1>1, <1>3 DEF Single, Blank, Vacant
<1>5. Sized(v)
  <2>1. Sizes(v) = Sizes(w)
    BY <1>3 DEF Sizes, Worth
  <2> QED BY <1>1, <1>2, <2>1 DEF Sized
<1>6. \A k \in Keys : Kept(w, k) => Kept(v, k)
  BY <1>2, <1>3 DEF Kept, Known
<1>7. Filed(v)
  BY <1>1, <1>6 DEF Filed
<1>8. \A s \in Requests : Asks(v, s)
  <2>1. \A s \in Requests : w.req[s].kind.key \in Keys
    BY DEF Typed, Requested, Wellset
  <2> QED BY <1>1, <1>2, <1>6, <2>1 DEF Asks
<1>9. Gone(v)
  <2>1. ASSUME NEW i \in Slots, v.nodes[i].deleting
        PROVE  (\A s \in Requests : v.req[s].node # i) /\ \E p \in Processes : v.del[p].node = i
    <3>1. w.nodes[i].deleting
      BY <1>3, <2>1
    <3>2. (\A s \in Requests : w.req[s].node # i) /\ \E p \in Processes : w.del[p].node = i
      BY <1>1, <3>1 DEF Gone
    <3> QED BY <1>2, <3>2 DEF Apart
  <2>2. ASSUME NEW p \in Processes, v.del[p].node # 0
        PROVE  /\ v.nodes[v.del[p].node].deleting
               /\ v.del[p].gone => v.disk[v.nodes[v.del[p].node].key] = NoFile
               /\ \A q \in Processes : v.del[q].node = v.del[p].node => p = q
    <3> DEFINE i == w.del[p].node
               k == w.nodes[i].key
    <3>1. /\ v.del[p].node = i /\ i \in Slots /\ i # 0
          /\ v.del[p].gone => w.del[p].gone \/ v.disk[k] = NoFile
          /\ \A q \in Processes : v.del[q].node = w.del[q].node
      BY <2>2, NodePlace DEF Apart
    <3>2. /\ w.nodes[i].deleting
          /\ w.del[p].gone => w.disk[k] = NoFile
          /\ \A q \in Processes : w.del[q].node = i => p = q
      BY <1>1, <3>1 DEF Gone
    <3>3. k # 0
      BY <1>1, <3>1, <3>2 DEF Blank, Vacant
    <3>4. k \in Keys
      BY <3>1, <3>3 DEF Typed, Nodes
    <3>5. v.nodes[i].key = k /\ v.nodes[i].deleting
      BY <1>3, <3>1, <3>2
    <3> HIDE DEF i, k
    <3> QED BY <1>2, <3>1, <3>2, <3>4, <3>5
  <2> QED BY <2>1, <2>2 DEF Gone
<1> QED BY <1>4, <1>5, <1>7, <1>8, <1>9 DEF Booked

\* What a process does for its own, or to the place of a node in the queue.
LEMMA TouchFiles ==
  ASSUME Wellset, NEW w, Typed(w), NEW i \in Slots
  PROVE  LET t == Touch(w, i) IN
         /\ t.pc = w.pc /\ t.req = w.req /\ t.del = w.del /\ t.sh = w.sh /\ t.disk = w.disk /\ t.todo = w.todo
         /\ t.upset = w.upset /\ \A j \in Slots : SameFile(w.nodes[j], t.nodes[j])
<1> DEFINE y == [w.nodes[i] EXCEPT !.expire = now + setup.inactive]
           m == [w.nodes EXCEPT ![i] = y]
           q == <<i>> \o Without(w.queue, i)
           t == Touch(w, i)
<1>1. t = [w EXCEPT !.queue = q, !.nodes = m]
  BY DEF Touch
<1>2. w.nodes[i] \in Nodes
  BY DEF Typed
<1>3. SameFile(w.nodes[i], y)
  BY <1>2 DEF Nodes, SameFile
<1> HIDE DEF y
<1>4. m[i] = y /\ \A j \in Slots \ {i} : m[j] = w.nodes[j]
  BY DEF Typed
<1>5. \A j \in Slots : SameFile(w.nodes[j], m[j])
  BY <1>3, <1>4 DEF SameFile
<1> HIDE DEF m, q, t
<1>6. /\ t.pc = w.pc /\ t.req = w.req /\ t.del = w.del /\ t.sh = w.sh /\ t.disk = w.disk /\ t.todo = w.todo
      /\ t.upset = w.upset /\ t.nodes = m
  BY <1>1 DEF Typed
<1> QED BY <1>5, <1>6 DEF t

\* A file is deleted: its node knows that it is.
LEMMA UnlinkBooks ==
  ASSUME IInv, Books(World), NEW p \in Processes, Unlink(p)
  PROVE  Books(World)'
<1> DEFINE w == World
           k == nodes[del[p].node].key
           e == [w.del[p] EXCEPT !.gone = TRUE]
           D == [w.del EXCEPT ![p] = e]
           f == [w.disk EXCEPT ![k] = NoFile]
           v == [w EXCEPT !.del = D, !.disk = f]
<1>1. Wellset /\ Typed(w) /\ Named(w)
  BY NowWellset DEF Sound
<1>2. del[p].node # 0 /\ w.del = del /\ w.nodes = nodes /\ Become(v)
  BY WorldIs DEF Unlink
<1>3. e.node = w.del[p].node
  <2>1. w.del[p] \in Deletions /\ w.del[p].node # 0
    BY <1>1, <1>2 DEF Typed
  <2>2. w.del[p] \in [node : Slots, gone : BOOLEAN]
    BY <2>1 DEF Deletions
  <2> QED BY <2>2
<1>4. k \in Keys
  <2>1. del[p].node \in Slots /\ k # 0
    BY <1>1, <1>2, NodePlace DEF Named
  <2> QED BY <1>1, <1>2, <2>1 DEF Typed, Nodes
<1> HIDE DEF e
<1>5. D[p] = e /\ \A s \in Processes \ {p} : D[s] = w.del[s]
  BY <1>1 DEF Typed
<1>6. f[k] = NoFile /\ \A l \in Keys \ {k} : f[l] = w.disk[l]
  BY <1>1, <1>4 DEF Typed
<1>7. v = [w EXCEPT !.del = D, !.disk = f]
  OBVIOUS
<1> HIDE DEF D, f, v
<1>8. /\ v.pc = w.pc /\ v.req = w.req /\ v.del = D /\ v.nodes = w.nodes /\ v.sh = w.sh /\ v.disk = f /\ v.todo = w.todo
      /\ v.upset = w.upset
  BY <1>1, <1>7 DEF Typed
<1>9. Sheet(v)
  BY <1>8 DEF Books, Sheet
<1>10. Apart(w, v)
  <2>1. \A s \in Processes : /\ v.del[s].node = w.del[s].node
                             /\ v.del[s].gone /\ w.del[s].node # 0 => w.del[s].gone \/ v.disk[w.nodes[w.del[s].node].key] = NoFile
    BY <1>2, <1>3, <1>5, <1>6, <1>8
  <2>2. \A l \in Keys : v.disk[l] # NoFile => w.disk[l] = v.disk[l]
    BY <1>6, <1>8
  <2> QED BY <1>8, <2>1, <2>2 DEF Apart, SameFile
<1>11. \A l \in Keys : Unseen(w, l) => Unseen(v, l)
  BY <1>8 DEF Unseen
<1>12. Books(v)
  BY ONLY <1>1, <1>9, <1>10, <1>11, Books(World), ApartBooks
<1> QED BY ONLY IInv, <1>2, <1>12, BooksBecome

\* Afterwards the node goes, since nobody else took it; else the books are upset.
LEMMA UnlinkedBooks ==
  ASSUME IInv, Books(World), NEW p \in Processes, Unlinked(p)
  PROVE  Books(World)'
<1> DEFINE i == del[p].node
           x == [nodes[i] EXCEPT !.count = @ - 1, !.deleting = FALSE]
           e == [node |-> 0, gone |-> FALSE]
           n == [World.nodes EXCEPT ![i] = x]
           D == [World.del EXCEPT ![p] = e]
           w == [World EXCEPT !.nodes = n, !.del = D]
           v == IF w.nodes[i].count = 0 THEN Drop(w, i) ELSE w
<1>1. Wellset /\ Sound(World) /\ Typed(World) /\ Named(World) /\ Counted(World)
  BY NowWellset DEF Sound
<1>2. /\ del[p].gone /\ World.del = del /\ World.nodes = nodes /\ World.upset = upset /\ World.sh = sh
      /\ World.req = req /\ World.pc = pc /\ World.disk = disk /\ World.todo = todo
  BY WorldIs DEF Unlinked
<1>3. Become(v)
  BY DEF Unlinked
<1>4. i \in Slots /\ i # 0 /\ nodes[i] \in Nodes /\ nodes[i].key # 0 /\ nodes[i].count \in Int
  <2>1. i \in Slots /\ i # 0
    BY <1>1, <1>2 DEF Typed, Deletions, Wellset
  <2> QED BY <1>1, <1>2, <2>1 DEF Typed, Named, Nodes
<1>5. x.count = nodes[i].count - 1
  BY <1>4 DEF Nodes
<1> HIDE DEF x, e
<1>6. n[i] = x /\ \A j \in Slots \ {i} : n[j] = World.nodes[j]
  BY <1>1, <1>4 DEF Typed
<1>7. D[p] = e /\ \A s \in Processes \ {p} : D[s] = World.del[s]
  BY <1>1 DEF Typed
<1>8. w = [World EXCEPT !.nodes = n, !.del = D]
  OBVIOUS
<1>9. w.nodes[i].count = 0 => v = Drop(w, i)
  OBVIOUS
<1>10. v = Drop(w, i) \/ v = w
  OBVIOUS
<1> HIDE DEF n, D, w, v
<1>11. /\ w.pc = pc /\ w.req = req /\ w.del = D /\ w.nodes = n /\ w.sh = sh /\ w.disk = disk /\ w.todo = todo /\ w.upset = upset
  BY <1>1, <1>2, <1>8 DEF Typed
<1>12. /\ Drop(w, i).pc = pc /\ Drop(w, i).req = req /\ Drop(w, i).del = D /\ Drop(w, i).sh = sh /\ Drop(w, i).disk = disk
       /\ Drop(w, i).todo = todo /\ Drop(w, i).upset = upset
       /\ Drop(w, i).nodes[i] = Free /\ \A j \in Slots \ {i} : Drop(w, i).nodes[j] = n[j]
  <2> DEFINE y == [w.nodes EXCEPT ![i] = Free]
             q == Without(w.queue, i)
             b == w.robbed \ {i}
  <2>1. Drop(w, i) = [w EXCEPT !.queue = q, !.nodes = y, !.robbed = b]
    BY DEF Drop
  <2>2. DOMAIN n = Slots
    BY <1>1 DEF Typed, n
  <2>3. y[i] = Free /\ \A j \in Slots \ {i} : y[j] = n[j]
    BY <1>4, <1>11, <2>2
  <2>4. w = [pc |-> w.pc, req |-> w.req, nodes |-> w.nodes, queue |-> w.queue, sh |-> w.sh, disk |-> w.disk, del |-> w.del,
             mgr |-> w.mgr, todo |-> w.todo, upset |-> w.upset, robbed |-> w.robbed, rc |-> w.rc]
    BY <1>1, <1>8 DEF Typed
  <2> HIDE DEF y, q, b
  <2>5. /\ Drop(w, i).pc = w.pc /\ Drop(w, i).req = w.req /\ Drop(w, i).del = w.del /\ Drop(w, i).sh = w.sh
        /\ Drop(w, i).disk = w.disk /\ Drop(w, i).todo = w.todo /\ Drop(w, i).upset = w.upset /\ Drop(w, i).nodes = y
    BY <2>1, <2>4
  <2> QED BY <1>11, <2>3, <2>5
<1>13. v.pc = pc /\ v.req = req /\ v.del = D /\ v.sh = sh /\ v.disk = disk /\ v.todo = todo /\ v.upset = upset
  BY <1>10, <1>11, <1>12
<1>14. Sheet(v)
  BY <1>2, <1>13 DEF Books, Sheet
<1>15. ASSUME ~upset
       PROVE  Booked(v)
  <2> DEFINE k == nodes[i].key
  <2>1. /\ Single(World) /\ Blank(World) /\ Gone(World) /\ Sized(World) /\ Filed(World)
        /\ \A s \in Requests : Asks(World, s)
    BY <1>2, <1>15 DEF Books, Booked
  <2>2. /\ nodes[i].deleting /\ disk[k] = NoFile /\ \A q \in Processes : del[q].node = i => p = q
    BY <1>2, <1>4, <2>1 DEF Gone
  <2>3. \A s \in Requests : req[s].node # i
    BY <1>2, <1>4, <2>1, <2>2 DEF Gone
  <2>4. w.nodes[i].count = 0
    <3>1. At(World.req, i) = {} /\ At(World.del, i) = {p}
      BY <1>1, <1>2, <2>2, <2>3, NodePlace DEF At
    <3>2. Cardinality({}) = 0 /\ Cardinality({p}) = 1
      BY FS_EmptySet, FS_Singleton
    <3>3. nodes[i].count = 0 + 1
      BY <1>1, <1>2, <1>4, <3>1, <3>2 DEF Counted
    <3> QED BY <1>5, <1>6, <1>11, <3>3
  <2>5. v.nodes[i] = Free /\ \A j \in Slots \ {i} : v.nodes[j] = nodes[j]
    BY <1>2, <1>6, <1>9, <1>12, <2>4
  <2>6. Free.key = 0 /\ Vacant(Free)
    BY DEF Free, Vacant
  <2>7. Single(v) /\ Blank(v)
    BY <1>2, <2>1, <2>5, <2>6 DEF Single, Blank, Vacant
  <2>8. Sized(v)
    <3>1. \A j \in Slots : Worth(v.nodes[j]) = Worth(World.nodes[j])
      BY <1>2, <2>2, <2>5, <2>6 DEF Worth, Vacant
    <3>2. Sizes(v) = Sizes(World)
      BY <3>1 DEF Sizes
    <3> QED BY <1>2, <1>13, <2>1, <3>2 DEF Sized
  <2>9. ASSUME NEW l, Kept(World, l)
        PROVE  Kept(v, l)
    <3> SUFFICES ASSUME disk[l] # NoFile
                 PROVE  Known(v, l)
      BY <1>13 DEF Kept
    <3>1. Known(World, l) /\ l # k
      BY <1>2, <2>2, <2>9 DEF Kept
    <3>2. ASSUME NEW j \in Slots, World.nodes[j].key = l, World.nodes[j].exists
          PROVE  Known(v, l)
      BY <1>2, <2>5, <3>1, <3>2 DEF Known
    <3> QED BY <1>2, <1>13, <3>1, <3>2 DEF Known
  <2>10. Filed(v)
    <3>1. \A l \in Keys : Unseen(World, l) => Unseen(v, l)
      <4>1. \A l \in Keys : l # 0
        BY <1>1 DEF Wellset
      <4> QED BY <1>2, <1>13, <2>5, <2>6, <4>1 DEF Unseen
    <3> QED BY <2>1, <2>9, <3>1 DEF Filed
  <2>11. \A s \in Requests : Asks(v, s)
    BY <1>2, <1>13, <2>1, <2>9 DEF Asks
  <2>12. Gone(v)
    <3>1. ASSUME NEW j \in Slots, v.nodes[j].deleting
          PROVE  (\A s \in Requests : v.req[s].node # j) /\ \E q \in Processes : v.del[q].node = j
      <4>1. j # i
        BY <2>5, <2>6, <3>1 DEF Vacant
      <4>2. nodes[j].deleting
        BY <2>5, <3>1, <4>1
      <4>3. (\A s \in Requests : req[s].node # j) /\ \E q \in Processes : del[q].node = j
        BY <1>2, <2>1, <4>2 DEF Gone
      <4>4. PICK q \in Processes : del[q].node = j
        BY <4>3
      <4>5. v.del[q].node = j
        BY <1>2, <1>7, <1>13, <4>1, <4>4
      <4> QED BY <1>13, <4>3, <4>5
    <3>2. ASSUME NEW q \in Processes, v.del[q].node # 0
          PROVE  /\ v.nodes[v.del[q].node].deleting
                 /\ v.del[q].gone => v.disk[v.nodes[v.del[q].node].key] = NoFile
                 /\ \A s \in Processes : v.del[s].node = v.del[q].node => q = s
      <4> DEFINE j == del[q].node
      <4>1. q # p /\ v.del[q] = del[q] /\ j # 0
        BY <1>2, <1>7, <1>13, <3>2 DEF e
      <4>2. j \in Slots /\ j # i
        BY <1>1, <1>2, <2>2, <4>1, NodePlace
      <4>3. /\ nodes[j].deleting /\ (del[q].gone => disk[nodes[j].key] = NoFile)
            /\ \A s \in Processes : del[s].node = j => q = s
        BY <1>2, <2>1, <4>1 DEF Gone
      <4> HIDE DEF j
      <4>4. \A s \in Processes : v.del[s].node = j => q = s
        BY <1>2, <1>7, <1>13, <4>1, <4>3 DEF e
      <4> QED BY <1>13, <2>5, <4>1, <4>2, <4>3, <4>4 DEF j
    <3> QED BY <3>1, <3>2 DEF Gone
  <2> QED BY <2>7, <2>8, <2>10, <2>11, <2>12 DEF Booked
<1>16. Books(v)
  BY <1>13, <1>14, <1>15 DEF Books
<1> QED BY ONLY IInv, <1>3, <1>16, BooksBecome

\* The manager goes on to another place.
LEMMA ManagerBooks ==
  ASSUME IInv, NEW STATE w, Sound(w), Books(w), NEW m, Become([w EXCEPT !.mgr = m])
  PROVE  Books(World)'
<1> DEFINE v == [w EXCEPT !.mgr = m]
<1>1. v = [w EXCEPT !.mgr = m] /\ Become(v) /\ Typed(w) /\ Wellset
  BY NowWellset DEF Sound
<1> HIDE DEF v
<1>2. /\ v.pc = w.pc /\ v.req = w.req /\ v.nodes = w.nodes /\ v.sh = w.sh /\ v.disk = w.disk /\ v.todo = w.todo
      /\ v.del = w.del /\ v.upset = w.upset
  BY <1>1 DEF Typed
<1>3. Idly(w, v)
  BY <1>2 DEF Idly, SameBooks, Emptied, SameFile
<1>4. Books(v)
  BY ONLY <1>1, <1>2, <1>3, Sound(w), Books(w), IdlyBooks
<1> QED BY ONLY IInv, <1>1, <1>4, BooksBecome

\* Where it goes by the size, and where it starts.
LEMMA ManageBooks ==
  ASSUME IInv, Books(World), Manage \/ Wake
  PROVE  Books(World)'
<1>1. PICK m \in {"idle", "force", "expire"} : Become([World EXCEPT !.mgr = m])
  BY DEF Manage, Wake
<1>2. Sound(World)
  BY NowWellset
<1> QED BY ONLY IInv, <1>1, <1>2, Books(World), ManagerBooks

\* The manager starts to delete what was not used for long.
LEMMA ExpireBooks ==
  ASSUME IInv, Books(World), Expire
  PROVE  Books(World)'
<1> DEFINE i == Last(queue)
           stops == queue = <<>> \/ nodes[i].expire > now \/ (nodes[i].count > 0 /\ nodes[i].deleting)
<1>1. Wellset /\ Sound(World) /\ Typed(World) /\ Queued(World)
  BY NowWellset DEF Sound
<1>2. World.del[Manager].node = 0 /\ World.nodes = nodes /\ World.queue = queue
  BY WorldIs DEF Expire
<1>3. CASE stops
  <2>1. Become([World EXCEPT !.mgr = "check"])
    BY <1>3 DEF Expire
  <2> QED BY <1>1, <2>1, ManagerBooks
<1>4. CASE ~stops
  <2>1. i \in Slots /\ nodes[i].key # 0
    <3>1. queue \in Seq(Slots) /\ queue # <<>>
      BY <1>1, <1>2, <1>4 DEF Typed
    <3>2. i = queue[Len(queue)] /\ Len(queue) \in DOMAIN queue
      BY <3>1 DEF Last
    <3>3. i \in Range(queue)
      BY <3>2 DEF Range
    <3> QED BY <1>1, <1>2, <3>3 DEF Queued, Used
  <2>2. CASE nodes[i].count = 0
    <3> DEFINE v == Delete(World, Manager, i)
    <3>1. Become(v)
      BY <1>4, <2>2 DEF Expire
    <3>2. Manager \in Processes /\ World.nodes[i].count = 0 /\ World.nodes[i].key # 0 /\ i \in Slots
      BY <1>2, <2>1, <2>2 DEF Processes
    <3>3. Sound(v) /\ Aside(World, v, Manager) /\ (Idly(World, v) \/ GivesUp(World, v, Manager, i))
      BY ONLY <1>1, <1>2, <3>2, DeleteIs
    <3> HIDE DEF v
    <3>4. Typed(v) /\ v.pc = World.pc /\ v.req = World.req
      BY <3>3 DEF Sound, Aside
    <3>5. Books(v)
      <4> HIDE DEF i
      <4>1. CASE Idly(World, v)
        BY ONLY <1>1, <3>4, <4>1, Books(World), IdlyBooks
      <4>2. CASE GivesUp(World, v, Manager, i)
        BY ONLY <1>1, <1>2, <3>2, <3>3, <3>4, <4>2, Books(World), GivesUpBooks
      <4> QED BY <3>3, <4>1, <4>2
    <3> QED BY ONLY IInv, <3>1, <3>5, BooksBecome
  <2>3. CASE nodes[i].count # 0
    <3> DEFINE v == Touch(World, i)
    <3>1. Become(v)
      BY <1>4, <2>3 DEF Expire
    <3>2. /\ v.pc = World.pc /\ v.req = World.req /\ v.del = World.del /\ v.sh = World.sh /\ v.disk = World.disk
          /\ v.todo = World.todo /\ v.upset = World.upset /\ \A j \in Slots : SameFile(World.nodes[j], v.nodes[j])
      BY ONLY <1>1, <2>1, TouchFiles
    <3> HIDE DEF v
    <3>3. Idly(World, v)
      BY <3>2 DEF Idly, SameBooks, Emptied
    <3>4. Books(v)
      BY ONLY <1>1, <3>2, <3>3, Books(World), IdlyBooks
    <3> QED BY ONLY IInv, <3>1, <3>4, BooksBecome
  <2> QED BY <2>2, <2>3
<1> QED BY <1>3, <1>4

\* The manager starts to delete what is too much.
LEMMA EvictBooks ==
  ASSUME IInv, Books(World), Evict
  PROVE  Books(World)'
<1> DEFINE u == ForcedExpire(World, Manager)
           m == IF u.rc = "one" THEN "check" ELSE "idle"
<1>1. Wellset /\ Sound(World) /\ AllPlaced(World)
  BY NowWellset
<1>2. World.mgr = "force" /\ Become([u EXCEPT !.mgr = m])
  BY WorldIs DEF Evict
<1>3. World.del[Manager].node = 0 /\ Manager \in Processes
  BY <1>1, <1>2 DEF AllPlaced, Processes
<1>4. Sound(u) /\ Aside(World, u, Manager) /\ (Idly(World, u) \/ \E i \in Slots : GivesUp(World, u, Manager, i))
  BY ONLY <1>1, <1>3, ForcedExpireIs
<1> HIDE DEF u, m
<1>5. Books(u)
  <2>1. CASE Idly(World, u)
    BY <1>1, <1>4, <2>1, IdlyBooks DEF Aside
  <2>2. CASE \E i \in Slots : GivesUp(World, u, Manager, i)
    <3>1. Typed(u)
      BY <1>4 DEF Sound
    <3> QED BY <1>1, <1>3, <1>4, <2>2, <3>1, GivesUpBooks
  <2> QED BY <1>4, <2>1, <2>2
<1>6. Sound(u)
  BY <1>4
<1> QED BY ONLY IInv, <1>2, <1>5, <1>6, ManagerBooks DEF u

\* The shared memory, when one field of it changes.
LEMMA SheetSet ==
  ASSUME NEW w, Sheet(w), NEW b
  PROVE  /\ [w.sh EXCEPT !.size = b] = [size |-> b, cold |-> w.sh.cold, loading |-> w.sh.loading, watermark |-> w.sh.watermark]
         /\ [w.sh EXCEPT !.loading = b] = [size |-> w.sh.size, cold |-> w.sh.cold, loading |-> b, watermark |-> w.sh.watermark]
         /\ [w.sh EXCEPT !.watermark = b] = [size |-> w.sh.size, cold |-> w.sh.cold, loading |-> w.sh.loading, watermark |-> b]
<1>1. PICK s : s = w.sh
  OBVIOUS
<1>2. PICK size, cold, loading, watermark : s = [size |-> size, cold |-> cold, loading |-> loading, watermark |-> watermark]
  BY <1>1 DEF Sheet
<1>3. s.size = size /\ s.cold = cold /\ s.loading = loading /\ s.watermark = watermark
  BY <1>2
<1>4. [s EXCEPT !.size = b] = [size |-> b, cold |-> cold, loading |-> loading, watermark |-> watermark]
  BY <1>2
<1>5. [s EXCEPT !.loading = b] = [size |-> size, cold |-> cold, loading |-> b, watermark |-> watermark]
  BY <1>2
<1>6. [s EXCEPT !.watermark = b] = [size |-> size, cold |-> cold, loading |-> loading, watermark |-> b]
  BY <1>2
<1>7. size = w.sh.size /\ cold = w.sh.cold /\ loading = w.sh.loading /\ watermark = w.sh.watermark
  BY ONLY <1>1, <1>3
<1> QED BY ONLY <1>1, <1>4, <1>5, <1>6, <1>7, Zenon

\* The same, when the loader is done.
LEMMA SheetLoaded ==
  ASSUME NEW w, Sheet(w)
  PROVE  [[w.sh EXCEPT !.loading = FALSE] EXCEPT !.cold = FALSE]
         = [size |-> w.sh.size, cold |-> FALSE, loading |-> FALSE, watermark |-> w.sh.watermark]
<1>1. PICK s : s = [w.sh EXCEPT !.loading = FALSE]
  OBVIOUS
<1>2. s = [size |-> w.sh.size, cold |-> w.sh.cold, loading |-> FALSE, watermark |-> w.sh.watermark]
  BY <1>1, SheetSet
<1>3. PICK size, cold, no, watermark : size = w.sh.size /\ cold = w.sh.cold /\ no = FALSE /\ watermark = w.sh.watermark
  OBVIOUS
<1>4. s = [size |-> size, cold |-> cold, loading |-> no, watermark |-> watermark]
  BY ONLY <1>2, <1>3, Zenon
<1>5. [s EXCEPT !.cold = no] = [size |-> size, cold |-> no, loading |-> no, watermark |-> watermark]
  BY ONLY <1>4
<1> QED BY ONLY <1>1, <1>3, <1>5, Zenon

\* The loader starts: all files are to be seen.
LEMMA LoadBooks ==
  ASSUME IInv, Books(World), Load
  PROVE  Books(World)'
<1> DEFINE w == World
           T == {k \in Keys : disk[k] # NoFile}
           h == [w.sh EXCEPT !.loading = TRUE]
           v == [w EXCEPT !.sh = h, !.todo = T]
<1>1. Wellset /\ Typed(w) /\ Become(v) /\ w.disk = disk
  BY NowWellset, WorldIs DEF Load, Sound
<1>2. v = [w EXCEPT !.sh = h, !.todo = T]
  OBVIOUS
<1>3. h.size = w.sh.size /\ h.cold = w.sh.cold /\ h.loading = TRUE
      /\ h = [size |-> h.size, cold |-> h.cold, loading |-> h.loading, watermark |-> h.watermark]
  <2>1. h = [size |-> w.sh.size, cold |-> w.sh.cold, loading |-> TRUE, watermark |-> w.sh.watermark]
    BY SheetSet DEF Books
  <2> HIDE DEF h, w
  <2> QED BY <2>1
<1> HIDE DEF h, v
<1>4. /\ v.pc = w.pc /\ v.req = w.req /\ v.nodes = w.nodes /\ v.sh = h /\ v.disk = w.disk /\ v.todo = T
      /\ v.del = w.del /\ v.upset = w.upset
  BY <1>1, <1>2 DEF Typed
<1>5. Sheet(v)
  <2>1. w.sh.cold \in BOOLEAN
    BY DEF Books, Sheet
  <2>2. h.loading = TRUE
    BY <1>3
  <2> QED BY <1>3, <1>4, <2>1, <2>2 DEF Sheet
<1>6. Apart(w, v)
  BY <1>3, <1>4 DEF Apart, SameFile
<1>7. \A k \in Keys : Unseen(w, k) => Kept(v, k) \/ Unseen(v, k)
  BY <1>1, <1>3, <1>4 DEF Unseen, Kept
<1>8. Books(v)
  BY ONLY <1>1, <1>5, <1>6, <1>7, Books(World), ApartBooks
<1> QED BY ONLY IInv, <1>1, <1>8, BooksBecome

\* It is done: what it did not see is known.
LEMMA LoadedBooks ==
  ASSUME IInv, Books(World), Loaded
  PROVE  Books(World)'
<1> DEFINE w == World
           h == [[w.sh EXCEPT !.loading = FALSE] EXCEPT !.cold = FALSE]
           v == [w EXCEPT !.sh = h]
<1>1. Wellset /\ Typed(w) /\ w.sh = sh /\ w.todo = todo
  BY NowWellset, WorldIs DEF Sound
<1>2. Become(v) /\ sh.loading /\ todo = {}
  <2>1. Become([w EXCEPT !.sh.loading = FALSE, !.sh.cold = FALSE]) /\ sh.loading /\ todo = {}
    BY DEF Loaded
  <2>2. [w EXCEPT !.sh.loading = FALSE, !.sh.cold = FALSE] = v
    BY <1>1 DEF Typed
  <2> HIDE DEF v
  <2> QED BY <2>1, <2>2, Zenon
<1>3. v = [w EXCEPT !.sh = h]
  OBVIOUS
<1>4. h = [size |-> w.sh.size, cold |-> FALSE, loading |-> FALSE, watermark |-> w.sh.watermark]
  BY SheetLoaded DEF Books
<1> HIDE DEF h, v
<1>5. /\ v.pc = w.pc /\ v.req = w.req /\ v.nodes = w.nodes /\ v.sh = h /\ v.disk = w.disk /\ v.todo = w.todo
      /\ v.del = w.del /\ v.upset = w.upset
  BY <1>1, <1>3 DEF Typed
<1>6. Sheet(v)
  BY <1>4, <1>5 DEF Sheet
<1>7. Apart(w, v)
  BY <1>4, <1>5 DEF Apart, SameFile
<1>8. \A k \in Keys : Unseen(w, k) => Kept(v, k) \/ Unseen(v, k)
  BY <1>1, <1>2 DEF Unseen
<1>9. Books(v)
  BY ONLY <1>1, <1>6, <1>7, <1>8, Books(World), ApartBooks
<1> QED BY ONLY IInv, <1>2, <1>9, BooksBecome

\* It is told to quit: another one will see what it did not.
LEMMA LoaderQuitsBooks ==
  ASSUME IInv, Books(World), LoaderQuits
  PROVE  Books(World)'
<1> DEFINE w == World
           h == [w.sh EXCEPT !.loading = FALSE]
           v == [w EXCEPT !.sh = h, !.todo = {}]
<1>1. Wellset /\ Typed(w) /\ sh' = h /\ todo' = {} /\ UNCHANGED <<pc, req, nodes, disk, del, upset, setup>>
  BY NowWellset, WorldIs DEF Sound, LoaderQuits
<1>2. v = [w EXCEPT !.sh = h, !.todo = {}]
  OBVIOUS
<1>3. h = [size |-> w.sh.size, cold |-> w.sh.cold, loading |-> FALSE, watermark |-> w.sh.watermark] /\ w.sh.cold \in BOOLEAN
  BY SheetSet DEF Books, Sheet
<1> HIDE DEF h, v
<1>4. /\ v.pc = w.pc /\ v.req = w.req /\ v.nodes = w.nodes /\ v.sh = h /\ v.disk = w.disk /\ v.todo = {}
      /\ v.del = w.del /\ v.upset = w.upset
  BY <1>1, <1>2 DEF Typed
<1>5. Sheet(v)
  BY <1>3, <1>4 DEF Sheet
<1>6. Apart(w, v)
  BY <1>3, <1>4 DEF Apart, SameFile
<1>7. \A k \in Keys : Unseen(w, k) => Kept(v, k) \/ Unseen(v, k)
  BY <1>3, <1>4 DEF Unseen
<1>8. Books(v)
  BY ONLY <1>1, <1>5, <1>6, <1>7, Books(World), ApartBooks
<1>9. /\ pc' = v.pc /\ req' = v.req /\ nodes' = v.nodes /\ disk' = v.disk /\ sh' = v.sh /\ upset' = v.upset
      /\ del' = v.del /\ todo' = v.todo /\ UNCHANGED setup
  BY <1>1, <1>4, WorldIs
<1> QED BY ONLY <1>8, <1>9, BooksAre

\* Time does not matter to the books.
LEMMA TickBooks ==
  ASSUME Books(World), UNCHANGED <<pc, req, nodes, sh, disk, del, todo, upset, setup>>
  PROVE  Books(World)'
<1>1. /\ pc' = World.pc /\ req' = World.req /\ nodes' = World.nodes /\ disk' = World.disk /\ sh' = World.sh
      /\ upset' = World.upset /\ del' = World.del /\ todo' = World.todo /\ UNCHANGED setup
  BY WorldIs
<1> QED BY ONLY Books(World), <1>1, BooksAre

\* A node that the loader puts into an empty place.
LEMMA AddedBooks ==
  ASSUME IInv, Books(World), NEW k \in Keys, disk[k] # NoFile, \A j \in Slots : nodes[j].key # k,
         NEW i \in Slots, nodes[i].key = 0, NEW x \in Nodes, x.key = k, x.exists, ~x.deleting, x.fs = disk[k].fs,
         NEW v, Typed(v), Sheet(v), v.pc = pc, v.req = req, v.del = del, v.disk = disk, v.todo = todo \ {k}, v.upset = upset,
         v.sh.cold = sh.cold, v.sh.loading = sh.loading, v.sh.size = sh.size + disk[k].fs,
         SameFile(x, v.nodes[i]), \A j \in Slots \ {i} : v.nodes[j] = nodes[j]
  PROVE  Books(v)
<1>1. Wellset /\ Sound(World) /\ Typed(World)
  BY NowWellset DEF Sound
<1>2. World.upset = upset /\ World.sh = sh /\ World.disk = disk /\ World.del = del /\ World.todo = todo
      /\ World.pc = pc /\ World.req = req /\ World.nodes = nodes
  BY WorldIs
<1>3. CASE upset
  BY <1>3 DEF Books
<1>4. CASE ~upset
  <2>1. Booked(World)
    BY <1>2, <1>4 DEF Books
  <2>2. nodes[i].fs = 0 /\ ~nodes[i].deleting /\ \A s \in Requests : Asks(World, s)
    <3>1. Vacant(World.nodes[i])
      BY <1>2, <2>1 DEF Booked, Blank
    <3>2. nodes[i].deleting \in BOOLEAN
      <4>1. nodes[i] \in Nodes
        BY <1>1, <1>2 DEF Typed
      <4> QED BY <4>1 DEF Nodes
    <3> QED BY <1>2, <2>1, <3>1, <3>2 DEF Booked, Vacant
  <2>3. sh.size + disk[k].fs = sh.size + disk[k].fs - 0
    <3>1. disk[k].fs \in Int
      BY <1>1, <1>2 DEF Typed, Files
    <3>2. sh.size = Sum(Sizes(World), setup.slots)
      BY <1>2, <2>1 DEF Booked, Sized
    <3>3. \A n \in Nodes : n.fs \in Int
      BY DEF Nodes
    <3>4. Sizes(World) \in [1 .. setup.slots -> Int] /\ setup.slots \in Nat
      BY <1>1, <3>3 DEF Sizes, Worth, Typed, Slots, Wellset
    <3>5. Sum(Sizes(World), setup.slots) \in Int
      BY <3>4, SumTyped
    <3> QED BY <3>1, <3>2, <3>5
  <2>4. v.nodes[i].exists = TRUE /\ v.nodes[i].key = k /\ ~v.nodes[i].deleting /\ v.nodes[i].fs = disk[k].fs
    <3>1. v.nodes[i] \in Nodes
      BY DEF Typed
    <3>2. v.nodes[i].exists \in BOOLEAN
      BY <3>1 DEF Nodes
    <3> QED BY <3>2 DEF SameFile
  <2>5. v.nodes[i].deleting = nodes[i].deleting
    <3>1. v.nodes[i] \in Nodes /\ nodes[i] \in Nodes
      BY <1>1, <1>2 DEF Typed
    <3>2. v.nodes[i].deleting \in BOOLEAN /\ nodes[i].deleting \in BOOLEAN
      BY <3>1 DEF Nodes
    <3> QED BY <2>2, <2>4, <3>2
  <2>6. \A j \in Slots \ {i} : SameFile(nodes[j], v.nodes[j])
    BY DEF SameFile
  <2>7. k # 0
    BY <1>1 DEF Wellset
  <2>8. Counts(World, v, i)
    BY <1>2, <2>2, <2>3, <2>4, <2>5, <2>6, <2>7 DEF Counts
  <2>9. Carries(World, v, i)
    BY <1>2, <2>2 DEF Asks, Carries
  <2>10. ~World.upset => ~World.nodes[i].deleting
    BY <1>2, <2>2
  <2> QED BY ONLY <1>1, <2>8, <2>9, <2>10, Typed(v), Sheet(v), i \in Slots, Books(World), CountsBooks
<1> QED BY <1>3, <1>4

\* The loader adds a file of the disk to the tree, or deletes it.
LEMMA AddBooks ==
  ASSUME IInv, Books(World), NEW k \in Keys, Add(k)
  PROVE  Books(World)'
<1> DEFINE T == World.todo \ {k}
           w == [World EXCEPT !.todo = T]
           i == Min(Room(w))
           x == [Free EXCEPT !.key = k, !.uses = 1, !.exists = TRUE, !.fs = disk[k].fs]
<1>1. Wellset /\ Sound(World) /\ Typed(World) /\ Sheet(World)
  BY NowWellset DEF Sound, Books
<1>2. w = [World EXCEPT !.todo = T] /\ T \subseteq Keys
  BY <1>1 DEF Typed
<1>3. \/ disk[k] = NoFile /\ Become(w)
      \/ disk[k] # NoFile /\ \E j \in Lookup(w, k) :
           Become(IF j # 0 THEN Touch(w, j)
                  ELSE IF Room(w) = {} THEN [FullZone(w) EXCEPT !.disk[k] = NoFile]
                  ELSE Touch([w EXCEPT !.nodes[i] = x, !.sh.size = @ + disk[k].fs], i))
  BY Zenon DEF Add
<1>a. World.upset = upset /\ World.sh = sh /\ World.disk = disk /\ World.del = del /\ World.todo = todo
      /\ World.pc = pc /\ World.req = req /\ World.nodes = nodes
  BY WorldIs
<1>b. T = todo \ {k}
  BY <1>a
<1> HIDE DEF T, w
<1>4. /\ Typed(w) /\ w.pc = pc /\ w.req = req /\ w.nodes = nodes /\ w.del = del /\ w.upset = upset
      /\ w.disk = disk /\ w.sh = sh /\ w.todo = T
  BY <1>1, <1>2, <1>a DEF Typed
<1>5. Sheet(w)
  BY <1>1, <1>4, <1>a DEF Sheet
<1>6. ASSUME NEW v, Sheet(v), v.pc = pc, v.req = req, v.upset = upset, v.sh.size = sh.size, v.sh.cold = sh.cold,
             v.sh.loading = sh.loading, v.del = del, v.todo = T,
             \A j \in Slots : SameFile(nodes[j], v.nodes[j]),
             \A l \in Keys : v.disk[l] # NoFile => disk[l] = v.disk[l],
             v.disk[k] = NoFile \/ \E j \in Slots : nodes[j].key = k
      PROVE  Books(v)
  <2>1. Apart(World, v)
    BY <1>6, <1>a DEF Apart
  <2>2. \A l \in Keys : Unseen(World, l) => Kept(v, l) \/ Unseen(v, l)
    BY <1>6, <1>a, <1>b DEF Unseen, Kept, SameFile
  <2> QED BY ONLY <1>1, <1>6, <2>1, <2>2, Books(World), ApartBooks
<1>7. ASSUME disk[k] = NoFile, Become(w)
      PROVE  Books(World)'
  <2>1. \A j \in Slots : SameFile(nodes[j], w.nodes[j])
    BY <1>4 DEF SameFile
  <2>2. Books(w)
    BY <1>4, <1>5, <1>6, <1>7, <2>1
  <2> QED BY ONLY IInv, <1>7, <2>2, BooksBecome
<1>8. ASSUME disk[k] # NoFile, NEW j \in Lookup(w, k), j # 0, Become(Touch(w, j))
      PROVE  Books(World)'
  <2> DEFINE v == Touch(w, j)
  <2>1. j \in Slots /\ nodes[j].key = k
    BY <1>4, <1>8 DEF Lookup
  <2>2. /\ v.pc = w.pc /\ v.req = w.req /\ v.del = w.del /\ v.sh = w.sh /\ v.disk = w.disk /\ v.todo = w.todo
        /\ v.upset = w.upset /\ \A l \in Slots : SameFile(w.nodes[l], v.nodes[l])
    BY ONLY <1>1, <1>4, <2>1, TouchFiles
  <2>3. Become(v)
    BY <1>8
  <2> HIDE DEF v
  <2>4. Sheet(v)
    BY <1>5, <2>2 DEF Sheet
  <2>5. Books(v)
    BY <1>4, <1>6, <2>1, <2>2, <2>4
  <2> QED BY ONLY IInv, <2>3, <2>5, BooksBecome
<1>9. ASSUME disk[k] # NoFile, Room(w) = {}, Become([FullZone(w) EXCEPT !.disk[k] = NoFile])
      PROVE  Books(World)'
  <2> DEFINE u == FullZone(w)
             f == [u.disk EXCEPT ![k] = NoFile]
             v == [u EXCEPT !.disk = f]
             b == Cardinality(Slots \ Room(w)) - Cardinality(Slots \ Room(w)) \div 8
             h == [w.sh EXCEPT !.watermark = b]
  <2>1. Become(v)
    BY <1>9
  <2>2. u = [w EXCEPT !.sh = h, !.rc = "full"]
    BY DEF FullZone
  <2> HIDE DEF b
  <2>3. h = [size |-> w.sh.size, cold |-> w.sh.cold, loading |-> w.sh.loading, watermark |-> b]
    BY ONLY <1>5, SheetSet DEF h
  <2> HIDE DEF u, h
  <2>4. /\ Typed(u) /\ u.pc = pc /\ u.req = req /\ u.nodes = nodes /\ u.del = del /\ u.upset = upset /\ u.sh = h /\ u.todo = T
        /\ u.disk = disk
    BY <1>4, <2>2 DEF Typed
  <2>5. \A l \in Keys : f[l] = IF l = k THEN NoFile ELSE disk[l]
    BY <2>4 DEF Typed
  <2>6. v = [u EXCEPT !.disk = f]
    OBVIOUS
  <2> HIDE DEF f, v
  <2>7. /\ v.pc = pc /\ v.req = req /\ v.nodes = nodes /\ v.del = del /\ v.upset = upset /\ v.sh = h /\ v.todo = T /\ v.disk = f
    BY <2>4, <2>6 DEF Typed
  <2>8. h.size = sh.size /\ h.cold = sh.cold /\ h.loading = sh.loading
    BY <1>4, <2>3
  <2>9. Sheet(v)
    <3>1. w.sh.cold \in BOOLEAN /\ w.sh.loading \in BOOLEAN
      BY <1>5 DEF Sheet
    <3>2. h = [size |-> h.size, cold |-> h.cold, loading |-> h.loading, watermark |-> h.watermark]
      BY <2>3
    <3> QED BY <1>4, <2>7, <2>8, <3>1, <3>2 DEF Sheet
  <2>10. \A j \in Slots : SameFile(nodes[j], v.nodes[j])
    BY <2>7 DEF SameFile
  <2>11. Books(v)
    BY <1>6, <2>5, <2>7, <2>8, <2>9, <2>10
  <2> QED BY ONLY IInv, <2>1, <2>11, BooksBecome
<1>10. ASSUME disk[k] # NoFile, 0 \in Lookup(w, k), Room(w) # {},
              Become(Touch([w EXCEPT !.nodes[i] = x, !.sh.size = @ + disk[k].fs], i))
       PROVE  Books(World)'
  <2> DEFINE b == w.sh.size + disk[k].fs
             h == [w.sh EXCEPT !.size = b]
             u == [w EXCEPT !.sh = h]
             v == Touch([u EXCEPT !.nodes = [u.nodes EXCEPT ![i] = x]], i)
  <2>1. i \in Slots /\ nodes[i].key = 0
    <3>1. Room(w) \subseteq Slots /\ Room(w) \subseteq Nat
      BY <1>1 DEF Room, Wellset
    <3>2. i \in Room(w)
      BY <1>10, <3>1, MinIn
    <3> QED BY <1>4, <3>2 DEF Room
  <2>2. \A j \in Slots : nodes[j].key # k
    <3>1. 0 \notin Slots
      BY <1>1 DEF Wellset, Slots
    <3> QED BY <1>4, <1>10, <3>1 DEF Lookup
  <2>3. x \in Nodes /\ x.key = k /\ x.exists /\ ~x.deleting /\ x.fs = disk[k].fs
    <3>1. disk[k].fs \in Nat
      BY <1>4 DEF Typed, Files
    <3>2. k # 0 /\ k \in Keys \union {0}
      BY <1>1 DEF Wellset
    <3> QED BY <1>1, <3>1, <3>2, FreeIsNode DEF Free, Nodes
  <2> HIDE DEF x, i
  <2>4. u = [w EXCEPT !.sh = h]
    OBVIOUS
  <2>5. Become(v)
    <3>1. [w EXCEPT !.nodes[i] = x, !.sh.size = @ + disk[k].fs] = [u EXCEPT !.nodes = [u.nodes EXCEPT ![i] = x]]
      <4> DEFINE n == [w.nodes EXCEPT ![i] = x]
      <4>1. [w EXCEPT !.nodes[i] = x, !.sh.size = @ + disk[k].fs] = [w EXCEPT !.nodes = n, !.sh = h]
        BY <1>4 DEF Typed
      <4>2. [u.nodes EXCEPT ![i] = x] = n
        BY <1>4, <2>4 DEF Typed
      <4> HIDE DEF n, h, u
      <4>3. [w EXCEPT !.nodes = n, !.sh = h] = [u EXCEPT !.nodes = n]
        BY <1>4, <2>4 DEF Typed
      <4> QED BY <4>1, <4>2, <4>3
    <3> HIDE DEF u
    <3> QED BY <1>10, <3>1
  <2> HIDE DEF b
  <2>6. h = [size |-> b, cold |-> w.sh.cold, loading |-> w.sh.loading, watermark |-> w.sh.watermark]
    BY ONLY <1>5, SheetSet DEF h
  <2> HIDE DEF h, u
  <2>7. /\ Typed(u) /\ u.pc = pc /\ u.req = req /\ u.nodes = nodes /\ u.del = del /\ u.upset = upset /\ u.sh = h /\ u.todo = T
        /\ u.disk = disk
    BY <1>4, <2>4 DEF Typed
  <2>8. /\ v.pc = u.pc /\ v.req = u.req /\ v.del = u.del /\ v.sh = u.sh /\ v.disk = u.disk /\ v.todo = u.todo
        /\ v.upset = u.upset /\ SameFile(x, v.nodes[i]) /\ \A j \in Slots \ {i} : v.nodes[j] = u.nodes[j]
    BY ONLY <1>1, <2>1, <2>3, <2>7, PutFiles
  <2>9. Typed(v)
    <3>1. u.queue = queue /\ u.mgr = mgr /\ u.robbed = robbed
      <4>1. w.queue = queue /\ w.mgr = mgr /\ w.robbed = robbed
        BY <1>1, <1>2, WorldIs DEF Typed
      <4> QED BY <1>4, <2>4, <4>1 DEF Typed
    <3>2. Sound(u)
      BY ONLY IInv, <2>7, <3>1, ApartStep
    <3>3. x.key # 0 /\ x.count = 0 /\ u.nodes[i].key = 0
      <4>1. x.count = 0
        BY DEF x, Free
      <4>2. k # 0
        BY <1>1 DEF Wellset
      <4> QED BY <2>1, <2>3, <2>7, <4>1, <4>2
    <3>4. Sound(v)
      BY ONLY <1>1, <2>1, <2>3, <3>2, <3>3, PutNewIs
    <3> QED BY ONLY <3>4 DEF Sound
  <2> HIDE DEF v
  <2>10. Sheet(v) /\ v.sh.cold = sh.cold /\ v.sh.loading = sh.loading /\ v.sh.size = sh.size + disk[k].fs
    <3>1. w.sh.cold \in BOOLEAN /\ w.sh.loading \in BOOLEAN
      BY <1>5 DEF Sheet
    <3>2. h = [size |-> h.size, cold |-> h.cold, loading |-> h.loading, watermark |-> h.watermark]
          /\ h.size = b /\ h.cold = w.sh.cold /\ h.loading = w.sh.loading
      BY <2>6
    <3> QED BY <1>4, <2>7, <2>8, <3>1, <3>2 DEF Sheet, b
  <2>11. /\ v.pc = pc /\ v.req = req /\ v.del = del /\ v.disk = disk /\ v.todo = todo \ {k} /\ v.upset = upset
         /\ \A j \in Slots \ {i} : v.nodes[j] = nodes[j]
    BY <1>b, <2>7, <2>8
  <2>12. Books(v)
    BY ONLY IInv, Books(World), k \in Keys, disk[k] # NoFile, <1>10, <2>1, <2>2, <2>3, <2>8, <2>9, <2>10, <2>11, AddedBooks
  <2> QED BY ONLY IInv, <2>5, <2>12, BooksBecome
<1> QED
  <2>1. CASE disk[k] = NoFile
    BY <1>3, <1>7, <2>1
  <2>2. ASSUME disk[k] # NoFile, NEW j \in Lookup(w, k), j # 0, Become(Touch(w, j))
        PROVE  Books(World)'
    BY <1>8, <2>2
  <2> QED BY <1>3, <1>9, <1>10, <2>1, <2>2

\* At the start what is on the disk has its node, or the loader is still to come.
LEMMA InitBooks == Init => Books(World)
<1> SUFFICES ASSUME Init
             PROVE  Books(World)
  OBVIOUS
<1> DEFINE S == {k \in Keys : disk[k] # NoFile}
           on == IF setup.cold THEN <<>> ELSE SetToSeq(S)
           Y(i) == [Free EXCEPT !.key = on[i], !.uses = 1, !.exists = TRUE, !.fs = disk[on[i]].fs, !.expire = setup.inactive]
<1>1. setup \in Setups /\ Wellset /\ Typed(World)
  BY InitIs, SetupIsWellset DEF Init, IInv, Sound
<1>2. World.upset = upset /\ World.sh = sh /\ World.disk = disk /\ World.del = del /\ World.todo = todo
      /\ World.pc = pc /\ World.req = req /\ World.nodes = nodes
  BY WorldIs
<1>3. /\ req \in [Requests -> {New(k, FALSE) : k \in setup.kinds}]
      /\ pc = [r \in Requests |-> IF r <= setup.requests THEN "exists" ELSE "none"]
      /\ nodes = [i \in Slots |-> IF i > Len(on) THEN Free ELSE Y(i)]
      /\ sh = [size |-> Sum([i \in Slots |-> nodes[i].fs], setup.slots), cold |-> setup.cold, loading |-> FALSE, watermark |-> 100]
      /\ del = [p \in Requests \union {Manager} |-> [node |-> 0, gone |-> FALSE]]
      /\ todo = {}
  BY DEF Init
<1>4. disk \in [Keys -> Files] /\ setup.cold \in BOOLEAN
  BY <1>1, FileCacheAssumption DEF Init, Keys
<1>5. ~setup.cold => /\ on \in Seq(S) /\ IsInjective(on) /\ Range(on) = S /\ Len(on) <= setup.slots
  <2> SUFFICES ASSUME ~setup.cold
               PROVE  on \in Seq(S) /\ IsInjective(on) /\ Range(on) = S /\ Len(on) <= setup.slots
    OBVIOUS
  <2>1. IsFiniteSet(S) /\ S \subseteq Keys
    BY <1>1, KeysAreFinite, FS_Subset
  <2>2. on = SetToSeq(S)
    OBVIOUS
  <2>3. on \in Seq(S) /\ IsInjective(on) /\ Range(on) = S /\ Len(on) = Cardinality(S)
    BY <2>1, <2>2, SetToSeqIs
  <2>4. Cardinality(S) <= setup.slots
    BY <1>1, FileCacheAssumption DEF Init, Keys
  <2> QED BY <2>3, <2>4
<1>6. setup.cold => Len(on) = 0
  OBVIOUS
<1> HIDE DEF on
<1>7. \A i \in Slots : /\ ~nodes[i].deleting
                      /\ \/ i > Len(on) /\ nodes[i].key = 0 /\ Vacant(nodes[i])
                         \/ ~(i > Len(on)) /\ nodes[i].key = on[i] /\ nodes[i].exists
  <2> SUFFICES ASSUME NEW i \in Slots
               PROVE  /\ ~nodes[i].deleting
                      /\ \/ i > Len(on) /\ nodes[i].key = 0 /\ Vacant(nodes[i])
                         \/ ~(i > Len(on)) /\ nodes[i].key = on[i] /\ nodes[i].exists
    OBVIOUS
  <2>1. nodes[i] = IF i > Len(on) THEN Free ELSE Y(i)
    BY <1>3
  <2>2. ~Y(i).deleting /\ Y(i).key = on[i] /\ Y(i).exists
    BY DEF Free
  <2> HIDE DEF Y
  <2>3. ~Free.deleting /\ Free.key = 0 /\ Vacant(Free)
    BY DEF Free, Vacant
  <2> QED BY <2>1, <2>2, <2>3
<1> HIDE DEF Y
<1>8. Sheet(World)
  BY <1>2, <1>3, <1>4 DEF Sheet
<1>9. Single(World)
  <2> SUFFICES ASSUME NEW i \in Slots, NEW j \in Slots, nodes[i].key # 0, nodes[i].key = nodes[j].key
               PROVE  i = j
    BY <1>2 DEF Single
  <2>1. on[i] = on[j] /\ ~(i > Len(on)) /\ ~(j > Len(on))
    BY <1>7
  <2>2. ~setup.cold
    <3>1. i > 0
      BY <1>1 DEF Slots, Wellset
    <3> QED BY <1>6, <2>1, <3>1
  <2>3. i \in DOMAIN on /\ j \in DOMAIN on
    <3>1. DOMAIN on = 1 .. Len(on) /\ Len(on) \in Nat
      BY <1>5, <2>2
    <3> QED BY <1>1, <2>1, <3>1 DEF Slots, Wellset
  <2> QED BY <1>5, <2>1, <2>2, <2>3 DEF IsInjective
<1>10. Blank(World)
  <2>1. \A i \in Slots : (~nodes[i].exists => Vacant(nodes[i])) /\ (nodes[i].key = 0 => ~nodes[i].exists)
    <3> SUFFICES ASSUME NEW i \in Slots
                 PROVE  (~nodes[i].exists => Vacant(nodes[i])) /\ (nodes[i].key = 0 => ~nodes[i].exists)
      OBVIOUS
    <3>1. CASE i > Len(on)
      BY <1>7, <3>1 DEF Vacant
    <3>2. CASE ~(i > Len(on))
      <4>1. nodes[i].key = on[i] /\ nodes[i].exists
        BY <1>7, <3>2
      <4>2. ~setup.cold /\ on[i] # 0
        <5>1. i > 0
          BY <1>1 DEF Slots, Wellset
        <5>2. ~setup.cold
          BY <1>6, <3>2, <5>1
        <5>3. DOMAIN on = 1 .. Len(on) /\ Len(on) \in Nat /\ i \in Nat
          BY <1>1, <1>5, <5>2 DEF Slots, Wellset
        <5>4. on[i] \in Keys
          BY <1>5, <3>2, <5>1, <5>2, <5>3
        <5> QED BY <1>1, <5>2, <5>4 DEF Wellset
      <4> QED BY <4>1, <4>2
    <3> QED BY <3>1, <3>2
  <2> QED BY <1>2, <2>1 DEF Blank
<1>11. Gone(World)
  <2>1. \A p \in Processes : del[p].node = 0
    BY <1>3 DEF Processes
  <2> QED BY <1>2, <1>7, <2>1 DEF Gone
<1>12. Sized(World)
  <2>1. \A i \in Slots : Worth(nodes[i]) = nodes[i].fs
    BY <1>7 DEF Worth, Vacant
  <2>2. Sizes(World) = [i \in Slots |-> nodes[i].fs]
    BY <1>2, <2>1 DEF Sizes
  <2>3. sh.size = Sum([i \in Slots |-> nodes[i].fs], setup.slots)
    BY <1>3
  <2> QED BY ONLY <1>2, <2>2, <2>3 DEF Sized
<1>13. Filed(World)
  <2> SUFFICES ASSUME NEW k \in Keys
               PROVE  Kept(World, k) \/ Unseen(World, k)
    BY DEF Filed
  <2>1. CASE setup.cold
    <3>1. \A i \in Slots : i > Len(on)
      BY <1>1, <1>6, <2>1 DEF Slots, Wellset
    <3>2. k # 0
      BY <1>1 DEF Wellset
    <3>3. \A i \in Slots : nodes[i].key # k
      BY <1>7, <3>1, <3>2
    <3> QED BY <1>2, <1>3, <2>1, <3>3 DEF Unseen
  <2>2. CASE ~setup.cold
    <3> SUFFICES ASSUME disk[k] # NoFile
                 PROVE  Known(World, k)
      BY <1>2 DEF Kept
    <3>1. DOMAIN on = 1 .. Len(on) /\ Len(on) \in Nat /\ k \in Range(on)
      BY <1>5, <2>2
    <3>2. PICK i \in 1 .. Len(on) : on[i] = k
      BY <3>1 DEF Range
    <3>3. i \in Slots /\ ~(i > Len(on))
      BY <1>1, <1>5, <2>2, <3>1, <3>2 DEF Slots, Wellset
    <3> QED BY <1>2, <1>7, <3>2, <3>3 DEF Known
  <2> QED BY <1>4, <2>1, <2>2
<1>14. ASSUME NEW r \in Requests
       PROVE  Asks(World, r)
  <2>1. PICK k \in setup.kinds : req[r] = New(k, FALSE)
    BY <1>3
  <2>2. ~req[r].secondary /\ req[r].status = "miss" /\ req[r].key = req[r].kind.key
    BY <2>1 DEF New
  <2>3. pc[r] \in {"exists", "none"}
    BY <1>3
  <2> QED BY <1>2, <2>2, <2>3 DEF Asks, Fits
<1> QED BY <1>8, <1>9, <1>10, <1>11, <1>12, <1>13, <1>14 DEF Books, Booked

\* Every step keeps the books.
LEMMA NextBooks == IInv /\ Books(World) /\ [Next]_vars => Books(World)'
<1> SUFFICES ASSUME IInv, Books(World), [Next]_vars
             PROVE  Books(World)'
  OBVIOUS
<1>1. CASE UNCHANGED vars
  <2>1. UNCHANGED <<pc, req, nodes, disk, sh, upset, del, todo, setup>>
    BY <1>1 DEF vars
  <2> QED BY ONLY Books(World), <2>1, TickBooks
<1>2. ASSUME NEW r \in Requests, Step(r)
      PROVE  Books(World)'
  BY <1>2, OpenBooks, MakeRoomBooks, RetryBooks, ReadBooks, JudgeBooks, LockBooks, LockWaitBooks DEF Step
<1>3. ASSUME NEW r \in Requests, Use(r)
      PROVE  Books(World)'
  BY <1>3, AnswerBooks, StoredBooks, UpdateBooks, EndBooks DEF Use
<1>4. ASSUME NEW r \in Requests, Crash(r)
      PROVE  Books(World)'
  BY <1>4, CrashBooks
<1>5. ASSUME NEW p \in Requests \union {Manager}, Unlink(p) \/ Unlinked(p)
      PROVE  Books(World)'
  BY <1>5, UnlinkBooks, UnlinkedBooks DEF Processes
<1>6. CASE Wake \/ Expire \/ Manage \/ Evict \/ Load \/ Loaded \/ LoaderQuits
  BY <1>6, ManageBooks, ExpireBooks, EvictBooks, LoadBooks, LoadedBooks, LoaderQuitsBooks
<1>7. ASSUME NEW k \in Keys, Add(k)
      PROVE  Books(World)'
  BY <1>7, AddBooks
<1>8. CASE Tick
  <2>1. UNCHANGED <<pc, req, nodes, disk, sh, upset, del, todo, setup>>
    BY <1>8 DEF Tick
  <2> QED BY ONLY Books(World), <2>1, TickBooks
<1> QED BY <1>1, <1>2, <1>3, <1>4, <1>5, <1>6, <1>7, <1>8 DEF Next

\* Good books account for the size and the files.
LEMMA BooksAccount == Books(World) => Accounted
<1> SUFFICES ASSUME Books(World), ~upset
             PROVE  SizeIsTheSum /\ (~sh.cold => \A k \in Keys : disk[k] # NoFile => Knows(k))
  BY DEF Accounted
<1>1. World.upset = upset /\ World.sh = sh /\ World.disk = disk /\ World.pc = pc /\ World.req = req /\ World.nodes = nodes
  BY WorldIs
<1>2. Sized(World) /\ Filed(World)
  BY <1>1 DEF Books, Booked
<1>3. SizeIsTheSum
  BY <1>1, <1>2 DEF Sized, Sizes, Worth, SizeIsTheSum
<1>4. ASSUME ~sh.cold, NEW k \in Keys, disk[k] # NoFile
      PROVE  Knows(k)
  <2>1. Known(World, k)
    BY <1>1, <1>2, <1>4 DEF Filed, Kept, Unseen
  <2> QED BY <1>1, <2>1 DEF Known, Knows, Keepers
<1> QED BY <1>3, <1>4

\* Unless one of the ways that are known to upset the accounts was taken: the size that the manager goes by is
\* that of the nodes whose files are there (ngx_http_file_cache_update, _read, _delete, _add), and
\* once the loader has been through every file on the disk has its node, or a request that has it in its hands.
THEOREM CacheAccounts == Spec => []Accounted
<1>1. IInv /\ Books(World) /\ [Next]_vars => (IInv /\ Books(World))'
  BY NextIs, NextBooks
<1>2. Init => IInv /\ Books(World)
  BY InitIs, InitBooks
<1>3. IInv /\ Books(World) => Accounted
  BY BooksAccount
<1> QED BY <1>1, <1>2, <1>3, PTL DEF Spec
=============================================================================
