---------------------------- MODULE MasterProofs ----------------------------
(***************************************************************************)
(* What holds of the master process whatever the configurations, the orders *)
(* it is given and the way its children die.                                 *)
(***************************************************************************)
EXTENDS Master, ListProofs

-----------------------------------------------------------------------------
(* The invariant.                                                            *)
States == {"none", "init", "run", "closing", "zombie", "fatal", "gone"}
Process ==
  [st : States, kind : Kinds, gen : DOMAIN Confs \cup {0}, slot : Slots, quit : BOOLEAN, term : BOOLEAN,
   view : [Slots -> Pids \cup {None}]]
Message == [cmd : {"open", "close", "quit", "terminate", "reopen", "KILL"}, slot : 0 .. MaxSlots, pid : Pids \cup {None}]
\* A memory of the master that runs the cycle of k.
Memory(k) ==
  [table : [Slots -> Entry], last : 0 .. MaxSlots, next : 1 .. MaxPid + 1, flags : SUBSET Flags, live : BOOLEAN,
   newBinary : Pids \cup {None, Invalid}, noaccepting : BOOLEAN, gen : {k.gen}, delay : 0 .. KillLevel + 1,
   sigio : 0 .. Workers + 2, socks : {k.socks}, zones : {k.zones}, mapped : {k.mapped}, lost : BOOLEAN]
Worlds(k) == [m : Memory(k), child : [Pids -> Process], inbox : [Pids -> Seq(Message)]]

PastLast(w) == \A s \in Slots : s > w.m.last => w.m.table[s].pid = None
Bounded(w) == \A p \in Pids : Len(w.inbox[p]) <= ChanCap
\* The master knows who is dead, and that a new binary is not its worker.
EntrySane(w, s) ==
  LET e == w.m.table[s] IN
  /\ e.pid < w.m.next
  /\ e.exited /\ e.pid # None => w.child[e.pid].st = "gone"
  /\ e.kind = "binary" <=> e.detached
  /\ e.detached => ~e.respawn
\* Whoever lives is in the table.
Listed(w, p) ==
  AliveIn(w, p) =>
    \E s \in Slots : /\ s <= w.m.last /\ w.m.table[s].pid = p /\ ~w.m.table[s].exited
                    /\ w.m.table[s].kind = w.child[p].kind
Sane(w) ==
  PastLast(w) /\ Bounded(w) /\ (\A s \in Slots : EntrySane(w, s)) /\ \A p \in Pids : Listed(w, p)

\* A world whose parts are of their types and that is sane.
Well(k, w) == w \in Worlds(k) /\ Sane(w)
\* There is one new binary, the one the master remembers.
BinariesOf(w) == {p \in Pids : AliveIn(w, p) /\ w.child[p].kind = "binary"}
OneBinaryIn(w) == \A p \in BinariesOf(w) : w.m.newBinary = p

\* The zones are those of the configuration, older than those to come, and not
\* those of a cycle that failed.
Agreed ==
  /\ m.gen \in DOMAIN Confs /\ DOMAIN m.zones = DOMAIN Confs[m.gen].zones
  /\ \A z \in DOMAIN m.zones : m.zones[z] \notin Range(left.confs) \cup left.aborted
  /\ Range(left.confs) \cap left.aborted = {}
  /\ ZonesFit
Sound ==
  /\ Well(m, World) /\ OneBinaryIn(World) /\ Agreed
  /\ "changeBinary" \in m.flags => m.newBinary \notin Pids

Named == Self = IF m.newBinary \in Pids THEN files.old ELSE files.pid
Staged ==
  /\ pending \subseteq Signals /\ pc \in Stages
  /\ files \in [pid : Pids \cup {Self, None}, old : Pids \cup {Self, None}]
  /\ left \in ScenarioType /\ IsInjective(left.confs)
  /\ pc # "exited" => Named
  /\ pc = "changeBinary" => "changeBinary" \in m.flags
Strong == Sound /\ Staged

\* A master that is not live, and has counted those it called back, has no worker left.
NoneLeft == ~m.live /\ ~left.uncounted => \A p \in Pids : Alive(p) => child[p].kind = "binary"

-----------------------------------------------------------------------------
(* What the C functions do to a world.                                       *)

\* The fields of a world are of their types.
LEMMA WorldFields ==
  ASSUME NEW k, NEW w \in Worlds(k)
  PROVE  /\ w.m \in Memory(k) /\ w.child \in [Pids -> Process] /\ w.inbox \in [Pids -> Seq(Message)]
         /\ w.m.table \in [Slots -> Entry] /\ w.m.last \in Nat /\ w.m.last <= MaxSlots
         /\ w.m.next \in Nat \ {0} /\ w.m.next <= MaxPid + 1
         /\ w.m.flags \in SUBSET Flags /\ w.m.live \in BOOLEAN
         /\ w.m.newBinary \in Pids \cup {None, Invalid} /\ w.m.gen = k.gen
         /\ w.m.socks = k.socks /\ w.m.zones = k.zones /\ w.m.mapped = k.mapped
<1>1. w.m \in Memory(k) /\ w.child \in [Pids -> Process] /\ w.inbox \in [Pids -> Seq(Message)]
  BY DEF Worlds
<1>2. /\ w.m.table \in [Slots -> Entry] /\ w.m.last \in 0 .. MaxSlots /\ w.m.next \in 1 .. MaxPid + 1
      /\ w.m.flags \in SUBSET Flags /\ w.m.live \in BOOLEAN /\ w.m.newBinary \in Pids \cup {None, Invalid}
      /\ w.m.gen = k.gen /\ w.m.socks = k.socks /\ w.m.zones = k.zones /\ w.m.mapped = k.mapped
  BY <1>1 DEF Memory
<1> QED BY <1>1, <1>2, MasterAssumption

\* What slots a new process can get: one without a process.
LEMMA FreeSlotIs ==
  ASSUME NEW k, NEW w \in Worlds(k), PastLast(w)
  PROVE  /\ FreeSlot(w) \in 1 .. w.m.last + 1
         /\ FreeSlot(w) \in Slots => w.m.table[FreeSlot(w)].pid = None
<1> DEFINE holes == {s \in 1 .. w.m.last : w.m.table[s].pid = None}
<1>1. w.m.last \in Nat
  BY WorldFields
<1>2. CASE holes = {}
  BY <1>1, <1>2 DEF FreeSlot, PastLast
<1>3. CASE holes # {}
  <2>1. holes \in SUBSET Nat
    BY <1>1
  <2>2. Min(holes) \in holes
    BY <1>3, <2>1, MinIn
  <2>3. FreeSlot(w) = Min(holes)
    BY <1>3 DEF FreeSlot
  <2> QED BY <1>1, <2>2, <2>3
<1> QED BY <1>2, <1>3

\* Two worlds that differ in their channels, and in what was lost.
SameEntry(d, e) ==
  /\ e.pid = d.pid /\ e.kind = d.kind /\ e.exited = d.exited /\ e.exiting = d.exiting
  /\ e.detached = d.detached /\ e.respawn = d.respawn
Like(w, a) ==
  /\ a.child = w.child /\ \A s \in Slots : SameEntry(w.m.table[s], a.m.table[s])
  /\ a.m.last = w.m.last /\ a.m.next = w.m.next /\ a.m.flags = w.m.flags /\ a.m.live = w.m.live
  /\ a.m.newBinary = w.m.newBinary

\* A message that can be written fits into its channel.
LEMMA WrittenIs ==
  ASSUME NEW k, NEW w \in Worlds(k), Bounded(w), NEW to, NEW msg \in Message
  PROVE  /\ Written(w, to, msg) \in [Pids -> Seq(Message)]
         /\ \A p \in Pids : Len(Written(w, to, msg)[p]) <= ChanCap
<1> DEFINE box == Written(w, to, msg)
<1>1. w.inbox \in [Pids -> Seq(Message)]
  BY WorldFields
<1>2. ASSUME NEW p \in Pids
      PROVE  box[p] \in Seq(Message) /\ Len(box[p]) <= ChanCap
  <2>1. box[p] = IF AliveIn(w, p) /\ \E s \in to : w.m.table[s].pid = p /\ CanWrite(w, s)
                 THEN Append(w.inbox[p], msg) ELSE w.inbox[p]
    BY DEF Written
  <2>2. w.inbox[p] \in Seq(Message) /\ Len(w.inbox[p]) \in Nat /\ Len(w.inbox[p]) <= ChanCap
    BY <1>1 DEF Bounded
  <2>3. CASE AliveIn(w, p) /\ \E s \in to : w.m.table[s].pid = p /\ CanWrite(w, s)
    <3>1. Len(w.inbox[p]) < ChanCap
      BY <2>3 DEF CanWrite
    <3>2. Append(w.inbox[p], msg) \in Seq(Message) /\ Len(Append(w.inbox[p], msg)) = Len(w.inbox[p]) + 1
      BY <2>2
    <3> QED BY <2>1, <2>2, <2>3, <3>1, <3>2, MasterAssumption
  <2> QED BY <2>1, <2>2, <2>3
<1> QED BY <1>2 DEF Written

\* What is written to some of the known processes.
LEMMA WriteAllIs ==
  ASSUME NEW k, NEW w \in Worlds(k), Bounded(w), NEW to \in SUBSET Known(w), NEW msg \in Message
  PROVE  LET a == WriteAll(w, to, msg) IN a \in Worlds(k) /\ Bounded(a) /\ Like(w, a)
<1> DEFINE a == WriteAll(w, to, msg)
           box == Written(w, to, msg)
<1>1. w.m \in Memory(k) /\ w.child \in [Pids -> Process]
  BY WorldFields
<1>2. box \in [Pids -> Seq(Message)] /\ \A p \in Pids : Len(box[p]) <= ChanCap
  BY WrittenIs
<1>3. /\ a.inbox = box /\ a.child = w.child
      /\ a.m = [w.m EXCEPT !.lost = @ \/ \E s \in to : ~CanWrite(w, s)]
      /\ a = [m |-> a.m, child |-> w.child, inbox |-> box]
  BY DEF WriteAll
<1>4. a.m \in Memory(k) /\ Like(w, a)
  BY <1>1, <1>3 DEF Memory, Like, SameEntry
<1>5. a \in Worlds(k)
  BY <1>1, <1>2, <1>3, <1>4 DEF Worlds
<1> QED BY <1>2, <1>3, <1>4, <1>5 DEF Bounded

\* Such worlds are equally sane.
LEMMA LikeSane ==
  ASSUME NEW w, NEW a, Like(w, a), Bounded(a), Sane(w)
  PROVE  Sane(a)
<1>1. PastLast(a)
  BY DEF Like, SameEntry, Sane, PastLast
<1>2. ASSUME NEW s \in Slots
      PROVE  EntrySane(a, s)
  BY DEF Like, SameEntry, Sane, EntrySane
<1>3. ASSUME NEW p \in Pids
      PROVE  Listed(a, p)
  BY DEF Like, SameEntry, Sane, Listed, AliveIn
<1> QED BY <1>1, <1>2, <1>3 DEF Sane

\* A channel that is closed, or a socket pair left in a slot, is nothing else.
LEMMA ChannelSet ==
  ASSUME NEW k, NEW w \in Worlds(k), Bounded(w), NEW s \in Slots, NEW x \in {"none", "open", "stale"}
  PROVE  LET a == With(w, [w.m EXCEPT !.table[s].chan = x]) IN a \in Worlds(k) /\ Bounded(a) /\ Like(w, a)
<1> DEFINE t == [w.m.table EXCEPT ![s] = [w.m.table[s] EXCEPT !.chan = x]]
           a == With(w, [w.m EXCEPT !.table[s].chan = x])
<1>1. w.m \in Memory(k) /\ w.child \in [Pids -> Process] /\ w.inbox \in [Pids -> Seq(Message)]
      /\ w.m.table \in [Slots -> Entry]
  BY WorldFields
<1>2. t \in [Slots -> Entry] /\ \A r \in Slots : SameEntry(w.m.table[r], t[r])
  BY <1>1 DEF Entry, SameEntry
<1>3. /\ a.m = [w.m EXCEPT !.table = t] /\ a.child = w.child /\ a.inbox = w.inbox
      /\ a = [m |-> a.m, child |-> w.child, inbox |-> w.inbox]
  BY DEF With
<1> HIDE DEF t, a
<1>4. a.m \in Memory(k) /\ Like(w, a)
  BY <1>1, <1>2, <1>3 DEF Memory, Like
<1>5. a \in Worlds(k) /\ Bounded(a)
  BY <1>1, <1>3, <1>4 DEF Worlds, Bounded
<1> QED BY <1>4, <1>5 DEF a

\* What ngx_spawn_process may be asked for.
Modality == {"norespawn", "justspawn", "respawn", "justrespawn", "detached", "again"}
Placed(w, s, kind, mode) ==
  /\ s \in Nat \ {0} /\ s <= w.m.last + 1 /\ kind \in Kinds /\ mode \in Modality
  /\ s \in Slots => w.m.table[s].pid = None \/ w.m.table[s].exited
  /\ mode = "again" => s <= w.m.last /\ kind = w.m.table[s].kind /\ kind # "binary"
  /\ mode # "again" => (kind = "binary" <=> mode = "detached")

\* It changes nothing that the master decides by.
Steady(w, a) == a.m.flags = w.m.flags /\ a.m.live = w.m.live /\ a.m.newBinary = w.m.newBinary

\* The world after a fork that succeeds.
Entered(w, s, kind, mode) ==
  IF mode = "again" THEN [w.m.table[s] EXCEPT !.pid = w.m.next, !.exited = FALSE, !.chan = "open"]
  ELSE [pid |-> w.m.next, kind |-> kind, exited |-> FALSE, exiting |-> FALSE,
        chan |-> IF mode = "detached" THEN "none" ELSE "open",
        respawn |-> Respawned(mode), just |-> JustSpawned(mode), detached |-> mode = "detached"]
Born(w, s, kind) ==
  [Unborn EXCEPT !.st = "init", !.kind = kind, !.gen = w.m.gen, !.slot = s,
     !.view = [t \in Slots |-> IF t # s /\ w.m.table[t].chan = "open" THEN w.m.table[t].pid ELSE None]]
ForkedWorld(w, s, kind, mode) ==
  [m |-> [w.m EXCEPT !.table[s] = Entered(w, s, kind, mode), !.last = IF s > @ THEN s ELSE @,
                     !.next = w.m.next + 1],
   child |-> [w.child EXCEPT ![w.m.next] = Born(w, s, kind)], inbox |-> w.inbox]

\* ngx_spawn_process does one of three things.
LEMMA SpawnAtIs ==
  ASSUME NEW w, NEW s, NEW kind, NEW mode, NEW ok
  PROVE  SpawnAt(w, s, kind, mode, ok) =
           IF s > MaxSlots \/ w.m.next > MaxPid THEN w
           ELSE IF ~ok
           THEN With(w, [w.m EXCEPT !.table[s].chan = IF mode = "detached" THEN "none" ELSE "stale"])
           ELSE ForkedWorld(w, s, kind, mode)
<1>1. (IF (IF mode = "detached" THEN "none" ELSE "open") = "open" THEN "stale" ELSE "none")
      = IF mode = "detached" THEN "none" ELSE "stale"
  OBVIOUS
<1> QED BY <1>1, Zenon DEF SpawnAt, ForkedWorld, Entered, Born

\* The entry of a process that has just been started.
LEMMA EnteredIs ==
  ASSUME NEW k, NEW w \in Worlds(k), NEW s \in Slots, NEW kind, NEW mode, Placed(w, s, kind, mode),
         w.m.next \in Pids, EntrySane(w, s)
  PROVE  LET e == Entered(w, s, kind, mode) IN
         /\ e \in Entry /\ e.pid = w.m.next /\ e.kind = kind /\ ~e.exited
         /\ e.kind = "binary" <=> e.detached
         /\ e.detached => ~e.respawn
<1>1. w.m.table[s] \in Entry
  BY WorldFields
<1>2. CASE mode = "again"
  BY <1>1, <1>2 DEF Placed, Entered, Entry, EntrySane
<1>3. CASE mode # "again"
  <2>1. kind \in Kinds /\ (kind = "binary" <=> mode = "detached")
    BY <1>3 DEF Placed
  <2> DEFINE chan == IF mode = "detached" THEN "none" ELSE "open"
             respawn == Respawned(mode)
             just == JustSpawned(mode)
             detached == mode = "detached"
  <2>2. /\ respawn \in BOOLEAN /\ just \in BOOLEAN /\ detached \in BOOLEAN /\ chan \in {"none", "open", "stale"}
        /\ detached => ~respawn
    BY DEF Respawned, JustSpawned
  <2>3. Entered(w, s, kind, mode) =
          [pid |-> w.m.next, kind |-> kind, exited |-> FALSE, exiting |-> FALSE, chan |-> chan,
           respawn |-> respawn, just |-> just, detached |-> detached]
    BY <1>3 DEF Entered
  <2>4. kind = "binary" <=> detached
    BY <2>1
  <2> HIDE DEF respawn, just, detached, chan
  <2> QED BY <2>1, <2>2, <2>3, <2>4 DEF Entry
<1> QED BY <1>2, <1>3

\* ... is a process, as the kernel has it, ...
LEMMA BornIs ==
  ASSUME NEW k, k.gen \in DOMAIN Confs, NEW w \in Worlds(k), NEW s \in Slots, NEW kind \in Kinds
  PROVE  LET c == Born(w, s, kind) IN c \in Process /\ c.st = "init" /\ c.kind = kind
<1>1. w.m.table \in [Slots -> Entry] /\ w.m.gen \in DOMAIN Confs
  BY WorldFields
<1>2. [t \in Slots |-> IF t # s /\ w.m.table[t].chan = "open" THEN w.m.table[t].pid ELSE None]
      \in [Slots -> Pids \cup {None}]
  BY <1>1 DEF Entry
<1> QED BY <1>1, <1>2 DEF Born, Unborn, Process, States

Grown(w, a, s, kind, mode) ==
  /\ a.inbox = w.inbox
  /\ a.m.table = [w.m.table EXCEPT ![s] = Entered(w, s, kind, mode)]
  /\ a.m.last = IF s > w.m.last THEN s ELSE w.m.last
  /\ a.child = [w.child EXCEPT ![w.m.next] = Born(w, s, kind)]

\* ... and the world it is born into is of its type ...
LEMMA ForkedTyped ==
  ASSUME NEW k, k.gen \in DOMAIN Confs, NEW w \in Worlds(k), NEW s \in Slots, NEW kind, NEW mode,
         Placed(w, s, kind, mode), w.m.next \in Pids, EntrySane(w, s)
  PROVE  LET a == ForkedWorld(w, s, kind, mode) IN
         a \in Worlds(k) /\ Steady(w, a) /\ a.m.next = w.m.next + 1 /\ Grown(w, a, s, kind, mode)
<1> DEFINE a == ForkedWorld(w, s, kind, mode)
           e == Entered(w, s, kind, mode)
           c == Born(w, s, kind)
           l == IF s > w.m.last THEN s ELSE w.m.last
<1>1. w.m \in Memory(k) /\ w.child \in [Pids -> Process] /\ w.inbox \in [Pids -> Seq(Message)]
      /\ w.m.table \in [Slots -> Entry]
  BY WorldFields
<1>2. e \in Entry
  BY EnteredIs
<1>3. c \in Process
  BY BornIs DEF Placed
<1>4. l \in 0 .. MaxSlots /\ w.m.next + 1 \in 1 .. MaxPid + 1
  BY WorldFields, MasterAssumption DEF Slots, Pids
<1>5. /\ a = [m |-> a.m, child |-> a.child, inbox |-> w.inbox] /\ a.inbox = w.inbox
      /\ a.m = [w.m EXCEPT !.table[s] = e, !.last = l, !.next = w.m.next + 1]
      /\ a.child = [w.child EXCEPT ![w.m.next] = c]
  BY DEF ForkedWorld
<1> HIDE DEF a, e, c, l
<1>6. a.m = [w.m EXCEPT !.table = [w.m.table EXCEPT ![s] = e], !.last = l, !.next = w.m.next + 1]
  BY <1>5
<1>7. [w.m.table EXCEPT ![s] = e] \in [Slots -> Entry] /\ a.child \in [Pids -> Process]
  BY <1>1, <1>2, <1>3, <1>5
<1>8. /\ a.m \in Memory(k) /\ a.m.table = [w.m.table EXCEPT ![s] = e] /\ a.m.last = l
      /\ a.m.next = w.m.next + 1 /\ Steady(w, a)
  BY <1>1, <1>4, <1>6, <1>7 DEF Memory, Steady
<1> QED BY <1>1, <1>5, <1>7, <1>8 DEF Worlds, Grown, a, e, c, l

\* Who lives in a world lived in the one before, as what it was, ...
Fewer(w, a) == \A p \in Pids : AliveIn(a, p) => AliveIn(w, p) /\ a.child[p].kind = w.child[p].kind
\* ... or has been started as a process of a kind.
FewerBut(w, a, kind) ==
  \A p \in Pids : AliveIn(a, p) => a.child[p].kind = kind \/ (AliveIn(w, p) /\ a.child[p].kind = w.child[p].kind)

\* ... and as sane as before.
LEMMA ForkedSane ==
  ASSUME NEW k, k.gen \in DOMAIN Confs, NEW w \in Worlds(k), Sane(w), NEW s \in Slots, NEW kind, NEW mode,
         Placed(w, s, kind, mode), w.m.next \in Pids
  PROVE  LET a == ForkedWorld(w, s, kind, mode) IN
         /\ Sane(a) /\ FewerBut(w, a, kind)
         /\ BinariesOf(a) = BinariesOf(w) \cup (IF kind = "binary" THEN {w.m.next} ELSE {})
<1> DEFINE a == ForkedWorld(w, s, kind, mode)
           e == Entered(w, s, kind, mode)
           c == Born(w, s, kind)
           q == w.m.next
<1>1. /\ w.child \in [Pids -> Process] /\ w.m.table \in [Slots -> Entry] /\ w.m.last \in Nat
      /\ \A r \in Slots : EntrySane(w, r)
  BY WorldFields DEF Sane
<1>2. /\ e.pid = q /\ e.kind = kind /\ ~e.exited /\ (e.kind = "binary" <=> e.detached)
      /\ e.detached => ~e.respawn
  BY <1>1, EnteredIs
<1>3. c.st = "init" /\ c.kind = kind
  BY BornIs DEF Placed
<1>4. /\ a.inbox = w.inbox /\ a.m.table = [w.m.table EXCEPT ![s] = e]
      /\ a.m.last = (IF s > w.m.last THEN s ELSE w.m.last) /\ a.m.next = q + 1
      /\ a.child = [w.child EXCEPT ![q] = c]
  BY <1>1, ForkedTyped DEF Grown
<1> HIDE DEF a, e, c, q
<1>5. PastLast(a) /\ Bounded(a)
  BY <1>1, <1>4 DEF PastLast, Bounded, Sane, Slots
<1>6. ASSUME NEW r \in Slots
      PROVE  EntrySane(a, r)
  <2>1. CASE r = s
    BY <1>1, <1>2, <1>3, <1>4, <2>1 DEF EntrySane, q, Pids
  <2>2. CASE r # s
    <3>1. a.m.table[r] = w.m.table[r] /\ EntrySane(w, r) /\ w.m.table[r].pid < q /\ q \in Nat
      BY <1>1, <1>4, <2>2 DEF EntrySane, q, Pids
    <3>2. w.m.table[r].pid \in Pids \cup {None}
      BY <1>1 DEF Entry
    <3>3. w.m.table[r].pid # None => a.child[w.m.table[r].pid] = w.child[w.m.table[r].pid]
      BY <1>1, <1>4, <3>1, <3>2
    <3> QED BY <1>4, <3>1, <3>2, <3>3 DEF EntrySane, Pids, None
  <2> QED BY <2>1, <2>2
<1>7. ASSUME NEW p \in Pids
      PROVE  Listed(a, p)
  <2>1. CASE p = q
    <3>0. s \in Nat
      BY DEF Slots
    <3>1. s <= a.m.last
      BY <1>1, <1>4, <3>0
    <3>2. a.m.table[s] = e /\ a.child[p] = c
      BY <1>1, <1>4, <2>1
    <3> QED BY <1>2, <1>3, <2>1, <3>1, <3>2 DEF Listed
  <2>2. CASE p # q
    <3>1. a.child[p] = w.child[p]
      BY <1>1, <1>4, <2>2
    <3>2. ASSUME AliveIn(a, p)
          PROVE  \E r \in Slots : /\ r <= a.m.last /\ a.m.table[r].pid = p /\ ~a.m.table[r].exited
                                  /\ a.m.table[r].kind = a.child[p].kind
      <4>1. AliveIn(w, p)
        BY <3>1, <3>2 DEF AliveIn
      <4>2. PICK r \in Slots : /\ r <= w.m.last /\ w.m.table[r].pid = p /\ ~w.m.table[r].exited
                               /\ w.m.table[r].kind = w.child[p].kind
        BY <4>1 DEF Sane, Listed
      <4>3. r # s
        BY <4>2 DEF Placed, Pids, None
      <4>4. r <= a.m.last
        BY <1>1, <1>4, <4>2 DEF Slots
      <4> QED BY <1>1, <1>4, <3>1, <4>2, <4>3, <4>4
    <3> QED BY <3>2 DEF Listed
  <2> QED BY <2>1, <2>2
<1>8. BinariesOf(a) = BinariesOf(w) \cup (IF kind = "binary" THEN {q} ELSE {})
  <2>1. ~AliveIn(w, q)
    <3>1. \A r \in Slots : w.m.table[r].pid < q
      BY <1>1 DEF EntrySane, q
    <3>2. q \in Nat
      BY DEF q, Pids
    <3> QED BY <3>1, <3>2 DEF Sane, Listed, q
  <2> QED BY <1>1, <1>3, <1>4, <2>1 DEF BinariesOf, AliveIn, q
<1>9. FewerBut(w, a, kind)
  BY <1>1, <1>3, <1>4 DEF FewerBut, AliveIn
<1> QED BY <1>5, <1>6, <1>7, <1>8, <1>9 DEF Sane, a, q

\* a differs from w in processes that are no new binary.
Calm(w, a) == Steady(w, a) /\ BinariesOf(a) = BinariesOf(w)

\* Worlds that differ in their channels are calm.
LEMMA LikeCalm ==
  ASSUME NEW w, NEW a, Like(w, a)
  PROVE  Calm(w, a)
BY DEF Like, Calm, Steady, BinariesOf, AliveIn

\* ngx_spawn_process keeps a world sane; the binary it starts is the next process.
LEMMA SpawnAtWell ==
  ASSUME NEW k, k.gen \in DOMAIN Confs, NEW w, Well(k, w), NEW s, NEW kind, NEW mode, NEW ok,
         Placed(w, s, kind, mode)
  PROVE  LET a == SpawnAt(w, s, kind, mode, ok) IN
         /\ Well(k, a) /\ Steady(w, a)
         /\ Spawned(w, a) => s \in Slots /\ w.m.next \in Pids
         /\ BinariesOf(a) = BinariesOf(w) \cup (IF kind = "binary" /\ Spawned(w, a) THEN {w.m.next} ELSE {})
         /\ Like(w, a) \/ Spawned(w, a)
         /\ FewerBut(w, a, kind)
<1> DEFINE a == SpawnAt(w, s, kind, mode, ok)
           x == IF mode = "detached" THEN "none" ELSE "stale"
<1>1. w \in Worlds(k) /\ Sane(w)
  BY DEF Well
<1>2. w.m.next \in Nat \ {0} /\ w.m.last \in Nat
  BY <1>1, WorldFields
<1>3. CASE s > MaxSlots \/ w.m.next > MaxPid
  <2>1. a = w
    BY <1>3, SpawnAtIs
  <2> QED BY <2>1 DEF Well, Steady, Spawned, Like, SameEntry, FewerBut
<1>4. CASE ~(s > MaxSlots \/ w.m.next > MaxPid)
  <2>1. s \in Slots /\ w.m.next \in Pids
    BY <1>2, <1>4, MasterAssumption DEF Placed, Slots, Pids
  <2>2. CASE ~ok
    <3>1. a = With(w, [w.m EXCEPT !.table[s].chan = x])
      BY <1>4, <2>2, SpawnAtIs
    <3>2. x \in {"none", "open", "stale"} /\ Bounded(w)
      BY <1>1 DEF Sane
    <3> HIDE DEF x
    <3>3. a \in Worlds(k) /\ Bounded(a) /\ Like(w, a)
      BY <1>1, <2>1, <3>1, <3>2, ChannelSet
    <3>4. Sane(a)
      BY <1>1, <3>3, LikeSane
    <3>5. Calm(w, a)
      BY <3>3, LikeCalm
    <3>6. ~Spawned(w, a)
      BY <3>3 DEF Like, Spawned
    <3>7. FewerBut(w, a, kind)
      BY <3>3 DEF Like, FewerBut, AliveIn
    <3> QED BY <3>3, <3>4, <3>5, <3>6, <3>7 DEF Well, Calm
  <2>3. CASE ok
    <3>1. a = ForkedWorld(w, s, kind, mode)
      BY <1>4, <2>3, SpawnAtIs
    <3>2. EntrySane(w, s)
      BY <1>1, <2>1 DEF Sane
    <3> DEFINE f == ForkedWorld(w, s, kind, mode)
    <3>3. f \in Worlds(k) /\ Steady(w, f) /\ f.m.next = w.m.next + 1
      BY <1>1, <2>1, <3>2, ForkedTyped
    <3>4. Sane(f) /\ FewerBut(w, f, kind) /\ BinariesOf(f) = BinariesOf(w) \cup (IF kind = "binary" THEN {w.m.next} ELSE {})
      BY <1>1, <2>1, ForkedSane
    <3> HIDE DEF a, f
    <3>5. Spawned(w, a)
      BY <1>2, <3>1, <3>3 DEF Spawned, f
    <3> QED BY <2>1, <3>1, <3>3, <3>4, <3>5 DEF Well, a, f
  <2> QED BY <2>2, <2>3
<1> QED BY <1>3, <1>4

\* What is written to channels keeps a world sane.
LEMMA WriteAllWell ==
  ASSUME NEW k, NEW w, Well(k, w), NEW to \in SUBSET Known(w), NEW msg \in Message
  PROVE  LET a == WriteAll(w, to, msg) IN Well(k, a) /\ Like(w, a)
<1> DEFINE a == WriteAll(w, to, msg)
<1>1. w \in Worlds(k) /\ Sane(w) /\ Bounded(w)
  BY DEF Well, Sane
<1>2. a \in Worlds(k) /\ Bounded(a) /\ Like(w, a)
  BY <1>1, WriteAllIs
<1>3. Sane(a)
  BY <1>1, <1>2, LikeSane
<1> QED BY <1>2, <1>3 DEF Well

\* So does the news of a process.
LEMMA PassOpenChannelWell ==
  ASSUME NEW k, NEW w, Well(k, w), NEW s \in Slots
  PROVE  LET a == PassOpenChannel(w, s) IN Well(k, a) /\ Like(w, a)
<1> DEFINE to == {t \in Known(w) \ {s} : w.m.table[t].chan # "none"}
           msg == Msg("open", s, w.m.table[s].pid)
<1>1. to \in SUBSET Known(w)
  OBVIOUS
<1>2. w.m.table[s] \in Entry
  BY WorldFields DEF Well
<1>3. msg \in Message
  BY <1>2, MasterAssumption DEF Msg, Message, Entry, Slots
<1> QED BY <1>1, <1>3, WriteAllWell DEF PassOpenChannel

\* Calm is transitive.
LEMMA CalmOn ==
  ASSUME NEW w, NEW a, NEW b, Calm(w, a), Calm(a, b)
  PROVE  Calm(w, b)
BY DEF Calm, Steady

\* A worker or a helper is started, or not.
LEMMA SpawnWell ==
  ASSUME NEW k, k.gen \in DOMAIN Confs, NEW w, Well(k, w), NEW kind \in Kinds \ {"binary"},
         NEW mode \in Modality \ {"detached", "again"}, NEW ok
  PROVE  Well(k, Spawn(w, kind, mode, ok)) /\ Calm(w, Spawn(w, kind, mode, ok))
<1> DEFINE s == FreeSlot(w)
           a == SpawnAt(w, s, kind, mode, ok)
           b == PassOpenChannel(a, s)
<1>1. /\ s \in 1 .. w.m.last + 1
      /\ s \in Slots => w.m.table[s].pid = None
  BY FreeSlotIs DEF Well, Sane
<1>2. w.m.last \in Nat
  BY WorldFields DEF Well
<1>3. Placed(w, s, kind, mode)
  BY <1>1, <1>2 DEF Placed
<1> HIDE DEF s
<1>4. /\ Well(k, a) /\ Steady(w, a) /\ BinariesOf(a) = BinariesOf(w)
      /\ Spawned(w, a) => s \in Slots
  <2>1. /\ Well(k, a) /\ Steady(w, a)
        /\ Spawned(w, a) => s \in Slots
        /\ BinariesOf(a) = BinariesOf(w) \cup (IF kind = "binary" /\ Spawned(w, a) THEN {w.m.next} ELSE {})
    BY <1>3, SpawnAtWell
  <2> HIDE DEF a
  <2> QED BY <2>1
<1>5. Calm(w, a)
  BY <1>4 DEF Calm
<1>6. Spawn(w, kind, mode, ok) = IF Spawned(w, a) THEN b ELSE a
  BY DEF Spawn, s
<1> HIDE DEF a
<1>7. CASE Spawned(w, a)
  <2>1. Well(k, b) /\ Like(a, b)
    BY <1>4, <1>7, PassOpenChannelWell
  <2>2. Calm(w, b)
    BY <1>5, <2>1, LikeCalm, CalmOn
  <2> QED BY <1>6, <1>7, <2>1, <2>2
<1>8. CASE ~Spawned(w, a)
  BY <1>4, <1>5, <1>6, <1>8
<1> QED BY <1>7, <1>8

\* The loop of ngx_start_worker_processes.
Starts(f, w, mode, ok, n) == f = [i \in 0 .. n |-> IF i = 0 THEN w ELSE Spawn(f[i - 1], "worker", mode, ok)]

\* It is what its last turn leaves, ...
LEMMA StartsIs ==
  ASSUME NEW w, NEW mode, NEW ok
  PROVE  StartWorkerProcesses(w, mode, ok) = (CHOOSE f : Starts(f, w, mode, ok, Workers))[Workers]
BY Zenon DEF StartWorkerProcesses, Starts

\* ... the turns exist, ...
LEMMA StartsExist ==
  ASSUME NEW w, NEW mode, NEW ok, NEW n \in Nat
  PROVE  \E f : Starts(f, w, mode, ok, n)
<1> DEFINE T == {j \in Nat : ~\E f : Starts(f, w, mode, ok, j)}
<1> SUFFICES ASSUME T # {} PROVE FALSE
  OBVIOUS
<1>1. PICK j \in T : \A y \in T : j <= y
  BY LeastNumber
<1>2. CASE j = 0
  <2>1. Starts([i \in 0 .. 0 |-> w], w, mode, ok, 0)
    BY DEF Starts
  <2> QED BY <1>2, <2>1
<1>3. CASE j # 0
  <2>1. j - 1 \in Nat /\ j - 1 \notin T
    BY <1>1, <1>3
  <2>2. PICK f : Starts(f, w, mode, ok, j - 1)
    BY <2>1
  <2> DEFINE g == [i \in 0 .. j |-> IF i = j THEN Spawn(f[j - 1], "worker", mode, ok) ELSE f[i]]
  <2>3. \A i \in 0 .. j : g[i] = IF i = 0 THEN w ELSE Spawn(g[i - 1], "worker", mode, ok)
    <3> SUFFICES ASSUME NEW i \in 0 .. j
                 PROVE  g[i] = IF i = 0 THEN w ELSE Spawn(g[i - 1], "worker", mode, ok)
      OBVIOUS
    <3>0. \A h \in 0 .. j - 1 : f[h] = IF h = 0 THEN w ELSE Spawn(f[h - 1], "worker", mode, ok)
      BY <2>2 DEF Starts
    <3>1. CASE i = j
      BY <3>1, <1>3, <1>1
    <3>2. CASE i # j
      <4>1. i \in 0 .. j - 1 /\ g[i] = f[i]
        BY <3>2, <1>1
      <4>2. i # 0 => g[i - 1] = f[i - 1]
        BY <3>2, <1>1
      <4> QED BY <4>1, <4>2, <3>0
    <3> QED BY <3>1, <3>2
  <2>4. Starts(g, w, mode, ok, j)
    BY <2>3 DEF Starts
  <2> QED BY <2>4
<1> QED BY <1>2, <1>3

\* ... and each is calm.
LEMMA StartWorkersWell ==
  ASSUME NEW k, k.gen \in DOMAIN Confs, NEW w, Well(k, w),
         NEW mode \in Modality \ {"detached", "again"}, NEW ok
  PROVE  Well(k, StartWorkerProcesses(w, mode, ok)) /\ Calm(w, StartWorkerProcesses(w, mode, ok))
<1>0. Workers \in Nat
  BY MasterAssumption
<1>1. PICK f : f = (CHOOSE g : Starts(g, w, mode, ok, Workers)) /\ Starts(f, w, mode, ok, Workers)
  BY <1>0, StartsExist
<1>2. \A i \in 0 .. Workers : f[i] = IF i = 0 THEN w ELSE Spawn(f[i - 1], "worker", mode, ok)
  BY <1>1 DEF Starts
<1> DEFINE T == {i \in 0 .. Workers : ~(Well(k, f[i]) /\ Calm(w, f[i]))}
<1>3. T = {}
  <2> SUFFICES ASSUME T # {} PROVE FALSE
    OBVIOUS
  <2>0. T \in SUBSET Nat
    OBVIOUS
  <2>1. PICK j \in T : \A y \in T : j <= y
    BY <2>0, LeastNumber
  <2>2. CASE j = 0
    <3>1. f[0] = w
      BY <1>0, <1>2
    <3>2. Calm(w, w)
      BY DEF Calm, Steady
    <3> QED BY <2>1, <2>2, <3>1, <3>2
  <2>3. CASE j # 0
    <3>1. j \in 0 .. Workers /\ j - 1 \in 0 .. Workers /\ j - 1 \notin T
      BY <1>0, <2>1, <2>3
    <3>2. Well(k, f[j - 1]) /\ Calm(w, f[j - 1])
      BY <3>1
    <3>3. f[j] = Spawn(f[j - 1], "worker", mode, ok)
      BY <1>2, <2>3, <3>1
    <3>4. "worker" \in Kinds \ {"binary"}
      BY DEF Kinds
    <3>5. Well(k, f[j]) /\ Calm(f[j - 1], f[j])
      BY <3>2, <3>3, <3>4, SpawnWell
    <3>6. Calm(w, f[j])
      BY <3>2, <3>5, CalmOn
    <3> QED BY <2>1, <3>5, <3>6
  <2> QED BY <2>2, <2>3
<1>4. Well(k, f[Workers]) /\ Calm(w, f[Workers])
  BY <1>0, <1>3
<1> QED BY <1>1, <1>4, StartsIs

\* So is a start of the cache helpers ...
LEMMA StartCacheWell ==
  ASSUME NEW k, k.gen \in DOMAIN Confs, NEW w, Well(k, w), NEW again \in BOOLEAN, NEW ok
  PROVE  Well(k, StartCacheManagerProcesses(w, again, ok)) /\ Calm(w, StartCacheManagerProcesses(w, again, ok))
<1> DEFINE x == IF again THEN "justrespawn" ELSE "respawn"
           y == IF again THEN "justspawn" ELSE "norespawn"
           a == Spawn(w, "manager", x, ok)
           b == Spawn(a, "loader", y, ok)
<1>1. x \in Modality \ {"detached", "again"} /\ y \in Modality \ {"detached", "again"}
  BY DEF Modality
<1>2. "manager" \in Kinds \ {"binary"} /\ "loader" \in Kinds \ {"binary"}
  BY DEF Kinds, Helpers
<1>3. \/ StartCacheManagerProcesses(w, again, ok) = w
      \/ StartCacheManagerProcesses(w, again, ok) = a
      \/ StartCacheManagerProcesses(w, again, ok) = b
  BY DEF StartCacheManagerProcesses
<1> HIDE DEF x, y
<1>4. Well(k, a) /\ Calm(w, a)
  BY <1>1, <1>2, SpawnWell
<1> HIDE DEF a
<1>5. Well(k, b) /\ Calm(a, b)
  BY <1>1, <1>2, <1>4, SpawnWell
<1>6. Calm(w, b)
  BY <1>4, <1>5, CalmOn
<1>7. Calm(w, w)
  BY DEF Calm, Steady
<1> QED BY <1>3, <1>4, <1>5, <1>6, <1>7

\* ... and of a whole cycle.
LEMMA StartAllWell ==
  ASSUME NEW k, k.gen \in DOMAIN Confs, NEW w, Well(k, w), NEW mode \in {"respawn", "justrespawn"}, NEW ok
  PROVE  Well(k, StartAll(w, mode, ok)) /\ Calm(w, StartAll(w, mode, ok))
<1> DEFINE a == StartWorkerProcesses(w, mode, ok)
           again == mode = "justrespawn"
<1>1. mode \in Modality \ {"detached", "again"} /\ again \in BOOLEAN
  BY DEF Modality
<1>2. Well(k, a) /\ Calm(w, a)
  BY <1>1, StartWorkersWell
<1>3. StartAll(w, mode, ok) = StartCacheManagerProcesses(a, again, ok)
  BY DEF StartAll
<1> HIDE DEF a, again
<1>4. Well(k, StartAll(w, mode, ok)) /\ Calm(a, StartAll(w, mode, ok))
  BY <1>1, <1>2, <1>3, StartCacheWell
<1> QED BY <1>2, <1>4, CalmOn

\* The known processes are in slots.
LEMMA KnownAreSlots ==
  ASSUME NEW k, NEW w \in Worlds(k)
  PROVE  Known(w) \subseteq Slots
<1>1. w.m.last \in Nat /\ w.m.last <= MaxSlots
  BY WorldFields
<1> QED BY <1>1, MasterAssumption DEF Known, Slots

\* What a child is told.
Orders == {"quit", "terminate", "reopen", "KILL"}

\* ngx_signal_handler in a child: it may die of it, and stays what it is.
LEMMA DeliverIs ==
  ASSUME NEW c \in Process, NEW sig \in Orders
  PROVE  /\ Deliver(c, sig) \in Process /\ Deliver(c, sig).kind = c.kind
         /\ Deliver(c, sig).st \in {c.st, "zombie"}
BY DEF Deliver, Process, States, Orders

\* A signal tells who is dead, and nothing else of an entry that is not a flag.
LEMMA SignalledIs ==
  ASSUME NEW k, NEW w \in Worlds(k), NEW s \in Slots, NEW sig \in Orders
  PROVE  LET d == w.m.table[s]  e == Signalled(w, s, sig) IN
         /\ e \in Entry /\ e.pid = d.pid /\ e.kind = d.kind /\ e.detached = d.detached /\ e.respawn = d.respawn
         /\ e.exited = (d.exited \/ s \in Missed(w, sig))
<1>1. w.m.table[s] \in Entry
  BY WorldFields
<1>2. s \in Missed(w, sig) => s \notin Spared(w)
  BY DEF Missed, Told, Spared
<1> QED BY <1>1, <1>2 DEF Signalled, Entry

\* What ngx_signal_worker_processes changes.
Warned(w, a) ==
  /\ a.m.live = w.m.live /\ a.m.newBinary = w.m.newBinary
  /\ a.m.flags \subseteq w.m.flags \cup {"reap"} /\ w.m.flags \subseteq a.m.flags
  /\ \A p \in Pids : AliveIn(a, p) => AliveIn(w, p) /\ a.child[p].kind = w.child[p].kind

\* It keeps a world sane: who could not be told was waited for already.
LEMMA SignalWorkersWell ==
  ASSUME NEW k, NEW w, Well(k, w), NEW sig \in Orders
  PROVE  Well(k, SignalWorkers(w, sig)) /\ Warned(w, SignalWorkers(w, sig))
<1> DEFINE a == SignalWorkers(w, sig)
           miss == Missed(w, sig)
           table == [s \in Slots |-> Signalled(w, s, sig)]
           flags == w.m.flags \cup (IF miss = {} THEN {} ELSE {"reap"})
           box == Written(w, ByChannel(w, sig), Msg(sig, None, None))
           hit(p) == AliveIn(w, p) /\ \E s \in Killed(w, sig) : w.m.table[s].pid = p
           child1 == [p \in Pids |-> IF hit(p) THEN Deliver(w.child[p], sig) ELSE w.child[p]]
<1>1. /\ w \in Worlds(k) /\ Sane(w) /\ w.m \in Memory(k) /\ w.child \in [Pids -> Process]
      /\ w.m.table \in [Slots -> Entry]
  BY WorldFields DEF Well
<1>2. /\ a = [m |-> a.m, child |-> child1, inbox |-> box] /\ a.inbox = box /\ a.child = child1
      /\ a.m = [w.m EXCEPT !.table = table, !.flags = flags]
  BY DEF SignalWorkers
<1>3. Msg(sig, None, None) \in Message
  BY MasterAssumption DEF Msg, Message, Orders, None
<1>4. box \in [Pids -> Seq(Message)] /\ \A p \in Pids : Len(box[p]) <= ChanCap
  BY <1>1, <1>3, WrittenIs DEF Sane
<1>5. table \in [Slots -> Entry]
  BY <1>1, SignalledIs
<1>6. flags \in SUBSET Flags /\ w.m.flags \subseteq flags /\ flags \subseteq w.m.flags \cup {"reap"}
  <2>1. w.m.flags \in SUBSET Flags /\ "reap" \in Flags
    BY <1>1, WorldFields DEF Flags
  <2> QED BY <2>1
<1>7. ASSUME NEW p \in Pids
      PROVE  /\ child1[p] \in Process /\ child1[p].kind = w.child[p].kind
             /\ AliveIn(w, p) => child1[p].st \in {w.child[p].st, "zombie"}
             /\ ~AliveIn(w, p) => child1[p] = w.child[p]
  <2>1. w.child[p] \in Process /\ child1[p] = IF hit(p) THEN Deliver(w.child[p], sig) ELSE w.child[p]
    BY <1>1
  <2>2. CASE hit(p)
    BY <2>1, <2>2, DeliverIs
  <2>3. CASE ~hit(p)
    BY <2>1, <2>3
  <2> QED BY <2>2, <2>3
<1>8. child1 \in [Pids -> Process]
  BY <1>7
<1>9. /\ \A s \in Slots : table[s] = Signalled(w, s, sig)
      /\ miss \subseteq Slots /\ \A s \in miss : w.child[w.m.table[s].pid].st = "gone"
  <2>1. \A s \in Slots : table[s] = Signalled(w, s, sig)
    OBVIOUS
  <2>2. \A s \in miss : s \in Known(w) /\ w.child[w.m.table[s].pid].st = "gone"
    BY DEF Missed, Told
  <2>3. Known(w) \subseteq Slots
    BY <1>1, KnownAreSlots
  <2> QED BY <2>1, <2>2, <2>3
<1> HIDE DEF a, miss, table, flags, box, hit, child1
<1>10. /\ a.m \in Memory(k) /\ a.m.table = table /\ a.m.flags = flags /\ a.m.live = w.m.live
       /\ a.m.newBinary = w.m.newBinary /\ a.m.last = w.m.last /\ a.m.next = w.m.next
  BY <1>1, <1>2, <1>5, <1>6 DEF Memory
<1>11. a \in Worlds(k)
  BY <1>2, <1>4, <1>8, <1>10 DEF Worlds
<1>12. \A p \in Pids : AliveIn(a, p) => AliveIn(w, p) /\ a.child[p].kind = w.child[p].kind
  BY <1>2, <1>7 DEF AliveIn
<1>13. Warned(w, a)
  BY <1>6, <1>10, <1>12 DEF Warned
<1>14. PastLast(a)
  BY <1>1, <1>9, <1>10, SignalledIs DEF Sane, PastLast
<1>15. Bounded(a)
  BY <1>2, <1>4 DEF Bounded
<1>16. ASSUME NEW s \in Slots
       PROVE  EntrySane(a, s)
  <2> DEFINE d == w.m.table[s]
             e == Signalled(w, s, sig)
  <2>1. /\ e.pid = d.pid /\ e.kind = d.kind /\ e.detached = d.detached /\ e.respawn = d.respawn
        /\ e.exited = (d.exited \/ s \in miss)
    BY <1>1, SignalledIs DEF miss
  <2>2. EntrySane(w, s) /\ d.pid \in Pids \cup {None}
    BY <1>1 DEF Sane, Entry
  <2>3. a.m.table[s] = e
    BY <1>9, <1>10
  <2> HIDE DEF e
  <2>4. ASSUME e.exited, d.pid # None
        PROVE  a.child[d.pid].st = "gone"
    <3>1. w.child[d.pid].st = "gone"
      BY <1>9, <2>1, <2>2, <2>4 DEF EntrySane
    <3>2. d.pid \in Pids /\ ~AliveIn(w, d.pid)
      BY <2>2, <2>4, <3>1 DEF AliveIn
    <3> QED BY <1>2, <1>7, <3>1, <3>2
  <2> QED BY <1>10, <2>1, <2>2, <2>3, <2>4 DEF EntrySane
<1>17. ASSUME NEW p \in Pids, AliveIn(a, p)
       PROVE  \E s \in Slots : /\ s <= a.m.last /\ a.m.table[s].pid = p /\ ~a.m.table[s].exited
                               /\ a.m.table[s].kind = a.child[p].kind
  <2>1. AliveIn(w, p) /\ a.child[p].kind = w.child[p].kind
    BY <1>12, <1>17
  <2>2. PICK s \in Slots : /\ s <= w.m.last /\ w.m.table[s].pid = p /\ ~w.m.table[s].exited
                           /\ w.m.table[s].kind = w.child[p].kind
    BY <1>1, <2>1 DEF Sane, Listed
  <2>3. s \notin miss
    BY <1>9, <2>1, <2>2 DEF AliveIn
  <2> DEFINE e == Signalled(w, s, sig)
  <2>4. e.pid = p /\ e.kind = w.m.table[s].kind /\ e.exited = FALSE
    <3>1. e.exited = (w.m.table[s].exited \/ s \in miss) /\ e.pid = w.m.table[s].pid /\ e.kind = w.m.table[s].kind
      BY <1>1, SignalledIs DEF miss
    <3> QED BY <2>2, <2>3, <3>1
  <2>5. a.m.table[s] = e
    BY <1>9, <1>10
  <2> QED BY <1>10, <2>1, <2>2, <2>4, <2>5
<1> QED BY <1>11, <1>13, <1>14, <1>15, <1>16, <1>17 DEF Well, Sane, Listed, a

\* A memory that has the same table is as sane.
LEMMA MemoryWell ==
  ASSUME NEW j, NEW w, Well(j, w), NEW k, NEW x \in Memory(k),
         x.table = w.m.table, x.last = w.m.last, x.next = w.m.next
  PROVE  LET a == With(w, x) IN
         /\ Well(k, a) /\ BinariesOf(a) = BinariesOf(w) /\ a.m = x /\ a.child = w.child /\ a.inbox = w.inbox
         /\ \A p \in Pids : AliveIn(a, p) <=> AliveIn(w, p)
<1> DEFINE a == With(w, x)
<1>1. /\ a = [m |-> x, child |-> w.child, inbox |-> w.inbox] /\ a.m = x /\ a.child = w.child
      /\ a.inbox = w.inbox
  BY DEF With
<1>2. w.child \in [Pids -> Process] /\ w.inbox \in [Pids -> Seq(Message)]
  BY WorldFields DEF Well
<1> HIDE DEF a
<1>3. a \in Worlds(k)
  BY <1>1, <1>2 DEF Worlds
<1>4. PastLast(a) /\ Bounded(a)
  BY <1>1 DEF Well, Sane, PastLast, Bounded
<1>5. \A s \in Slots : EntrySane(a, s)
  BY <1>1 DEF Well, Sane, EntrySane
<1>6. \A p \in Pids : AliveIn(a, p) <=> AliveIn(w, p)
  BY <1>1 DEF AliveIn
<1>7. \A p \in Pids : Listed(a, p)
  BY <1>1, <1>6 DEF Well, Sane, Listed
<1>8. BinariesOf(a) = BinariesOf(w)
  BY <1>1, <1>6 DEF BinariesOf
<1> QED BY <1>1, <1>3, <1>4, <1>5, <1>6, <1>7, <1>8 DEF Well, Sane, a

-----------------------------------------------------------------------------
(* Dead children.                                                            *)

\* Unless some entry up to the n-th says otherwise, no worker is left.
Cleared(w, n) ==
  ~w.m.live => \A s \in Slots : s <= n /\ w.m.table[s].pid # None /\ ~w.m.table[s].exited => w.m.table[s].detached

\* What a turn of the loop of ngx_reap_children may do to the rest.
Reaped(w, a) ==
  /\ a.m.newBinary \in {w.m.newBinary, None} /\ a.m.flags \subseteq w.m.flags \cup {"restart"}

\* The others learn that a channel is closed.
LEMMA ChannelClosedWell ==
  ASSUME NEW k, NEW w, Well(k, w), NEW s \in Slots, NEW cmd \in {"open", "close"}
  PROVE  Well(k, ChannelClosed(w, s, cmd)) /\ Like(w, ChannelClosed(w, s, cmd))
<1> DEFINE e == w.m.table[s]
           b == With(w, [w.m EXCEPT !.table[s].chan = "none"])
           msg == Msg(cmd, s, e.pid)
           a == WriteAll(b, Others(w), msg)
<1>1. ChannelClosed(w, s, cmd) = IF e.detached THEN w ELSE a
  BY DEF ChannelClosed
<1>2. w \in Worlds(k) /\ Sane(w) /\ Bounded(w)
  BY DEF Well, Sane
<1>3. CASE e.detached
  BY <1>1, <1>3 DEF Like, SameEntry
<1>4. CASE ~e.detached
  <2>1. b \in Worlds(k) /\ Bounded(b) /\ Like(w, b)
    BY <1>2, ChannelSet
  <2>2. e \in Entry
    BY <1>2, WorldFields
  <2>3. msg \in Message
    BY <2>2, MasterAssumption DEF Msg, Message, Entry, Slots
  <2> HIDE DEF b, e
  <2>4. Well(k, b)
    BY <1>2, <2>1, LikeSane DEF Well
  <2>5. Others(w) \subseteq Known(b)
    <3>1. Known(w) \subseteq Slots /\ b.m.last = w.m.last
      BY <1>2, <2>1, KnownAreSlots DEF Like
    <3>2. \A t \in Slots : b.m.table[t].pid = w.m.table[t].pid
      BY <2>1 DEF Like, SameEntry
    <3> QED BY <3>1, <3>2 DEF Others, Known
  <2> HIDE DEF msg
  <2>6. Well(k, a) /\ Like(b, a)
    BY <2>3, <2>4, <2>5, WriteAllWell
  <2>7. Like(w, a)
    BY <2>1, <2>6 DEF Like, SameEntry
  <2> QED BY <1>1, <1>4, <2>6, <2>7 DEF e
<1> QED BY <1>3, <1>4

\* Cleared, OneBinaryIn and Reaped speak of what like worlds share.
LEMMA LikeReaped ==
  ASSUME NEW w, NEW a, Like(w, a)
  PROVE  /\ Reaped(w, a) /\ (OneBinaryIn(w) => OneBinaryIn(a)) /\ \A n : Cleared(w, n) => Cleared(a, n)
<1>1. BinariesOf(a) = BinariesOf(w)
  BY LikeCalm DEF Calm
<1> QED BY <1>1 DEF Like, SameEntry, Reaped, OneBinaryIn, Cleared

\* A process that is started again makes the master live.
LEMMA RespawnWell ==
  ASSUME NEW k, k.gen \in DOMAIN Confs, NEW w, Well(k, w), OneBinaryIn(w), NEW s \in Slots, s <= w.m.last,
         w.m.table[s].exited, w.m.table[s].respawn, Cleared(w, s), NEW ok
  PROVE  LET a == Respawn(w, s, ok) IN
         Well(k, a) /\ Reaped(w, a) /\ OneBinaryIn(a) /\ Cleared(a, s)
<1> DEFINE kind == w.m.table[s].kind
           a == SpawnAt(w, s, kind, "again", ok)
           x == [a.m EXCEPT !.live = TRUE]
           b == With(a, x)
           c == PassOpenChannel(b, s)
<1>1. Respawn(w, s, ok) = IF Spawned(w, a) THEN c ELSE a
  BY DEF Respawn
<1>2. Placed(w, s, kind, "again")
  <2>1. w.m.table[s] \in Entry /\ EntrySane(w, s) /\ w.m.last \in Nat
    BY WorldFields DEF Well, Sane
  <2> QED BY <2>1 DEF Placed, Modality, EntrySane, Slots, Entry
<1> HIDE DEF kind
<1>3. kind # "binary"
  BY <1>2 DEF Placed
<1>4. Well(k, a) /\ Steady(w, a) /\ BinariesOf(a) = BinariesOf(w) /\ (Like(w, a) \/ Spawned(w, a))
  <2>1. /\ Well(k, a) /\ Steady(w, a)
        /\ BinariesOf(a) = BinariesOf(w) \cup (IF kind = "binary" /\ Spawned(w, a) THEN {w.m.next} ELSE {})
        /\ Like(w, a) \/ Spawned(w, a)
    BY <1>2, SpawnAtWell
  <2> HIDE DEF a
  <2> QED BY <1>3, <2>1
<1>5. CASE Spawned(w, a)
  <2> HIDE DEF a
  <2>1. a.m \in Memory(k)
    BY <1>4, WorldFields DEF Well
  <2>2. /\ x \in Memory(k) /\ x.table = a.m.table /\ x.last = a.m.last /\ x.next = a.m.next
        /\ x.live /\ x.newBinary = a.m.newBinary /\ x.flags = a.m.flags
    BY <2>1 DEF Memory
  <2> HIDE DEF x
  <2>3. Well(k, b) /\ BinariesOf(b) = BinariesOf(a) /\ b.m = x
    BY <1>4, <2>2, MemoryWell
  <2> HIDE DEF b
  <2>4. Well(k, c) /\ Like(b, c)
    BY <2>3, PassOpenChannelWell
  <2>5. Reaped(w, b) /\ OneBinaryIn(b) /\ Cleared(b, s)
    BY <1>4, <2>2, <2>3 DEF Reaped, Steady, OneBinaryIn, Cleared
  <2>6. Reaped(b, c) /\ OneBinaryIn(c) /\ Cleared(c, s)
    BY <2>4, <2>5, LikeReaped
  <2>7. c.m.newBinary = b.m.newBinary /\ c.m.flags = b.m.flags
    BY <2>4 DEF Like
  <2> HIDE DEF c
  <2>8. Reaped(w, c)
    BY <2>5, <2>7 DEF Reaped
  <2> QED BY <1>1, <1>5, <2>4, <2>6, <2>8
<1>6. CASE ~Spawned(w, a)
  <2> HIDE DEF a
  <2> QED BY <1>1, <1>4, <1>6, LikeReaped
<1> QED BY <1>5, <1>6

\* A slot is freed only when its process is known to be dead.
LEMMA ForgetWell ==
  ASSUME NEW k, NEW w, Well(k, w), OneBinaryIn(w), NEW s \in Slots, s <= w.m.last,
         w.m.table[s].pid # None, w.m.table[s].exited, Cleared(w, s)
  PROVE  LET a == Forget(w, s) IN
         Well(k, a) /\ Reaped(w, a) /\ OneBinaryIn(a) /\ Cleared(a, s)
<1> DEFINE d == w.m.table[s]
           binary == d.pid = w.m.newBinary
           nb == IF binary THEN None ELSE w.m.newBinary
           na == w.m.noaccepting /\ ~binary
           flags == IF binary /\ w.m.noaccepting THEN w.m.flags \cup {"restart"} ELSE w.m.flags
           last == IF s = w.m.last THEN w.m.last - 1 ELSE w.m.last
           table == [w.m.table EXCEPT ![s] = Empty]
           x == [w.m EXCEPT !.newBinary = nb, !.noaccepting = na, !.flags = flags, !.last = last, !.table = table]
           a == With(w, x)
<1>1. Forget(w, s) = a
  BY DEF Forget
<1>2. /\ w.m \in Memory(k) /\ w.m.table \in [Slots -> Entry] /\ w.m.last \in Nat /\ w.m.last <= MaxSlots
      /\ w.m.flags \in SUBSET Flags /\ w.m.newBinary \in Pids \cup {None, Invalid} /\ w.m.next \in Nat \ {0}
      /\ w.child \in [Pids -> Process] /\ w.inbox \in [Pids -> Seq(Message)] /\ w.m.noaccepting \in BOOLEAN
  <2>1. w.m \in Memory(k)
    BY WorldFields DEF Well
  <2> QED BY <2>1, WorldFields DEF Well, Memory
<1>3. Empty \in Entry /\ Empty.pid = None /\ Empty.kind = "worker" /\ ~Empty.detached /\ ~Empty.exited
  BY DEF Empty, Entry, Kinds
<1>4. d.pid \in Pids /\ w.child[d.pid].st = "gone"
  BY <1>2 DEF Well, Sane, EntrySane, Entry
<1>5. /\ nb \in Pids \cup {None, Invalid} /\ na \in BOOLEAN /\ flags \in SUBSET Flags
      /\ last \in 0 .. MaxSlots /\ table \in [Slots -> Entry]
  <2>1. nb \in Pids \cup {None, Invalid} /\ na \in BOOLEAN
    BY <1>2
  <2>2. flags \in SUBSET Flags
    <3>1. "restart" \in Flags
      BY DEF Flags
    <3> QED BY <1>2, <3>1
  <2>3. last \in 0 .. MaxSlots
    BY <1>2, MasterAssumption DEF Slots
  <2>4. table \in [Slots -> Entry]
    BY <1>2, <1>3
  <2> QED BY <2>1, <2>2, <2>3, <2>4
<1>6. nb \in {w.m.newBinary, None} /\ flags \subseteq w.m.flags \cup {"restart"}
  OBVIOUS
<1>7. ASSUME ~binary PROVE nb = w.m.newBinary
  BY <1>7
<1>8. /\ table[s] = Empty /\ \A r \in Slots \ {s} : table[r] = w.m.table[r]
      /\ last <= w.m.last /\ \A r \in Slots \ {s} : r <= w.m.last => r <= last
  <2>1. table[s] = Empty /\ \A r \in Slots \ {s} : table[r] = w.m.table[r]
    BY <1>2
  <2>2. Slots \subseteq Nat
    BY DEF Slots
  <2>3. last <= w.m.last /\ \A r \in Slots \ {s} : r <= w.m.last => r <= last
    BY <1>2, <2>2
  <2> QED BY <2>1, <2>3
<1> HIDE DEF nb, na, flags, last, table
<1>9. /\ x \in Memory(k) /\ x.newBinary = nb /\ x.flags = flags /\ x.last = last /\ x.table = table
      /\ x.live = w.m.live /\ x.next = w.m.next
  BY <1>2, <1>5 DEF Memory
<1> HIDE DEF x
<1>10. /\ a = [m |-> x, child |-> w.child, inbox |-> w.inbox] /\ a.m = x /\ a.child = w.child
       /\ a.inbox = w.inbox
  BY DEF With
<1> HIDE DEF a
<1>11. a \in Worlds(k)
  BY <1>2, <1>9, <1>10 DEF Worlds
<1>12. PastLast(a) /\ Bounded(a)
  <2>1. \A r \in Slots \ {s} : r > last => r > w.m.last
    BY <1>2, <1>5, <1>8 DEF Slots
  <2> QED BY <1>3, <1>8, <1>9, <1>10, <2>1 DEF Well, Sane, PastLast, Bounded
<1>13. ASSUME NEW r \in Slots
       PROVE  EntrySane(a, r)
  <2>1. CASE r = s
    BY <1>2, <1>3, <1>8, <1>9, <1>10, <2>1 DEF EntrySane, None
  <2>2. CASE r # s
    BY <1>8, <1>9, <1>10, <2>2 DEF Well, Sane, EntrySane
  <2> QED BY <2>1, <2>2
<1>14. ASSUME NEW p \in Pids, AliveIn(a, p)
       PROVE  \E r \in Slots : /\ r <= a.m.last /\ a.m.table[r].pid = p /\ ~a.m.table[r].exited
                               /\ a.m.table[r].kind = a.child[p].kind
  <2>1. AliveIn(w, p)
    BY <1>10, <1>14 DEF AliveIn
  <2>2. PICK r \in Slots : /\ r <= w.m.last /\ w.m.table[r].pid = p /\ ~w.m.table[r].exited
                           /\ w.m.table[r].kind = w.child[p].kind
    BY <2>1 DEF Well, Sane, Listed
  <2>3. r # s
    BY <2>2
  <2> QED BY <1>8, <1>9, <1>10, <2>2, <2>3
<1>15. Well(k, a)
  BY <1>11, <1>12, <1>13, <1>14 DEF Well, Sane, Listed
<1>16. OneBinaryIn(a)
  <2> SUFFICES ASSUME NEW p \in BinariesOf(a) PROVE a.m.newBinary = p
    BY DEF OneBinaryIn
  <2>1. p \in BinariesOf(w) /\ AliveIn(w, p)
    BY <1>10 DEF BinariesOf, AliveIn
  <2>2. w.m.newBinary = p
    BY <2>1 DEF OneBinaryIn
  <2>3. ~binary
    BY <1>4, <2>1, <2>2 DEF AliveIn
  <2> QED BY <1>7, <1>9, <1>10, <2>2, <2>3
<1>17. Cleared(a, s)
  BY <1>3, <1>8, <1>9, <1>10 DEF Cleared
<1>18. Reaped(w, a)
  BY <1>6, <1>9, <1>10 DEF Reaped
<1> QED BY <1>1, <1>15, <1>16, <1>17, <1>18

\* A turn of the loop of ngx_reap_children.
LEMMA ReapSlotWell ==
  ASSUME NEW k, k.gen \in DOMAIN Confs, NEW w, Well(k, w), OneBinaryIn(w), NEW s \in Slots,
         Cleared(w, s - 1), NEW ok, NEW cmd \in {"open", "close"}
  PROVE  LET a == ReapSlot(w, s, ok, cmd) IN
         Well(k, a) /\ Reaped(w, a) /\ OneBinaryIn(a) /\ Cleared(a, s)
<1> DEFINE e == w.m.table[s]
           c == ChannelClosed(w, s, cmd)
           x == [w.m EXCEPT !.live = @ \/ IsLive(e)]
           b == With(w, x)
           a == ReapSlot(w, s, ok, cmd)
<1>1. /\ w.m \in Memory(k) /\ w.m.last \in Nat /\ e \in Entry /\ s \in Nat \ {0} /\ Sane(w)
  <2>1. w.m \in Memory(k) /\ w.m.last \in Nat /\ w.m.table \in [Slots -> Entry]
    BY WorldFields DEF Well
  <2>2. e \in Entry
    BY <2>1
  <2>3. s \in Nat \ {0}
    BY MasterAssumption DEF Slots
  <2> QED BY <2>1, <2>2, <2>3 DEF Well
<1>2. e.pid = None \/ e.exited \/ e.detached \/ w.m.live => Cleared(w, s)
  <2>1. \A r \in Slots : r <= s => r = s \/ r <= s - 1
    BY <1>1 DEF Slots
  <2> QED BY <2>1 DEF Cleared
<1>3. CASE s > w.m.last \/ e.pid = None
  <2>1. a = w
    BY <1>3 DEF ReapSlot
  <2>2. e.pid = None
    BY <1>1, <1>3 DEF Sane, PastLast
  <2>3. Reaped(w, w)
    BY DEF Reaped
  <2> HIDE DEF a
  <2> QED BY <1>2, <2>1, <2>2, <2>3 DEF a
<1>4. CASE ~(s > w.m.last \/ e.pid = None) /\ ~e.exited
  <2>1. a = b
    BY <1>4 DEF ReapSlot
  <2>2. /\ x \in Memory(k) /\ x.table = w.m.table /\ x.last = w.m.last /\ x.next = w.m.next
        /\ x.newBinary = w.m.newBinary /\ x.flags = w.m.flags
        /\ x.live = (w.m.live \/ IsLive(e))
    <3>1. (w.m.live \/ IsLive(e)) \in BOOLEAN
      OBVIOUS
    <3> HIDE DEF e
    <3> QED BY <1>1, <3>1 DEF Memory
  <2> HIDE DEF x
  <2>3. Well(k, b) /\ BinariesOf(b) = BinariesOf(w) /\ b.m = x
    BY <2>2, MemoryWell
  <2> HIDE DEF a, b
  <2>4. ~x.live => e.detached /\ ~w.m.live
    BY <2>2 DEF IsLive
  <2>5. Cleared(b, s)
    <3>1. x.live => Cleared(b, s)
      BY <2>3 DEF Cleared
    <3>2. ~x.live => Cleared(b, s)
      BY <1>2, <2>2, <2>3, <2>4 DEF Cleared
    <3> QED BY <3>1, <3>2
  <2>6. Well(k, a) /\ Reaped(w, a) /\ OneBinaryIn(a) /\ Cleared(a, s)
    BY <2>1, <2>2, <2>3, <2>5 DEF Reaped, OneBinaryIn
  <2> QED BY <2>6 DEF a
<1>5. CASE ~(s > w.m.last \/ e.pid = None) /\ e.exited
  <2>1. Well(k, c) /\ Like(w, c)
    BY ChannelClosedWell
  <2>2. a = IF MayRespawn(w, s) THEN Respawn(c, s, ok) ELSE Forget(c, s)
    BY <1>5 DEF ReapSlot
  <2> HIDE DEF a, c
  <2>3. /\ c.m.last = w.m.last /\ s <= c.m.last /\ c.m.table[s].exited /\ c.m.table[s].pid # None
        /\ c.m.table[s].respawn = e.respawn /\ c.m.newBinary = w.m.newBinary /\ c.m.flags = w.m.flags
    BY <1>1, <1>5, <2>1 DEF Like, SameEntry
  <2>4. OneBinaryIn(c) /\ Cleared(c, s)
    BY <1>2, <1>5, <2>1, LikeReaped
  <2>5. Well(k, a) /\ Reaped(c, a) /\ OneBinaryIn(a) /\ Cleared(a, s)
    <3>1. CASE MayRespawn(w, s)
      <4>1. c.m.table[s].respawn
        BY <2>3, <3>1 DEF MayRespawn
      <4> QED BY <2>1, <2>2, <2>3, <2>4, <3>1, <4>1, RespawnWell
    <3>2. CASE ~MayRespawn(w, s)
      BY <2>1, <2>2, <2>3, <2>4, <3>2, ForgetWell
    <3> QED BY <3>1, <3>2
  <2>6. Reaped(w, a)
    BY <2>3, <2>5 DEF Reaped
  <2> QED BY <2>5, <2>6 DEF a
<1> QED BY <1>3, <1>4, <1>5

\* The loop itself, ...
Reaps(f, w, ok, n) ==
  f = [s \in 0 .. n |-> IF s = 0 THEN With(w, [w.m EXCEPT !.live = FALSE, !.flags = @ \ {"reap"}])
                        ELSE ReapSlot(f[s - 1], s, ok, Command(w, f[s - 1]))]

\* ... which ngx_reap_children goes through to its end, ...
LEMMA ReapsIs ==
  ASSUME NEW w, NEW ok
  PROVE  ReapChildren(w, ok) = (CHOOSE f : Reaps(f, w, ok, MaxSlots))[MaxSlots]
BY Zenon DEF ReapChildren, Reaps

\* ... the turns that exist, ...
LEMMA ReapsExist ==
  ASSUME NEW w, NEW ok, NEW n \in Nat
  PROVE  \E f : Reaps(f, w, ok, n)
<1> DEFINE T == {j \in Nat : ~\E f : Reaps(f, w, ok, j)}
           first == With(w, [w.m EXCEPT !.live = FALSE, !.flags = @ \ {"reap"}])
<1> SUFFICES ASSUME T # {} PROVE FALSE
  OBVIOUS
<1>1. PICK j \in T : \A y \in T : j <= y
  BY LeastNumber
<1>2. CASE j = 0
  <2>1. Reaps([s \in 0 .. 0 |-> first], w, ok, 0)
    BY DEF Reaps
  <2> QED BY <1>2, <2>1
<1>3. CASE j # 0
  <2>1. j - 1 \in Nat /\ j - 1 \notin T
    BY <1>1, <1>3
  <2>2. PICK f : Reaps(f, w, ok, j - 1)
    BY <2>1
  <2> DEFINE g == [s \in 0 .. j |-> IF s = j THEN ReapSlot(f[j - 1], j, ok, Command(w, f[j - 1])) ELSE f[s]]
  <2>0. \A h \in 0 .. j - 1 : f[h] = IF h = 0 THEN first ELSE ReapSlot(f[h - 1], h, ok, Command(w, f[h - 1]))
    BY <2>2 DEF Reaps
  <2> HIDE DEF first
  <2>3. \A s \in 0 .. j : g[s] = IF s = 0 THEN first ELSE ReapSlot(g[s - 1], s, ok, Command(w, g[s - 1]))
    <3> SUFFICES ASSUME NEW s \in 0 .. j
                 PROVE  g[s] = IF s = 0 THEN first ELSE ReapSlot(g[s - 1], s, ok, Command(w, g[s - 1]))
      OBVIOUS
    <3>1. CASE s = j
      BY <3>1, <1>3, <1>1
    <3>2. CASE s # j
      <4>1. s \in 0 .. j - 1 /\ g[s] = f[s]
        BY <3>2, <1>1
      <4>2. s # 0 => g[s - 1] = f[s - 1]
        BY <3>2, <1>1
      <4> QED BY <4>1, <4>2, <2>0
    <3> QED BY <3>1, <3>2
  <2>4. Reaps(g, w, ok, j)
    BY <2>3 DEF Reaps, first
  <2> QED BY <2>4
<1> QED BY <1>2, <1>3

\* ... and after which a master that is not live has no worker.
LEMMA ReapChildrenWell ==
  ASSUME NEW k, k.gen \in DOMAIN Confs, NEW w, Well(k, w), OneBinaryIn(w), NEW ok
  PROVE  LET a == ReapChildren(w, ok) IN
         /\ Well(k, a) /\ Reaped(w, a) /\ OneBinaryIn(a)
         /\ ~a.m.live => \A p \in Pids : AliveIn(a, p) => a.child[p].kind = "binary"
<1> DEFINE x == [w.m EXCEPT !.live = FALSE, !.flags = @ \ {"reap"}]
           first == With(w, x)
           a == ReapChildren(w, ok)
<1>0. MaxSlots \in Nat
  BY MasterAssumption
<1>1. PICK f : f = (CHOOSE g : Reaps(g, w, ok, MaxSlots)) /\ Reaps(f, w, ok, MaxSlots)
  BY <1>0, ReapsExist
<1>2. /\ a = f[MaxSlots]
      /\ \A s \in 0 .. MaxSlots : f[s] = IF s = 0 THEN first ELSE ReapSlot(f[s - 1], s, ok, Command(w, f[s - 1]))
  BY <1>1, ReapsIs DEF Reaps
<1>3. Well(k, first) /\ Reaped(w, first) /\ OneBinaryIn(first) /\ Cleared(first, 0)
  <2>1. /\ x \in Memory(k) /\ x.table = w.m.table /\ x.last = w.m.last /\ x.next = w.m.next
        /\ x.newBinary = w.m.newBinary /\ x.flags = w.m.flags \ {"reap"}
    <3>1. w.m \in Memory(k)
      BY WorldFields DEF Well
    <3> QED BY <3>1 DEF Memory
  <2> HIDE DEF x
  <2>2. Well(k, first) /\ BinariesOf(first) = BinariesOf(w) /\ first.m = x
    BY <2>1, MemoryWell
  <2>3. Cleared(first, 0)
    BY DEF Cleared, Slots
  <2> HIDE DEF first
  <2> QED BY <2>1, <2>2, <2>3 DEF Reaped, OneBinaryIn
<1> HIDE DEF a, first
<1> DEFINE Good(s) == Well(k, f[s]) /\ Reaped(w, f[s]) /\ OneBinaryIn(f[s]) /\ Cleared(f[s], s)
           T == {s \in 0 .. MaxSlots : ~Good(s)}
<1>4. T = {}
  <2> SUFFICES ASSUME T # {} PROVE FALSE
    OBVIOUS
  <2>0. T \in SUBSET Nat
    OBVIOUS
  <2>1. PICK s \in T : \A y \in T : s <= y
    BY <2>0, LeastNumber
  <2>2. CASE s = 0
    BY <1>0, <1>2, <1>3, <2>1, <2>2
  <2>3. CASE s # 0
    <3>1. s \in Slots /\ s - 1 \in 0 .. MaxSlots /\ s - 1 \notin T
      BY <1>0, <2>1, <2>3 DEF Slots
    <3>2. Good(s - 1)
      BY <3>1
    <3>3. f[s] = ReapSlot(f[s - 1], s, ok, Command(w, f[s - 1]))
      BY <1>2, <2>3, <3>1 DEF Slots
    <3>4. Well(k, f[s]) /\ Reaped(f[s - 1], f[s]) /\ OneBinaryIn(f[s]) /\ Cleared(f[s], s)
      BY <3>1, <3>2, <3>3, ReapSlotWell DEF Command
    <3>5. Reaped(w, f[s])
      BY <3>2, <3>4 DEF Reaped
    <3> QED BY <2>1, <3>4, <3>5
  <2> QED BY <2>2, <2>3
<1>5. Well(k, a) /\ Reaped(w, a) /\ OneBinaryIn(a) /\ Cleared(a, MaxSlots)
  BY <1>0, <1>2, <1>4
<1>6. ASSUME ~a.m.live, NEW p \in Pids, AliveIn(a, p)
      PROVE  a.child[p].kind = "binary"
  <2>1. PICK s \in Slots : /\ s <= a.m.last /\ a.m.table[s].pid = p /\ ~a.m.table[s].exited
                           /\ a.m.table[s].kind = a.child[p].kind
    BY <1>5, <1>6 DEF Well, Sane, Listed
  <2>2. s <= MaxSlots /\ p # None
    BY DEF Slots, Pids, None
  <2>3. a.m.table[s].detached
    BY <1>5, <1>6, <2>1, <2>2 DEF Cleared
  <2> QED BY <1>5, <2>1, <2>3 DEF Well, Sane, EntrySane
<1> QED BY <1>5, <1>6 DEF a

-----------------------------------------------------------------------------
(* The steps of the master and of its children, as changes of a world.       *)

\* A world belongs to the cycle it remembers.
LEMMA OwnCycle ==
  ASSUME NEW k, NEW w, Well(k, w)
  PROVE  Well(w.m, w)
<1>1. w.m \in Memory(k) /\ w.m.gen = k.gen /\ w.m.socks = k.socks /\ w.m.zones = k.zones /\ w.m.mapped = k.mapped
  BY WorldFields DEF Well
<1>2. Memory(w.m) = Memory(k)
  BY <1>1 DEF Memory
<1> QED BY <1>2 DEF Well, Worlds

\* What the master remembers of its cycle, but for the sockets.
SameCycle(k) == k.gen = m.gen /\ k.zones = m.zones /\ k.mapped = m.mapped

\* The world of the next state.
LEMMA BecomeIs ==
  ASSUME NEW k, NEW a, Well(k, a), Become(a)
  PROVE  Well(m, World)' /\ World' = a
<1>1. a \in Worlds(k)
  BY DEF Well
<1>2. World' = a
  BY <1>1 DEF Become, World, Worlds
<1>3. Well(a.m, a) /\ m' = a.m
  BY OwnCycle DEF Become
<1> QED BY <1>2, <1>3 DEF Well, Worlds, Memory, Sane, PastLast, Bounded, EntrySane, Listed, AliveIn

\* A step that keeps the cycle keeps the master sound.
LEMMA SoundOn ==
  ASSUME Sound, NEW k, SameCycle(k), NEW a, Well(k, a), Become(a), OneBinaryIn(a),
         "changeBinary" \in a.m.flags => a.m.newBinary \notin Pids,
         left'.confs = left.confs, left'.aborted = left.aborted
  PROVE  Sound'
<1>1. Well(m, World)' /\ World' = a /\ m' = a.m
  BY BecomeIs DEF Become
<1>2. OneBinaryIn(World)'
  BY <1>1 DEF OneBinaryIn, BinariesOf, AliveIn
<1>3. m'.gen = m.gen /\ m'.zones = m.zones /\ m'.mapped = m.mapped
  BY <1>1, WorldFields DEF SameCycle, Well
<1>4. Agreed'
  BY <1>3 DEF Sound, Agreed, ZonesFit
<1> QED BY <1>1, <1>2, <1>4 DEF Sound

\* What is left of a scenario after one thing of it has happened.
LEMMA SpentIs ==
  ASSUME left \in ScenarioType
  PROVE  /\ left.forks > 0 => ForkSpent \in ScenarioType
         /\ left.crashes > 0 => CrashSpent \in ScenarioType
         /\ left.refused > 0 => RefusalSpent \in ScenarioType
         /\ \A x \in {ForkSpent, CrashSpent, RefusalSpent} :
              x.confs = left.confs /\ x.aborted = left.aborted /\ x.uncounted = left.uncounted
<1>1. left.forks \in Nat /\ left.crashes \in Nat /\ left.refused \in Nat
  BY DEF ScenarioType
<1>2. \A x \in Nat : x > 0 => x - 1 \in Nat
  OBVIOUS
<1>3. ASSUME left.forks > 0
      PROVE  ForkSpent \in ScenarioType
  <2>1. left.forks - 1 \in Nat
    BY <1>1, <1>2, <1>3
  <2> QED BY <2>1 DEF ForkSpent, ScenarioType
<1>4. ASSUME left.crashes > 0
      PROVE  CrashSpent \in ScenarioType
  <2>1. left.crashes - 1 \in Nat
    BY <1>1, <1>2, <1>4
  <2> QED BY <2>1 DEF CrashSpent, ScenarioType
<1>5. ASSUME left.refused > 0
      PROVE  RefusalSpent \in ScenarioType
  <2>1. left.refused - 1 \in Nat
    BY <1>1, <1>2, <1>5
  <2> QED BY <2>1 DEF RefusalSpent, ScenarioType
<1>6. \A x \in {ForkSpent, CrashSpent, RefusalSpent} :
        x.confs = left.confs /\ x.aborted = left.aborted /\ x.uncounted = left.uncounted
  BY DEF ForkSpent, CrashSpent, RefusalSpent, ScenarioType
<1> QED BY <1>3, <1>4, <1>5, <1>6

\* A fork that fails is one of those that may.
LEMMA ForkedIs ==
  ASSUME left \in ScenarioType, NEW ok \in ForkOutcomes
  PROVE  /\ Rest(ok) \in ScenarioType /\ Rest(ok).confs = left.confs
         /\ Rest(ok).aborted = left.aborted /\ Rest(ok).uncounted = left.uncounted
<1>1. CASE ok = TRUE
  BY <1>1 DEF Rest
<1>2. CASE ok # TRUE
  <2>1. left.forks > 0 /\ Rest(ok) = ForkSpent
    BY <1>2 DEF ForkOutcomes, Rest
  <2> QED BY <2>1, SpentIs
<1> QED BY <1>1, <1>2

\* The branches that remain are those whose flag is up.
LEMMA GoOnIs ==
  ASSUME NEW k \in Nat \ {0}, GoOn(k)
  PROVE  /\ pc' \in Stages /\ pc' \notin {"exited", "reap", "decide", "retire"}
         /\ pc' = "changeBinary" => "changeBinary" \in m.flags
<1> DEFINE up == {i \in k .. Len(Sequel) : Sequel[i] \in m.flags}
<1>1. Len(Sequel) = 5
  BY DEF Sequel
<1>2. CASE up = {}
  BY <1>2 DEF GoOn, Stages
<1>3. CASE up # {}
  <2>1. up \in SUBSET Nat
    BY <1>1
  <2>2. Min(up) \in up
    BY <1>3, <2>1, MinIn
  <2>3. pc' = Sequel[Min(up)]
    BY <1>3 DEF GoOn
  <2>4. Min(up) \in 1 .. 5 /\ Sequel[Min(up)] \in m.flags
    BY <1>1, <2>2
  <2>5. Sequel[Min(up)] \in {"reconfigure", "restart", "reopen", "changeBinary", "noaccept"}
    BY <2>4 DEF Sequel
  <2> QED BY <2>3, <2>4, <2>5 DEF Stages
<1> QED BY <1>2, <1>3

\* A master that is not live stays without workers until it starts some.
LEMMA NoneLeftOn ==
  ASSUME NoneLeft, NEW a, Become(a), a.m.live \/ (a.m.live = m.live /\ Fewer(World, a)),
         left'.uncounted = left.uncounted
  PROVE  NoneLeft'
BY DEF NoneLeft, Become, Fewer, World, AliveIn, Alive

\* The rest of the invariant, when the stage is one that ends a turn and the
\* files are as before.
LEMMA StagedOn ==
  ASSUME Staged, files' = files, pending' \subseteq Signals, pc # "exited",
         m'.newBinary = m.newBinary, left' \in ScenarioType, left'.confs = left.confs,
         pc' \in Stages, pc' = "changeBinary" => "changeBinary" \in m'.flags
  PROVE  Staged'
BY DEF Staged, Named

\* The proof of a step: what a world with the same cycle gives.
LEMMA StepOn ==
  ASSUME Strong, NEW k, SameCycle(k), NEW a, Well(k, a), Become(a),
         OneBinaryIn(a), left'.confs = left.confs, left'.aborted = left.aborted,
         "changeBinary" \in a.m.flags => a.m.newBinary \notin Pids
  PROVE  Sound'
BY SoundOn DEF Strong

\* What a sound master remembers, field by field.
LEMMA MasterFields ==
  ASSUME Sound
  PROVE  /\ m \in Memory(m) /\ child \in [Pids -> Process] /\ inbox \in [Pids -> Seq(Message)]
         /\ World.m = m /\ World.child = child /\ World.inbox = inbox
         /\ m.table \in [Slots -> Entry] /\ m.last \in Nat /\ m.last <= MaxSlots
         /\ m.next \in Nat \ {0} /\ m.next <= MaxPid + 1 /\ m.flags \in SUBSET Flags /\ m.live \in BOOLEAN
         /\ m.newBinary \in Pids \cup {None, Invalid} /\ m.gen \in DOMAIN Confs
         /\ m.delay \in 0 .. KillLevel + 1 /\ m.sigio \in 0 .. Workers + 2
<1>1. World.m = m /\ World.child = child /\ World.inbox = inbox
  BY DEF World
<1>2. Well(m, World) /\ m.gen \in DOMAIN Confs
  BY DEF Sound, Agreed
<1>3. m \in Memory(m)
  BY <1>1, <1>2, WorldFields DEF Well
<1>4. m.delay \in 0 .. KillLevel + 1 /\ m.sigio \in 0 .. Workers + 2
  BY <1>3 DEF Memory
<1> QED BY <1>1, <1>2, <1>3, <1>4, WorldFields DEF Well

\* A memory x that differs from m in what no invariant speaks of.
Alike(k, x) ==
  /\ x \in Memory(k) /\ x.table = m.table /\ x.last = m.last /\ x.next = m.next
  /\ x.newBinary = m.newBinary /\ x.flags \subseteq m.flags

\* It makes a world as sane.
LEMMA AlikeWell ==
  ASSUME Sound, NEW k, NEW x, Alike(k, x)
  PROVE  LET w == With(World, x) IN
         /\ Well(k, w) /\ w.m = x /\ BinariesOf(w) = BinariesOf(World) /\ OneBinaryIn(w)
         /\ \A p \in Pids : AliveIn(w, p) <=> AliveIn(World, p)
         /\ w.child = child
<1> DEFINE w == With(World, x)
<1>1. Well(m, World) /\ World.m = m /\ World.child = child
  BY MasterFields DEF Sound
<1>2. /\ Well(k, w) /\ w.m = x /\ BinariesOf(w) = BinariesOf(World) /\ w.child = World.child
      /\ \A p \in Pids : AliveIn(w, p) <=> AliveIn(World, p)
  BY <1>1, MemoryWell DEF Alike
<1> HIDE DEF w
<1>3. OneBinaryIn(w)
  BY <1>1, <1>2 DEF Sound, OneBinaryIn, Alike
<1> QED BY <1>1, <1>2, <1>3 DEF w

\* What a step of the master leaves true.
After == Sound' /\ m'.newBinary = m.newBinary

\* A step that signals the children.
LEMMA SignalStep ==
  ASSUME Strong, NEW k, SameCycle(k), NEW x, Alike(k, x), NEW sig \in Orders,
         Become(SignalWorkers(With(World, x), sig)), left' = left
  PROVE  After /\ x.flags \subseteq m'.flags /\ (NoneLeft /\ x.live = m.live => NoneLeft')
<1> DEFINE w == With(World, x)
           a == SignalWorkers(w, sig)
<1>0. Sound
  BY DEF Strong
<1>1. /\ Well(k, w) /\ w.m = x /\ BinariesOf(w) = BinariesOf(World) /\ OneBinaryIn(w)
      /\ \A p \in Pids : AliveIn(w, p) <=> AliveIn(World, p)
      /\ w.child = child /\ World.child = child
  BY <1>0, AlikeWell, MasterFields
<1> HIDE DEF w
<1>2. Well(k, a) /\ Warned(w, a)
  BY <1>1, SignalWorkersWell
<1>3. Become(a)
  BY DEF w
<1> HIDE DEF a
<1>4. OneBinaryIn(a)
  BY <1>1, <1>2 DEF OneBinaryIn, Warned, BinariesOf
<1>5. "changeBinary" \in a.m.flags => a.m.newBinary \notin Pids
  BY <1>0, <1>1, <1>2 DEF Warned, Alike, Sound
<1>6. Sound'
  BY <1>2, <1>3, <1>4, <1>5, StepOn
<1>7. m' = a.m /\ a.m.newBinary = m.newBinary /\ x.flags \subseteq a.m.flags /\ a.m.live = x.live
  BY <1>1, <1>2, <1>3 DEF Become, Warned, Alike
<1>8. Fewer(World, a)
  BY <1>1, <1>2 DEF Fewer, Warned
<1>9. NoneLeft /\ x.live = m.live => NoneLeft'
  BY <1>3, <1>7, <1>8, NoneLeftOn
<1> QED BY <1>6, <1>7, <1>9 DEF After

\* A step that starts a cycle.
LEMMA StartStep ==
  ASSUME Strong, NEW k, SameCycle(k), NEW x, Alike(k, x), NEW mode \in {"respawn", "justrespawn"}, NEW ok,
         Become(StartAll(With(World, x), mode, ok)), left'.confs = left.confs, left'.aborted = left.aborted
  PROVE  After /\ m'.flags = x.flags /\ (x.live => NoneLeft')
<1> DEFINE w == With(World, x)
           a == StartAll(w, mode, ok)
<1>0. Sound /\ m.gen \in DOMAIN Confs /\ k.gen = m.gen
  BY MasterFields DEF Strong, SameCycle
<1>1. Well(k, w) /\ w.m = x /\ OneBinaryIn(w)
  BY <1>0, AlikeWell
<1>2. Become(a)
  OBVIOUS
<1> HIDE DEF w
<1>3. Well(k, a) /\ Calm(w, a)
  BY <1>0, <1>1, StartAllWell
<1> HIDE DEF a
<1>4. /\ OneBinaryIn(a) /\ a.m.newBinary = m.newBinary /\ a.m.flags = x.flags /\ a.m.live = x.live
      /\ x.flags \subseteq m.flags
  BY <1>1, <1>3 DEF Calm, Steady, OneBinaryIn, Alike
<1>5. "changeBinary" \in a.m.flags => a.m.newBinary \notin Pids
  BY <1>0, <1>4 DEF Sound
<1>6. Sound'
  BY <1>2, <1>3, <1>4, <1>5, StepOn
<1>7. m' = a.m
  BY <1>2 DEF Become
<1>8. x.live => NoneLeft'
  BY <1>4, <1>7 DEF NoneLeft
<1> QED BY <1>4, <1>6, <1>7, <1>8 DEF After

\* The memories that the branches of the loop start from.
LEMMA Memories ==
  ASSUME Sound
  PROVE  /\ Alike(m, m) /\ SameCycle(m) /\ With(World, m) = World
         /\ \A f \in Flags : Alike(m, Lower(f)) /\ Lower(f).live = m.live /\ Lower(f).flags = m.flags \ {f}
         /\ \A d \in 0 .. KillLevel + 1, x \in 0 .. Workers + 2 :
              LET y == [m EXCEPT !.delay = d, !.sigio = x] IN Alike(m, y) /\ y.live = m.live /\ y.flags = m.flags
<1>1. m \in Memory(m) /\ m.flags \in SUBSET Flags
  BY MasterFields
<1>2. Alike(m, m) /\ SameCycle(m) /\ With(World, m) = World
  BY <1>1 DEF Alike, SameCycle, With, World
<1>3. ASSUME NEW f \in Flags
      PROVE  Alike(m, Lower(f)) /\ Lower(f).live = m.live /\ Lower(f).flags = m.flags \ {f}
  <2>1. m.flags \ {f} \in SUBSET Flags
    BY <1>1
  <2> QED BY <1>1, <2>1 DEF Alike, Lower, Memory
<1>4. ASSUME NEW d \in 0 .. KillLevel + 1, NEW x \in 0 .. Workers + 2
      PROVE  LET y == [m EXCEPT !.delay = d, !.sigio = x] IN Alike(m, y) /\ y.live = m.live /\ y.flags = m.flags
  BY <1>1 DEF Alike, Memory
<1> QED BY <1>2, <1>3, <1>4

\* ngx_terminate.
LEMMA TerminateStep ==
  ASSUME Strong, Terminate
  PROVE  Strong' /\ (NoneLeft => NoneLeft')
<1> DEFINE d == IF m.delay = 0 THEN 1 ELSE m.delay
           x == [m EXCEPT !.delay = d, !.sigio = Workers + 2]
           y == [m EXCEPT !.delay = d, !.sigio = m.sigio - 1]
           sig == TerminateSignal(d)
<1>1. /\ Sound /\ Staged /\ pc = "decide" /\ pc' = "wait" /\ files' = files /\ left' = left
      /\ m.delay \in 0 .. KillLevel + 1 /\ m.sigio \in 0 .. Workers + 2
  BY MasterFields DEF Strong, Terminate
<1>2. d \in 0 .. KillLevel + 1 /\ sig \in Orders /\ Workers + 2 \in 0 .. Workers + 2
  BY <1>1, MasterAssumption DEF TerminateSignal, Orders
<1>3. CASE m.sigio > 0
  <2>1. m' = y /\ child' = child /\ inbox' = inbox /\ pending' = pending
    <3>1. m' = [m EXCEPT !.sigio = @ - 1, !.delay = d] /\ child' = child /\ inbox' = inbox /\ pending' = pending
      BY <1>3 DEF Terminate
    <3> QED BY <1>1, <3>1, MasterFields DEF Memory
  <2>2. m.sigio - 1 \in 0 .. Workers + 2
    BY <1>1, <1>3, MasterAssumption
  <2>3. Alike(m, y) /\ y.live = m.live /\ y.flags = m.flags
    BY <1>1, <1>2, <2>2, Memories
  <2> HIDE DEF y
  <2> DEFINE a == With(World, y)
  <2>4. /\ Well(m, a) /\ a.m = y /\ OneBinaryIn(a) /\ a.child = child
        /\ \A p \in Pids : AliveIn(a, p) <=> AliveIn(World, p)
    BY <1>1, <2>3, AlikeWell
  <2>5. Become(a)
    BY <2>1 DEF Become, With, World
  <2> HIDE DEF a
  <2>6. Sound'
    BY <1>1, <2>3, <2>4, <2>5, StepOn, Memories DEF Sound, Alike
  <2>7. NoneLeft => NoneLeft'
    BY <1>1, <2>3, <2>4, <2>5, NoneLeftOn, MasterFields DEF Fewer
  <2>8. Staged'
    BY <1>1, <2>1, <2>3, StagedOn DEF Staged, Stages, Alike
  <2> QED BY <2>6, <2>7, <2>8 DEF Strong
<1>4. CASE ~(m.sigio > 0)
  <2>1. Become(SignalWorkers(With(World, x), sig)) /\ pending' \in {pending, pending \cup {"CHLD"}}
    BY <1>4 DEF Terminate
  <2>2. Alike(m, x) /\ x.live = m.live /\ SameCycle(m)
    BY <1>1, <1>2, Memories
  <2> HIDE DEF x, sig
  <2>3. After /\ (NoneLeft => NoneLeft')
    BY <1>1, <1>2, <2>1, <2>2, SignalStep
  <2>4. pending' \subseteq Signals
    BY <1>1, <2>1 DEF Staged, Signals
  <2>5. Staged'
    BY <1>1, <2>3, <2>4, StagedOn DEF Staged, Stages, After
  <2> QED BY <2>3, <2>5 DEF Strong, After
<1> QED BY <1>3, <1>4

\* ngx_quit: the sockets are closed for good.
LEMMA QuitStep ==
  ASSUME Strong, Quit
  PROVE  Strong' /\ (NoneLeft => NoneLeft')
<1> DEFINE x == [m EXCEPT !.socks = <<>>]
<1>1. /\ Sound /\ Staged /\ pc = "decide" /\ pc' = "wait" /\ files' = files /\ left' = left /\ pending' = pending
      /\ Become(SignalWorkers(With(World, x), "quit"))
  BY DEF Strong, Quit
<1>2. Alike(x, x) /\ SameCycle(x) /\ x.live = m.live
  <2>1. m \in Memory(m)
    BY <1>1, MasterFields
  <2>2. x \in Memory(x) /\ x.gen = m.gen /\ x.zones = m.zones /\ x.mapped = m.mapped /\ x.socks = <<>>
    BY <2>1 DEF Memory
  <2>3. /\ x.table = m.table /\ x.last = m.last /\ x.next = m.next /\ x.newBinary = m.newBinary
        /\ x.flags = m.flags /\ x.live = m.live
    BY <2>1 DEF Memory
  <2> QED BY <2>2, <2>3 DEF Alike, SameCycle
<1> HIDE DEF x
<1>3. After /\ (NoneLeft => NoneLeft')
  BY <1>1, <1>2, SignalStep DEF Orders
<1>4. Staged'
  BY <1>1, <1>3, StagedOn DEF Staged, Stages, After
<1> QED BY <1>3, <1>4 DEF Strong, After

\* The end of a reload: the old workers are told to quit.
LEMMA RetireStep ==
  ASSUME Strong, Retire
  PROVE  Strong' /\ (NoneLeft => NoneLeft')
<1>1. /\ Sound /\ Staged /\ pc = "retire" /\ files' = files /\ left' = left /\ pending' = pending
      /\ Become(SignalWorkers(With(World, m), "quit")) /\ GoOn(2)
  BY Memories DEF Strong, Retire
<1>2. After /\ m.flags \subseteq m'.flags /\ (NoneLeft => NoneLeft')
  BY <1>1, SignalStep, Memories DEF Orders
<1>3. pc' \in Stages /\ (pc' = "changeBinary" => "changeBinary" \in m.flags)
  BY <1>1, GoOnIs
<1>4. Staged'
  BY <1>1, <1>2, <1>3, StagedOn DEF Staged, After
<1> QED BY <1>2, <1>4 DEF Strong, After

\* USR1.
LEMMA ReopenStep ==
  ASSUME Strong, Reopen
  PROVE  Strong' /\ (NoneLeft => NoneLeft')
<1>1. /\ Sound /\ Staged /\ pc = "reopen" /\ files' = files /\ left' = left /\ pending' = pending
      /\ Become(SignalWorkers(With(World, Lower("reopen")), "reopen")) /\ GoOn(4)
  BY DEF Strong, Reopen
<1>2. /\ Alike(m, Lower("reopen")) /\ Lower("reopen").live = m.live /\ Lower("reopen").flags = m.flags \ {"reopen"}
      /\ SameCycle(m)
  BY <1>1, Memories DEF Flags
<1>3. After /\ m.flags \ {"reopen"} \subseteq m'.flags /\ (NoneLeft => NoneLeft')
  BY <1>1, <1>2, SignalStep DEF Orders
<1>4. pc' \in Stages /\ (pc' = "changeBinary" => "changeBinary" \in m.flags)
  BY <1>1, GoOnIs
<1>5. Staged'
  BY <1>1, <1>3, <1>4, StagedOn DEF Staged, After
<1> QED BY <1>3, <1>5 DEF Strong, After

\* WINCH.
LEMMA NoAcceptStep ==
  ASSUME Strong, NoAccept
  PROVE  Strong' /\ (NoneLeft => NoneLeft')
<1> DEFINE x == [Lower("noaccept") EXCEPT !.noaccepting = TRUE]
<1>1. /\ Sound /\ Staged /\ pc = "noaccept" /\ pc' = "wait" /\ files' = files /\ left' = left /\ pending' = pending
      /\ Become(SignalWorkers(With(World, x), "quit"))
  BY DEF Strong, NoAccept
<1>2. Alike(m, x) /\ x.live = m.live /\ SameCycle(m)
  <2>1. Alike(m, Lower("noaccept")) /\ Lower("noaccept").live = m.live /\ SameCycle(m)
    BY <1>1, Memories DEF Flags
  <2> QED BY <2>1 DEF Alike, Memory
<1> HIDE DEF x
<1>3. After /\ (NoneLeft => NoneLeft')
  BY <1>1, <1>2, SignalStep DEF Orders
<1>4. Staged'
  BY <1>1, <1>3, StagedOn DEF Staged, Stages, After
<1> QED BY <1>3, <1>4 DEF Strong, After

\* A master that answers HUP while its new binary runs.
LEMMA RecallStep ==
  ASSUME Strong, Recall
  PROVE  Strong' /\ NoneLeft'
<1> DEFINE x == [Lower("reconfigure") EXCEPT !.noaccepting = FALSE]
<1>1. /\ Sound /\ Staged /\ pc = "reconfigure" /\ pc' = "wait" /\ files' = files /\ pending' = pending
  BY DEF Strong, Recall
<1>2. PICK ok \in ForkOutcomes : /\ Become(StartAll(With(World, x), "respawn", ok))
                               /\ left' = [Rest(ok) EXCEPT !.uncounted = @ \/ ~m.live]
  BY DEF Recall
<1>3. Alike(m, x) /\ x.live = m.live /\ SameCycle(m)
  <2>1. Alike(m, Lower("reconfigure")) /\ Lower("reconfigure").live = m.live /\ SameCycle(m)
    BY <1>1, Memories DEF Flags
  <2> QED BY <2>1 DEF Alike, Memory
<1>4. /\ left' \in ScenarioType /\ left'.confs = left.confs /\ left'.aborted = left.aborted
      /\ ~m.live => left'.uncounted
  <2>1. Rest(ok) \in ScenarioType /\ Rest(ok).confs = left.confs /\ Rest(ok).aborted = left.aborted
    BY <1>1, ForkedIs DEF Staged
  <2>2. (Rest(ok).uncounted \/ ~m.live) \in BOOLEAN
    OBVIOUS
  <2>3. left' = [Rest(ok) EXCEPT !.uncounted = @ \/ ~m.live]
    BY <1>2
  <2> QED BY <2>1, <2>2, <2>3 DEF ScenarioType
<1> HIDE DEF x
<1>5. After /\ NoneLeft'
  <2>1. After /\ (m.live => NoneLeft')
    BY <1>2, <1>3, <1>4, StartStep
  <2>2. ~m.live => NoneLeft'
    BY <1>4 DEF NoneLeft
  <2> QED BY <2>1, <2>2
<1>6. Staged'
  BY <1>1, <1>4, <1>5, StagedOn DEF Staged, Stages, After
<1> QED BY <1>5, <1>6 DEF Strong, After

\* Workers that were drained for a new binary come back.
LEMMA RestartStep ==
  ASSUME Strong, Restart
  PROVE  Strong' /\ NoneLeft'
<1> DEFINE x == [Lower("restart") EXCEPT !.live = TRUE]
<1>1. /\ Sound /\ Staged /\ pc = "restart" /\ files' = files /\ pending' = pending /\ GoOn(3)
  BY DEF Strong, Restart
<1>2. PICK ok \in ForkOutcomes : Become(StartAll(With(World, x), "respawn", ok)) /\ Forked(ok)
  BY DEF Restart
<1>3. Alike(m, x) /\ x.live /\ x.flags = m.flags \ {"restart"} /\ SameCycle(m)
  <2>1. Alike(m, Lower("restart")) /\ Lower("restart").flags = m.flags \ {"restart"} /\ SameCycle(m)
    BY <1>1, Memories DEF Flags
  <2> QED BY <2>1 DEF Alike, Memory
<1>4. left' \in ScenarioType /\ left'.confs = left.confs /\ left'.aborted = left.aborted
  BY <1>1, <1>2, ForkedIs DEF Staged, Forked
<1> HIDE DEF x
<1>5. After /\ m'.flags = m.flags \ {"restart"} /\ NoneLeft'
  BY <1>2, <1>3, <1>4, StartStep
<1>6. pc' \in Stages /\ (pc' = "changeBinary" => "changeBinary" \in m.flags)
  BY <1>1, GoOnIs
<1>7. Staged'
  BY <1>1, <1>4, <1>5, <1>6, StagedOn DEF Staged, After
<1> QED BY <1>5, <1>7 DEF Strong, After

\* A step that changes the memory only, as Alike allows.
LEMMA MemoryStep ==
  ASSUME Strong, NEW k, SameCycle(k), NEW x, Alike(k, x), Become(With(World, x)),
         left'.confs = left.confs, left'.aborted = left.aborted, left'.uncounted = left.uncounted
  PROVE  After /\ m' = x /\ (NoneLeft /\ x.live = m.live => NoneLeft')
<1> DEFINE a == With(World, x)
<1>1. Sound
  BY DEF Strong
<1>2. /\ Well(k, a) /\ a.m = x /\ OneBinaryIn(a) /\ a.child = child /\ World.child = child
      /\ \A p \in Pids : AliveIn(a, p) <=> AliveIn(World, p)
  BY <1>1, AlikeWell, MasterFields
<1>3. Become(a)
  OBVIOUS
<1> HIDE DEF a
<1>4. m' = x
  BY <1>2, <1>3 DEF Become
<1>5. "changeBinary" \in x.flags => x.newBinary \notin Pids
  BY <1>1 DEF Sound, Alike
<1>6. Sound'
  BY <1>2, <1>3, <1>5, StepOn
<1>7. NoneLeft /\ x.live = m.live => NoneLeft'
  BY <1>2, <1>3, NoneLeftOn DEF Fewer
<1> QED BY <1>4, <1>6, <1>7 DEF After, Alike

\* A configuration that is refused.
LEMMA KeepCycleStep ==
  ASSUME Strong, KeepCycle
  PROVE  Strong' /\ (NoneLeft => NoneLeft')
<1>1. /\ Sound /\ Staged /\ pc = "reconfigure" /\ pc' = "wait" /\ files' = files /\ left' = left
      /\ pending' = pending /\ Become(With(World, Lower("reconfigure")))
  BY DEF Strong, KeepCycle
<1>2. Alike(m, Lower("reconfigure")) /\ Lower("reconfigure").live = m.live /\ SameCycle(m)
  BY <1>1, Memories DEF Flags
<1>3. After /\ (NoneLeft => NoneLeft')
  BY <1>1, <1>2, MemoryStep
<1>4. Staged'
  BY <1>1, <1>3, StagedOn DEF Staged, Stages, After
<1> QED BY <1>3, <1>4 DEF Strong, After

\* ngx_master_process_exit: from here on nobody needs to find the master.
LEMMA MasterExitStep ==
  ASSUME Strong, MasterExit
  PROVE  Strong' /\ (NoneLeft => NoneLeft')
<1> DEFINE x == [m EXCEPT !.socks = <<>>]
<1>1. /\ Sound /\ Staged /\ pc' = "exited" /\ left' = left /\ pending' = pending /\ m' = x
      /\ child' = child /\ inbox' = inbox /\ files' \in {[files EXCEPT !.old = None], [files EXCEPT !.pid = None]}
  BY DEF Strong, MasterExit
<1>2. Alike(x, x) /\ SameCycle(x) /\ x.live = m.live
  <2>1. m \in Memory(m)
    BY <1>1, MasterFields
  <2>2. x \in Memory(x) /\ x.gen = m.gen /\ x.zones = m.zones /\ x.mapped = m.mapped /\ x.socks = <<>>
    BY <2>1 DEF Memory
  <2>3. /\ x.table = m.table /\ x.last = m.last /\ x.next = m.next /\ x.newBinary = m.newBinary
        /\ x.flags = m.flags /\ x.live = m.live
    BY <2>1 DEF Memory
  <2> QED BY <2>2, <2>3 DEF Alike, SameCycle
<1> HIDE DEF x
<1>3. Become(With(World, x))
  BY <1>1 DEF Become, With, World
<1>4. After /\ (NoneLeft => NoneLeft')
  BY <1>1, <1>2, <1>3, MemoryStep
<1>5. files' \in [pid : Pids \cup {Self, None}, old : Pids \cup {Self, None}]
  BY <1>1 DEF Staged
<1>6. Staged'
  BY <1>1, <1>5 DEF Staged, Stages
<1> QED BY <1>4, <1>6 DEF Strong, After

\* The flags decide, and stay.
LEMMA ProceedStep ==
  ASSUME Strong, Proceed
  PROVE  Strong' /\ (NoneLeft => NoneLeft')
<1>1. /\ Sound /\ Staged /\ pc = "decide" /\ GoOn(1) /\ m' = m /\ child' = child /\ inbox' = inbox
      /\ pending' = pending /\ files' = files /\ left' = left
  BY DEF Strong, Proceed
<1>2. pc' \in Stages /\ pc' # "exited" /\ (pc' = "changeBinary" => "changeBinary" \in m.flags)
  BY <1>1, GoOnIs
<1>3. Become(With(World, m))
  BY <1>1 DEF Become, With, World
<1>4. After /\ (NoneLeft => NoneLeft')
  BY <1>1, <1>3, Memories, MemoryStep
<1>5. Staged'
  BY <1>1, <1>2, StagedOn DEF Staged
<1> QED BY <1>4, <1>5 DEF Strong, After

\* A signal arrives.
LEMMA OrderStep ==
  ASSUME Strong, NEW s \in FromOperator, Order(s)
  PROVE  Strong' /\ (NoneLeft => NoneLeft')
<1>1. /\ Sound /\ Staged /\ pc' = pc /\ pc # "exited" /\ m' = m /\ child' = child /\ inbox' = inbox
      /\ pending' = pending \cup {s} /\ files' = files /\ left' = [left EXCEPT !.orders[s] = @ - 1]
      /\ left.orders[s] > 0 /\ left \in ScenarioType /\ s \in Signals
  BY DEF Strong, Staged, Order, FromOperator
<1>2. left' \in ScenarioType /\ left'.confs = left.confs /\ left'.aborted = left.aborted /\ left'.uncounted = left.uncounted
  <2>1. left.orders \in [FromOperator -> Nat] /\ left.orders[s] \in Nat
    BY <1>1 DEF ScenarioType
  <2>2. left.orders[s] - 1 \in Nat
    BY <1>1, <2>1
  <2> DEFINE orders == [left.orders EXCEPT ![s] = left.orders[s] - 1]
  <2>3. orders \in [FromOperator -> Nat] /\ left' = [left EXCEPT !.orders = orders]
    BY <1>1, <2>1, <2>2
  <2> HIDE DEF orders
  <2> QED BY <1>1, <2>3 DEF ScenarioType
<1>3. Become(With(World, m))
  BY <1>1 DEF Become, With, World
<1>4. After /\ (NoneLeft => NoneLeft')
  BY <1>1, <1>2, <1>3, Memories, MemoryStep
<1>5. Staged'
  BY <1>1, <1>2, StagedOn DEF Staged
<1> QED BY <1>4, <1>5 DEF Strong, After

\* The timer of the delay fires.
LEMMA AlarmStep ==
  ASSUME Strong, Alarm
  PROVE  Strong' /\ (NoneLeft => NoneLeft')
<1>1. /\ Sound /\ Staged /\ pc' = pc /\ pc = "wait" /\ m' = m /\ child' = child /\ inbox' = inbox
      /\ pending' = pending \cup {"ALRM"} /\ files' = files /\ left' = left
  BY DEF Strong, Alarm
<1>2. Become(With(World, m))
  BY <1>1 DEF Become, With, World
<1>3. After /\ (NoneLeft => NoneLeft')
  BY <1>1, <1>2, Memories, MemoryStep
<1>4. pending' \subseteq Signals
  BY <1>1 DEF Staged, Signals
<1>5. Staged'
  BY <1>1, <1>4, StagedOn DEF Staged
<1> QED BY <1>3, <1>5 DEF Strong, After

\* ngx_exec_new_binary: there was none, for USR2 is ignored while one runs.
LEMMA ChangeBinaryStep ==
  ASSUME Strong, ChangeBinary
  PROVE  Strong' /\ (NoneLeft => NoneLeft')
<1> DEFINE x == Lower("changeBinary")
           w == With(World, x)
           s == FreeSlot(w)
<1>1. /\ Sound /\ Staged /\ pc = "changeBinary" /\ pending' = pending /\ GoOn(5)
  BY DEF Strong, ChangeBinary
<1>2. PICK ok \in ForkOutcomes :
        LET a == SpawnAt(w, s, "binary", "detached", ok) IN
        /\ Become(With(a, [a.m EXCEPT !.newBinary = IF Spawned(w, a) THEN m.next ELSE Invalid]))
        /\ files' = PidFiles(Spawned(w, a)) /\ Forked(ok)
  BY DEF ChangeBinary
<1> DEFINE a == SpawnAt(w, s, "binary", "detached", ok)
           nb == IF Spawned(w, a) THEN m.next ELSE Invalid
           y == [a.m EXCEPT !.newBinary = nb]
           b == With(a, y)
<1>3. /\ Become(b) /\ files' = PidFiles(Spawned(w, a)) /\ left' \in ScenarioType
      /\ left'.confs = left.confs /\ left'.aborted = left.aborted /\ left'.uncounted = left.uncounted
  <2>1. Become(b) /\ files' = PidFiles(Spawned(w, a)) /\ Forked(ok)
    BY <1>2
  <2> HIDE DEF b, a
  <2> QED BY <1>1, <2>1, ForkedIs DEF Staged, Forked
<1>4. m.newBinary \notin Pids /\ BinariesOf(World) = {}
  <2>1. m.newBinary \notin Pids
    BY <1>1 DEF Sound, Staged
  <2> QED BY <1>1, <2>1, MasterFields DEF Sound, OneBinaryIn, BinariesOf
<1>5. /\ Alike(m, x) /\ x.live = m.live /\ x.flags = m.flags \ {"changeBinary"} /\ x.next = m.next
      /\ x.last = m.last
  BY <1>1, Memories DEF Flags, Alike
<1> HIDE DEF x
<1>6. /\ Well(m, w) /\ w.m = x /\ BinariesOf(w) = {} /\ w.child = child /\ World.child = child
      /\ \A p \in Pids : AliveIn(w, p) <=> AliveIn(World, p)
  BY <1>1, <1>4, <1>5, AlikeWell, MasterFields
<1> HIDE DEF w
<1>7. Placed(w, s, "binary", "detached")
  <2>1. /\ s \in 1 .. w.m.last + 1
        /\ s \in Slots => w.m.table[s].pid = None
    BY <1>6, FreeSlotIs DEF Well, Sane
  <2>2. w.m.last \in Nat
    BY <1>6, WorldFields DEF Well
  <2> QED BY <2>1, <2>2 DEF Placed, Kinds, Modality
<1> HIDE DEF s
<1>8. /\ Well(m, a) /\ Steady(w, a) /\ FewerBut(w, a, "binary")
      /\ Spawned(w, a) => m.next \in Pids
      /\ BinariesOf(a) = IF Spawned(w, a) THEN {m.next} ELSE {}
  <2>1. /\ Well(m, a) /\ Steady(w, a) /\ FewerBut(w, a, "binary")
        /\ Spawned(w, a) => w.m.next \in Pids
        /\ BinariesOf(a) = BinariesOf(w) \cup (IF "binary" = "binary" /\ Spawned(w, a) THEN {w.m.next} ELSE {})
    BY <1>1, <1>7, <1>6, SpawnAtWell DEF Sound, Agreed
  <2> HIDE DEF a
  <2> QED BY <1>5, <1>6, <2>1
<1> HIDE DEF a
<1>9. nb \in Pids \cup {Invalid} /\ Invalid \notin Pids /\ (nb \in Pids <=> Spawned(w, a))
  BY <1>8, MasterAssumption DEF Invalid, Pids
<1> HIDE DEF nb
<1>10. /\ y \in Memory(m) /\ y.table = a.m.table /\ y.last = a.m.last /\ y.next = a.m.next
       /\ y.newBinary = nb /\ y.flags = m.flags \ {"changeBinary"} /\ y.live = m.live
  <2>1. a.m \in Memory(m)
    BY <1>8, WorldFields DEF Well
  <2>2. a.m.flags = m.flags \ {"changeBinary"} /\ a.m.live = m.live
    BY <1>5, <1>6, <1>8 DEF Steady
  <2> QED BY <1>9, <2>1, <2>2 DEF Memory
<1> HIDE DEF y
<1>11. /\ Well(m, b) /\ BinariesOf(b) = BinariesOf(a) /\ b.m = y /\ b.child = a.child
       /\ \A p \in Pids : AliveIn(b, p) <=> AliveIn(a, p)
  BY <1>8, <1>10, MemoryWell
<1> HIDE DEF b
<1>12. OneBinaryIn(b)
  BY <1>8, <1>10, <1>11 DEF OneBinaryIn, nb
<1>13. Sound'
  <2>1. SameCycle(m)
    BY <1>1, Memories
  <2> QED BY <1>3, <1>10, <1>11, <1>12, <2>1, StepOn
<1>14. m' = y /\ child' = a.child
  BY <1>3, <1>11 DEF Become
<1>15. NoneLeft => NoneLeft'
  <2> SUFFICES ASSUME NoneLeft, ~m'.live, ~left'.uncounted, NEW p \in Pids, AliveIn(a, p)
               PROVE  a.child[p].kind = "binary"
    BY <1>14 DEF NoneLeft, Alive, AliveIn
  <2>1. CASE a.child[p].kind # "binary"
    <3>1. AliveIn(w, p) /\ a.child[p].kind = w.child[p].kind
      BY <1>8, <2>1 DEF FewerBut
    <3>2. Alive(p) /\ ~m.live
      BY <1>6, <1>10, <1>14, <3>1 DEF AliveIn, Alive
    <3> QED BY <1>3, <1>6, <3>1, <3>2 DEF NoneLeft
  <2> QED BY <2>1
<1>16. pc' \in Stages /\ pc' # "changeBinary"
  <2>1. pc' \in {"wait", "noaccept"}
    <3> DEFINE up == {i \in 5 .. Len(Sequel) : Sequel[i] \in m.flags}
    <3>1. pc' = IF up = {} THEN "wait" ELSE Sequel[Min(up)]
      BY <1>1 DEF GoOn
    <3>2. up \in SUBSET {5}
      BY DEF Sequel
    <3>4. Sequel[5] = "noaccept"
      BY DEF Sequel
    <3> HIDE DEF up
    <3>0. up \in SUBSET Nat
      BY <3>2
    <3>3. up # {} => Min(up) \in up
      BY <3>0, MinIn
    <3> QED BY <3>1, <3>2, <3>3, <3>4
  <2> QED BY <2>1 DEF Stages
<1>17. files' \in [pid : Pids \cup {Self, None}, old : Pids \cup {Self, None}] /\ Named'
  <2>1. files.pid = Self /\ files \in [pid : Pids \cup {Self, None}, old : Pids \cup {Self, None}]
    BY <1>1, <1>4 DEF Staged, Named
  <2>2. CASE Spawned(w, a)
    <3>1. files' = [pid |-> None, old |-> files.pid] /\ m'.newBinary \in Pids
      BY <1>3, <1>9, <1>10, <1>14, <2>2 DEF PidFiles
    <3> QED BY <2>1, <3>1 DEF Named
  <2>3. CASE ~Spawned(w, a)
    <3>1. files' = files /\ m'.newBinary \notin Pids
      BY <1>3, <1>9, <1>10, <1>14, <2>3 DEF PidFiles
    <3> QED BY <2>1, <3>1 DEF Named
  <2> QED BY <2>2, <2>3
<1>18. Staged'
  BY <1>1, <1>3, <1>16, <1>17 DEF Staged
<1> QED BY <1>13, <1>15, <1>18 DEF Strong

\* A pid that nobody has yet.
LEMMA UnbornIs == Unborn \in Process /\ Unborn.st = "none"
<1>1. [s \in Slots |-> None] \in [Slots -> Pids \cup {None}] /\ 1 \in Slots
  BY MasterAssumption DEF Slots
<1> QED BY <1>1 DEF Unborn, Process, States, Kinds

\* What is left of a child.
LEMMA RemainsAre ==
  ASSUME NEW st \in States, NEW kind \in Kinds
  PROVE  /\ [Unborn EXCEPT !.st = st] \in Process /\ [Unborn EXCEPT !.st = st].st = st
         /\ LET c == [Unborn EXCEPT !.st = st, !.kind = kind] IN c \in Process /\ c.st = st /\ c.kind = kind
BY UnbornIs DEF Process

\* Dead children are waited for.
LEMMA CollectedIs ==
  ASSUME Sound
  PROVE  /\ Collected.table \in [Slots -> Entry] /\ Collected.child \in [Pids -> Process]
         /\ Collected.inbox \in [Pids -> Seq(Message)]
         /\ \A p \in Pids : /\ Len(Collected.inbox[p]) <= ChanCap
                            /\ child[p].st = "gone" => Collected.child[p].st = "gone"
                            /\ Collected.child[p].st \in {"init", "run", "closing"} => Collected.child[p] = child[p]
         /\ \A s \in Slots :
              LET d == m.table[s]  e == Collected.table[s] IN
              /\ e.pid = d.pid /\ e.kind = d.kind /\ e.detached = d.detached /\ (e.respawn => d.respawn)
              /\ d.exited => e.exited
              /\ e.exited /\ ~d.exited => d.pid \in Pids /\ Collected.child[d.pid].st = "gone"
<1> DEFINE dead == IF "CHLD" \in pending THEN {p \in Pids : child[p].st \in {"zombie", "fatal"}} ELSE {}
           at(s) == m.table[s].pid \in dead /\ s <= m.last
           c == [p \in Pids |-> IF p \in dead THEN [Unborn EXCEPT !.st = "gone"] ELSE child[p]]
           i == [p \in Pids |-> IF p \in dead THEN <<>> ELSE inbox[p]]
           fit(s) == m.table[s].respawn /\ child[m.table[s].pid].st # "fatal"
           t == [s \in Slots |-> IF ~at(s) THEN m.table[s]
                   ELSE [m.table[s] EXCEPT !.exited = TRUE, !.respawn = fit(s)]]
<1>1. Collected.child = c /\ Collected.inbox = i
  BY DEF Collected
<1>2. Collected.table = t
  <2>1. Collected.table = [s \in Slots |-> IF ~at(s) THEN m.table[s]
            ELSE [m.table[s] EXCEPT !.exited = TRUE, !.respawn = @ /\ child[m.table[s].pid].st # "fatal"]]
    BY DEF Collected
  <2> QED BY <2>1, MasterFields DEF Entry
<1>3. /\ child \in [Pids -> Process] /\ inbox \in [Pids -> Seq(Message)] /\ m.table \in [Slots -> Entry]
      /\ \A p \in Pids : Len(inbox[p]) <= ChanCap
  BY MasterFields DEF Sound, Well, Sane, Bounded
<1>4. dead \subseteq Pids /\ \A p \in dead : child[p].st \in {"zombie", "fatal"}
  OBVIOUS
<1>5. [Unborn EXCEPT !.st = "gone"] \in Process /\ [Unborn EXCEPT !.st = "gone"].st = "gone"
  BY RemainsAre DEF States, Kinds
<1>6. \A s \in Slots : fit(s) \in BOOLEAN /\ (fit(s) => m.table[s].respawn)
  OBVIOUS
<1> HIDE DEF dead, fit
<1>7. ASSUME NEW s \in Slots
      PROVE  /\ t[s] \in Entry
             /\ t[s].pid = m.table[s].pid /\ t[s].kind = m.table[s].kind /\ t[s].detached = m.table[s].detached
             /\ t[s].respawn => m.table[s].respawn
             /\ m.table[s].exited => t[s].exited
             /\ t[s].exited /\ ~m.table[s].exited => m.table[s].pid \in dead
  <2>1. m.table[s] \in Entry
    BY <1>3
  <2>2. CASE at(s)
    <3>1. t[s] = [m.table[s] EXCEPT !.exited = TRUE, !.respawn = fit(s)]
      BY <2>2
    <3>2. m.table[s].pid \in dead
      BY <2>2
    <3> HIDE DEF t, at
    <3> QED BY <1>6, <2>1, <3>1, <3>2 DEF Entry
  <2>3. CASE ~at(s)
    BY <2>1, <2>3
  <2> QED BY <2>2, <2>3
<1>8. t \in [Slots -> Entry]
  BY <1>7
<1> HIDE DEF t
<1>9. ASSUME NEW p \in Pids
      PROVE  /\ c[p] \in Process /\ i[p] \in Seq(Message) /\ Len(i[p]) <= ChanCap
             /\ p \in dead => c[p].st = "gone"
             /\ p \notin dead => c[p] = child[p]
  <2>1. Len(<<>>) <= ChanCap /\ <<>> \in Seq(Message)
    BY MasterAssumption
  <2> QED BY <1>3, <1>5, <2>1
<1>10. c \in [Pids -> Process] /\ i \in [Pids -> Seq(Message)]
  BY <1>9
<1> HIDE DEF c, i
<1>11. \A p \in Pids : /\ Len(i[p]) <= ChanCap
                       /\ child[p].st = "gone" => c[p].st = "gone"
                       /\ c[p].st \in {"init", "run", "closing"} => c[p] = child[p]
  BY <1>4, <1>9
<1>12. \A s \in Slots : t[s].exited /\ ~m.table[s].exited => m.table[s].pid \in Pids /\ c[m.table[s].pid].st = "gone"
  BY <1>4, <1>7, <1>9
<1> QED BY <1>1, <1>2, <1>7, <1>8, <1>10, <1>11, <1>12

\* The handlers of the signals that ended the sleep.
LEMMA WakeStep ==
  ASSUME Strong, Wake
  PROVE  Strong' /\ (NoneLeft => NoneLeft')
<1> DEFINE rang == m.delay > 0 /\ "sigalrm" \in m.flags
           kept == IF rang THEN m.flags \ {"sigalrm"} ELSE m.flags
           flags == kept \cup Raised
           sigio == IF rang THEN 0 ELSE m.sigio
           delay == IF rang /\ m.delay <= KillLevel THEN m.delay + 1 ELSE m.delay
           x == [m EXCEPT !.flags = flags, !.table = Collected.table, !.sigio = sigio, !.delay = delay]
           a == [m |-> x, child |-> Collected.child, inbox |-> Collected.inbox]
<1>1. /\ Sound /\ Staged /\ pc = "wait" /\ pc' = "reap" /\ files' = files /\ left' = left /\ pending' = {}
      /\ child' = Collected.child /\ inbox' = Collected.inbox
  BY DEF Strong, Wake
<1>2. m' = x
  <2>1. m' = [m EXCEPT !.flags = flags, !.table = Collected.table, !.sigio = IF rang THEN 0 ELSE @,
                       !.delay = IF rang /\ @ <= KillLevel THEN @ + 1 ELSE @]
    BY DEF Wake
  <2>2. m \in Memory(m)
    BY <1>1, MasterFields
  <2> QED BY <2>1, <2>2 DEF Memory
<1>3. /\ m \in Memory(m) /\ m.flags \in SUBSET Flags /\ m.delay \in 0 .. KillLevel + 1 /\ m.sigio \in 0 .. Workers + 2
      /\ World.m = m /\ World.child = child
  BY <1>1, MasterFields
<1>4. flags \in SUBSET Flags /\ ("changeBinary" \in flags => m.newBinary \notin Pids)
  <2>1. Raised \in SUBSET Flags /\ ("changeBinary" \in Raised => m.newBinary \notin Pids)
    BY DEF Raised
  <2>2. kept \in SUBSET m.flags
    OBVIOUS
  <2>3. "changeBinary" \in m.flags => m.newBinary \notin Pids
    BY <1>1 DEF Sound
  <2> HIDE DEF kept
  <2> QED BY <1>3, <2>1, <2>2, <2>3
<1>5. sigio \in 0 .. Workers + 2 /\ delay \in 0 .. KillLevel + 1
  BY <1>3, MasterAssumption
<1> HIDE DEF flags, sigio, delay
<1>6. /\ Collected.table \in [Slots -> Entry] /\ Collected.child \in [Pids -> Process]
      /\ Collected.inbox \in [Pids -> Seq(Message)]
      /\ \A p \in Pids : Len(Collected.inbox[p]) <= ChanCap
      /\ \A p \in Pids : child[p].st = "gone" => Collected.child[p].st = "gone"
      /\ \A p \in Pids : Collected.child[p].st \in {"init", "run", "closing"} => Collected.child[p] = child[p]
  BY <1>1, CollectedIs
<1>7. \A s \in Slots :
        LET d == m.table[s]  e == Collected.table[s] IN
        /\ e.pid = d.pid /\ e.kind = d.kind /\ e.detached = d.detached /\ (e.respawn => d.respawn)
        /\ d.exited => e.exited
        /\ e.exited /\ ~d.exited => d.pid \in Pids /\ Collected.child[d.pid].st = "gone"
  BY <1>1, CollectedIs
<1>8. /\ x \in Memory(m) /\ x.table = Collected.table /\ x.last = m.last /\ x.next = m.next /\ x.flags = flags
      /\ x.newBinary = m.newBinary /\ x.live = m.live
  BY <1>3, <1>4, <1>5, <1>6 DEF Memory
<1> HIDE DEF x
<1>9. a.m = x /\ a.child = Collected.child /\ a.inbox = Collected.inbox /\ a \in Worlds(m) /\ Become(a)
  BY <1>1, <1>2, <1>6, <1>8 DEF Worlds, Become
<1> HIDE DEF a
<1>10. Sane(World)
  BY <1>1 DEF Sound, Well
<1>11. \A p \in Pids : AliveIn(a, p) => AliveIn(World, p) /\ a.child[p] = child[p]
  BY <1>3, <1>6, <1>9 DEF AliveIn
<1>12. PastLast(a) /\ Bounded(a)
  BY <1>3, <1>6, <1>7, <1>8, <1>9, <1>10 DEF Sane, PastLast, Bounded
<1>13. ASSUME NEW s \in Slots
       PROVE  EntrySane(a, s)
  <2>1. EntrySane(World, s) /\ m.table[s].pid \in Pids \cup {None}
    BY <1>1, <1>10, MasterFields DEF Sane, Entry
  <2>2. a.m.table[s] = Collected.table[s] /\ a.m.next = m.next
    BY <1>8, <1>9
  <2> DEFINE d == m.table[s]
             e == Collected.table[s]
  <2>3. /\ e.pid = d.pid /\ e.kind = d.kind /\ e.detached = d.detached /\ (e.respawn => d.respawn)
        /\ d.exited => e.exited
        /\ e.exited /\ ~d.exited => d.pid \in Pids /\ Collected.child[d.pid].st = "gone"
    BY <1>7
  <2>4. e.exited /\ e.pid # None => Collected.child[e.pid].st = "gone"
    BY <1>3, <1>6, <2>1, <2>3 DEF EntrySane
  <2> HIDE DEF e
  <2> QED BY <1>3, <1>9, <2>1, <2>2, <2>3, <2>4 DEF EntrySane, e
<1>14. ASSUME NEW p \in Pids, AliveIn(a, p)
       PROVE  \E s \in Slots : /\ s <= a.m.last /\ a.m.table[s].pid = p /\ ~a.m.table[s].exited
                              /\ a.m.table[s].kind = a.child[p].kind
  <2>1. AliveIn(World, p) /\ a.child[p] = child[p]
    BY <1>11, <1>14
  <2>2. PICK s \in Slots : /\ s <= m.last /\ m.table[s].pid = p /\ ~m.table[s].exited
                           /\ m.table[s].kind = child[p].kind
    BY <1>3, <1>10, <2>1 DEF Sane, Listed
  <2>3. Collected.child[p].st # "gone"
    BY <1>9, <1>14 DEF AliveIn
  <2>4. ~Collected.table[s].exited /\ Collected.table[s].pid = p /\ Collected.table[s].kind = child[p].kind
    BY <1>7, <2>2, <2>3
  <2> QED BY <1>8, <1>9, <2>1, <2>2, <2>4
<1>15. Well(m, a)
  BY <1>9, <1>12, <1>13, <1>14 DEF Well, Sane, Listed
<1>16. OneBinaryIn(a)
  BY <1>1, <1>3, <1>8, <1>9, <1>11 DEF Sound, OneBinaryIn, BinariesOf
<1>17. Sound'
  <2>1. SameCycle(m)
    BY <1>1, Memories
  <2> QED BY <1>1, <1>4, <1>8, <1>9, <1>15, <1>16, <2>1, StepOn DEF Strong
<1>18. NoneLeft => NoneLeft'
  BY <1>1, <1>3, <1>8, <1>9, <1>11, NoneLeftOn DEF Fewer
<1>19. m'.newBinary = m.newBinary /\ {} \subseteq Signals
  BY <1>2, <1>8
<1>20. Staged'
  BY <1>1, <1>19, StagedOn DEF Staged, Stages
<1> QED BY <1>17, <1>18, <1>20 DEF Strong

\* ngx_reap_children, after which a master that is not live has no worker.
LEMMA ReapStep ==
  ASSUME Strong, Reap
  PROVE  Strong' /\ (NoneLeft => NoneLeft')
<1>1. Sound /\ Staged /\ pc = "reap" /\ pc' = "decide" /\ pending' = pending
  BY DEF Strong, Reap
<1>2. CASE "reap" \notin m.flags
  <2>1. m' = m /\ child' = child /\ inbox' = inbox /\ files' = files /\ left' = left
    BY <1>2 DEF Reap
  <2>2. Become(With(World, m))
    BY <2>1 DEF Become, With, World
  <2>3. After /\ (NoneLeft => NoneLeft')
    BY <1>1, <2>1, <2>2, Memories, MemoryStep
  <2>4. Staged'
    BY <1>1, <2>1, StagedOn DEF Staged, Stages
  <2> QED BY <2>3, <2>4 DEF Strong, After
<1>3. CASE "reap" \in m.flags
  <2>1. PICK ok \in ForkOutcomes :
          /\ Become(ReapChildren(World, ok)) /\ left' = [Rest(ok) EXCEPT !.uncounted = FALSE]
          /\ files' = IF m.newBinary \in Pids /\ ReapChildren(World, ok).m.newBinary = None
                      THEN [pid |-> files.old, old |-> None] ELSE files
    BY <1>3 DEF Reap
  <2> DEFINE a == ReapChildren(World, ok)
  <2>2. /\ Well(m, World) /\ OneBinaryIn(World) /\ World.m = m /\ m.newBinary \in Pids \cup {None, Invalid}
        /\ m.gen \in DOMAIN Confs
    BY <1>1, MasterFields DEF Sound
  <2>3. /\ Well(m, a) /\ Reaped(World, a) /\ OneBinaryIn(a)
        /\ ~a.m.live => \A p \in Pids : AliveIn(a, p) => a.child[p].kind = "binary"
    BY <2>2, ReapChildrenWell
  <2>4. Become(a) /\ left' \in ScenarioType /\ left'.confs = left.confs /\ left'.aborted = left.aborted
    <3>1. Rest(ok) \in ScenarioType /\ Rest(ok).confs = left.confs /\ Rest(ok).aborted = left.aborted
      BY <1>1, ForkedIs DEF Staged
    <3>2. Become(a) /\ left' = [Rest(ok) EXCEPT !.uncounted = FALSE]
      BY <2>1
    <3> HIDE DEF a
    <3> QED BY <3>1, <3>2 DEF ScenarioType
  <2>5. files' = IF m.newBinary \in Pids /\ a.m.newBinary = None
                 THEN [pid |-> files.old, old |-> None] ELSE files
    BY <2>1
  <2> HIDE DEF a
  <2>6. a.m.newBinary \in {m.newBinary, None} /\ a.m.flags \subseteq m.flags \cup {"restart"}
    BY <2>2, <2>3 DEF Reaped
  <2>7. None \notin Pids /\ Invalid \notin Pids
    BY MasterAssumption DEF None, Invalid, Pids
  <2>8. "changeBinary" \in a.m.flags => a.m.newBinary \notin Pids
    BY <1>1, <2>6, <2>7 DEF Sound
  <2>9. Sound'
    <3>1. SameCycle(m)
      BY <1>1, Memories
    <3> QED BY <2>3, <2>4, <2>8, <3>1, StepOn
  <2>10. m' = a.m /\ child' = a.child
    BY <2>4 DEF Become
  <2>11. NoneLeft'
    BY <2>3, <2>10 DEF NoneLeft, Alive, AliveIn
  <2>12. files' \in [pid : Pids \cup {Self, None}, old : Pids \cup {Self, None}] /\ Named'
    <3>1. /\ Self = IF m.newBinary \in Pids THEN files.old ELSE files.pid
          /\ files \in [pid : Pids \cup {Self, None}, old : Pids \cup {Self, None}]
      BY <1>1 DEF Staged, Named
    <3>2. CASE m.newBinary \in Pids /\ a.m.newBinary = None
      <4>1. files' = [pid |-> files.old, old |-> None] /\ m'.newBinary \notin Pids
        BY <2>5, <2>7, <2>10, <3>2
      <4> QED BY <3>1, <3>2, <4>1 DEF Named
    <3>3. CASE ~(m.newBinary \in Pids /\ a.m.newBinary = None)
      <4>1. files' = files /\ (m'.newBinary \in Pids <=> m.newBinary \in Pids)
        BY <2>5, <2>6, <2>7, <2>10, <3>3
      <4> QED BY <3>1, <4>1 DEF Named
    <3> QED BY <3>2, <3>3
  <2>13. Staged'
    BY <1>1, <2>4, <2>12 DEF Staged, Stages
  <2> QED BY <2>9, <2>11, <2>13 DEF Strong
<1> QED BY <1>2, <1>3

\* The cycle that a reload makes: what it keeps it has, and what it gives up it has not.
LEMMA NewCycleIs ==
  ASSUME Sound, left \in ScenarioType, IsInjective(left.confs), left.confs # <<>>
  PROVE  /\ NewCycle \in Memory(NewCycle)
         /\ NewCycle.table = m.table /\ NewCycle.last = m.last /\ NewCycle.next = m.next
         /\ NewCycle.newBinary = m.newBinary /\ NewCycle.live = TRUE /\ NewCycle.flags = m.flags \ {"reconfigure"}
         /\ NewCycle.gen \in DOMAIN Confs /\ DOMAIN NewCycle.zones = DOMAIN Confs[NewCycle.gen].zones
         /\ \A z \in DOMAIN NewCycle.zones : NewCycle.zones[z] \notin Range(Tail(left.confs)) \cup left.aborted
         /\ Range(Tail(left.confs)) \cap left.aborted = {}
         /\ {y \in NewCycle.mapped : y[2] \notin left.aborted} =
              {<<z, NewCycle.zones[z]>> : z \in DOMAIN NewCycle.zones}
<1> DEFINE k == NewCycle
           g == Head(left.confs)
           zones == [z \in DOMAIN Confs[g].zones |-> IF Taken(z, g) THEN m.zones[z] ELSE g]
           given == {<<z, m.zones[z]>> : z \in {y \in DOMAIN m.zones : ~Kept(y, g)}}
           had == {<<z, zones[z]>> : z \in DOMAIN zones}
           socks == [a \in Confs[g].listen |-> Socket(a, g)]
           flags == m.flags \ {"reconfigure"}
           mapped == (m.mapped \cup had) \ given
<1>1. m \in Memory(m) /\ m.flags \in SUBSET Flags
  BY MasterFields
<1>2. k = [m EXCEPT !.gen = g, !.flags = flags, !.live = TRUE, !.socks = socks, !.zones = zones, !.mapped = mapped]
  <2>1. k = [m EXCEPT !.gen = g, !.flags = @ \ {"reconfigure"}, !.live = TRUE, !.socks = socks,
               !.zones = zones, !.mapped = (@ \cup had) \ given]
    BY DEF NewCycle
  <2> HIDE DEF k, zones, given, had, socks
  <2> QED BY <1>1, <2>1 DEF Memory
<1>3. flags \in SUBSET Flags
  BY <1>1
<1> HIDE DEF k, flags, socks, zones, mapped, g
<1>4. /\ k.table = m.table /\ k.last = m.last /\ k.next = m.next /\ k.newBinary = m.newBinary
      /\ k.live = TRUE /\ k.flags = flags /\ k.gen = g /\ k.socks = socks /\ k.zones = zones /\ k.mapped = mapped
      /\ k \in Memory(k)
  BY <1>1, <1>2, <1>3 DEF Memory
<1>5. left.confs \in Seq(DOMAIN Confs)
  BY DEF ScenarioType
<1>6. g \in DOMAIN Confs /\ g \in Range(left.confs) /\ Range(Tail(left.confs)) = Range(left.confs) \ {g}
  BY <1>5, TakeFirst DEF g
<1>7. DOMAIN zones = DOMAIN Confs[g].zones
  BY DEF zones
<1>8. /\ m.gen \in DOMAIN Confs /\ DOMAIN m.zones = DOMAIN Confs[m.gen].zones
      /\ \A z \in DOMAIN m.zones : m.zones[z] \notin Range(left.confs) \cup left.aborted
      /\ Range(left.confs) \cap left.aborted = {}
      /\ {y \in m.mapped : y[2] \notin left.aborted} = {<<z, m.zones[z]>> : z \in DOMAIN m.zones}
  BY DEF Sound, Agreed, ZonesFit
<1>9. \A z \in DOMAIN m.zones : Kept(z, g) <=> z \in DOMAIN zones /\ Taken(z, g)
  <2> SUFFICES ASSUME NEW z \in DOMAIN m.zones, z \in DOMAIN zones
               PROVE  SameZone(z, m.gen, g) <=> SameZone(z, g, m.gen)
    BY <1>7 DEF Kept, Taken
  <2>1. Confs[g].zones[z].tag = Confs[m.gen].zones[z].tag
          => Confs[g].zones[z].noreuse = Confs[m.gen].zones[z].noreuse
    BY <1>6, <1>7, <1>8, NoReuseByTag
  <2> QED BY <2>1 DEF SameZone
<1>10. ASSUME NEW z \in DOMAIN zones
       PROVE  /\ zones[z] \notin Range(Tail(left.confs)) \cup left.aborted
              /\ <<z, zones[z]>> \in mapped
  <2>1. <<z, zones[z]>> \in had
    OBVIOUS
  <2>2. CASE Taken(z, g)
    <3>1. zones[z] = m.zones[z] /\ z \in DOMAIN m.zones
      BY <1>7, <2>2 DEF zones, Taken
    <3>2. <<z, m.zones[z]>> \notin given
      BY <1>9, <2>2, <3>1
    <3>3. zones[z] \notin Range(Tail(left.confs)) \cup left.aborted
      BY <1>6, <1>8, <3>1
    <3> HIDE DEF given, had
    <3> QED BY <2>1, <3>1, <3>2, <3>3 DEF mapped
  <2>3. CASE ~Taken(z, g)
    <3>1. zones[z] = g
      BY <1>7, <2>3 DEF zones
    <3>2. <<z, g>> \notin given
      BY <1>6, <1>8
    <3>3. zones[z] \notin Range(Tail(left.confs)) \cup left.aborted
      BY <1>6, <1>8, <3>1
    <3> HIDE DEF given, had
    <3> QED BY <2>1, <3>1, <3>2, <3>3 DEF mapped
  <2> QED BY <2>2, <2>3
<1>11. ASSUME NEW y \in mapped, y[2] \notin left.aborted
       PROVE  y \in had
  <2>1. CASE y \notin had
    <3>1. y \in m.mapped /\ y \notin given
      BY <1>11, <2>1 DEF mapped
    <3>2. PICK z \in DOMAIN m.zones : y = <<z, m.zones[z]>>
      BY <1>8, <1>11, <3>1
    <3>3. Kept(z, g)
      BY <3>1, <3>2
    <3>4. z \in DOMAIN zones /\ zones[z] = m.zones[z]
      BY <1>7, <1>9, <3>3 DEF zones
    <3> QED BY <2>1, <3>2, <3>4
  <2> QED BY <2>1
<1>12. {y \in mapped : y[2] \notin left.aborted} = had
  BY <1>10, <1>11
<1>13. Range(Tail(left.confs)) \cap left.aborted = {}
  BY <1>6, <1>8
<1>14. {y \in k.mapped : y[2] \notin left.aborted} = {<<z, k.zones[z]>> : z \in DOMAIN k.zones}
  BY <1>4, <1>12
<1>15. \A z \in DOMAIN k.zones : k.zones[z] \notin Range(Tail(left.confs)) \cup left.aborted
  BY <1>4, <1>10
<1> HIDE DEF had, given
<1> QED BY <1>4, <1>6, <1>7, <1>13, <1>14, <1>15 DEF k, flags

\* HUP: the new cycle starts its own workers.
LEMMA ReconfigureStep ==
  ASSUME Strong, Reconfigure
  PROVE  Strong' /\ NoneLeft'
<1> DEFINE k == NewCycle
           w == With(World, k)
<1>1. /\ Sound /\ Staged /\ pc = "reconfigure" /\ pc' = "retire" /\ pending' = pending /\ files' = files
      /\ left.confs # <<>> /\ left \in ScenarioType /\ IsInjective(left.confs)
  BY DEF Strong, Staged, Reconfigure
<1>2. PICK ok \in ForkOutcomes :
        /\ Become(StartAll(w, "justrespawn", ok))
        /\ left' = [Rest(ok) EXCEPT !.confs = Tail(@)]
  BY DEF Reconfigure
<1> DEFINE a == StartAll(w, "justrespawn", ok)
<1>3. /\ k \in Memory(k) /\ k.table = m.table /\ k.last = m.last /\ k.next = m.next
      /\ k.newBinary = m.newBinary /\ k.live = TRUE /\ k.flags = m.flags \ {"reconfigure"}
      /\ k.gen \in DOMAIN Confs /\ DOMAIN k.zones = DOMAIN Confs[k.gen].zones
      /\ \A z \in DOMAIN k.zones : k.zones[z] \notin Range(Tail(left.confs)) \cup left.aborted
      /\ Range(Tail(left.confs)) \cap left.aborted = {}
      /\ {y \in k.mapped : y[2] \notin left.aborted} = {<<z, k.zones[z]>> : z \in DOMAIN k.zones}
  BY <1>1, NewCycleIs
<1>4. Become(a)
  BY <1>2
<1> HIDE DEF k
<1>5. Alike(k, k)
  BY <1>3 DEF Alike
<1>6. Well(k, w) /\ w.m = k /\ OneBinaryIn(w)
  BY <1>1, <1>5, AlikeWell
<1> HIDE DEF w
<1>7. Well(k, a) /\ Calm(w, a)
  BY <1>3, <1>6, StartAllWell
<1> HIDE DEF a
<1>8. Well(m, World)' /\ World' = a /\ m' = a.m
  BY <1>4, <1>7, BecomeIs DEF Become
<1>9. /\ m'.gen = k.gen /\ m'.zones = k.zones /\ m'.mapped = k.mapped /\ m'.socks = k.socks
      /\ m'.flags = k.flags /\ m'.newBinary = m.newBinary /\ m'.live = TRUE
  <2>1. a.m.gen = k.gen /\ a.m.zones = k.zones /\ a.m.mapped = k.mapped /\ a.m.socks = k.socks
    BY <1>7, WorldFields DEF Well
  <2>2. a.m.flags = k.flags /\ a.m.newBinary = m.newBinary /\ a.m.live = TRUE
    BY <1>3, <1>6, <1>7 DEF Calm, Steady
  <2> QED BY <1>8, <2>1, <2>2
<1>10. OneBinaryIn(World)'
  <2>1. OneBinaryIn(a)
    BY <1>3, <1>6, <1>7, <1>8, <1>9 DEF Calm, OneBinaryIn
  <2> QED BY <1>8, <2>1 DEF OneBinaryIn, BinariesOf, AliveIn
<1>11. left' \in ScenarioType /\ left'.confs = Tail(left.confs) /\ left'.aborted = left.aborted
  <2>1. left.confs \in Seq(DOMAIN Confs)
    BY <1>1 DEF ScenarioType
  <2>2. Tail(left.confs) \in Seq(DOMAIN Confs)
    BY <1>1, <2>1, TakeFirst
  <2>3. Rest(ok) \in ScenarioType /\ Rest(ok).confs = left.confs /\ Rest(ok).aborted = left.aborted
    BY <1>1, ForkedIs
  <2>4. left' = [Rest(ok) EXCEPT !.confs = Tail(@)]
    BY <1>2
  <2> QED BY <2>2, <2>3, <2>4 DEF ScenarioType
<1>12. IsInjective(left'.confs)
  <2>1. left.confs \in Seq(DOMAIN Confs)
    BY <1>1 DEF ScenarioType
  <2> QED BY <1>1, <1>11, <2>1, TakeFirst
<1>13. Agreed'
  BY <1>3, <1>9, <1>11 DEF Agreed, ZonesFit
<1>14. "changeBinary" \in m'.flags => m'.newBinary \notin Pids
  BY <1>1, <1>3, <1>9 DEF Sound
<1>15. Sound'
  BY <1>8, <1>10, <1>13, <1>14 DEF Sound
<1>16. NoneLeft'
  BY <1>9 DEF NoneLeft
<1>17. Staged'
  BY <1>1, <1>9, <1>11, <1>12 DEF Staged, Stages, Named
<1> QED BY <1>15, <1>16, <1>17 DEF Strong

\* The memory of a master whose new cycle failed when the zones made were mapped.
Aborted(made) == [Lower("reconfigure") EXCEPT !.mapped = @ \cup {<<z, Head(left.confs)>> : z \in made}]

\* It differs from the one before in the flag and in the zones.
LEMMA AbortedIs ==
  ASSUME Sound, NEW made
  PROVE  LET x == Aborted(made) IN
         /\ Alike(x, x) /\ x.live = m.live /\ x.gen = m.gen /\ x.zones = m.zones /\ x.lost = m.lost
         /\ x.noaccepting = m.noaccepting /\ x.flags = m.flags \ {"reconfigure"}
         /\ x.mapped = m.mapped \cup {<<z, Head(left.confs)>> : z \in made}
<1> DEFINE more == {<<z, Head(left.confs)>> : z \in made}
           x == [m EXCEPT !.flags = m.flags \ {"reconfigure"}, !.mapped = m.mapped \cup more]
<1>1. m \in Memory(m) /\ m.flags \in SUBSET Flags
  BY MasterFields
<1> HIDE DEF more
<1>2. Aborted(made) = x
  BY <1>1 DEF Aborted, Lower, Memory, more
<1>3. x \in Memory(x) /\ x.table = m.table /\ x.last = m.last /\ x.next = m.next
  BY <1>1 DEF Memory
<1>4. /\ x.newBinary = m.newBinary /\ x.flags = m.flags \ {"reconfigure"} /\ x.live = m.live /\ x.gen = m.gen
      /\ x.zones = m.zones /\ x.lost = m.lost /\ x.noaccepting = m.noaccepting
      /\ x.mapped = m.mapped \cup more
  BY <1>1 DEF Memory
<1> HIDE DEF x
<1> QED BY <1>2, <1>3, <1>4 DEF Alike, more

\* ngx_init_cycle fails late: the zones it leaves are of a cycle that is never in force.
LEMMA AbortCycleStep ==
  ASSUME Strong, AbortCycle
  PROVE  Strong' /\ (NoneLeft => NoneLeft')
<1> DEFINE g == Head(left.confs)
<1>1. /\ Sound /\ Staged /\ pc = "reconfigure" /\ pc' = "wait" /\ pending' = pending /\ files' = files
      /\ left.confs # <<>> /\ left \in ScenarioType /\ IsInjective(left.confs)
      /\ left' = [left EXCEPT !.confs = Tail(@), !.aborted = @ \cup {g}]
  BY DEF Strong, Staged, AbortCycle
<1>2. PICK made : Become(With(World, Aborted(made)))
  BY DEF AbortCycle, Aborted
<1> DEFINE x == Aborted(made)
           w == With(World, x)
           more == {<<z, g>> : z \in made}
<1>3. /\ Alike(x, x) /\ x.live = m.live /\ x.gen = m.gen /\ x.zones = m.zones
      /\ x.flags = m.flags \ {"reconfigure"} /\ x.mapped = m.mapped \cup more
  BY <1>1, AbortedIs
<1>4. Become(w)
  BY <1>2
<1> HIDE DEF x, more
<1>5. Well(x, w) /\ w.m = x /\ OneBinaryIn(w) /\ w.child = child
  BY <1>1, <1>3, AlikeWell
<1> HIDE DEF w
<1>6. Well(m, World)' /\ World' = w /\ m' = x /\ child' = child
  BY <1>4, <1>5, BecomeIs DEF Become
<1>7. OneBinaryIn(World)'
  BY <1>5, <1>6 DEF OneBinaryIn, BinariesOf, AliveIn
<1>8. left.confs \in Seq(DOMAIN Confs) /\ left.aborted \in SUBSET DOMAIN Confs
  BY <1>1 DEF ScenarioType
<1>9. /\ Tail(left.confs) \in Seq(DOMAIN Confs) /\ IsInjective(Tail(left.confs))
      /\ g \in DOMAIN Confs /\ g \in Range(left.confs) /\ Range(Tail(left.confs)) = Range(left.confs) \ {g}
  BY <1>1, <1>8, TakeFirst
<1> HIDE DEF g
<1>10. /\ left' \in ScenarioType /\ left'.confs = Tail(left.confs) /\ left'.aborted = left.aborted \cup {g}
       /\ left'.uncounted = left.uncounted
  <2>1. left.aborted \cup {g} \in SUBSET DOMAIN Confs
    BY <1>8, <1>9
  <2> QED BY <1>1, <1>9, <2>1 DEF ScenarioType
<1>11. Agreed'
  <2>1. /\ m.gen \in DOMAIN Confs /\ DOMAIN m.zones = DOMAIN Confs[m.gen].zones
        /\ \A z \in DOMAIN m.zones : m.zones[z] \notin Range(left.confs) \cup left.aborted
        /\ Range(left.confs) \cap left.aborted = {}
        /\ {y \in m.mapped : y[2] \notin left.aborted} = {<<z, m.zones[z]>> : z \in DOMAIN m.zones}
    BY <1>1 DEF Sound, Agreed, ZonesFit
  <2>2. \A y \in more : y[2] = g
    BY DEF more
  <2>3. {y \in m.mapped \cup more : y[2] \notin left.aborted \cup {g}} = {<<z, m.zones[z]>> : z \in DOMAIN m.zones}
    BY <1>9, <2>1, <2>2
  <2>4. ZonesFit'
    BY <1>3, <1>6, <1>10, <2>3 DEF ZonesFit
  <2>5. Range(left'.confs) \cap left'.aborted = {}
    BY <1>9, <1>10, <2>1
  <2>6. \A z \in DOMAIN m.zones : m.zones[z] \notin Range(left'.confs) \cup left'.aborted
    BY <1>9, <1>10, <2>1
  <2> QED BY <1>3, <1>6, <2>1, <2>4, <2>5, <2>6 DEF Agreed
<1>12. m'.newBinary = m.newBinary /\ ("changeBinary" \in m'.flags => m'.newBinary \notin Pids)
  BY <1>1, <1>3, <1>6 DEF Sound, Alike
<1>13. NoneLeft => NoneLeft'
  BY <1>3, <1>6, <1>10 DEF NoneLeft, Alive
<1>14. Staged'
  BY <1>1, <1>9, <1>10, <1>12 DEF Staged, Stages, Named
<1> QED BY <1>6, <1>7, <1>11, <1>12, <1>13, <1>14 DEF Strong, Sound

-----------------------------------------------------------------------------
(* The steps of the children.                                                *)

\* A child that is not waited for yet changes, and may read or lose its channel.
LEMMA ChildStep ==
  ASSUME Strong, NEW p \in Pids, child[p].st # "gone", NEW c \in Process,
         c.st \in {"init", "run", "closing"} => Alive(p) /\ c.kind = child[p].kind,
         child' = [child EXCEPT ![p] = c], inbox' \in {inbox, [inbox EXCEPT ![p] = <<>>]}, m' = m,
         left'.confs = left.confs, left'.aborted = left.aborted, left'.uncounted = left.uncounted
  PROVE  Sound' /\ (NoneLeft => NoneLeft')
<1> DEFINE a == [m |-> m, child |-> child', inbox |-> inbox']
<1>1. /\ Sound /\ Sane(World) /\ m \in Memory(m) /\ child \in [Pids -> Process] /\ inbox \in [Pids -> Seq(Message)]
      /\ World.m = m /\ World.child = child /\ World.inbox = inbox
  BY MasterFields DEF Strong, Sound, Well
<1>2. child' \in [Pids -> Process] /\ inbox' \in [Pids -> Seq(Message)]
  <2>1. <<>> \in Seq(Message)
    OBVIOUS
  <2>2. [inbox EXCEPT ![p] = <<>>] \in [Pids -> Seq(Message)]
    BY <1>1, <2>1
  <2>3. child' \in [Pids -> Process]
    BY <1>1
  <2> QED BY <1>1, <2>2, <2>3
<1>3. a.m = m /\ a.child = child' /\ a.inbox = inbox' /\ a \in Worlds(m) /\ Become(a)
  BY <1>1, <1>2 DEF Worlds, Become
<1> HIDE DEF a
<1>4. \A q \in Pids : AliveIn(a, q) => AliveIn(World, q) /\ a.child[q].kind = child[q].kind
  <2> SUFFICES ASSUME NEW q \in Pids, AliveIn(a, q) PROVE AliveIn(World, q) /\ a.child[q].kind = child[q].kind
    OBVIOUS
  <2>1. CASE q = p
    BY <1>1, <1>3, <2>1 DEF AliveIn, Alive
  <2>2. CASE q # p
    BY <1>1, <1>3, <2>2 DEF AliveIn
  <2> QED BY <2>1, <2>2
<1>5. PastLast(a)
  BY <1>1, <1>3 DEF Sane, PastLast
<1>6. Bounded(a)
  <2>1. Len(<<>>) = 0 /\ 0 <= ChanCap
    BY MasterAssumption
  <2>2. \A q \in Pids : Len(inbox[q]) <= ChanCap
    BY <1>1 DEF Sane, Bounded
  <2>3. \A q \in Pids : inbox'[q] \in {inbox[q], <<>>}
    BY <1>1
  <2> QED BY <1>3, <2>1, <2>2, <2>3 DEF Bounded
<1>7. ASSUME NEW s \in Slots
      PROVE  EntrySane(a, s)
  <2>1. EntrySane(World, s) /\ m.table[s] \in Entry
    BY <1>1, MasterFields DEF Sane
  <2>2. m.table[s].exited /\ m.table[s].pid # None => child'[m.table[s].pid] = child[m.table[s].pid]
    BY <1>1, <2>1 DEF EntrySane, Entry
  <2> QED BY <1>1, <1>3, <2>1, <2>2 DEF EntrySane
<1>8. \A q \in Pids : Listed(a, q)
  BY <1>1, <1>3, <1>4 DEF Sane, Listed
<1>9. Well(m, a)
  BY <1>3, <1>5, <1>6, <1>7, <1>8 DEF Well, Sane
<1>10. OneBinaryIn(a)
  BY <1>1, <1>3, <1>4 DEF Sound, OneBinaryIn, BinariesOf
<1>11. "changeBinary" \in a.m.flags => a.m.newBinary \notin Pids
  BY <1>1, <1>3 DEF Sound
<1>12. Sound'
  <2>1. SameCycle(m)
    BY <1>1, Memories
  <2> QED BY <1>3, <1>9, <1>10, <1>11, <2>1, StepOn
<1>13. NoneLeft => NoneLeft'
  BY <1>1, <1>3, <1>4, NoneLeftOn DEF Fewer
<1> QED BY <1>12, <1>13

\* The master's own part is as before.
LEMMA Untouched ==
  ASSUME Staged, m' = m, pc' = pc, files' = files, left' \in ScenarioType, left'.confs = left.confs,
         pending' \subseteq Signals
  PROVE  Staged'
BY DEF Staged, Named

\* A child dies.
LEMMA DieStep ==
  ASSUME Strong, NEW p \in Pids, child[p].st # "gone", NEW how \in {"zombie", "fatal"}, Die(p, how), m' = m,
         left'.confs = left.confs, left'.aborted = left.aborted, left'.uncounted = left.uncounted
  PROVE  Sound' /\ (NoneLeft => NoneLeft') /\ pending' \subseteq Signals
<1> DEFINE c == [Unborn EXCEPT !.st = how, !.kind = child[p].kind]
<1>1. Sound /\ Staged /\ child \in [Pids -> Process]
  BY MasterFields DEF Strong
<1>2. child[p].kind \in Kinds /\ how \in States
  BY <1>1 DEF Process, States
<1>3. c \in Process /\ c.st = how
  BY <1>2, RemainsAre
<1>4. child' = [child EXCEPT ![p] = c] /\ inbox' = [inbox EXCEPT ![p] = <<>>] /\ pending' = pending \cup {"CHLD"}
  BY DEF Die
<1> HIDE DEF c
<1>5. Sound' /\ (NoneLeft => NoneLeft')
  BY <1>3, <1>4, ChildStep
<1>6. pending' \subseteq Signals
  BY <1>1, <1>4 DEF Staged, Signals
<1> QED BY <1>5, <1>6

\* A child dies on its own account: it leaves, crashes or refuses to start.
LEMMA LeaveStep ==
  ASSUME Strong, NEW p \in Pids, ChildLeave(p) \/ WorkerDrained(p) \/ LoaderDone(p) \/ Crash(p) \/ ChildRefuse(p)
  PROVE  Strong' /\ (NoneLeft => NoneLeft')
<1>1. Sound /\ Staged /\ left \in ScenarioType
  BY DEF Strong, Staged
<1>2. /\ child[p].st # "gone" /\ m' = m /\ pc' = pc /\ files' = files /\ left' \in ScenarioType
      /\ left'.confs = left.confs /\ left'.aborted = left.aborted /\ left'.uncounted = left.uncounted
  BY <1>1, SpentIs DEF ChildLeave, WorkerDrained, LoaderDone, Crash, ChildRefuse, Alive
<1>3. Die(p, "zombie") \/ Die(p, "fatal")
  BY DEF ChildLeave, WorkerDrained, LoaderDone, Crash, ChildRefuse
<1>4. Sound' /\ (NoneLeft => NoneLeft') /\ pending' \subseteq Signals
  BY <1>2, <1>3, DieStep
<1>5. Staged'
  BY <1>1, <1>2, <1>4, Untouched
<1> QED BY <1>4, <1>5 DEF Strong

\* ngx_worker_process_init, and a worker that begins to shut down.
LEMMA ChildInitStep ==
  ASSUME Strong, NEW p \in Pids, ChildInit(p) \/ WorkerClose(p)
  PROVE  Strong' /\ (NoneLeft => NoneLeft')
<1> DEFINE c == [child[p] EXCEPT !.st = "run"]
           d == [child[p] EXCEPT !.st = "closing", !.quit = FALSE]
<1>1. Sound /\ Staged /\ child \in [Pids -> Process] /\ child[p] \in Process
  BY MasterFields DEF Strong
<1>2. /\ m' = m /\ pc' = pc /\ files' = files /\ left' = left /\ inbox' = inbox /\ pending' = pending /\ Alive(p)
  BY DEF ChildInit, WorkerClose, Alive
<1>3. child' = [child EXCEPT ![p] = c] \/ child' = [child EXCEPT ![p] = d]
  <2>1. CASE ChildInit(p)
    BY <2>1, <1>1 DEF ChildInit
  <2>2. CASE WorkerClose(p)
    <3>1. child' = [child EXCEPT ![p].st = "closing", ![p].quit = FALSE]
      BY <2>2 DEF WorkerClose
    <3> QED BY <1>1, <3>1
  <2> QED BY <2>1, <2>2
<1>4. c \in Process /\ c.kind = child[p].kind /\ d \in Process /\ d.kind = child[p].kind
  BY <1>1 DEF Process, States
<1> HIDE DEF c, d
<1>5. Sound' /\ (NoneLeft => NoneLeft')
  BY <1>2, <1>3, <1>4, ChildStep DEF Alive
<1>6. Staged'
  BY <1>1, <1>2, Untouched DEF Staged
<1> QED BY <1>5, <1>6 DEF Strong

\* What a child hears leaves it what it is.
LEMMA HeardIs ==
  ASSUME NEW c \in Process, NEW msgs \in Seq(Message)
  PROVE  /\ Heard(c, msgs) \in Process /\ Heard(c, msgs).kind = c.kind /\ Heard(c, msgs).st = c.st
         /\ Heard(c, msgs).gen = c.gen /\ Heard(c, msgs).slot = c.slot
<1> DEFINE told(cmd) == \E i \in DOMAIN msgs : msgs[i].cmd = cmd
           about(s) == {i \in DOMAIN msgs : msgs[i].cmd \in {"open", "close"} /\ msgs[i].slot = s}
           seen(s) == IF about(s) = {} THEN c.view[s]
                      ELSE IF msgs[Max(about(s))].cmd = "open" THEN msgs[Max(about(s))].pid ELSE None
           view == [s \in Slots |-> seen(s)]
           quit == c.quit \/ told("quit")
           term == c.term \/ told("terminate")
<1>1. ASSUME NEW s \in Slots
      PROVE  seen(s) \in Pids \cup {None}
  <2>1. DOMAIN msgs = 1 .. Len(msgs) /\ Len(msgs) \in Nat
    OBVIOUS
  <2>2. CASE about(s) = {}
    BY <2>2 DEF Process
  <2>3. CASE about(s) # {}
    <3>1. about(s) \in SUBSET (1 .. Len(msgs))
      BY <2>1
    <3>2. Max(about(s)) \in about(s)
      BY <2>1, <2>3, <3>1, MaxIn
    <3>3. Max(about(s)) \in 1 .. Len(msgs)
      BY <3>1, <3>2
    <3>4. msgs[Max(about(s))] \in Message
      BY <3>3
    <3>5. msgs[Max(about(s))].pid \in Pids \cup {None}
      BY <3>4 DEF Message
    <3> HIDE DEF about
    <3> QED BY <2>3, <3>5
  <2> QED BY <2>2, <2>3
<1>2. Heard(c, msgs) = [c EXCEPT !.quit = quit, !.term = term, !.view = view]
  <2>1. Heard(c, msgs) = [c EXCEPT !.quit = @ \/ told("quit"), !.term = @ \/ told("terminate"),
          !.view = [s \in Slots |-> IF about(s) = {} THEN @[s]
                    ELSE IF msgs[Max(about(s))].cmd = "open" THEN msgs[Max(about(s))].pid ELSE None]]
    BY DEF Heard
  <2> HIDE DEF about, told
  <2> QED BY <2>1 DEF Process
<1>3. quit \in BOOLEAN /\ term \in BOOLEAN
  OBVIOUS
<1> HIDE DEF seen
<1>4. view \in [Slots -> Pids \cup {None}]
  BY <1>1
<1> HIDE DEF quit, term, view
<1> QED BY <1>2, <1>3, <1>4 DEF Process

\* ngx_channel_handler.
LEMMA ChildReadStep ==
  ASSUME Strong, NEW p \in Pids, ChildRead(p)
  PROVE  Strong' /\ (NoneLeft => NoneLeft')
<1> DEFINE c == Heard(child[p], inbox[p])
<1>1. Sound /\ Staged /\ child \in [Pids -> Process] /\ inbox \in [Pids -> Seq(Message)]
  BY MasterFields DEF Strong
<1>2. /\ m' = m /\ pc' = pc /\ files' = files /\ left' = left /\ inbox' = [inbox EXCEPT ![p] = <<>>] /\ Alive(p)
      /\ pending' \in {pending, pending \cup {"IO"}}
  BY DEF ChildRead, Alive
<1>3. child' = [child EXCEPT ![p] = c]
  BY DEF ChildRead
<1>4. c \in Process /\ c.kind = child[p].kind
  BY <1>1, HeardIs
<1> HIDE DEF c
<1>5. Sound' /\ (NoneLeft => NoneLeft')
  BY <1>2, <1>3, <1>4, ChildStep DEF Alive
<1>6. pending' \subseteq Signals
  BY <1>1, <1>2 DEF Staged, Signals
<1>7. Staged'
  BY <1>1, <1>2, <1>6, Untouched DEF Staged
<1> QED BY <1>5, <1>7 DEF Strong

\* The new binary takes the pid file and gives it up; the old one has its own.
LEMMA BinaryStep ==
  ASSUME Strong, NEW p \in Pids, BinaryUp(p) \/ BinaryDown(p)
  PROVE  Strong' /\ (NoneLeft => NoneLeft')
<1>1. Sound /\ Staged /\ child \in [Pids -> Process] /\ World.m = m /\ World.child = child /\ child[p] \in Process
  BY MasterFields DEF Strong
<1>2. m' = m /\ pc' = pc /\ left' = left /\ child[p].kind = "binary" /\ Alive(p)
  BY DEF BinaryUp, BinaryDown, Alive
<1>3. m.newBinary \in Pids
  BY <1>1, <1>2 DEF Sound, OneBinaryIn, BinariesOf, AliveIn, Alive
<1>4. files' \in {files, [files EXCEPT !.pid = p], [files EXCEPT !.pid = None]}
  BY DEF BinaryUp, BinaryDown
<1>5. Sound' /\ (NoneLeft => NoneLeft') /\ pending' \subseteq Signals
  <2>1. CASE BinaryUp(p)
    <3> DEFINE c == [child[p] EXCEPT !.st = "run"]
    <3>1. child' = [child EXCEPT ![p] = c] /\ inbox' = inbox /\ pending' = pending
      BY <1>1, <2>1 DEF BinaryUp
    <3>2. c \in Process /\ c.kind = child[p].kind
      BY <1>1 DEF Process, States
    <3> HIDE DEF c
    <3>3. Sound' /\ (NoneLeft => NoneLeft')
      BY <1>2, <3>1, <3>2, ChildStep DEF Alive
    <3> QED BY <1>1, <3>1, <3>3 DEF Staged
  <2>2. CASE BinaryDown(p)
    BY <1>2, <2>2, DieStep DEF BinaryDown, Alive
  <2> QED BY <2>1, <2>2
<1>6. files' \in [pid : Pids \cup {Self, None}, old : Pids \cup {Self, None}] /\ files'.old = files.old
  BY <1>1, <1>4 DEF Staged
<1>7. Staged'
  BY <1>1, <1>2, <1>3, <1>5, <1>6 DEF Staged, Named
<1> QED BY <1>5, <1>7 DEF Strong

-----------------------------------------------------------------------------
(* The theorems.                                                             *)

\* A master that has left is not live.
Done == pc = "exited" => ~m.live

\* The master starts with no child, ...
LEMMA BootIs ==
  ASSUME NEW g \in DOMAIN Confs
  PROVE  LET w == [m |-> Boot(g), child |-> [p \in Pids |-> Unborn], inbox |-> [p \in Pids |-> <<>>]] IN
         /\ Well(Boot(g), w) /\ w.m = Boot(g) /\ BinariesOf(w) = {}
<1> DEFINE k == Boot(g)
           t == [s \in Slots |-> Empty]
           c == [p \in Pids |-> Unborn]
           i == [p \in Pids |-> <<>>]
           w == [m |-> k, child |-> c, inbox |-> i]
<1>1. Empty \in Entry /\ Empty.pid = None /\ ~Empty.exited /\ Empty.kind = "worker" /\ ~Empty.detached
  BY DEF Empty, Entry, Kinds
<1>2. Unborn \in Process /\ Unborn.st = "none"
  BY UnbornIs
<1>3. t \in [Slots -> Entry] /\ c \in [Pids -> Process] /\ i \in [Pids -> Seq(Message)]
  <2>1. <<>> \in Seq(Message)
    OBVIOUS
  <2> QED BY <1>1, <1>2, <2>1
<1>4. \A s \in Slots : t[s] = Empty
  OBVIOUS
<1>5. \A p \in Pids : c[p].st = "none" /\ i[p] = <<>>
  BY <1>2
<1>6. Len(<<>>) = 0 /\ 0 <= ChanCap
  BY MasterAssumption
<1>7. /\ k \in Memory(k) /\ k.table = t /\ k.last = 0 /\ k.next = 1
  <2>1. 0 \in 0 .. MaxSlots /\ 1 \in 1 .. MaxPid + 1 /\ 0 \in 0 .. KillLevel + 1 /\ 0 \in 0 .. Workers + 2
    BY MasterAssumption
  <2> HIDE DEF t
  <2>2. k = [table |-> t, last |-> 0, next |-> 1, flags |-> {}, live |-> TRUE, newBinary |-> None,
             noaccepting |-> FALSE, gen |-> g, delay |-> 0, sigio |-> 0, socks |-> Socks(g),
             zones |-> Zones(g), mapped |-> {<<z, g>> : z \in DOMAIN Zones(g)}, lost |-> FALSE]
    BY DEF Boot, t
  <2> QED BY <1>3, <2>1, <2>2 DEF Memory
<1> HIDE DEF k, t, c, i
<1>8. w \in Worlds(k) /\ w.m = k /\ w.child = c /\ w.inbox = i
  BY <1>3, <1>7 DEF Worlds
<1> HIDE DEF w
<1>9. PastLast(w) /\ Bounded(w)
  BY <1>1, <1>4, <1>5, <1>6, <1>7, <1>8 DEF PastLast, Bounded
<1>10. \A s \in Slots : EntrySane(w, s)
  <2>1. ~Empty.respawn \/ ~Empty.detached
    BY <1>1
  <2>2. None < 1
    BY DEF None
  <2> QED BY <1>1, <1>4, <1>7, <1>8, <2>2 DEF EntrySane
<1>11. \A p \in Pids : ~AliveIn(w, p)
  BY <1>5, <1>8 DEF AliveIn
<1>12. BinariesOf(w) = {} /\ \A p \in Pids : Listed(w, p)
  BY <1>11 DEF BinariesOf, Listed
<1> QED BY <1>8, <1>9, <1>10, <1>12 DEF Well, Sane, k, c, i, w

\* ... and starts its workers before it sleeps.
LEMMA InitStrong ==
  ASSUME Init
  PROVE  Strong /\ NoneLeft /\ Done
<1>1. PICK sc \in Scenarios :
        /\ LET w == StartAll([m |-> Boot(Head(sc.confs)), child |-> [p \in Pids |-> Unborn],
                              inbox |-> [p \in Pids |-> <<>>]], "respawn", TRUE)
           IN m = w.m /\ child = w.child /\ inbox = w.inbox
        /\ left = [sc EXCEPT !.confs = Tail(@)]
        /\ pc = "wait" /\ pending = {} /\ files = [pid |-> Self, old |-> None]
  BY DEF Init
<1> DEFINE g == Head(sc.confs)
           k == Boot(g)
           w == [m |-> k, child |-> [p \in Pids |-> Unborn], inbox |-> [p \in Pids |-> <<>>]]
           a == StartAll(w, "respawn", TRUE)
<1>2. /\ sc \in ScenarioType /\ sc.confs \in Seq(DOMAIN Confs) /\ sc.confs # <<>> /\ IsInjective(sc.confs)
  BY ScenarioAssumption DEF ScenarioType
<1>3. /\ Tail(sc.confs) \in Seq(DOMAIN Confs) /\ IsInjective(Tail(sc.confs))
      /\ g \in DOMAIN Confs /\ Range(Tail(sc.confs)) = Range(sc.confs) \ {g}
  BY <1>2, TakeFirst
<1>4. left.confs = Tail(sc.confs) /\ left \in ScenarioType /\ left.aborted = {}
  <2>1. sc.aborted = {}
    BY ScenarioAssumption
  <2> QED BY <1>1, <1>2, <1>3, <2>1 DEF ScenarioType
<1>5. m = a.m /\ child = a.child /\ inbox = a.inbox
  BY <1>1
<1> HIDE DEF g
<1>6. Well(k, w) /\ w.m = k /\ BinariesOf(w) = {}
  BY <1>3, BootIs
<1>7. /\ k.gen = g /\ k.zones = Zones(g) /\ k.mapped = {<<z, g>> : z \in DOMAIN Zones(g)}
      /\ k.flags = {} /\ k.live = TRUE /\ k.newBinary = None
  BY DEF Boot
<1> HIDE DEF k, w
<1>8. Well(k, a) /\ Calm(w, a)
  BY <1>3, <1>6, <1>7, StartAllWell
<1> HIDE DEF a
<1>9. World = a /\ Well(m, World)
  <2>1. a \in Worlds(k)
    BY <1>8 DEF Well
  <2>2. World = a
    BY <1>5, <2>1 DEF World, Worlds
  <2> QED BY <1>5, <1>8, <2>2, OwnCycle
<1>10. m.gen = g /\ m.zones = Zones(g) /\ m.mapped = {<<z, g>> : z \in DOMAIN Zones(g)}
  BY <1>5, <1>7, <1>8, WorldFields DEF Well
<1>11. m.flags = {} /\ m.live = TRUE /\ m.newBinary = None /\ BinariesOf(World) = {}
  BY <1>5, <1>6, <1>7, <1>8, <1>9 DEF Calm, Steady
<1>12. Agreed
  <2>1. g \notin Range(left.confs)
    BY <1>3, <1>4
  <2>2. DOMAIN m.zones = DOMAIN Confs[g].zones /\ \A z \in DOMAIN m.zones : m.zones[z] = g
    BY <1>10 DEF Zones
  <2>3. {y \in m.mapped : y[2] \notin {}} = {<<z, m.zones[z]>> : z \in DOMAIN m.zones}
    BY <1>10, <2>2
  <2> QED BY <1>3, <1>4, <1>10, <2>1, <2>2, <2>3 DEF Agreed, ZonesFit
<1>13. Sound
  BY <1>9, <1>11, <1>12 DEF Sound, OneBinaryIn
<1>14. None \notin Pids
  BY DEF None, Pids
<1>15. Staged
  BY <1>1, <1>3, <1>4, <1>11, <1>14 DEF Staged, Stages, Named
<1>16. NoneLeft /\ Done
  BY <1>1, <1>11 DEF NoneLeft, Done
<1> QED BY <1>13, <1>15, <1>16 DEF Strong

\* A step that changes nothing.
LEMMA StutterStep ==
  ASSUME Strong, UNCHANGED vars
  PROVE  Strong' /\ (NoneLeft => NoneLeft')
<1>1. /\ Sound /\ Staged /\ m' = m /\ child' = child /\ inbox' = inbox /\ pc' = pc /\ pending' = pending
      /\ files' = files /\ left' = left
  BY DEF Strong, vars
<1>2. Become(With(World, m))
  BY <1>1 DEF Become, With, World
<1>3. After /\ (NoneLeft => NoneLeft')
  BY <1>1, <1>2, Memories, MemoryStep
<1>4. Staged'
  BY <1>1, Untouched DEF Staged
<1> QED BY <1>3, <1>4 DEF Strong, After

\* Every step keeps the master sound, and one that starts workers makes it live
\* or is remembered until they are counted.
LEMMA NextStep ==
  ASSUME Strong, [Next]_vars
  PROVE  Strong' /\ (NoneLeft => NoneLeft')
<1>1. CASE UNCHANGED vars
  BY <1>1, StutterStep
<1>2. CASE MasterWork
  <2>1. CASE Wake
    BY <2>1, WakeStep
  <2>2. CASE Reap
    BY <2>2, ReapStep
  <2>3. CASE MasterExit
    BY <2>3, MasterExitStep
  <2>4. CASE Terminate
    BY <2>4, TerminateStep
  <2>5. CASE Quit
    BY <2>5, QuitStep
  <2>6. CASE Proceed
    BY <2>6, ProceedStep
  <2>7. CASE Recall
    BY <2>7, RecallStep
  <2>8. CASE Reconfigure
    BY <2>8, ReconfigureStep
  <2>9. CASE KeepCycle \/ AbortCycle
    BY <2>9, KeepCycleStep, AbortCycleStep
  <2>10. CASE Retire
    BY <2>10, RetireStep
  <2>11. CASE Restart
    BY <2>11, RestartStep
  <2>12. CASE Reopen
    BY <2>12, ReopenStep
  <2>13. CASE ChangeBinary
    BY <2>13, ChangeBinaryStep
  <2>14. CASE NoAccept
    BY <2>14, NoAcceptStep
  <2> QED BY <1>2, <2>1, <2>2, <2>3, <2>4, <2>5, <2>6, <2>7, <2>8, <2>9, <2>10, <2>11, <2>12, <2>13, <2>14
      DEF MasterWork
<1>3. CASE Alarm
  BY <1>3, AlarmStep
<1>4. ASSUME NEW s \in FromOperator, Order(s)
      PROVE  Strong' /\ (NoneLeft => NoneLeft')
  BY <1>4, OrderStep
<1>5. ASSUME NEW p \in Pids,
             ChildWork(p) \/ ChildRefuse(p) \/ LoaderDone(p) \/ Crash(p) \/ BinaryUp(p) \/ BinaryDown(p)
      PROVE  Strong' /\ (NoneLeft => NoneLeft')
  <2>1. CASE ChildLeave(p) \/ WorkerDrained(p) \/ LoaderDone(p) \/ Crash(p) \/ ChildRefuse(p)
    BY <2>1, LeaveStep
  <2>2. CASE ChildInit(p) \/ WorkerClose(p)
    BY <2>2, ChildInitStep
  <2>3. CASE ChildRead(p)
    BY <2>3, ChildReadStep
  <2>4. CASE BinaryUp(p) \/ BinaryDown(p)
    BY <2>4, BinaryStep
  <2> QED BY <1>5, <2>1, <2>2, <2>3, <2>4 DEF ChildWork
<1> QED BY <1>1, <1>2, <1>3, <1>4, <1>5 DEF Next

\* The master leaves by ngx_master_process_exit only, and does nothing after it.
LEMMA DoneStep ==
  ASSUME Strong, Done, [Next]_vars
  PROVE  Done'
<1>1. CASE UNCHANGED vars
  BY <1>1 DEF vars, Done
<1>2. CASE MasterExit
  <2>1. m \in Memory(m)
    BY MasterFields DEF Strong
  <2>2. ~m.live /\ m'.live = m.live
    BY <1>2, <2>1 DEF MasterExit, Memory
  <2> QED BY <2>2 DEF Done
<1>3. CASE MasterWork /\ ~MasterExit
  <2>1. CASE Proceed \/ Retire \/ Restart \/ Reopen \/ ChangeBinary
    <3>1. \E k \in Nat \ {0} : GoOn(k)
      BY <2>1 DEF Proceed, Retire, Restart, Reopen, ChangeBinary
    <3>2. pc' # "exited"
      BY <3>1, GoOnIs
    <3> QED BY <3>2 DEF Done
  <2>2. CASE ~(Proceed \/ Retire \/ Restart \/ Reopen \/ ChangeBinary)
    <3>1. pc' \in {"reap", "decide", "wait", "retire"}
      BY <1>3, <2>2 DEF MasterWork, Wake, Reap, Terminate, Quit, Recall, Reconfigure, AbortCycle,
             KeepCycle, NoAccept
    <3> QED BY <3>1 DEF Done
  <2> QED BY <2>1, <2>2
<1>4. CASE Alarm \/ (\E s \in FromOperator : Order(s))
  BY <1>4 DEF Alarm, Order, Done
<1>5. CASE \E p \in Pids : ChildWork(p) \/ ChildRefuse(p) \/ LoaderDone(p) \/ Crash(p)
                           \/ BinaryUp(p) \/ BinaryDown(p)
  BY <1>5 DEF ChildWork, ChildInit, ChildRead, ChildLeave, WorkerClose, WorkerDrained, ChildRefuse, LoaderDone,
              Crash, BinaryUp, BinaryDown, Done
<1> QED BY <1>1, <1>2, <1>3, <1>4, <1>5 DEF Next

\* What the invariant says of the master.
LEMMA StrongGives ==
  ASSUME Strong
  PROVE  Inv /\ ZonesFit /\ (NoneLeft /\ Done => NoOrphans)
<1>1. Sound /\ Staged
  BY DEF Strong
<1>2. TypeOK
  <2>1. World.m = m /\ World.child = child /\ World.inbox = inbox /\ Sane(World)
    BY <1>1, MasterFields DEF Sound, Well
  <2>2. (\A p \in Pids : Len(inbox[p]) <= ChanCap) /\ (\A s \in Slots : s > m.last => m.table[s].pid = None)
    BY <2>1 DEF Sane, Bounded, PastLast
  <2>3. m.last \in 0 .. MaxSlots /\ m.next \in 1 .. MaxPid + 1
    BY <1>1, MasterFields DEF Memory
  <2> QED BY <1>1, <2>2, <2>3, MasterFields DEF Staged, TypeOK
<1>3. PidFileNamesTheMaster
  BY <1>1 DEF Staged, Named, PidFileNamesTheMaster
<1>4. ZonesFit
  BY <1>1 DEF Sound, Agreed
<1> QED BY <1>2, <1>3, <1>4 DEF Inv, NoneLeft, Done, NoOrphans

\* For any configurations, orders and deaths of children: the master's table and
\* its channels stay in bounds, its pid is in the pid file, or in the old one
\* while a new binary runs (ngx_exec_new_binary, ngx_reap_children), and the zones
\* that are mapped are those of ZonesStay.
THEOREM MasterIsSafe == Spec => []Inv
<1>1. Init => Strong
  BY InitStrong
<1>2. Strong /\ [Next]_vars => Strong'
  BY NextStep
<1>3. Strong => Inv
  BY StrongGives
<1> QED BY <1>1, <1>2, <1>3, PTL DEF Spec

\* For any sequence of configurations, those whose ngx_init_cycle fails when it has made some
\* of their zones included: the shared zones of the configuration in force are mapped, and
\* no other zone but those the failed ones left.  The two loops of ngx_init_cycle, that
\* take zones over and that free them, ask different questions.
THEOREM ZonesStay == Spec => []ZonesFit
<1>1. Init => Strong
  BY InitStrong
<1>2. Strong /\ [Next]_vars => Strong'
  BY NextStep
<1>3. Strong => ZonesFit
  BY StrongGives
<1> QED BY <1>1, <1>2, <1>3, PTL DEF Spec

\* For any configurations, orders and deaths of children: when the master leaves, the
\* workers and the helpers it started are dead, but for those it called back when it had
\* no child but a new binary and has not counted since (the variable live of
\* ngx_master_process_cycle).
THEOREM LeavesNoOrphans == Spec => []NoOrphans
<1>1. Init => Strong /\ NoneLeft /\ Done
  BY InitStrong
<1>2. Strong /\ NoneLeft /\ Done /\ [Next]_vars => (Strong /\ NoneLeft /\ Done)'
  BY NextStep, DoneStep
<1>3. Strong /\ NoneLeft /\ Done => NoOrphans
  BY StrongGives
<1> QED BY <1>1, <1>2, <1>3, PTL DEF Spec

-----------------------------------------------------------------------------
(* A master keeps a worker.                                                  *)

\* The slots of workers of the current configuration that are not asked to leave,
\* the dead ones that will be replaced included.
IsServer(w, s) ==
  LET e == w.m.table[s] IN
  /\ s <= w.m.last /\ e.pid # None /\ e.kind = "worker" /\ ~e.exiting /\ e.respawn
  /\ w.child[e.pid].gen \in {0, w.m.gen}
Servers(w) == {s \in Slots : IsServer(w, s)}
JustServers(w) == {s \in Servers(w) : w.m.table[s].just}
\* No child is found to have refused to start.
NoMoreFatal(w, a) == \A p \in Pids : a.child[p].st = "fatal" => w.child[p].st = "fatal"
\* The master is to go on serving, with workers of its own.
CalledIn(w) ==
  w.m.flags \cap {"terminate", "quit"} = {} /\ ~w.m.noaccepting /\ "restart" \notin w.m.flags
Keeps(w, a) ==
  /\ Servers(w) \subseteq Servers(a) /\ JustServers(w) \subseteq JustServers(a) /\ NoMoreFatal(w, a)
  /\ a.m.flags = w.m.flags /\ a.m.noaccepting = w.m.noaccepting

\* What is kept twice is kept.
LEMMA KeepsOn ==
  ASSUME NEW w, NEW a, NEW b, Keeps(w, a), Keeps(a, b)
  PROVE  Keeps(w, b)
BY DEF Keeps, NoMoreFatal

SameServer(d, e) ==
  e.pid = d.pid /\ e.kind = d.kind /\ e.exiting = d.exiting /\ e.respawn = d.respawn /\ e.just = d.just

\* A world whose table differs in its channels has the same servers.
LEMMA SameServersKeep ==
  ASSUME NEW w, NEW a, a.child = w.child, a.m.last = w.m.last, a.m.gen = w.m.gen,
         a.m.flags = w.m.flags, a.m.noaccepting = w.m.noaccepting,
         \A s \in Slots : SameServer(w.m.table[s], a.m.table[s])
  PROVE  Keeps(w, a)
<1>1. \A s \in Slots : IsServer(w, s) => IsServer(a, s)
  BY DEF IsServer, SameServer
<1>2. \A s \in Slots : w.m.table[s].just => a.m.table[s].just
  BY DEF SameServer
<1> QED BY <1>1, <1>2 DEF Keeps, Servers, JustServers, NoMoreFatal

\* What is written to a channel, ...
LEMMA WriteAllKeeps ==
  ASSUME NEW k, NEW w \in Worlds(k), NEW to, NEW msg
  PROVE  Keeps(w, WriteAll(w, to, msg))
<1> DEFINE a == WriteAll(w, to, msg)
<1>1. w.m \in Memory(k)
  BY WorldFields
<1>2. /\ a.child = w.child /\ a.m.last = w.m.last /\ a.m.gen = w.m.gen /\ a.m.table = w.m.table
      /\ a.m.flags = w.m.flags /\ a.m.noaccepting = w.m.noaccepting
  BY <1>1 DEF WriteAll, Memory
<1> HIDE DEF a
<1>3. \A s \in Slots : SameServer(w.m.table[s], a.m.table[s])
  BY <1>2 DEF SameServer
<1> QED BY <1>2, <1>3, SameServersKeep DEF a

\* ... and one that is closed, changes no server.
LEMMA ChannelKeeps ==
  ASSUME NEW k, NEW w \in Worlds(k), NEW s \in Slots, NEW x
  PROVE  Keeps(w, With(w, [w.m EXCEPT !.table[s].chan = x]))
<1> DEFINE t == [w.m.table EXCEPT ![s] = [w.m.table[s] EXCEPT !.chan = x]]
           a == With(w, [w.m EXCEPT !.table[s].chan = x])
<1>1. w.m \in Memory(k) /\ w.m.table \in [Slots -> Entry]
  BY WorldFields
<1>2. \A r \in Slots : SameServer(w.m.table[r], t[r])
  BY <1>1 DEF Entry, SameServer
<1>3. a.m = [w.m EXCEPT !.table = t] /\ a.child = w.child
  BY DEF With
<1> HIDE DEF t, a
<1>4. /\ a.m.table = t /\ a.m.last = w.m.last /\ a.m.gen = w.m.gen
      /\ a.m.flags = w.m.flags /\ a.m.noaccepting = w.m.noaccepting
  BY <1>1, <1>3 DEF Memory
<1> QED BY <1>2, <1>3, <1>4, SameServersKeep DEF a

\* A memory with the same table, too.
LEMMA MemoryKeeps ==
  ASSUME NEW w, NEW x, x.table = w.m.table, x.last = w.m.last, x.gen = w.m.gen,
         x.flags = w.m.flags, x.noaccepting = w.m.noaccepting
  PROVE  Keeps(w, With(w, x))
<1> DEFINE a == With(w, x)
<1>1. a.m = x /\ a.child = w.child
  BY DEF With
<1> HIDE DEF a
<1>2. \A s \in Slots : SameServer(w.m.table[s], a.m.table[s])
  BY <1>1 DEF SameServer
<1> QED BY <1>1, <1>2, SameServersKeep DEF a

\* A process that is started takes no server's place, or that of a dead one it replaces.
LEMMA SpawnAtKeeps ==
  ASSUME NEW k, k.gen \in DOMAIN Confs, NEW w, Well(k, w), NEW s, NEW kind, NEW mode, NEW ok,
         Placed(w, s, kind, mode), mode = "again" \/ (s \in Slots => w.m.table[s].pid = None)
  PROVE  LET a == SpawnAt(w, s, kind, mode, ok) IN
         /\ Keeps(w, a)
         /\ ok /\ s \in Slots /\ w.m.next \in Pids =>
              /\ Spawned(w, a)
              /\ mode \in {"respawn", "justrespawn"} /\ kind = "worker" => s \in Servers(a)
              /\ mode = "justrespawn" /\ kind = "worker" => s \in JustServers(a)
<1> DEFINE a == SpawnAt(w, s, kind, mode, ok)
           e == Entered(w, s, kind, mode)
           c == Born(w, s, kind)
           q == w.m.next
           f == ForkedWorld(w, s, kind, mode)
<1>1. /\ w \in Worlds(k) /\ Sane(w) /\ w.m \in Memory(k) /\ w.child \in [Pids -> Process]
      /\ w.m.table \in [Slots -> Entry] /\ w.m.last \in Nat /\ q \in Nat \ {0} /\ w.m.gen = k.gen
  BY WorldFields DEF Well
<1>2. CASE s > MaxSlots \/ q > MaxPid
  <2>1. a = w
    BY <1>2, SpawnAtIs
  <2>2. Keeps(w, w)
    BY DEF Keeps, NoMoreFatal
  <2>3. ~(s \in Slots /\ q \in Pids)
    BY <1>2, MasterAssumption DEF Slots, Pids
  <2> QED BY <2>1, <2>2, <2>3
<1>3. CASE ~(s > MaxSlots \/ q > MaxPid)
  <2>1. s \in Slots /\ q \in Pids /\ s \in Nat
    BY <1>1, <1>3, MasterAssumption DEF Placed, Slots, Pids
  <2>2. CASE ~ok
    <3>1. a = With(w, [w.m EXCEPT !.table[s].chan = IF mode = "detached" THEN "none" ELSE "stale"])
      BY <1>3, <2>2, SpawnAtIs
    <3>2. Keeps(w, a)
      BY <1>1, <2>1, <3>1, ChannelKeeps
    <3> QED BY <2>2, <3>2
  <2>3. CASE ok
    <3>1. a = f
      BY <1>3, <2>3, SpawnAtIs
    <3>2. EntrySane(w, s)
      BY <1>1, <2>1 DEF Sane
    <3>3. /\ f \in Worlds(k) /\ f.m.next = q + 1 /\ f.m.table = [w.m.table EXCEPT ![s] = e]
          /\ f.m.last = (IF s > w.m.last THEN s ELSE w.m.last) /\ f.child = [w.child EXCEPT ![q] = c]
      BY <1>1, <2>1, <3>2, ForkedTyped DEF Grown
    <3>4. f.m.gen = w.m.gen /\ f.m.flags = w.m.flags /\ f.m.noaccepting = w.m.noaccepting
      <4>1. f.m = [w.m EXCEPT !.table[s] = e, !.last = IF s > @ THEN s ELSE @, !.next = q + 1]
        BY DEF ForkedWorld
      <4> HIDE DEF f, e
      <4> QED BY <1>1, <4>1 DEF Memory
    <3>5. /\ e.pid = q /\ (mode = "again" => e = [w.m.table[s] EXCEPT !.pid = q, !.exited = FALSE, !.chan = "open"])
          /\ mode # "again" => /\ e.kind = kind /\ e.exiting = FALSE /\ e.respawn = Respawned(mode)
                               /\ e.just = JustSpawned(mode)
      BY <1>1, <2>1 DEF Entered, Entry
    <3>6. c.gen = w.m.gen /\ c.st = "init"
      BY DEF Born, Unborn
    <3> HIDE DEF a, e, c, f
    <3>7. ASSUME NEW r \in Slots, IsServer(w, r)
          PROVE  IsServer(f, r) /\ (w.m.table[r].just => f.m.table[r].just)
      <4>1. CASE r = s
        <5>1. mode = "again"
          BY <2>1, <3>7, <4>1 DEF IsServer
        <5>2. /\ e.kind = w.m.table[s].kind /\ e.exiting = w.m.table[s].exiting /\ e.respawn = w.m.table[s].respawn
              /\ e.just = w.m.table[s].just
          BY <1>1, <2>1, <3>5, <5>1 DEF Entry
        <5>3. f.m.table[r] = e /\ f.child[e.pid] = c /\ r <= f.m.last
          BY <1>1, <2>1, <3>3, <3>5, <4>1
        <5> QED BY <2>1, <3>4, <3>5, <3>6, <3>7, <4>1, <5>2, <5>3 DEF IsServer, Pids, None
      <4>2. CASE r # s
        <5>1. f.m.table[r] = w.m.table[r] /\ r <= f.m.last
          BY <1>1, <2>1, <3>3, <3>7, <4>2 DEF IsServer, Slots
        <5>2. w.m.table[r].pid \in Pids /\ w.m.table[r].pid # q
          <6>1. w.m.table[r].pid < q
            BY <1>1 DEF Sane, EntrySane
          <6> QED BY <1>1, <3>7, <6>1 DEF IsServer, Entry, Pids
        <5>3. f.child[w.m.table[r].pid] = w.child[w.m.table[r].pid]
          BY <1>1, <3>3, <5>2
        <5> QED BY <3>4, <3>7, <5>1, <5>3 DEF IsServer
      <4> QED BY <4>1, <4>2
    <3>8. NoMoreFatal(w, f)
      BY <1>1, <3>3, <3>6 DEF NoMoreFatal
    <3>9. Keeps(w, f)
      BY <3>4, <3>7, <3>8 DEF Keeps, Servers, JustServers
    <3>10. Spawned(w, f)
      BY <1>1, <3>3 DEF Spawned
    <3>11. ASSUME mode \in {"respawn", "justrespawn"}, kind = "worker"
           PROVE  s \in Servers(f) /\ (mode = "justrespawn" => s \in JustServers(f))
      <4>1. f.m.table[s] = e /\ f.child[q] = c /\ s <= f.m.last
        BY <1>1, <2>1, <3>3
      <4>2. e.kind = "worker" /\ e.exiting = FALSE /\ e.respawn = TRUE /\ (mode = "justrespawn" => e.just = TRUE)
        BY <3>5, <3>11 DEF Respawned, JustSpawned
      <4>3. IsServer(f, s)
        BY <2>1, <3>4, <3>5, <3>6, <4>1, <4>2 DEF IsServer, Pids, None
      <4> QED BY <2>1, <4>1, <4>2, <4>3 DEF Servers, JustServers
    <3> QED BY <3>1, <3>9, <3>10, <3>11 DEF a
  <2> QED BY <2>2, <2>3
<1> QED BY <1>2, <1>3

\* There is a slot and a pid for another process.
Room(w) == w.m.next \in Pids /\ FreeSlot(w) \in Slots

\* A process that is started takes no server's place; a worker is a server.
LEMMA SpawnKeeps ==
  ASSUME NEW k, k.gen \in DOMAIN Confs, NEW w, Well(k, w), NEW kind \in Kinds \ {"binary"},
         NEW mode \in Modality \ {"detached", "again"}, NEW ok
  PROVE  LET a == Spawn(w, kind, mode, ok) IN
         /\ Well(k, a) /\ Keeps(w, a)
         /\ ok /\ Room(w) /\ kind = "worker" =>
              /\ mode \in {"respawn", "justrespawn"} => Servers(a) # {}
              /\ mode = "justrespawn" => JustServers(a) # {}
<1> DEFINE s == FreeSlot(w)
           a == SpawnAt(w, s, kind, mode, ok)
           b == PassOpenChannel(a, s)
           to == {t \in Known(a) \ {s} : a.m.table[t].chan # "none"}
           msg == Msg("open", s, a.m.table[s].pid)
<1>1. /\ s \in 1 .. w.m.last + 1
      /\ s \in Slots => w.m.table[s].pid = None
  BY FreeSlotIs DEF Well, Sane
<1>2. w.m.last \in Nat
  BY WorldFields DEF Well
<1>3. Placed(w, s, kind, mode)
  BY <1>1, <1>2 DEF Placed
<1>4. Room(w) => s \in Slots /\ w.m.next \in Pids
  BY DEF Room
<1>5. Spawn(w, kind, mode, ok) = (IF Spawned(w, a) THEN b ELSE a) /\ Well(k, Spawn(w, kind, mode, ok))
  BY SpawnWell DEF Spawn
<1> HIDE DEF s
<1>6. /\ Keeps(w, a)
      /\ ok /\ s \in Slots /\ w.m.next \in Pids =>
           /\ Spawned(w, a)
           /\ mode \in {"respawn", "justrespawn"} /\ kind = "worker" => s \in Servers(a)
           /\ mode = "justrespawn" /\ kind = "worker" => s \in JustServers(a)
  BY <1>1, <1>3, SpawnAtKeeps
<1>7. Well(k, a)
  BY <1>3, SpawnAtWell
<1>8. b = WriteAll(a, to, msg)
  BY DEF PassOpenChannel
<1> HIDE DEF a, b, to, msg
<1>9. Keeps(a, b)
  BY <1>7, <1>8, WriteAllKeeps DEF Well
<1>10. Keeps(w, b)
  BY <1>6, <1>9, KeepsOn
<1>11. CASE Spawned(w, a)
  BY <1>4, <1>5, <1>6, <1>9, <1>10, <1>11 DEF Keeps
<1>12. CASE ~Spawned(w, a)
  BY <1>4, <1>5, <1>6, <1>12
<1> QED BY <1>11, <1>12

\* ngx_start_worker_processes, with room for one: there is a server.
LEMMA StartWorkersKeep ==
  ASSUME NEW k, k.gen \in DOMAIN Confs, NEW w, Well(k, w), NEW mode \in {"respawn", "justrespawn"}, NEW ok
  PROVE  LET a == StartWorkerProcesses(w, mode, ok) IN
         /\ Well(k, a) /\ Keeps(w, a)
         /\ ok /\ Room(w) => Servers(a) # {} /\ (mode = "justrespawn" => JustServers(a) # {})
<1>0. Workers \in Nat /\ 1 \in 0 .. Workers /\ mode \in Modality \ {"detached", "again"}
      /\ "worker" \in Kinds \ {"binary"}
  BY MasterAssumption DEF Modality, Kinds
<1>1. PICK f : f = (CHOOSE g : Starts(g, w, mode, ok, Workers)) /\ Starts(f, w, mode, ok, Workers)
  BY <1>0, StartsExist
<1>2. \A i \in 0 .. Workers : f[i] = IF i = 0 THEN w ELSE Spawn(f[i - 1], "worker", mode, ok)
  BY <1>1 DEF Starts
<1>3. f[0] = w /\ f[1] = Spawn(w, "worker", mode, ok)
  <2>1. 0 \in 0 .. Workers
    BY <1>0
  <2>2. f[0] = w
    BY <1>2, <2>1
  <2> QED BY <1>0, <1>2, <2>2
<1>4. /\ Well(k, f[1]) /\ Keeps(w, f[1])
      /\ ok /\ Room(w) => Servers(f[1]) # {} /\ (mode = "justrespawn" => JustServers(f[1]) # {})
  BY <1>0, <1>3, SpawnKeeps
<1> DEFINE T == {i \in 1 .. Workers : ~(Well(k, f[i]) /\ Keeps(f[1], f[i]))}
<1>5. T = {}
  <2> SUFFICES ASSUME T # {} PROVE FALSE
    OBVIOUS
  <2>0. T \in SUBSET Nat
    OBVIOUS
  <2>1. PICK j \in T : \A y \in T : j <= y
    BY <2>0, LeastNumber
  <2>2. CASE j = 1
    <3>1. Keeps(f[1], f[1])
      BY DEF Keeps, NoMoreFatal
    <3> QED BY <1>4, <2>1, <2>2, <3>1
  <2>3. CASE j # 1
    <3>1. j \in 0 .. Workers /\ j # 0 /\ j - 1 \in 1 .. Workers /\ j - 1 \notin T
      BY <1>0, <2>1, <2>3
    <3>2. Well(k, f[j - 1]) /\ Keeps(f[1], f[j - 1])
      BY <3>1
    <3>3. f[j] = Spawn(f[j - 1], "worker", mode, ok)
      BY <1>2, <3>1
    <3>4. Well(k, f[j]) /\ Keeps(f[j - 1], f[j])
      BY <1>0, <3>2, <3>3, SpawnKeeps
    <3>5. Keeps(f[1], f[j])
      BY <3>2, <3>4, KeepsOn
    <3> QED BY <2>1, <3>4, <3>5
  <2> QED BY <2>2, <2>3
<1>6. Well(k, f[Workers]) /\ Keeps(f[1], f[Workers])
  BY <1>0, <1>5
<1>7. Keeps(w, f[Workers])
  BY <1>4, <1>6, KeepsOn
<1>8. StartWorkerProcesses(w, mode, ok) = f[Workers]
  BY <1>1, StartsIs
<1> QED BY <1>4, <1>6, <1>7, <1>8 DEF Keeps

\* The helpers take no server's place.
LEMMA StartCacheKeeps ==
  ASSUME NEW k, k.gen \in DOMAIN Confs, NEW w, Well(k, w), NEW again \in BOOLEAN, NEW ok
  PROVE  Keeps(w, StartCacheManagerProcesses(w, again, ok))
<1> DEFINE x == IF again THEN "justrespawn" ELSE "respawn"
           y == IF again THEN "justspawn" ELSE "norespawn"
           a == Spawn(w, "manager", x, ok)
           b == Spawn(a, "loader", y, ok)
<1>1. x \in Modality \ {"detached", "again"} /\ y \in Modality \ {"detached", "again"}
  BY DEF Modality
<1>2. "manager" \in Kinds \ {"binary"} /\ "loader" \in Kinds \ {"binary"}
  BY DEF Kinds, Helpers
<1>3. StartCacheManagerProcesses(w, again, ok) \in {w, a, b}
  BY DEF StartCacheManagerProcesses
<1> HIDE DEF x, y
<1>4. Well(k, a) /\ Keeps(w, a)
  BY <1>1, <1>2, SpawnKeeps
<1> HIDE DEF a
<1>5. Keeps(a, b)
  BY <1>1, <1>2, <1>4, SpawnKeeps
<1>6. Keeps(w, b)
  BY <1>4, <1>5, KeepsOn
<1>7. Keeps(w, w)
  BY DEF Keeps, NoMoreFatal
<1> QED BY <1>3, <1>4, <1>6, <1>7

\* A cycle that is started has a server.
LEMMA StartAllKeeps ==
  ASSUME NEW k, k.gen \in DOMAIN Confs, NEW w, Well(k, w), NEW mode \in {"respawn", "justrespawn"}, NEW ok
  PROVE  LET a == StartAll(w, mode, ok) IN
         /\ Keeps(w, a)
         /\ ok /\ Room(w) => Servers(a) # {} /\ (mode = "justrespawn" => JustServers(a) # {})
<1> DEFINE b == StartWorkerProcesses(w, mode, ok)
           a == StartAll(w, mode, ok)
           again == mode = "justrespawn"
<1>1. /\ Well(k, b) /\ Keeps(w, b)
      /\ ok /\ Room(w) => Servers(b) # {} /\ (mode = "justrespawn" => JustServers(b) # {})
  BY StartWorkersKeep
<1>2. a = StartCacheManagerProcesses(b, again, ok) /\ again \in BOOLEAN
  BY DEF StartAll
<1> HIDE DEF a, b, again
<1>3. Keeps(b, a)
  BY <1>1, <1>2, StartCacheKeeps
<1>4. Keeps(w, a)
  BY <1>1, <1>3, KeepsOn
<1> QED BY <1>1, <1>3, <1>4 DEF Keeps, a

\* A signal makes no worker refuse; it spares who has just been started, and
\* reopen() asks nobody to leave.
LEMMA SignalKeeps ==
  ASSUME NEW k, NEW w, Well(k, w), NEW sig \in Orders
  PROVE  LET a == SignalWorkers(w, sig) IN
         /\ NoMoreFatal(w, a) /\ JustServers(w) \subseteq Servers(a)
         /\ sig = "reopen" => Servers(w) \subseteq Servers(a)
         /\ a.m.noaccepting = w.m.noaccepting
<1> DEFINE a == SignalWorkers(w, sig)
           table == [s \in Slots |-> Signalled(w, s, sig)]
           flags == w.m.flags \cup (IF Missed(w, sig) = {} THEN {} ELSE {"reap"})
           hit(p) == AliveIn(w, p) /\ \E s \in Killed(w, sig) : w.m.table[s].pid = p
           c == [p \in Pids |-> IF hit(p) THEN Deliver(w.child[p], sig) ELSE w.child[p]]
<1>1. /\ w \in Worlds(k) /\ Sane(w) /\ w.m \in Memory(k) /\ w.child \in [Pids -> Process]
      /\ w.m.table \in [Slots -> Entry]
  BY WorldFields DEF Well
<1>2. a.child = c /\ a.m = [w.m EXCEPT !.table = table, !.flags = flags]
  BY DEF SignalWorkers
<1>3. ASSUME NEW p \in Pids
      PROVE  c[p].gen = w.child[p].gen /\ (c[p].st = "fatal" => w.child[p].st = "fatal")
  <2>1. w.child[p] \in Process /\ c[p] = IF hit(p) THEN Deliver(w.child[p], sig) ELSE w.child[p]
    BY <1>1
  <2>2. Deliver(w.child[p], sig).gen = w.child[p].gen /\ Deliver(w.child[p], sig).st \in {w.child[p].st, "zombie"}
    BY <2>1 DEF Deliver, Process, Orders
  <2> QED BY <2>1, <2>2
<1>4. \A s \in Slots : table[s] = Signalled(w, s, sig)
  OBVIOUS
<1> HIDE DEF a, c, table, flags, hit
<1>5. a.m.table = table /\ a.m.last = w.m.last /\ a.m.gen = w.m.gen /\ a.m.noaccepting = w.m.noaccepting
  BY <1>1, <1>2 DEF Memory
<1>6. ASSUME NEW s \in Slots, IsServer(w, s), w.m.table[s].just \/ sig = "reopen"
      PROVE  IsServer(a, s)
  <2> DEFINE d == w.m.table[s]
             e == Signalled(w, s, sig)
  <2>1. d \in Entry /\ d.pid \in Pids /\ d.kind = "worker" /\ ~d.exiting /\ d.respawn /\ s <= w.m.last
        /\ w.child[d.pid].gen \in {0, w.m.gen}
    BY <1>1, <1>6 DEF IsServer, Entry
  <2>2. ~d.detached
    BY <1>1, <2>1 DEF Sane, EntrySane
  <2>3. s \in Known(w)
    <3>1. s \in Nat \ {0} /\ w.m.last \in Nat
      BY <1>1, WorldFields DEF Slots
    <3> QED BY <2>1, <3>1 DEF Known, Pids, None
  <2>4. e.pid = d.pid /\ e.kind = d.kind /\ e.respawn = d.respawn
    BY <1>1, SignalledIs
  <2>5. e.exiting = FALSE
    <3>1. CASE d.just
      <4>1. s \in Spared(w)
        BY <2>2, <2>3, <3>1 DEF Spared
      <4> QED BY <2>1, <4>1 DEF Signalled, Entry
    <3>2. CASE ~d.just /\ sig = "reopen"
      BY <2>1, <3>2 DEF Signalled, Entry, Spared
    <3> QED BY <1>6, <3>1, <3>2
  <2>6. a.m.table[s] = e
    BY <1>4, <1>5
  <2> HIDE DEF e
  <2>7. a.child[d.pid].gen = w.child[d.pid].gen
    BY <1>2, <1>3, <2>1
  <2>8. d.pid # None
    BY <2>1 DEF Pids, None
  <2>9. /\ a.m.table[s].pid = d.pid /\ a.m.table[s].kind = "worker" /\ a.m.table[s].exiting = FALSE
        /\ a.m.table[s].respawn = d.respawn
    BY <2>1, <2>4, <2>5, <2>6, Zenon
  <2> HIDE DEF d
  <2> QED BY <1>5, <2>1, <2>7, <2>8, <2>9 DEF IsServer
<1>7. NoMoreFatal(w, a)
  BY <1>2, <1>3 DEF NoMoreFatal
<1> QED BY <1>5, <1>6, <1>7 DEF Servers, JustServers, a

\* What a turn of the loop of ngx_reap_children keeps: servers, unless they are not
\* to be kept any more.
Holds(w, a) ==
  NoMoreFatal(w, a) /\ (CalledIn(a) => CalledIn(w) /\ Servers(w) \subseteq Servers(a))
\* What keeps its servers holds them, ...
LEMMA KeepsHolds ==
  ASSUME NEW w, NEW a, Keeps(w, a)
  PROVE  Holds(w, a)
BY DEF Keeps, Holds, CalledIn
\* ... and so do two turns that do.
LEMMA HoldsOn ==
  ASSUME NEW w, NEW a, NEW b, Holds(w, a), Holds(a, b)
  PROVE  Holds(w, b)
BY DEF Holds, NoMoreFatal

\* The news that a channel is closed changes no server.
LEMMA ChannelClosedKeeps ==
  ASSUME NEW k, NEW w, Well(k, w), NEW s \in Slots, NEW cmd
  PROVE  Keeps(w, ChannelClosed(w, s, cmd))
<1> DEFINE e == w.m.table[s]
           b == With(w, [w.m EXCEPT !.table[s].chan = "none"])
           a == WriteAll(b, Others(w), Msg(cmd, s, e.pid))
<1>1. ChannelClosed(w, s, cmd) = IF e.detached THEN w ELSE a
  BY DEF ChannelClosed
<1>2. w \in Worlds(k) /\ Bounded(w)
  BY DEF Well, Sane
<1>3. Keeps(w, b)
  BY <1>2, ChannelKeeps
<1>4. b \in Worlds(k)
  BY <1>2, ChannelSet
<1> HIDE DEF b
<1>5. Keeps(b, a)
  BY <1>4, WriteAllKeeps
<1> HIDE DEF a
<1>6. Keeps(w, a)
  BY <1>3, <1>5, KeepsOn
<1>7. Keeps(w, w)
  BY DEF Keeps, NoMoreFatal
<1> QED BY <1>1, <1>6, <1>7

\* A process that is started again is the server it was.
LEMMA RespawnKeeps ==
  ASSUME NEW k, k.gen \in DOMAIN Confs, NEW w, Well(k, w), NEW s \in Slots, s <= w.m.last,
         w.m.table[s].exited, w.m.table[s].respawn, NEW ok
  PROVE  Keeps(w, Respawn(w, s, ok))
<1> DEFINE kind == w.m.table[s].kind
           a == SpawnAt(w, s, kind, "again", ok)
           x == [a.m EXCEPT !.live = TRUE]
           b == With(a, x)
           c == PassOpenChannel(b, s)
<1>1. Respawn(w, s, ok) = IF Spawned(w, a) THEN c ELSE a
  BY DEF Respawn
<1>2. Placed(w, s, kind, "again")
  <2>1. w.m.table[s] \in Entry /\ EntrySane(w, s) /\ w.m.last \in Nat
    BY WorldFields DEF Well, Sane
  <2> QED BY <2>1 DEF Placed, Modality, EntrySane, Slots, Entry
<1> HIDE DEF kind
<1>3. Well(k, a) /\ Keeps(w, a)
  BY <1>2, SpawnAtWell, SpawnAtKeeps
<1> HIDE DEF a
<1>4. /\ x \in Memory(k) /\ x.table = a.m.table /\ x.last = a.m.last /\ x.next = a.m.next /\ x.gen = a.m.gen
      /\ x.flags = a.m.flags /\ x.noaccepting = a.m.noaccepting
  <2>1. a.m \in Memory(k)
    BY <1>3, WorldFields DEF Well
  <2> QED BY <2>1 DEF Memory
<1> HIDE DEF x
<1>5. Well(k, b) /\ Keeps(a, b)
  BY <1>3, <1>4, MemoryWell, MemoryKeeps
<1> HIDE DEF b
<1>6. Keeps(b, c)
  BY <1>5, WriteAllKeeps DEF PassOpenChannel, Well
<1> HIDE DEF c
<1>7. Keeps(w, c)
  BY <1>3, <1>5, <1>6, KeepsOn
<1> QED BY <1>1, <1>3, <1>7

\* What is forgotten is no server, or the master is told to leave; a new binary that is
\* forgotten raises restart when it is what the workers were drained for.
LEMMA ForgetHolds ==
  ASSUME NEW k, NEW w, Well(k, w), NEW s \in Slots, s <= w.m.last, ~MayRespawn(w, s)
  PROVE  Holds(w, Forget(w, s))
<1> DEFINE d == w.m.table[s]
           binary == d.pid = w.m.newBinary
           nb == IF binary THEN None ELSE w.m.newBinary
           na == w.m.noaccepting /\ ~binary
           flags == IF binary /\ w.m.noaccepting THEN w.m.flags \cup {"restart"} ELSE w.m.flags
           last == IF s = w.m.last THEN w.m.last - 1 ELSE w.m.last
           table == [w.m.table EXCEPT ![s] = Empty]
           x == [w.m EXCEPT !.newBinary = nb, !.noaccepting = na, !.flags = flags, !.last = last, !.table = table]
           a == With(w, x)
<1>1. Forget(w, s) = a
  BY DEF Forget
<1>2. w.m \in Memory(k) /\ w.m.table \in [Slots -> Entry] /\ w.m.last \in Nat
  BY WorldFields DEF Well
<1>3. a.m = x /\ a.child = w.child
  BY DEF With
<1>4. /\ w.m.flags \subseteq flags /\ (na \/ "restart" \in flags \/ ~w.m.noaccepting)
      /\ \A r \in Slots \ {s} : table[r] = w.m.table[r] /\ (r <= w.m.last => r <= last)
  <2>1. \A r \in Slots \ {s} : table[r] = w.m.table[r]
    BY <1>2
  <2>2. \A r \in Slots \ {s} : r <= w.m.last => r <= last
    BY <1>2 DEF Slots
  <2> QED BY <2>1, <2>2
<1> HIDE DEF a, nb, na, flags, last, table
<1>5. x.table = table /\ x.last = last /\ x.gen = w.m.gen /\ x.flags = flags /\ x.noaccepting = na
  BY <1>2 DEF Memory
<1> HIDE DEF x
<1>6. NoMoreFatal(w, a)
  BY <1>3 DEF NoMoreFatal
<1>7. ASSUME CalledIn(a)
      PROVE  CalledIn(w) /\ Servers(w) \subseteq Servers(a)
  <2>1. CalledIn(w)
    BY <1>3, <1>4, <1>5, <1>7 DEF CalledIn
  <2>2. ~IsServer(w, s)
    BY <2>1 DEF CalledIn, MayRespawn, IsServer
  <2>3. \A r \in Slots \ {s} : IsServer(w, r) => IsServer(a, r)
    BY <1>3, <1>4, <1>5 DEF IsServer
  <2> QED BY <2>1, <2>2, <2>3 DEF Servers
<1> QED BY <1>1, <1>6, <1>7 DEF Holds

\* A turn of the loop.
LEMMA ReapSlotHolds ==
  ASSUME NEW k, k.gen \in DOMAIN Confs, NEW w, Well(k, w), NEW s \in Slots, NEW ok, NEW cmd \in {"open", "close"}
  PROVE  Holds(w, ReapSlot(w, s, ok, cmd))
<1> DEFINE e == w.m.table[s]
           c == ChannelClosed(w, s, cmd)
           x == [w.m EXCEPT !.live = @ \/ IsLive(e)]
           b == With(w, x)
           a == ReapSlot(w, s, ok, cmd)
<1>1. w.m \in Memory(k) /\ w.m.last \in Nat /\ e \in Entry /\ s \in Nat
  <2>1. w.m \in Memory(k) /\ w.m.last \in Nat /\ w.m.table \in [Slots -> Entry]
    BY WorldFields DEF Well
  <2> QED BY <2>1, MasterAssumption DEF Slots
<1>2. Keeps(w, w)
  BY DEF Keeps, NoMoreFatal
<1>3. CASE s > w.m.last \/ e.pid = None
  <2>1. a = w
    BY <1>3 DEF ReapSlot
  <2> QED BY <1>2, <2>1, KeepsHolds
<1>4. CASE ~(s > w.m.last \/ e.pid = None) /\ ~e.exited
  <2>1. a = b
    BY <1>4 DEF ReapSlot
  <2>2. /\ x.table = w.m.table /\ x.last = w.m.last /\ x.gen = w.m.gen /\ x.flags = w.m.flags
        /\ x.noaccepting = w.m.noaccepting
    BY <1>1 DEF Memory
  <2> HIDE DEF x
  <2>3. Keeps(w, b)
    BY <2>2, MemoryKeeps
  <2> HIDE DEF a, b
  <2>4. Holds(w, a)
    BY <2>1, <2>3, KeepsHolds
  <2> QED BY <2>4 DEF a
<1>5. CASE ~(s > w.m.last \/ e.pid = None) /\ e.exited
  <2>1. Well(k, c) /\ Like(w, c) /\ Keeps(w, c)
    BY ChannelClosedWell, ChannelClosedKeeps
  <2>2. a = IF MayRespawn(w, s) THEN Respawn(c, s, ok) ELSE Forget(c, s)
    BY <1>5 DEF ReapSlot
  <2> HIDE DEF a, c
  <2>3. /\ s <= c.m.last /\ c.m.table[s].exited /\ c.m.table[s].respawn = e.respawn
        /\ c.m.table[s].exiting = e.exiting /\ c.m.flags = w.m.flags
    BY <1>1, <1>5, <2>1 DEF Like, SameEntry
  <2>4. Holds(c, a)
    <3>1. CASE MayRespawn(w, s)
      <4>1. c.m.table[s].respawn
        BY <2>3, <3>1 DEF MayRespawn
      <4> QED BY <2>1, <2>2, <2>3, <3>1, <4>1, RespawnKeeps, KeepsHolds
    <3>2. CASE ~MayRespawn(w, s)
      <4>1. ~MayRespawn(c, s)
        BY <2>3, <3>2 DEF MayRespawn
      <4> QED BY <2>1, <2>2, <2>3, <3>2, <4>1, ForgetHolds
    <3> QED BY <3>1, <3>2
  <2>5. Holds(w, a)
    BY <2>1, <2>4, KeepsHolds, HoldsOn
  <2> QED BY <2>5 DEF a
<1> QED BY <1>3, <1>4, <1>5

\* The loop.
LEMMA ReapChildrenHolds ==
  ASSUME NEW k, k.gen \in DOMAIN Confs, NEW w, Well(k, w), OneBinaryIn(w), NEW ok
  PROVE  Holds(w, ReapChildren(w, ok))
<1> DEFINE x == [w.m EXCEPT !.live = FALSE, !.flags = @ \ {"reap"}]
           first == With(w, x)
           a == ReapChildren(w, ok)
<1>0. MaxSlots \in Nat
  BY MasterAssumption
<1>1. PICK f : f = (CHOOSE g : Reaps(g, w, ok, MaxSlots)) /\ Reaps(f, w, ok, MaxSlots)
  BY <1>0, ReapsExist
<1>2. /\ a = f[MaxSlots]
      /\ \A s \in 0 .. MaxSlots : f[s] = IF s = 0 THEN first ELSE ReapSlot(f[s - 1], s, ok, Command(w, f[s - 1]))
  BY <1>1, ReapsIs DEF Reaps
<1>3. Well(k, first) /\ OneBinaryIn(first) /\ Cleared(first, 0) /\ Holds(w, first)
  <2>1. /\ x \in Memory(k) /\ x.table = w.m.table /\ x.last = w.m.last /\ x.next = w.m.next
        /\ x.newBinary = w.m.newBinary /\ x.flags = w.m.flags \ {"reap"} /\ x.gen = w.m.gen
        /\ x.noaccepting = w.m.noaccepting
    <3>1. w.m \in Memory(k)
      BY WorldFields DEF Well
    <3> QED BY <3>1 DEF Memory
  <2> HIDE DEF x
  <2>2. Well(k, first) /\ BinariesOf(first) = BinariesOf(w) /\ first.m = x /\ first.child = w.child
    BY <2>1, MemoryWell
  <2>3. Cleared(first, 0)
    BY DEF Cleared, Slots
  <2> HIDE DEF first
  <2>4. Servers(first) = Servers(w) /\ NoMoreFatal(w, first)
    BY <2>1, <2>2 DEF Servers, IsServer, NoMoreFatal
  <2>5. CalledIn(first) => CalledIn(w)
    BY <2>1, <2>2 DEF CalledIn
  <2> QED BY <2>1, <2>2, <2>3, <2>4, <2>5 DEF OneBinaryIn, Holds
<1> HIDE DEF a, first
<1> DEFINE Good(s) == Well(k, f[s]) /\ OneBinaryIn(f[s]) /\ Cleared(f[s], s) /\ Holds(w, f[s])
           T == {s \in 0 .. MaxSlots : ~Good(s)}
<1>4. T = {}
  <2> SUFFICES ASSUME T # {} PROVE FALSE
    OBVIOUS
  <2>0. T \in SUBSET Nat
    OBVIOUS
  <2>1. PICK s \in T : \A y \in T : s <= y
    BY <2>0, LeastNumber
  <2>2. CASE s = 0
    BY <1>0, <1>2, <1>3, <2>1, <2>2
  <2>3. CASE s # 0
    <3>1. s \in Slots /\ s - 1 \in 0 .. MaxSlots /\ s - 1 \notin T
      BY <1>0, <2>1, <2>3 DEF Slots
    <3>2. Good(s - 1)
      BY <3>1
    <3>3. f[s] = ReapSlot(f[s - 1], s, ok, Command(w, f[s - 1]))
      BY <1>2, <2>3, <3>1 DEF Slots
    <3>4. Well(k, f[s]) /\ OneBinaryIn(f[s]) /\ Cleared(f[s], s)
      BY <3>1, <3>2, <3>3, ReapSlotWell DEF Command
    <3>5. Holds(f[s - 1], f[s])
      BY <3>1, <3>2, <3>3, ReapSlotHolds DEF Command
    <3>6. Holds(w, f[s])
      BY <3>2, <3>5, HoldsOn
    <3> QED BY <2>1, <3>4, <3>6
  <2> QED BY <2>2, <2>3
<1>5. Holds(w, a)
  BY <1>0, <1>2, <1>4
<1> QED BY <1>5 DEF a

\* While it is called to serve, and no fork failed and no worker refused, a master has a
\* server; before the old workers are told to quit, it has one of those just started.
Manned ==
  /\ CalledIn(World) /\ ~left.failed => Servers(World) # {}
  /\ pc = "retire" /\ ~left.failed => JustServers(World) # {}
  /\ \A p \in Pids : child[p].st = "fatal" => left.failed

\* What a step must give, ...
LEMMA MannedIs ==
  ASSUME NEW a, Become(a), CalledIn(a) /\ ~left'.failed => Servers(a) # {},
         pc' = "retire" /\ ~left'.failed => JustServers(a) # {},
         \A p \in Pids : a.child[p].st = "fatal" => left'.failed
  PROVE  Manned'
<1>1. World'.m = a.m /\ World'.child = a.child /\ child' = a.child
  BY DEF Become, World
<1>2. Servers(World)' = Servers(a)
  BY <1>1 DEF Servers, IsServer
<1>3. JustServers(World)' = JustServers(a)
  BY <1>1, <1>2 DEF JustServers
<1>4. CalledIn(World)' = CalledIn(a)
  BY <1>1 DEF CalledIn
<1> QED BY <1>1, <1>2, <1>3, <1>4 DEF Manned

\* ... the fields of the world that it starts from, ...
LEMMA MannedSays ==
  ASSUME Manned
  PROVE  /\ World.m = m /\ World.child = child
         /\ CalledIn(World) /\ ~left.failed => Servers(World) # {}
         /\ pc = "retire" /\ ~left.failed => JustServers(World) # {}
         /\ \A p \in Pids : World.child[p].st = "fatal" => left.failed
BY DEF Manned, World

\* ... and what a step that holds the servers gives.
LEMMA HoldsStep ==
  ASSUME Manned, NEW a, Become(a), Holds(World, a), left.failed => left'.failed, pc' # "retire"
  PROVE  Manned'
<1>1. CalledIn(a) /\ ~left'.failed => Servers(a) # {}
  BY MannedSays DEF Holds
<1>2. \A p \in Pids : a.child[p].st = "fatal" => left'.failed
  BY MannedSays DEF Holds, NoMoreFatal
<1> QED BY <1>1, <1>2, MannedIs
\* A failure is not forgotten.
LEMMA FailedIs ==
  ASSUME left \in ScenarioType
  PROVE  ForkSpent.failed = TRUE /\ RefusalSpent.failed = TRUE /\ CrashSpent.failed = left.failed
BY DEF ScenarioType, ForkSpent, RefusalSpent, CrashSpent
\* A fork that failed is a failure.
LEMMA ForkedFailed ==
  ASSUME left \in ScenarioType, NEW ok \in ForkOutcomes
  PROVE  (left.failed => Rest(ok).failed) /\ (~ok => Rest(ok).failed)
BY FailedIs DEF ForkOutcomes, Rest

\* A memory x that the branches of the loop start from has the servers that m has.
LEMMA AlikeServers ==
  ASSUME NEW x, x.table = m.table, x.last = m.last, x.gen = m.gen
  PROVE  LET w == With(World, x) IN
         Servers(w) = Servers(World) /\ JustServers(w) = JustServers(World) /\ NoMoreFatal(World, w)
<1> DEFINE w == With(World, x)
<1>1. w.m = x /\ w.child = child /\ World.m = m /\ World.child = child
  BY DEF With, World
<1> HIDE DEF w
<1>2. Servers(w) = Servers(World)
  BY <1>1 DEF Servers, IsServer
<1>3. JustServers(w) = JustServers(World)
  BY <1>1, <1>2 DEF JustServers
<1>4. NoMoreFatal(World, w)
  BY <1>1 DEF NoMoreFatal
<1> QED BY <1>2, <1>3, <1>4 DEF w

\* A step that changes the memory only, and calls the master no sooner.
LEMMA MemoryManned ==
  ASSUME Manned, NEW x, x.table = m.table, x.last = m.last, x.gen = m.gen,
         Become(With(World, x)), left.failed => left'.failed,
         pc' = "retire" => pc = "retire", CalledIn(With(World, x)) => CalledIn(World)
  PROVE  Manned'
<1> DEFINE w == With(World, x)
<1>1. Servers(w) = Servers(World) /\ JustServers(w) = JustServers(World) /\ NoMoreFatal(World, w) /\ Become(w)
  BY AlikeServers
<1>2. CalledIn(w) => CalledIn(World)
  OBVIOUS
<1> HIDE DEF w
<1>3. \A p \in Pids : w.child[p].st = "fatal" => left'.failed
  BY <1>1, MannedSays DEF NoMoreFatal
<1> QED BY <1>1, <1>2, <1>3, MannedSays, MannedIs

\* A step that starts a cycle, with room for a worker.
LEMMA StartManned ==
  ASSUME Strong, Manned, NEW k, k.gen \in DOMAIN Confs, NEW x, Alike(k, x), Room(World),
         NEW mode \in {"respawn", "justrespawn"}, NEW ok \in BOOLEAN,
         Become(StartAll(With(World, x), mode, ok)),
         (left.failed => left'.failed) /\ (~ok => left'.failed), pc' = "retire" => mode = "justrespawn"
  PROVE  Manned'
<1> DEFINE w == With(World, x)
           a == StartAll(w, mode, ok)
<1>1. Well(k, w) /\ w.m = x /\ w.child = child /\ World.m = m /\ World.child = child
  BY AlikeWell, MasterFields DEF Strong
<1>2. Room(w)
  BY <1>1 DEF Room, FreeSlot, Alike
<1>3. NoMoreFatal(World, w) /\ Become(a)
  BY <1>1 DEF NoMoreFatal
<1> HIDE DEF w
<1>4. /\ Keeps(w, a)
      /\ ok /\ Room(w) => Servers(a) # {} /\ (mode = "justrespawn" => JustServers(a) # {})
  BY <1>1, StartAllKeeps
<1> HIDE DEF a
<1>5. \A p \in Pids : a.child[p].st = "fatal" => left'.failed
  BY <1>3, <1>4, MannedSays DEF Keeps, NoMoreFatal
<1> QED BY <1>2, <1>3, <1>4, <1>5, MannedIs

\* A step that signals the children.
LEMMA SignalManned ==
  ASSUME Strong, Manned, NEW k, NEW x, Alike(k, x), NEW sig \in Orders,
         Become(SignalWorkers(With(World, x), sig)), left' = left, pc' # "retire",
         \/ pc = "retire"
         \/ x.flags \cap {"terminate", "quit"} # {} \/ x.noaccepting
         \/ sig = "reopen" /\ x.flags = m.flags \ {"reopen"} /\ x.noaccepting = m.noaccepting,
         x.gen = m.gen
  PROVE  Manned'
<1> DEFINE w == With(World, x)
           a == SignalWorkers(w, sig)
<1>1. Well(k, w) /\ w.m = x /\ w.child = child /\ World.m = m /\ World.child = child /\ Become(a)
  BY AlikeWell, MasterFields DEF Strong
<1>2. Servers(w) = Servers(World) /\ JustServers(w) = JustServers(World) /\ NoMoreFatal(World, w)
  BY AlikeServers DEF Alike
<1> HIDE DEF w
<1>3. /\ NoMoreFatal(w, a) /\ JustServers(w) \subseteq Servers(a)
      /\ sig = "reopen" => Servers(w) \subseteq Servers(a)
      /\ a.m.noaccepting = x.noaccepting
  BY <1>1, SignalKeeps
<1>4. x.flags \subseteq a.m.flags
  BY <1>1, SignalWorkersWell DEF Warned
<1> HIDE DEF a
<1>5. \A p \in Pids : a.child[p].st = "fatal" => left'.failed
  BY <1>2, <1>3, MannedSays DEF NoMoreFatal
<1>6. CalledIn(a) /\ ~left'.failed => Servers(a) # {}
  <2>1. CASE pc = "retire"
    BY <1>2, <1>3, <2>1, MannedSays
  <2>2. CASE x.flags \cap {"terminate", "quit"} # {} \/ x.noaccepting
    BY <1>3, <1>4, <2>2 DEF CalledIn
  <2>3. CASE sig = "reopen" /\ x.flags = m.flags \ {"reopen"} /\ x.noaccepting = m.noaccepting
    <3>1. CalledIn(a) => CalledIn(World)
      BY <1>1, <1>3, <1>4, <2>3 DEF CalledIn
    <3> QED BY <1>2, <1>3, <2>3, <3>1, MannedSays
  <2> QED BY <2>1, <2>2, <2>3
<1> QED BY <1>1, <1>5, <1>6, MannedIs

\* The branches of the loop that only signal.
LEMMA SignalBranchManned ==
  ASSUME Strong, Manned, Quit \/ Retire \/ Reopen \/ NoAccept
  PROVE  Manned'
<1>1. Sound /\ m \in Memory(m) /\ m.flags \in SUBSET Flags
  BY MasterFields DEF Strong
<1>2. CASE Quit
  <2> DEFINE x == [m EXCEPT !.socks = <<>>]
  <2>1. /\ x \in Memory(x) /\ x.table = m.table /\ x.last = m.last /\ x.next = m.next /\ x.newBinary = m.newBinary
        /\ x.flags = m.flags /\ x.gen = m.gen
    <3>1. x \in Memory(x) /\ x.table = m.table /\ x.last = m.last /\ x.next = m.next
      BY <1>1 DEF Memory
    <3>2. x.newBinary = m.newBinary /\ x.flags = m.flags /\ x.gen = m.gen
      BY <1>1 DEF Memory
    <3> QED BY <3>1, <3>2
  <2>2. Become(SignalWorkers(With(World, x), "quit")) /\ left' = left /\ pc' # "retire" /\ "quit" \in m.flags
    BY <1>2 DEF Quit
  <2> HIDE DEF x
  <2> QED BY <1>1, <2>1, <2>2, SignalManned DEF Alike, Orders
<1>3. CASE Retire
  <2>1. Become(SignalWorkers(With(World, m), "quit")) /\ left' = left /\ pc = "retire" /\ GoOn(2)
    BY <1>1, <1>3, Memories DEF Retire
  <2>2. pc' # "retire"
    BY <2>1, GoOnIs
  <2> QED BY <1>1, <2>1, <2>2, SignalManned, Memories DEF Orders
<1>4. CASE Reopen
  <2> DEFINE x == Lower("reopen")
  <2>1. Become(SignalWorkers(With(World, x), "reopen")) /\ left' = left /\ GoOn(4)
    BY <1>4 DEF Reopen
  <2>2. pc' # "retire"
    BY <2>1, GoOnIs
  <2>3. Alike(m, x) /\ x.flags = m.flags \ {"reopen"}
    BY <1>1, Memories DEF Flags
  <2>4. x.gen = m.gen /\ x.noaccepting = m.noaccepting
    BY <1>1 DEF Lower, Memory
  <2> HIDE DEF x
  <2> QED BY <2>1, <2>2, <2>3, <2>4, SignalManned DEF Orders
<1>5. CASE NoAccept
  <2> DEFINE x == [Lower("noaccept") EXCEPT !.noaccepting = TRUE]
  <2>1. Become(SignalWorkers(With(World, x), "quit")) /\ left' = left /\ pc' # "retire"
    BY <1>5 DEF NoAccept
  <2>2. Alike(m, x)
    <3>1. Alike(m, Lower("noaccept"))
      BY <1>1, Memories DEF Flags
    <3> QED BY <3>1 DEF Alike, Memory
  <2>3. x.gen = m.gen /\ x.noaccepting = TRUE
    BY <1>1 DEF Lower, Memory
  <2> HIDE DEF x
  <2> QED BY <2>1, <2>2, <2>3, SignalManned DEF Orders
<1> QED BY <1>2, <1>3, <1>4, <1>5

\* A master that is told to terminate is not called to serve.
LEMMA TerminateManned ==
  ASSUME Strong, Manned, Terminate
  PROVE  Manned'
<1> DEFINE d == IF m.delay = 0 THEN 1 ELSE m.delay
           x == [m EXCEPT !.delay = d, !.sigio = Workers + 2]
           y == [m EXCEPT !.delay = d, !.sigio = m.sigio - 1]
           sig == TerminateSignal(d)
<1>1. /\ Sound /\ pc' = "wait" /\ left' = left /\ "terminate" \in m.flags /\ m \in Memory(m)
      /\ m.delay \in 0 .. KillLevel + 1 /\ m.sigio \in 0 .. Workers + 2
  BY MasterFields DEF Strong, Terminate
<1>2. d \in 0 .. KillLevel + 1 /\ sig \in Orders /\ Workers + 2 \in 0 .. Workers + 2
  BY <1>1, MasterAssumption DEF TerminateSignal, Orders
<1>3. CASE m.sigio > 0
  <2>1. m' = y /\ child' = child /\ inbox' = inbox
    <3>1. m' = [m EXCEPT !.sigio = @ - 1, !.delay = d] /\ child' = child /\ inbox' = inbox
      BY <1>3 DEF Terminate
    <3> QED BY <1>1, <3>1 DEF Memory
  <2>2. y.table = m.table /\ y.last = m.last /\ y.gen = m.gen /\ y.flags = m.flags
    BY <1>1 DEF Memory
  <2> HIDE DEF y
  <2>3. Become(With(World, y)) /\ With(World, y).m = y
    BY <2>1 DEF Become, With, World
  <2>4. ~CalledIn(With(World, y))
    BY <1>1, <2>2, <2>3 DEF CalledIn
  <2> QED BY <1>1, <2>2, <2>3, <2>4, MemoryManned
<1>4. CASE ~(m.sigio > 0)
  <2>1. Become(SignalWorkers(With(World, x), sig))
    BY <1>4 DEF Terminate
  <2>2. Alike(m, x) /\ x.flags = m.flags
    BY <1>1, <1>2, Memories
  <2>3. x.gen = m.gen
    BY <1>1 DEF Memory
  <2> HIDE DEF x, sig
  <2> QED BY <1>1, <1>2, <2>1, <2>2, <2>3, SignalManned
<1> QED BY <1>3, <1>4

\* The branches that change the memory only.
LEMMA MemoryBranchManned ==
  ASSUME Strong, Manned,
         \/ KeepCycle \/ AbortCycle \/ MasterExit \/ Proceed \/ Alarm \/ UNCHANGED vars
         \/ \E s \in FromOperator : Order(s)
  PROVE  Manned'
<1>1. Sound /\ m \in Memory(m) /\ left \in ScenarioType /\ World.m = m
  BY MasterFields DEF Strong, Staged
<1>2. CASE KeepCycle
  <2> DEFINE x == Lower("reconfigure")
  <2>1. Become(With(World, x)) /\ left' = left /\ pc' # "retire"
    BY <1>2 DEF KeepCycle
  <2>2. /\ x.table = m.table /\ x.last = m.last /\ x.gen = m.gen /\ x.flags = m.flags \ {"reconfigure"}
        /\ x.noaccepting = m.noaccepting
    BY <1>1 DEF Lower, Memory
  <2>3. With(World, x).m = x
    BY DEF With
  <2> HIDE DEF x
  <2>4. CalledIn(With(World, x)) => CalledIn(World)
    BY <1>1, <2>2, <2>3 DEF CalledIn
  <2> QED BY <2>1, <2>2, <2>4, MemoryManned
<1>3. CASE MasterExit
  <2> DEFINE x == [m EXCEPT !.socks = <<>>]
  <2>1. m' = x /\ child' = child /\ inbox' = inbox /\ left' = left /\ pc' # "retire"
    BY <1>3 DEF MasterExit
  <2>2. /\ x.table = m.table /\ x.last = m.last /\ x.gen = m.gen /\ x.flags = m.flags
        /\ x.noaccepting = m.noaccepting
    BY <1>1 DEF Memory
  <2> HIDE DEF x
  <2>3. Become(With(World, x)) /\ With(World, x).m = x
    BY <2>1 DEF Become, With, World
  <2>4. CalledIn(With(World, x)) => CalledIn(World)
    BY <1>1, <2>2, <2>3 DEF CalledIn
  <2> QED BY <2>1, <2>2, <2>3, <2>4, MemoryManned
<1>4. CASE Proceed \/ Alarm \/ UNCHANGED vars \/ \E s \in FromOperator : Order(s)
  <2>1. m' = m /\ child' = child /\ inbox' = inbox
    BY <1>4 DEF Proceed, Alarm, vars, Order
  <2>2. left.failed => left'.failed
    BY <1>1, <1>4 DEF Proceed, Alarm, vars, Order, ScenarioType
  <2>3. pc' = "retire" => pc = "retire"
    <3>1. CASE Proceed
      BY <3>1, GoOnIs DEF Proceed
    <3>2. CASE ~Proceed
      BY <1>4, <3>2 DEF Alarm, vars, Order
    <3> QED BY <3>1, <3>2
  <2>4. Become(With(World, m)) /\ With(World, m) = World
    BY <2>1 DEF Become, With, World
  <2> QED BY <2>2, <2>3, <2>4, MemoryManned
<1>5. CASE AbortCycle
  <2>1. PICK made : Become(With(World, Aborted(made)))
    BY <1>5 DEF AbortCycle, Aborted
  <2>2. left'.failed = left.failed /\ pc' # "retire"
    BY <1>1, <1>5 DEF AbortCycle, ScenarioType
  <2> DEFINE x == Aborted(made)
  <2>3. /\ x.table = m.table /\ x.last = m.last /\ x.gen = m.gen /\ x.flags = m.flags \ {"reconfigure"}
        /\ x.noaccepting = m.noaccepting
    BY <1>1, AbortedIs DEF Alike
  <2>4. With(World, x).m = x
    BY DEF With
  <2> HIDE DEF x
  <2>5. CalledIn(With(World, x)) => CalledIn(World)
    BY <1>1, <2>3, <2>4 DEF CalledIn
  <2> QED BY <2>1, <2>2, <2>3, <2>5, MemoryManned DEF x
<1> QED BY <1>2, <1>3, <1>4, <1>5

\* The branches that start a cycle, with room for a worker.
LEMMA StartBranchManned ==
  ASSUME Strong, Manned, Recall \/ Reconfigure \/ Restart, Room(World)
  PROVE  Manned'
<1>1. /\ Sound /\ m \in Memory(m) /\ m.gen \in DOMAIN Confs /\ left \in ScenarioType /\ IsInjective(left.confs)
  BY MasterFields DEF Strong, Staged
<1>2. CASE Recall
  <2> DEFINE x == [Lower("reconfigure") EXCEPT !.noaccepting = FALSE]
  <2>1. pc' # "retire" /\ \E ok \in ForkOutcomes : /\ Become(StartAll(With(World, x), "respawn", ok))
                                                /\ left' = [Rest(ok) EXCEPT !.uncounted = @ \/ ~m.live]
    BY <1>2 DEF Recall
  <2>2. Alike(m, x)
    <3>1. Alike(m, Lower("reconfigure"))
      BY <1>1, Memories DEF Flags
    <3> QED BY <3>1 DEF Alike, Memory
  <2> HIDE DEF x
  <2>3. PICK ok \in ForkOutcomes : /\ Become(StartAll(With(World, x), "respawn", ok))
                                 /\ left' = [Rest(ok) EXCEPT !.uncounted = @ \/ ~m.live]
    BY <2>1
  <2>4. ok \in BOOLEAN /\ (left.failed => left'.failed) /\ (~ok => left'.failed)
    <3>1. Rest(ok) \in ScenarioType /\ (left.failed => Rest(ok).failed) /\ (~ok => Rest(ok).failed)
      BY <1>1, ForkedIs, ForkedFailed
    <3> QED BY <2>3, <3>1 DEF ForkOutcomes, ScenarioType
  <2> QED BY <1>1, <2>1, <2>2, <2>3, <2>4, StartManned
<1>3. CASE Restart
  <2> DEFINE x == [Lower("restart") EXCEPT !.live = TRUE]
  <2>1. GoOn(3) /\ \E ok \in ForkOutcomes : Become(StartAll(With(World, x), "respawn", ok)) /\ Forked(ok)
    BY <1>3 DEF Restart
  <2>2. Alike(m, x)
    <3>1. Alike(m, Lower("restart"))
      BY <1>1, Memories DEF Flags
    <3> QED BY <3>1 DEF Alike, Memory
  <2> HIDE DEF x
  <2>3. PICK ok \in ForkOutcomes : Become(StartAll(With(World, x), "respawn", ok)) /\ Forked(ok)
    BY <2>1
  <2>4. ok \in BOOLEAN /\ (left.failed => left'.failed) /\ (~ok => left'.failed)
    BY <1>1, <2>3, ForkedFailed DEF ForkOutcomes, Forked
  <2>5. pc' # "retire"
    BY <2>1, GoOnIs
  <2> QED BY <1>1, <2>2, <2>3, <2>4, <2>5, StartManned
<1>4. CASE Reconfigure
  <2> DEFINE k == NewCycle
  <2>1. PICK ok \in ForkOutcomes :
          /\ Become(StartAll(With(World, k), "justrespawn", ok))
          /\ left' = [Rest(ok) EXCEPT !.confs = Tail(@)]
    BY <1>4 DEF Reconfigure
  <2>2. left.confs # <<>>
    BY <1>4 DEF Reconfigure
  <2>3. Alike(k, k) /\ k.gen \in DOMAIN Confs
    BY <1>1, <2>2, NewCycleIs DEF Alike
  <2> HIDE DEF k
  <2>4. (left.failed => left'.failed) /\ (~ok => left'.failed)
    <3>1. Rest(ok) \in ScenarioType /\ (left.failed => Rest(ok).failed) /\ (~ok => Rest(ok).failed)
      BY <1>1, ForkedIs, ForkedFailed
    <3>2. left' = [Rest(ok) EXCEPT !.confs = Tail(@)]
      BY <2>1
    <3> QED BY <3>1, <3>2 DEF ScenarioType
  <2>5. ok \in BOOLEAN
    BY DEF ForkOutcomes
  <2> QED BY <2>1, <2>3, <2>4, <2>5, StartManned
<1> QED BY <1>2, <1>3, <1>4

\* A new binary takes no worker's place.
LEMMA ChangeBinaryManned ==
  ASSUME Strong, Manned, ChangeBinary
  PROVE  Manned'
<1> DEFINE x == Lower("changeBinary")
           w == With(World, x)
           s == FreeSlot(w)
<1>1. PICK ok \in ForkOutcomes :
        LET a == SpawnAt(w, s, "binary", "detached", ok) IN
        /\ Become(With(a, [a.m EXCEPT !.newBinary = IF Spawned(w, a) THEN m.next ELSE Invalid]))
        /\ Forked(ok)
  BY DEF ChangeBinary
<1> DEFINE a == SpawnAt(w, s, "binary", "detached", ok)
           y == [a.m EXCEPT !.newBinary = IF Spawned(w, a) THEN m.next ELSE Invalid]
           b == With(a, y)
<1>2. Become(b) /\ Forked(ok) /\ ok \in BOOLEAN
  BY <1>1 DEF ForkOutcomes
<1>3. Sound /\ left \in ScenarioType /\ m.gen \in DOMAIN Confs /\ World.m = m /\ m \in Memory(m)
  BY MasterFields DEF Strong, Staged
<1>4. left.failed => left'.failed
  BY <1>2, <1>3, ForkedFailed DEF Forked
<1>5. pc' # "retire"
  BY GoOnIs DEF ChangeBinary
<1>6. /\ Alike(m, x) /\ x.gen = m.gen /\ x.flags = m.flags \ {"changeBinary"} /\ x.noaccepting = m.noaccepting
      /\ x.table = m.table /\ x.last = m.last
  <2>1. Alike(m, x) /\ x.flags = m.flags \ {"changeBinary"}
    BY <1>3, Memories DEF Flags
  <2>2. x.gen = m.gen /\ x.noaccepting = m.noaccepting
    BY <1>3 DEF Lower, Memory
  <2> HIDE DEF x
  <2> QED BY <2>1, <2>2 DEF Alike
<1> HIDE DEF x
<1>7. Well(m, w) /\ w.m = x
  BY <1>3, <1>6, AlikeWell
<1>8. Servers(w) = Servers(World) /\ NoMoreFatal(World, w)
  BY <1>6, AlikeServers
<1>9. Holds(World, w)
  BY <1>3, <1>6, <1>7, <1>8 DEF Holds, CalledIn
<1> HIDE DEF w
<1>10. /\ Placed(w, s, "binary", "detached")
       /\ s \in Slots => w.m.table[s].pid = None
  <2>1. /\ s \in 1 .. w.m.last + 1
        /\ s \in Slots => w.m.table[s].pid = None
    BY <1>7, FreeSlotIs DEF Well, Sane
  <2>2. w.m.last \in Nat
    BY <1>7, WorldFields DEF Well
  <2> QED BY <2>1, <2>2 DEF Placed, Kinds, Modality
<1> HIDE DEF s
<1>11. Well(m, a) /\ Keeps(w, a)
  BY <1>3, <1>7, <1>10, SpawnAtWell, SpawnAtKeeps
<1> HIDE DEF a
<1>12. /\ y.table = a.m.table /\ y.last = a.m.last /\ y.gen = a.m.gen /\ y.flags = a.m.flags
       /\ y.noaccepting = a.m.noaccepting
  <2>1. a.m \in Memory(m)
    BY <1>11, WorldFields DEF Well
  <2> QED BY <2>1 DEF Memory
<1> HIDE DEF y
<1>13. Keeps(a, b)
  BY <1>12, MemoryKeeps
<1> HIDE DEF b
<1>14. Holds(World, b)
  BY <1>9, <1>11, <1>13, KeepsHolds, HoldsOn
<1> QED BY <1>2, <1>4, <1>5, <1>14, HoldsStep

\* A dead worker that will be replaced is a server, unless it refused to start.
LEMMA WakeManned ==
  ASSUME Strong, Manned, Wake
  PROVE  Manned'
<1> DEFINE a == [m |-> m', child |-> Collected.child, inbox |-> Collected.inbox]
           dead == IF "CHLD" \in pending THEN {p \in Pids : child[p].st \in {"zombie", "fatal"}} ELSE {}
           at(s) == m.table[s].pid \in dead /\ s <= m.last
<1>1. /\ Sound /\ m \in Memory(m) /\ m.table \in [Slots -> Entry] /\ child \in [Pids -> Process]
      /\ World.m = m /\ World.child = child /\ left' = left /\ pc' = "reap"
      /\ child' = Collected.child /\ inbox' = Collected.inbox
  BY MasterFields DEF Strong, Wake
<1>2. /\ m'.table = Collected.table /\ m'.last = m.last /\ m'.gen = m.gen /\ m'.noaccepting = m.noaccepting
      /\ m.flags \ {"sigalrm"} \subseteq m'.flags
  BY <1>1 DEF Wake, Memory
<1>3. a.m = m' /\ a.child = Collected.child /\ Become(a)
  BY <1>1 DEF Become
<1>4. /\ Collected.child = [p \in Pids |-> IF p \in dead THEN [Unborn EXCEPT !.st = "gone"] ELSE child[p]]
      /\ Collected.table = [s \in Slots |-> IF ~at(s) THEN m.table[s]
            ELSE [m.table[s] EXCEPT !.exited = TRUE, !.respawn = @ /\ child[m.table[s].pid].st # "fatal"]]
  BY DEF Collected
<1> HIDE DEF a, dead
<1>5. ASSUME NEW p \in Pids
      PROVE  /\ Collected.child[p].st = "fatal" => child[p].st = "fatal"
             /\ Collected.child[p].gen \in {0, child[p].gen}
  <2> DEFINE u == [Unborn EXCEPT !.st = "gone"]
  <2>1. u.st = "gone" /\ u.gen = 0
    BY DEF Unborn
  <2>2. Collected.child[p] = IF p \in dead THEN u ELSE child[p]
    BY <1>4
  <2> HIDE DEF u
  <2> QED BY <2>1, <2>2
<1>6. ASSUME NEW s \in Slots, IsServer(World, s), ~left.failed
      PROVE  IsServer(a, s)
  <2> DEFINE d == m.table[s]
             e == Collected.table[s]
  <2>1. /\ d \in Entry /\ d.pid \in Pids /\ d.kind = "worker" /\ d.exiting = FALSE /\ d.respawn = TRUE
        /\ s <= m.last /\ child[d.pid].gen \in {0, m.gen}
    BY <1>1, <1>6 DEF IsServer, Entry
  <2>2. child[d.pid].st # "fatal"
    BY <1>6, <2>1 DEF Manned
  <2>3. e.pid = d.pid /\ e.kind = "worker" /\ e.exiting = FALSE /\ e.respawn = TRUE
    <3>1. CASE at(s)
      <4>1. e = [d EXCEPT !.exited = TRUE, !.respawn = @ /\ child[d.pid].st # "fatal"]
        BY <1>4, <3>1
      <4> HIDE DEF d, e
      <4> QED BY <2>1, <2>2, <4>1 DEF Entry
    <3>2. CASE ~at(s)
      BY <1>4, <2>1, <3>2
    <3> QED BY <3>1, <3>2
  <2>4. Collected.child[d.pid].gen \in {0, m.gen}
    BY <1>5, <2>1
  <2>5. a.m.table[s] = e /\ a.m.last = m.last /\ a.m.gen = m.gen /\ d.pid # None
    BY <1>2, <1>3, <2>1 DEF Pids, None
  <2> HIDE DEF d, e
  <2> QED BY <1>3, <2>1, <2>3, <2>4, <2>5 DEF IsServer
<1>7. CalledIn(a) => CalledIn(World)
  BY <1>1, <1>2, <1>3 DEF CalledIn
<1>8. CalledIn(a) /\ ~left'.failed => Servers(a) # {}
  BY <1>1, <1>6, <1>7, MannedSays DEF Servers
<1>9. \A p \in Pids : a.child[p].st = "fatal" => left'.failed
  BY <1>1, <1>3, <1>5, MannedSays
<1> QED BY <1>1, <1>3, <1>8, <1>9, MannedIs

\* ngx_reap_children.
LEMMA ReapManned ==
  ASSUME Strong, Manned, Reap
  PROVE  Manned'
<1>1. /\ Sound /\ left \in ScenarioType /\ pc' = "decide" /\ World.m = m /\ m.gen \in DOMAIN Confs
      /\ Well(m, World) /\ OneBinaryIn(World)
  BY MasterFields DEF Strong, Sound, Staged, Reap
<1>2. CASE "reap" \notin m.flags
  <2>1. m' = m /\ child' = child /\ inbox' = inbox /\ left' = left
    BY <1>2 DEF Reap
  <2>2. Become(With(World, m)) /\ With(World, m) = World
    BY <2>1 DEF Become, With, World
  <2> QED BY <1>1, <2>1, <2>2, MemoryManned
<1>3. CASE "reap" \in m.flags
  <2>1. PICK ok \in ForkOutcomes :
          Become(ReapChildren(World, ok)) /\ left' = [Rest(ok) EXCEPT !.uncounted = FALSE]
    BY <1>3 DEF Reap
  <2>2. Holds(World, ReapChildren(World, ok))
    BY <1>1, ReapChildrenHolds
  <2>3. left.failed => left'.failed
    <3>1. Rest(ok) \in ScenarioType /\ (left.failed => Rest(ok).failed)
      BY <1>1, ForkedIs, ForkedFailed
    <3>2. left' = [Rest(ok) EXCEPT !.uncounted = FALSE]
      BY <2>1
    <3> QED BY <3>1, <3>2 DEF ScenarioType
  <2> QED BY <1>1, <2>1, <2>2, <2>3, HoldsStep
<1> QED BY <1>2, <1>3

\* A child that changes stays of its cycle, or is waited for.
LEMMA ChildManned ==
  ASSUME Strong, Manned, NEW p \in Pids, NEW c \in Process, c.gen \in {0, child[p].gen},
         child' = [child EXCEPT ![p] = c], m' = m, pc' = pc, left.failed => left'.failed,
         c.st = "fatal" => child[p].st = "fatal" \/ left'.failed
  PROVE  Manned'
<1> DEFINE a == [m |-> m, child |-> child', inbox |-> inbox']
<1>1. /\ World.m = m /\ World.child = child /\ child \in [Pids -> Process] /\ m.table \in [Slots -> Entry]
  BY MasterFields DEF Strong
<1>2. a.m = m /\ a.child = [child EXCEPT ![p] = c] /\ Become(a)
  BY DEF Become
<1> HIDE DEF a
<1>3. \A q \in Pids : a.child[q].gen \in {0, child[q].gen}
  BY <1>1, <1>2
<1>4. ASSUME NEW s \in Slots, IsServer(World, s)
      PROVE  IsServer(a, s)
  <2>1. m.table[s].pid \in Pids
    BY <1>1, <1>4 DEF IsServer, Entry
  <2>2. a.child[m.table[s].pid].gen \in {0, child[m.table[s].pid].gen}
    BY <1>3, <2>1
  <2> QED BY <1>1, <1>2, <1>4, <2>2 DEF IsServer
<1>5. CalledIn(a) => CalledIn(World)
  BY <1>1, <1>2 DEF CalledIn
<1>6. Servers(World) \subseteq Servers(a) /\ JustServers(World) \subseteq JustServers(a)
  BY <1>1, <1>2, <1>4 DEF Servers, JustServers
<1>7. \A q \in Pids : a.child[q].st = "fatal" => left'.failed
  BY <1>1, <1>2, MannedSays
<1> QED BY <1>2, <1>5, <1>6, <1>7, MannedSays, MannedIs

\* The steps of the children.
LEMMA ChildrenManned ==
  ASSUME Strong, Manned, NEW p \in Pids,
         ChildWork(p) \/ ChildRefuse(p) \/ LoaderDone(p) \/ Crash(p) \/ BinaryUp(p) \/ BinaryDown(p)
  PROVE  Manned'
<1>1. /\ child \in [Pids -> Process] /\ child[p] \in Process /\ inbox \in [Pids -> Seq(Message)]
      /\ left \in ScenarioType
  BY MasterFields DEF Strong, Staged
<1>2. m' = m /\ pc' = pc
  BY DEF ChildWork, ChildInit, ChildRead, ChildLeave, WorkerClose, WorkerDrained, ChildRefuse, LoaderDone, Crash,
         BinaryUp, BinaryDown
<1>3. CASE ChildInit(p) \/ BinaryUp(p)
  <2> DEFINE c == [child[p] EXCEPT !.st = "run"]
  <2>1. child' = [child EXCEPT ![p] = c] /\ left' = left
    BY <1>1, <1>3 DEF ChildInit, BinaryUp
  <2>2. c.gen = child[p].gen /\ c.st = "run" /\ c \in Process
    BY <1>1 DEF Process, States
  <2> HIDE DEF c
  <2> QED BY <1>2, <2>1, <2>2, ChildManned
<1>4. CASE WorkerClose(p)
  <2> DEFINE c == [child[p] EXCEPT !.st = "closing", !.quit = FALSE]
  <2>1. child' = [child EXCEPT ![p] = c] /\ left' = left
    <3>1. child' = [child EXCEPT ![p].st = "closing", ![p].quit = FALSE] /\ left' = left
      BY <1>4 DEF WorkerClose
    <3> QED BY <1>1, <3>1
  <2>2. c.gen = child[p].gen /\ c.st = "closing" /\ c \in Process
    BY <1>1 DEF Process, States
  <2> HIDE DEF c
  <2> QED BY <1>2, <2>1, <2>2, ChildManned
<1>5. CASE ChildRead(p)
  <2> DEFINE c == Heard(child[p], inbox[p])
  <2>1. child' = [child EXCEPT ![p] = c] /\ left' = left
    BY <1>5 DEF ChildRead
  <2>2. c.gen = child[p].gen /\ c.st = child[p].st /\ c \in Process
    BY <1>1, HeardIs
  <2> HIDE DEF c
  <2> QED BY <1>2, <2>1, <2>2, ChildManned
<1>6. CASE ChildLeave(p) \/ WorkerDrained(p) \/ LoaderDone(p) \/ Crash(p) \/ BinaryDown(p) \/ ChildRefuse(p)
  <2> DEFINE c(how) == [Unborn EXCEPT !.st = how, !.kind = child[p].kind]
  <2>0. \A how \in {"zombie", "fatal"} : c(how) \in Process
    BY <1>1, RemainsAre DEF Process, States
  <2>1. \A how \in {"zombie", "fatal"} : c(how).gen = 0 /\ c(how).st = how
    BY DEF Unborn
  <2>2. CASE ChildRefuse(p)
    <3>1. child' = [child EXCEPT ![p] = c("fatal")] /\ left'.failed = TRUE
      BY <1>1, <2>2, FailedIs DEF ChildRefuse, Die
    <3> HIDE DEF c
    <3> QED BY <1>2, <2>0, <2>1, <3>1, ChildManned
  <2>3. CASE ~ChildRefuse(p)
    <3>1. child' = [child EXCEPT ![p] = c("zombie")] /\ (left.failed => left'.failed)
      BY <1>1, <1>6, <2>3, FailedIs DEF ChildLeave, WorkerDrained, LoaderDone, Crash, BinaryDown, Die
    <3> HIDE DEF c
    <3> QED BY <1>2, <2>0, <2>1, <3>1, ChildManned
  <2> QED BY <2>2, <2>3
<1> QED BY <1>3, <1>4, <1>5, <1>6 DEF ChildWork

\* Every step, if there is room for a worker where a cycle is started.
LEMMA NextManned ==
  ASSUME Strong, Manned, [Next]_vars, Recall \/ Reconfigure \/ Restart => Room(World)
  PROVE  Manned'
<1>1. CASE UNCHANGED vars \/ Alarm \/ \E s \in FromOperator : Order(s)
  BY <1>1, MemoryBranchManned
<1>2. CASE MasterWork
  <2>1. CASE Quit \/ Retire \/ Reopen \/ NoAccept
    BY <2>1, SignalBranchManned
  <2>2. CASE KeepCycle \/ AbortCycle \/ MasterExit \/ Proceed
    BY <2>2, MemoryBranchManned
  <2>3. CASE Recall \/ Reconfigure \/ Restart
    BY <2>3, StartBranchManned
  <2>4. CASE Terminate \/ ChangeBinary \/ Wake \/ Reap
    BY <2>4, TerminateManned, ChangeBinaryManned, WakeManned, ReapManned
  <2> QED BY <1>2, <2>1, <2>2, <2>3, <2>4 DEF MasterWork
<1>3. CASE \E p \in Pids : ChildWork(p) \/ ChildRefuse(p) \/ LoaderDone(p) \/ Crash(p)
                           \/ BinaryUp(p) \/ BinaryDown(p)
  BY <1>3, ChildrenManned
<1> QED BY <1>1, <1>2, <1>3 DEF Next

\* The first cycle has all the room there is.
LEMMA InitManned ==
  ASSUME Init
  PROVE  Manned
<1>1. PICK sc \in Scenarios :
        /\ LET w == StartAll([m |-> Boot(Head(sc.confs)), child |-> [p \in Pids |-> Unborn],
                              inbox |-> [p \in Pids |-> <<>>]], "respawn", TRUE)
           IN m = w.m /\ child = w.child /\ inbox = w.inbox
        /\ pc = "wait"
  BY DEF Init
<1> DEFINE g == Head(sc.confs)
           k == Boot(g)
           w == [m |-> k, child |-> [p \in Pids |-> Unborn], inbox |-> [p \in Pids |-> <<>>]]
           a == StartAll(w, "respawn", TRUE)
<1>2. g \in DOMAIN Confs
  BY ScenarioAssumption, TakeFirst DEF ScenarioType
<1>3. m = a.m /\ child = a.child /\ inbox = a.inbox
  BY <1>1
<1>4. /\ Well(k, w) /\ w.m = k /\ k.last = 0 /\ k.next = 1 /\ k.gen = g
      /\ \A p \in Pids : w.child[p].st = "none"
  <2>1. Well(k, w) /\ w.m = k
    BY <1>2, BootIs
  <2>2. k.last = 0 /\ k.next = 1 /\ k.gen = g
    BY DEF Boot
  <2>3. \A p \in Pids : w.child[p].st = "none"
    BY UnbornIs
  <2> QED BY <2>1, <2>2, <2>3
<1> HIDE DEF g, k, w
<1>5. Room(w)
  <2>1. FreeSlot(w) \in 1 .. 1
    BY <1>4, FreeSlotIs DEF Well, Sane
  <2> QED BY <1>4, <2>1, MasterAssumption DEF Room, Pids, Slots
<1>6. Keeps(w, a) /\ Servers(a) # {}
  BY <1>2, <1>4, <1>5, StartAllKeeps
<1> HIDE DEF a
<1>7. World.m = a.m /\ World.child = a.child
  BY <1>3 DEF World
<1>8. Servers(World) = Servers(a)
  BY <1>7 DEF Servers, IsServer
<1>9. \A p \in Pids : child[p].st # "fatal"
  BY <1>3, <1>4, <1>6 DEF Keeps, NoMoreFatal
<1> QED BY <1>1, <1>6, <1>8, <1>9 DEF Manned

\* What the invariant says of a master that sleeps.
LEMMA MannedGives ==
  ASSUME Strong, Manned
  PROVE  KeepsServing
<1>1. /\ World.m = m /\ World.child = child /\ m.table \in [Slots -> Entry] /\ m.last \in Nat /\ m.last <= MaxSlots
  BY MasterFields DEF Strong
<1> SUFFICES ASSUME ~Leaving, ~m.noaccepting, "restart" \notin m.flags, ~left.failed
             PROVE  \E s \in 1 .. m.last :
                      /\ m.table[s].pid # None /\ m.table[s].kind = "worker" /\ ~m.table[s].exiting
                      /\ m.table[s].respawn /\ child[m.table[s].pid].gen \in {0, m.gen}
  BY DEF KeepsServing
<1>2. CalledIn(World)
  BY <1>1 DEF CalledIn, Leaving
<1>3. PICK s \in Slots : IsServer(World, s)
  BY <1>2 DEF Manned, Servers
<1>4. s \in 1 .. m.last
  BY <1>1, <1>3, MasterAssumption DEF IsServer, Slots
<1> QED BY <1>1, <1>3, <1>4 DEF IsServer

\* For any sequence of configurations, signals and deaths of children, with a free slot and
\* a pid whenever a cycle of workers is started: a master that nobody told to leave or to
\* stop accepting sleeps only with a worker of the cycle in force that it has not asked to
\* leave.  A reload starts its workers, and spares them, before it retires the old ones
\* (ngx_master_process_cycle, ngx_signal_worker_processes).
THEOREM AWorkerStays == Spec /\ [][Recall \/ Reconfigure \/ Restart => Room(World)]_vars => []KeepsServing
<1>1. Init => Strong /\ Manned
  BY InitStrong, InitManned
<1>2. Strong /\ Manned /\ [Next]_vars /\ [Recall \/ Reconfigure \/ Restart => Room(World)]_vars => (Strong /\ Manned)'
  <2> SUFFICES ASSUME Strong, Manned, [Next]_vars, [Recall \/ Reconfigure \/ Restart => Room(World)]_vars
               PROVE  (Strong /\ Manned)'
    OBVIOUS
  <2>1. Strong'
    BY NextStep
  <2>2. Manned'
    <3>1. CASE Recall \/ Reconfigure \/ Restart => Room(World)
      BY <3>1, NextManned
    <3>2. CASE UNCHANGED vars
      BY <3>2, MemoryBranchManned
    <3> QED BY <3>1, <3>2
  <2> QED BY <2>1, <2>2
<1>3. Strong /\ Manned => KeepsServing
  BY MannedGives
<1> QED BY <1>1, <1>2, <1>3, PTL DEF Spec

-----------------------------------------------------------------------------
(* The children agree with the master on who there is.                       *)

\* What a child holds in a slot of its ngx_processes[] once it has read msgs.
Seen(view, msgs, s) ==
  LET about == {i \in DOMAIN msgs : msgs[i].cmd \in {"open", "close"} /\ msgs[i].slot = s}
  IN IF about = {} THEN view[s]
     ELSE IF msgs[Max(about)].cmd = "open" THEN msgs[Max(about)].pid ELSE None

Colleague(w, p) == AliveIn(w, p) /\ w.child[p].kind # "binary"
Announced(w, s) == LET e == w.m.table[s] IN e.pid # None /\ e.chan = "open" /\ ~e.exited
\* A living child has its slot, ...
Own(w, p) ==
  LET s == w.child[p].slot  e == w.m.table[s] IN s <= w.m.last /\ e.pid = p /\ e.chan = "open" /\ ~e.exited
\* ... and has been told who is in the others, but for r, ...
Informed(w, p, r) ==
  \A s \in Slots \ {w.child[p].slot, r} :
    Announced(w, s) => Seen(w.child[p].view, w.inbox[p], s) = w.m.table[s].pid
\* ... unless a message was lost.
AgreeBut(w, r) ==
  /\ \A p \in Pids : p >= w.m.next => w.inbox[p] = <<>>
  /\ \A p \in Pids : Colleague(w, p) => Own(w, p) /\ (~w.m.lost => Informed(w, p, r))
Agree(w) == AgreeBut(w, 0)

\* Max of a set of numbers up to n is not below any of them.
LEMMA MaxIs ==
  ASSUME NEW n \in Nat, NEW T \in SUBSET (1 .. n), NEW x \in T, \A y \in T : y <= x
  PROVE  Max(T) = x
<1>1. Max(T) = CHOOSE z \in T : \A y \in T : z >= y
  BY DEF Max
<1>2. x \in T /\ \A y \in T : x >= y
  OBVIOUS
<1>3. Max(T) \in T /\ \A y \in T : Max(T) >= y
  BY <1>1, <1>2, Zenon
<1>4. x \in Nat /\ \A y \in T : y \in Nat
  OBVIOUS
<1> DEFINE z == Max(T)
<1>5. z \in Nat /\ z >= x /\ z <= x
  BY <1>3, <1>4
<1> HIDE DEF z
<1>6. z = x
  BY <1>4, <1>5
<1> QED BY <1>6 DEF z

\* What ngx_channel_handler makes of the messages.
LEMMA HeardSees ==
  ASSUME NEW c \in Process, NEW msgs, NEW s \in Slots
  PROVE  Heard(c, msgs).view[s] = Seen(c.view, msgs, s)
<1> DEFINE told(cmd) == \E i \in DOMAIN msgs : msgs[i].cmd = cmd
           quit == c.quit \/ told("quit")
           term == c.term \/ told("terminate")
           view == [t \in Slots |-> Seen(c.view, msgs, t)]
<1>1. Heard(c, msgs) = [c EXCEPT !.quit = quit, !.term = term, !.view = view]
  <2>1. Heard(c, msgs) = [c EXCEPT !.quit = @ \/ told("quit"), !.term = @ \/ told("terminate"),
          !.view = [t \in Slots |-> Seen(@, msgs, t)]]
    BY DEF Heard, Seen
  <2> HIDE DEF told
  <2> QED BY <2>1 DEF Process
<1> HIDE DEF quit, term
<1>2. Heard(c, msgs).view = view
  BY <1>1 DEF Process
<1> QED BY <1>2

\* Nothing read leaves all as it was, ...
LEMMA SeenNothing ==
  ASSUME NEW view, NEW s
  PROVE  Seen(view, <<>>, s) = view[s]
<1>1. DOMAIN <<>> = {}
  OBVIOUS
<1> QED BY <1>1 DEF Seen

\* ... and the last message counts.
LEMMA SeenMore ==
  ASSUME NEW view, NEW msgs \in Seq(Message), NEW x \in Message, NEW s
  PROVE  Seen(view, Append(msgs, x), s) =
           IF x.cmd \in {"open", "close"} /\ x.slot = s
           THEN IF x.cmd = "open" THEN x.pid ELSE None
           ELSE Seen(view, msgs, s)
<1> DEFINE n == Len(msgs)
           q == Append(msgs, x)
           about == {i \in DOMAIN msgs : msgs[i].cmd \in {"open", "close"} /\ msgs[i].slot = s}
           more == {i \in DOMAIN q : q[i].cmd \in {"open", "close"} /\ q[i].slot = s}
<1>1. n \in Nat /\ DOMAIN msgs = 1 .. n /\ DOMAIN q = 1 .. n + 1 /\ q[n + 1] = x /\ \A i \in 1 .. n : q[i] = msgs[i]
  OBVIOUS
<1>2. about \in SUBSET (1 .. n) /\ more \in SUBSET (1 .. n + 1)
  BY <1>1
<1>3. Seen(view, q, s) = IF more = {} THEN view[s] ELSE IF q[Max(more)].cmd = "open" THEN q[Max(more)].pid ELSE None
  BY DEF Seen
<1>4. Seen(view, msgs, s) =
        IF about = {} THEN view[s] ELSE IF msgs[Max(about)].cmd = "open" THEN msgs[Max(about)].pid ELSE None
  BY DEF Seen
<1>5. x.cmd \in {"open", "close"} /\ x.slot = s => n + 1 \in more
  BY <1>1
<1>6. ~(x.cmd \in {"open", "close"} /\ x.slot = s) => more = about
  BY <1>1
<1>7. about # {} => Max(about) \in 1 .. n
  <2>1. about \in SUBSET Nat /\ \A y \in about : y <= n
    BY <1>1, <1>2
  <2> HIDE DEF about
  <2> QED BY <1>2, <2>1, <1>1, MaxIn
<1>8. n + 1 \in more => Max(more) = n + 1
  <2> SUFFICES ASSUME n + 1 \in more PROVE Max(more) = n + 1
    OBVIOUS
  <2> HIDE DEF more
  <2>1. n + 1 \in Nat /\ \A y \in more : y <= n + 1
    BY <1>1, <1>2
  <2> QED BY <1>2, <2>1, MaxIs
<1>9. Append(msgs, x) = q
  OBVIOUS
<1> HIDE DEF q, about, more
<1>10. CASE x.cmd \in {"open", "close"} /\ x.slot = s
  BY <1>1, <1>3, <1>5, <1>8, <1>9, <1>10
<1>11. CASE ~(x.cmd \in {"open", "close"} /\ x.slot = s)
  BY <1>1, <1>3, <1>4, <1>6, <1>7, <1>9, <1>11
<1> QED BY <1>10, <1>11

\* What a change may do to the children.
LEMMA AgreeOn ==
  ASSUME NEW w, NEW a, NEW r, AgreeBut(w, r),
         \A p \in Pids : p >= a.m.next => a.inbox[p] = <<>>,
         \A p \in Pids : Colleague(a, p) =>
           /\ Colleague(w, p) /\ a.child[p].slot = w.child[p].slot /\ Own(a, p)
           /\ \A s \in Slots \ {r} : Announced(a, s) =>
                Seen(a.child[p].view, a.inbox[p], s) = Seen(w.child[p].view, w.inbox[p], s),
         \A s \in Slots \ {r} : Announced(a, s) => Announced(w, s) /\ a.m.table[s].pid = w.m.table[s].pid,
         ~a.m.lost => ~w.m.lost
  PROVE  AgreeBut(a, r)
<1>1. ASSUME NEW p \in Pids, Colleague(a, p)
      PROVE  Own(a, p) /\ (~a.m.lost => Informed(a, p, r))
  <2>1. Colleague(w, p) /\ a.child[p].slot = w.child[p].slot /\ Own(a, p)
    BY <1>1
  <2>2. ~a.m.lost => Informed(w, p, r)
    BY <2>1 DEF AgreeBut
  <2>3. ASSUME ~a.m.lost, NEW s \in Slots \ {a.child[p].slot, r}, Announced(a, s)
        PROVE  Seen(a.child[p].view, a.inbox[p], s) = a.m.table[s].pid
    BY <1>1, <2>1, <2>2, <2>3 DEF Informed
  <2> QED BY <2>1, <2>3 DEF Informed
<1> QED BY <1>1 DEF AgreeBut

\* What nobody is told of is no matter.
LEMMA AgreeAll ==
  ASSUME NEW w, NEW r, AgreeBut(w, r), r \in Slots => ~Announced(w, r)
  PROVE  Agree(w)
BY DEF Agree, AgreeBut, Informed

\* A world in which all agree is one in which they do, but for a slot.
LEMMA AgreeSome ==
  ASSUME NEW w, NEW r, Agree(w)
  PROVE  AgreeBut(w, r)
<1>1. 0 \notin Slots
  BY DEF Slots
<1> QED BY <1>1 DEF Agree, AgreeBut, Informed

\* Where no process, slot or channel changes, nothing is heard of.
LEMMA AgreeSame ==
  ASSUME NEW w, NEW a, NEW r, AgreeBut(w, r), a.child = w.child, a.inbox = w.inbox,
         a.m.last = w.m.last, a.m.next = w.m.next, a.m.lost = w.m.lost,
         \A s \in Slots : LET d == w.m.table[s]  e == a.m.table[s] IN
           e.pid = d.pid /\ e.exited = d.exited /\ e.chan = d.chan,
         a.child \in [Pids -> Process]
  PROVE  AgreeBut(a, r)
<1>1. ASSUME NEW p \in Pids, Colleague(a, p)
      PROVE  /\ Colleague(w, p) /\ Own(a, p)
  <2>1. Colleague(w, p) /\ a.child[p].slot = w.child[p].slot /\ w.child[p].slot \in Slots
    BY <1>1 DEF Colleague, AliveIn, Process
  <2>2. Own(w, p)
    BY <2>1 DEF AgreeBut
  <2> QED BY <2>1, <2>2 DEF Own
<1>2. \A s \in Slots : Announced(a, s) => Announced(w, s) /\ a.m.table[s].pid = w.m.table[s].pid
  BY DEF Announced
<1>3. \A p \in Pids : p >= a.m.next => a.inbox[p] = <<>>
  BY DEF AgreeBut
<1> QED BY <1>1, <1>2, <1>3, AgreeOn

\* The parts of the world after ngx_write_channel.
LEMMA WriteAllFields ==
  ASSUME NEW k, NEW w \in Worlds(k), NEW to, NEW msg
  PROVE  LET a == WriteAll(w, to, msg) IN
         /\ a.child = w.child /\ a.inbox = Written(w, to, msg) /\ a.m.table = w.m.table
         /\ a.m.last = w.m.last /\ a.m.next = w.m.next
         /\ a.m.lost = (w.m.lost \/ \E s \in to : ~CanWrite(w, s))
<1>1. w.m \in Memory(k)
  BY WorldFields
<1> QED BY <1>1 DEF WriteAll, Memory

\* Nothing is written to a process that has not been started.
LEMMA FreshWritten ==
  ASSUME NEW k, NEW w, Well(k, w), NEW to \in SUBSET Known(w), NEW msg, NEW p \in Pids, p >= w.m.next
  PROVE  Written(w, to, msg)[p] = w.inbox[p]
<1>1. ASSUME NEW s \in to, w.m.table[s].pid = p
      PROVE  FALSE
  <2>1. s \in Slots
    BY KnownAreSlots DEF Well
  <2>2. EntrySane(w, s) /\ w.m.next \in Nat
    BY <2>1, WorldFields DEF Well, Sane
  <2> QED BY <1>1, <2>2 DEF EntrySane, Pids
<1> QED BY <1>1 DEF Written

\* What is said to the children of a slot that they know nothing of spoils nothing.
LEMMA WriteAllAgrees ==
  ASSUME NEW k, NEW w, Well(k, w), NEW r, AgreeBut(w, r), NEW to \in SUBSET Known(w), NEW msg \in Message,
         msg.cmd \in {"open", "close"} /\ msg.slot \in Slots => msg.slot = r \/ ~Announced(w, msg.slot)
  PROVE  AgreeBut(WriteAll(w, to, msg), r)
<1> DEFINE a == WriteAll(w, to, msg)
           box == Written(w, to, msg)
<1>1. w \in Worlds(k) /\ w.child \in [Pids -> Process] /\ w.inbox \in [Pids -> Seq(Message)]
  BY WorldFields DEF Well
<1>2. /\ a.child = w.child /\ a.inbox = box /\ a.m.table = w.m.table
      /\ a.m.last = w.m.last /\ a.m.next = w.m.next /\ (~a.m.lost => ~w.m.lost)
  <2>1. LET b == WriteAll(w, to, msg) IN
        /\ b.child = w.child /\ b.inbox = Written(w, to, msg) /\ b.m.table = w.m.table
        /\ b.m.last = w.m.last /\ b.m.next = w.m.next
        /\ b.m.lost = (w.m.lost \/ \E s \in to : ~CanWrite(w, s))
    BY <1>1, WriteAllFields, Zenon
  <2> QED BY <2>1
<1> HIDE DEF a
<1>3. \A p \in Pids : p >= a.m.next => a.inbox[p] = <<>>
  BY <1>2, FreshWritten DEF AgreeBut
<1>4. \A s \in Slots : Announced(a, s) => Announced(w, s) /\ a.m.table[s].pid = w.m.table[s].pid
  BY <1>2 DEF Announced
<1>5. ASSUME NEW p \in Pids, Colleague(a, p)
      PROVE  Colleague(w, p) /\ a.child[p].slot = w.child[p].slot /\ Own(a, p)
  <2>1. Colleague(w, p)
    BY <1>2, <1>5 DEF Colleague, AliveIn
  <2>2. Own(w, p)
    BY <2>1 DEF AgreeBut
  <2> QED BY <1>2, <2>1, <2>2 DEF Own
<1>6. ASSUME NEW p \in Pids, NEW s \in Slots \ {r}, Announced(a, s)
      PROVE  Seen(a.child[p].view, a.inbox[p], s) = Seen(w.child[p].view, w.inbox[p], s)
  <2>1. ~(msg.cmd \in {"open", "close"} /\ msg.slot = s)
    BY <1>4, <1>6
  <2>2. box[p] \in {w.inbox[p], Append(w.inbox[p], msg)} /\ w.inbox[p] \in Seq(Message)
    BY <1>1 DEF Written
  <2>3. Seen(w.child[p].view, Append(w.inbox[p], msg), s) = Seen(w.child[p].view, w.inbox[p], s)
    BY <2>1, <2>2, SeenMore
  <2> HIDE DEF box
  <2> QED BY <1>2, <2>2, <2>3
<1>7. AgreeBut(a, r)
  BY <1>2, <1>3, <1>4, <1>5, <1>6, AgreeOn
<1> QED BY <1>7 DEF a

\* ngx_pass_open_channel: now all know who is in the slot.
LEMMA PassOpenAgrees ==
  ASSUME NEW k, NEW w, Well(k, w), NEW s \in Slots, AgreeBut(w, s)
  PROVE  Agree(PassOpenChannel(w, s))
<1> DEFINE to == {t \in Known(w) \ {s} : w.m.table[t].chan # "none"}
           msg == Msg("open", s, w.m.table[s].pid)
           a == WriteAll(w, to, msg)
<1>1. /\ w \in Worlds(k) /\ w.child \in [Pids -> Process] /\ w.inbox \in [Pids -> Seq(Message)]
      /\ w.m.table \in [Slots -> Entry] /\ w.m.last \in Nat /\ w.m.last <= MaxSlots
  BY WorldFields DEF Well
<1>2. msg \in Message /\ msg.cmd = "open" /\ msg.slot = s /\ msg.pid = w.m.table[s].pid
  BY <1>1, MasterAssumption DEF Msg, Message, Entry, Slots
<1>3. to \in SUBSET Known(w)
  OBVIOUS
<1>4. /\ a.child = w.child /\ a.inbox = Written(w, to, msg) /\ a.m.table = w.m.table
      /\ (~a.m.lost => ~w.m.lost /\ \A t \in to : CanWrite(w, t))
  <2> HIDE DEF to, msg
  <2>1. LET b == WriteAll(w, to, msg) IN
        /\ b.child = w.child /\ b.inbox = Written(w, to, msg) /\ b.m.table = w.m.table
        /\ b.m.last = w.m.last /\ b.m.next = w.m.next
        /\ b.m.lost = (w.m.lost \/ \E t \in to : ~CanWrite(w, t))
    BY <1>1, WriteAllFields, Zenon
  <2> QED BY <2>1
<1>5. PassOpenChannel(w, s) = a
  BY DEF PassOpenChannel
<1> HIDE DEF msg
<1>6. AgreeBut(a, s)
  BY <1>2, <1>3, WriteAllAgrees
<1>7. ASSUME NEW p \in Pids, Colleague(w, p), ~a.m.lost, w.child[p].slot # s
      PROVE  Seen(w.child[p].view, a.inbox[p], s) = w.m.table[s].pid
  <2> DEFINE t == w.child[p].slot
  <2>1. t \in Slots /\ t <= w.m.last /\ w.m.table[t].pid = p /\ w.m.table[t].chan = "open"
    BY <1>1, <1>7 DEF AgreeBut, Own, Process
  <2>2. t \in to
    BY <1>7, <2>1, MasterAssumption DEF Known, Slots, Pids, None
  <2>3. AliveIn(w, p) /\ CanWrite(w, t)
    BY <1>4, <1>7, <2>2 DEF Colleague
  <2> HIDE DEF a, t, to
  <2>4. a.inbox[p] = Append(w.inbox[p], msg)
    BY <1>4, <2>1, <2>2, <2>3 DEF Written
  <2>5. w.inbox[p] \in Seq(Message)
    BY <1>1
  <2> QED BY <1>2, <2>4, <2>5, SeenMore
<1> HIDE DEF a, to
<1>8. ASSUME NEW p \in Pids, Colleague(a, p), ~a.m.lost, NEW t \in Slots \ {a.child[p].slot, 0}, Announced(a, t)
      PROVE  Seen(a.child[p].view, a.inbox[p], t) = a.m.table[t].pid
  <2>1. Colleague(w, p)
    BY <1>4, <1>8 DEF Colleague, AliveIn
  <2>2. CASE t = s
    BY <1>4, <1>7, <1>8, <2>1, <2>2
  <2>3. CASE t # s
    BY <1>6, <1>8, <2>3 DEF AgreeBut, Informed
  <2> QED BY <2>2, <2>3
<1> QED BY <1>5, <1>6, <1>8 DEF Agree, AgreeBut, Informed

\* A channel of a slot without a living process.
LEMMA ChanAgrees ==
  ASSUME NEW k, NEW w, Well(k, w), Agree(w), NEW s \in Slots, w.m.table[s].pid = None \/ w.m.table[s].exited,
         NEW x \in {"none", "stale"}
  PROVE  LET a == With(w, [w.m EXCEPT !.table[s].chan = x]) IN Agree(a) /\ ~Announced(a, s)
<1> DEFINE a == With(w, [w.m EXCEPT !.table[s].chan = x])
           table == [w.m.table EXCEPT ![s] = [w.m.table[s] EXCEPT !.chan = x]]
<1>1. w.m \in Memory(k) /\ w.m.table \in [Slots -> Entry] /\ w.child \in [Pids -> Process]
  BY WorldFields DEF Well
<1>2. /\ a.child = w.child /\ a.inbox = w.inbox /\ a.m.table = table
      /\ a.m.last = w.m.last /\ a.m.next = w.m.next /\ a.m.lost = w.m.lost
  BY <1>1 DEF With, Memory
<1>3. table[s].chan = x /\ \A r \in Slots \ {s} : table[r] = w.m.table[r]
  BY <1>1 DEF Entry
<1> HIDE DEF a, table
<1>4. ~Announced(a, s)
  BY <1>2, <1>3 DEF Announced
<1>5. \A r \in Slots : Announced(a, r) => Announced(w, r) /\ a.m.table[r].pid = w.m.table[r].pid
  BY <1>2, <1>3, <1>4 DEF Announced
<1>6. ASSUME NEW p \in Pids, Colleague(a, p)
      PROVE  Colleague(w, p) /\ Own(a, p)
  <2>1. Colleague(w, p)
    BY <1>2, <1>6 DEF Colleague, AliveIn
  <2>2. Own(w, p) /\ w.child[p].slot \in Slots
    BY <1>1, <2>1 DEF Agree, AgreeBut, Process
  <2>3. w.child[p].slot # s
    BY <2>2 DEF Own, Pids, None
  <2> QED BY <1>2, <1>3, <2>1, <2>2, <2>3 DEF Own
<1>7. \A p \in Pids : p >= a.m.next => a.inbox[p] = <<>>
  BY <1>2 DEF Agree, AgreeBut
<1>8. Agree(a)
  BY <1>2, <1>5, <1>6, <1>7, AgreeOn DEF Agree
<1> QED BY <1>4, <1>8 DEF a

\* Who is started knows the others, which hear of it next.
LEMMA ForkedAgrees ==
  ASSUME NEW k, k.gen \in DOMAIN Confs, NEW w, Well(k, w), Agree(w), NEW s \in Slots, NEW kind, NEW mode,
         Placed(w, s, kind, mode), w.m.next \in Pids
  PROVE  LET a == ForkedWorld(w, s, kind, mode) IN AgreeBut(a, s) /\ (mode = "detached" => Agree(a))
<1> DEFINE a == ForkedWorld(w, s, kind, mode)
           e == Entered(w, s, kind, mode)
           c == Born(w, s, kind)
           q == w.m.next
<1>1. /\ w \in Worlds(k) /\ EntrySane(w, s) /\ w.m.table \in [Slots -> Entry] /\ w.child \in [Pids -> Process]
      /\ w.m.last \in Nat /\ w.m.next \in Nat /\ w.m \in Memory(k)
  BY WorldFields DEF Well, Sane
<1>2. /\ a.m.next = q + 1 /\ a.inbox = w.inbox /\ a.m.table = [w.m.table EXCEPT ![s] = e]
      /\ a.m.last = (IF s > w.m.last THEN s ELSE w.m.last) /\ a.child = [w.child EXCEPT ![q] = c]
  BY <1>1, ForkedTyped DEF Grown
<1>3. a.m.lost = w.m.lost
  BY <1>1 DEF ForkedWorld, Memory
<1>4. e \in Entry /\ e.pid = q /\ e.kind = kind /\ ~e.exited /\ e.chan = IF mode = "detached" THEN "none" ELSE "open"
  <2>1. e \in Entry /\ e.pid = q /\ e.kind = kind /\ ~e.exited
    BY <1>1, EnteredIs
  <2>2. e.chan = IF mode = "detached" THEN "none" ELSE "open"
    <3>1. w.m.table[s] \in Entry
      BY <1>1
    <3> QED BY <3>1 DEF Entered, Entry
  <2> QED BY <2>1, <2>2
<1>5. /\ c.kind = kind /\ c.slot = s
      /\ \A t \in Slots \ {s} : w.m.table[t].chan = "open" => c.view[t] = w.m.table[t].pid
  <2> DEFINE view == [t \in Slots |-> IF t # s /\ w.m.table[t].chan = "open" THEN w.m.table[t].pid ELSE None]
  <2>1. c.kind = kind /\ c.slot = s /\ c.view = view
    BY DEF Born, Unborn
  <2> QED BY <2>1
<1>6. kind = "binary" <=> mode = "detached"
  BY <1>1 DEF Placed, EntrySane
<1> HIDE DEF a, e, c
<1>7. a.m.table[s] = e /\ \A t \in Slots \ {s} : a.m.table[t] = w.m.table[t]
  BY <1>1, <1>2
<1>8. a.child[q] = c /\ \A p \in Pids \ {q} : a.child[p] = w.child[p]
  BY <1>1, <1>2
<1>9. \A p \in Pids : p >= a.m.next => a.inbox[p] = <<>>
  BY <1>1, <1>2 DEF Agree, AgreeBut, Pids
<1>10. \A t \in Slots \ {s} : Announced(a, t) => Announced(w, t)
  BY <1>7 DEF Announced
<1>11. ASSUME Colleague(a, q)
       PROVE  Own(a, q) /\ Informed(a, q, s)
  <2>1. mode # "detached"
    BY <1>5, <1>6, <1>8, <1>11 DEF Colleague
  <2>2. Own(a, q)
    BY <1>1, <1>2, <1>4, <1>5, <1>7, <1>8, <2>1 DEF Own, Slots
  <2>3. w.inbox[q] = <<>>
    BY <1>1 DEF Agree, AgreeBut, Pids
  <2>4. ASSUME NEW t \in Slots \ {s}, Announced(a, t)
        PROVE  Seen(a.child[q].view, a.inbox[q], t) = a.m.table[t].pid
    <3>1. Seen(c.view, <<>>, t) = c.view[t]
      BY SeenNothing
    <3>2. c.view[t] = w.m.table[t].pid
      BY <1>5, <1>10, <2>4 DEF Announced
    <3> QED BY <1>2, <1>7, <1>8, <2>3, <3>1, <3>2
  <2> QED BY <2>2, <2>4 DEF Informed
<1>12. ASSUME NEW p \in Pids \ {q}, Colleague(a, p)
       PROVE  Own(a, p) /\ (~a.m.lost => Informed(a, p, s))
  <2>1. Colleague(w, p) /\ w.child[p].slot \in Slots
    BY <1>1, <1>8, <1>12 DEF Colleague, AliveIn, Process
  <2>2. Own(w, p) /\ (~w.m.lost => Informed(w, p, 0))
    BY <2>1 DEF Agree, AgreeBut
  <2>3. w.child[p].slot # s
    BY <2>2 DEF Own, Placed, Pids, None
  <2>4. Own(a, p)
    BY <1>1, <1>2, <1>7, <1>8, <2>1, <2>2, <2>3 DEF Own, Slots
  <2>5. ASSUME ~a.m.lost, NEW t \in Slots \ {a.child[p].slot, s}, Announced(a, t)
        PROVE  Seen(a.child[p].view, a.inbox[p], t) = a.m.table[t].pid
    <3>1. t # 0
      BY DEF Slots
    <3> QED BY <1>2, <1>3, <1>7, <1>8, <1>10, <2>2, <2>5, <3>1 DEF Informed
  <2> QED BY <2>4, <2>5 DEF Informed
<1>13. AgreeBut(a, s)
  BY <1>9, <1>11, <1>12 DEF AgreeBut
<1>14. mode = "detached" => Agree(a)
  BY <1>4, <1>7, <1>13, AgreeAll DEF Announced
<1> QED BY <1>13, <1>14 DEF a

\* ngx_spawn_process.
LEMMA SpawnAtAgrees ==
  ASSUME NEW k, k.gen \in DOMAIN Confs, NEW w, Well(k, w), Agree(w), NEW s, NEW kind, NEW mode, NEW ok,
         Placed(w, s, kind, mode)
  PROVE  LET a == SpawnAt(w, s, kind, mode, ok) IN
         /\ Spawned(w, a) => s \in Slots /\ AgreeBut(a, s)
         /\ mode = "detached" \/ ~Spawned(w, a) => Agree(a)
<1> DEFINE x == IF mode = "detached" THEN "none" ELSE "stale"
           a == With(w, [w.m EXCEPT !.table[s].chan = x])
           b == ForkedWorld(w, s, kind, mode)
<1>0. x \in {"none", "stale"} /\ w.m \in Memory(k) /\ w.m.next \in Nat \ {0}
  BY WorldFields DEF Well
<1>1. SpawnAt(w, s, kind, mode, ok) = IF s > MaxSlots \/ w.m.next > MaxPid THEN w ELSE IF ~ok THEN a ELSE b
  BY SpawnAtIs
<1>2. CASE s > MaxSlots \/ w.m.next > MaxPid
  BY <1>1, <1>2 DEF Spawned
<1>3. CASE ~(s > MaxSlots \/ w.m.next > MaxPid)
  <2>1. s \in Slots /\ w.m.next \in Pids
    BY <1>0, <1>3, MasterAssumption DEF Placed, Slots, Pids
  <2>2. CASE ~ok
    <3>1. a.m.next = w.m.next
      BY <1>0 DEF With, Memory
    <3> HIDE DEF x
    <3>2. Agree(a)
      BY <1>0, <2>1, ChanAgrees DEF Placed
    <3> HIDE DEF a
    <3> QED BY <1>1, <1>3, <2>2, <3>1, <3>2 DEF Spawned
  <2>3. CASE ok
    <3>1. AgreeBut(b, s) /\ (mode = "detached" => Agree(b))
      BY <2>1, ForkedAgrees
    <3>2. b.m.next = w.m.next + 1
      BY <2>1, ForkedTyped DEF Well, Sane
    <3> HIDE DEF b
    <3>3. b.m.next # w.m.next
      BY <1>0, <3>2
    <3> QED BY <1>1, <1>3, <2>1, <2>3, <3>1, <3>3 DEF Spawned
  <2> QED BY <2>2, <2>3
<1> QED BY <1>2, <1>3

\* ngx_spawn_process and ngx_pass_open_channel.
LEMMA SpawnAgrees ==
  ASSUME NEW k, k.gen \in DOMAIN Confs, NEW w, Well(k, w), Agree(w), NEW kind \in Kinds \ {"binary"},
         NEW mode \in Modality \ {"detached", "again"}, NEW ok
  PROVE  LET a == Spawn(w, kind, mode, ok) IN Well(k, a) /\ Agree(a)
<1> DEFINE s == FreeSlot(w)
           a == SpawnAt(w, s, kind, mode, ok)
           b == PassOpenChannel(a, s)
<1>1. s \in 1 .. w.m.last + 1 /\ (s \in Slots => w.m.table[s].pid = None)
  BY FreeSlotIs DEF Well, Sane
<1>2. w.m.last \in Nat
  BY WorldFields DEF Well
<1>3. Placed(w, s, kind, mode)
  BY <1>1, <1>2 DEF Placed
<1>4. Spawn(w, kind, mode, ok) = (IF Spawned(w, a) THEN b ELSE a) /\ Well(k, Spawn(w, kind, mode, ok))
  BY SpawnWell DEF Spawn
<1> HIDE DEF s
<1>5. Well(k, a) /\ (Spawned(w, a) => s \in Slots /\ AgreeBut(a, s)) /\ (~Spawned(w, a) => Agree(a))
  BY <1>3, SpawnAtWell, SpawnAtAgrees
<1> HIDE DEF a
<1>6. Spawned(w, a) => Agree(b)
  BY <1>5, PassOpenAgrees
<1> HIDE DEF b
<1> QED BY <1>4, <1>5, <1>6

\* ngx_start_worker_processes.
LEMMA StartWorkersAgree ==
  ASSUME NEW k, k.gen \in DOMAIN Confs, NEW w, Well(k, w), Agree(w), NEW mode \in {"respawn", "justrespawn"}, NEW ok
  PROVE  LET a == StartWorkerProcesses(w, mode, ok) IN Well(k, a) /\ Agree(a)
<1>0. Workers \in Nat /\ mode \in Modality \ {"detached", "again"} /\ "worker" \in Kinds \ {"binary"}
  BY MasterAssumption DEF Modality, Kinds
<1>1. PICK f : f = (CHOOSE g : Starts(g, w, mode, ok, Workers)) /\ Starts(f, w, mode, ok, Workers)
  BY <1>0, StartsExist
<1>2. \A i \in 0 .. Workers : f[i] = IF i = 0 THEN w ELSE Spawn(f[i - 1], "worker", mode, ok)
  BY <1>1 DEF Starts
<1> DEFINE T == {i \in 0 .. Workers : ~(Well(k, f[i]) /\ Agree(f[i]))}
<1>3. T = {}
  <2> SUFFICES ASSUME T # {} PROVE FALSE
    OBVIOUS
  <2>0. T \in SUBSET Nat
    OBVIOUS
  <2>1. PICK j \in T : \A y \in T : j <= y
    BY <2>0, LeastNumber
  <2>2. CASE j = 0
    BY <1>2, <2>1, <2>2
  <2>3. CASE j # 0
    <3>1. j \in 0 .. Workers /\ j - 1 \in 0 .. Workers /\ j - 1 \notin T
      BY <1>0, <2>1, <2>3
    <3>2. Well(k, f[j - 1]) /\ Agree(f[j - 1])
      BY <3>1
    <3>3. f[j] = Spawn(f[j - 1], "worker", mode, ok)
      BY <1>2, <2>3, <3>1
    <3>4. Well(k, f[j]) /\ Agree(f[j])
      BY <1>0, <3>2, <3>3, SpawnAgrees
    <3> QED BY <2>1, <3>4
  <2> QED BY <2>2, <2>3
<1>4. Well(k, f[Workers]) /\ Agree(f[Workers])
  BY <1>0, <1>3
<1>5. StartWorkerProcesses(w, mode, ok) = f[Workers]
  BY <1>1, StartsIs
<1> QED BY <1>4, <1>5

\* ngx_start_cache_manager_processes.
LEMMA StartCacheAgrees ==
  ASSUME NEW k, k.gen \in DOMAIN Confs, NEW w, Well(k, w), Agree(w), NEW again \in BOOLEAN, NEW ok
  PROVE  Agree(StartCacheManagerProcesses(w, again, ok))
<1> DEFINE x == IF again THEN "justrespawn" ELSE "respawn"
           y == IF again THEN "justspawn" ELSE "norespawn"
           a == Spawn(w, "manager", x, ok)
           b == Spawn(a, "loader", y, ok)
<1>1. x \in Modality \ {"detached", "again"} /\ y \in Modality \ {"detached", "again"}
  BY DEF Modality
<1>2. "manager" \in Kinds \ {"binary"} /\ "loader" \in Kinds \ {"binary"}
  BY DEF Kinds, Helpers
<1>3. StartCacheManagerProcesses(w, again, ok) \in {w, a, b}
  BY DEF StartCacheManagerProcesses
<1> HIDE DEF x, y
<1>4. Well(k, a) /\ Agree(a)
  BY <1>1, <1>2, SpawnAgrees
<1> HIDE DEF a
<1>5. Agree(b)
  BY <1>1, <1>2, <1>4, SpawnAgrees
<1> QED BY <1>3, <1>4, <1>5

\* A cycle that is started.
LEMMA StartAllAgrees ==
  ASSUME NEW k, k.gen \in DOMAIN Confs, NEW w, Well(k, w), Agree(w), NEW mode \in {"respawn", "justrespawn"}, NEW ok
  PROVE  Agree(StartAll(w, mode, ok))
<1> DEFINE b == StartWorkerProcesses(w, mode, ok)
           a == StartAll(w, mode, ok)
           again == mode = "justrespawn"
<1>1. Well(k, b) /\ Agree(b)
  BY StartWorkersAgree
<1>2. a = StartCacheManagerProcesses(b, again, ok) /\ again \in BOOLEAN
  BY DEF StartAll
<1> HIDE DEF a, b, again
<1>3. Agree(a)
  BY <1>1, <1>2, StartCacheAgrees
<1> QED BY <1>3 DEF a

\* What else the master remembers is no matter.
LEMMA MemoryAgrees ==
  ASSUME NEW j, NEW w, Well(j, w), NEW r, AgreeBut(w, r), NEW x, x.table = w.m.table, x.last = w.m.last,
         x.next = w.m.next, x.lost = w.m.lost
  PROVE  AgreeBut(With(w, x), r)
<1>1. With(w, x).m = x /\ With(w, x).child = w.child /\ With(w, x).inbox = w.inbox
  BY DEF With
<1>2. w.child \in [Pids -> Process]
  BY WorldFields DEF Well
<1> QED BY <1>1, <1>2, AgreeSame

\* The channel of a dead process is closed.
LEMMA ChannelClosedAgrees ==
  ASSUME NEW k, NEW w, Well(k, w), Agree(w), NEW s \in Slots, w.m.table[s].exited, NEW cmd \in {"open", "close"}
  PROVE  Agree(ChannelClosed(w, s, cmd))
<1> DEFINE e == w.m.table[s]
           b == With(w, [w.m EXCEPT !.table[s].chan = "none"])
           msg == Msg(cmd, s, e.pid)
           a == WriteAll(b, Others(w), msg)
<1>1. ChannelClosed(w, s, cmd) = IF e.detached THEN w ELSE a
  BY DEF ChannelClosed
<1>2. w \in Worlds(k) /\ Bounded(w) /\ Sane(w) /\ w.m.table \in [Slots -> Entry]
  BY WorldFields DEF Well, Sane
<1>3. msg \in Message /\ msg.slot = s
  BY <1>2, MasterAssumption DEF Msg, Message, Entry, Slots
<1>4. b \in Worlds(k) /\ Bounded(b) /\ Like(w, b)
  BY <1>2, ChannelSet
<1>5. Agree(b) /\ ~Announced(b, s)
  BY ChanAgrees
<1> HIDE DEF b, msg
<1>6. Well(k, b)
  BY <1>2, <1>4, LikeSane DEF Well
<1>7. Others(w) \in SUBSET Known(b)
  <2>1. Known(w) \subseteq Slots
    BY <1>2, KnownAreSlots
  <2> QED BY <1>4, <2>1 DEF Others, Known, Like, SameEntry
<1>8. Agree(a)
  BY <1>3, <1>5, <1>6, <1>7, WriteAllAgrees DEF Agree
<1> HIDE DEF a
<1> QED BY <1>1, <1>8

\* A process that is started again.
LEMMA RespawnAgrees ==
  ASSUME NEW k, k.gen \in DOMAIN Confs, NEW w, Well(k, w), Agree(w), NEW s \in Slots, s <= w.m.last,
         w.m.table[s].exited, w.m.table[s].respawn, NEW ok
  PROVE  Agree(Respawn(w, s, ok))
<1> DEFINE kind == w.m.table[s].kind
           a == SpawnAt(w, s, kind, "again", ok)
           x == [a.m EXCEPT !.live = TRUE]
           b == With(a, x)
           c == PassOpenChannel(b, s)
<1>1. Respawn(w, s, ok) = IF Spawned(w, a) THEN c ELSE a
  BY DEF Respawn
<1>2. Placed(w, s, kind, "again")
  <2>1. w.m.table[s] \in Entry /\ EntrySane(w, s) /\ w.m.last \in Nat
    BY WorldFields DEF Well, Sane
  <2> QED BY <2>1 DEF Placed, Modality, EntrySane, Slots, Entry
<1> HIDE DEF kind
<1>3. Well(k, a) /\ (Spawned(w, a) => AgreeBut(a, s)) /\ (~Spawned(w, a) => Agree(a))
  BY <1>2, SpawnAtWell, SpawnAtAgrees
<1> HIDE DEF a
<1>4. x \in Memory(k) /\ x.table = a.m.table /\ x.last = a.m.last /\ x.next = a.m.next /\ x.lost = a.m.lost
  <2>1. a.m \in Memory(k)
    BY <1>3, WorldFields DEF Well
  <2> QED BY <2>1 DEF Memory
<1> HIDE DEF x
<1>5. Well(k, b)
  BY <1>3, <1>4, MemoryWell
<1>6. Spawned(w, a) => AgreeBut(b, s)
  BY <1>3, <1>4, MemoryAgrees
<1> HIDE DEF b
<1>7. Spawned(w, a) => Agree(c)
  BY <1>5, <1>6, PassOpenAgrees
<1> HIDE DEF c
<1> QED BY <1>1, <1>3, <1>7

\* A dead process that is forgotten.
LEMMA ForgetAgrees ==
  ASSUME NEW k, NEW w, Well(k, w), Agree(w), NEW s \in Slots, s <= w.m.last, w.m.table[s].exited
  PROVE  Agree(Forget(w, s))
<1> DEFINE binary == w.m.table[s].pid = w.m.newBinary
           nb == IF binary THEN None ELSE w.m.newBinary
           na == w.m.noaccepting /\ ~binary
           flags == IF binary /\ w.m.noaccepting THEN w.m.flags \cup {"restart"} ELSE w.m.flags
           last == IF s = w.m.last THEN w.m.last - 1 ELSE w.m.last
           table == [w.m.table EXCEPT ![s] = Empty]
           x == [w.m EXCEPT !.newBinary = nb, !.noaccepting = na, !.flags = flags, !.last = last, !.table = table]
           a == With(w, x)
<1>1. Forget(w, s) = a
  BY DEF Forget
<1>2. /\ w.m \in Memory(k) /\ w.m.table \in [Slots -> Entry] /\ w.m.last \in Nat /\ w.child \in [Pids -> Process]
      /\ w.m.last <= MaxSlots
  BY WorldFields DEF Well
<1>3. a.m = x /\ a.child = w.child /\ a.inbox = w.inbox
  BY DEF With
<1>4. table[s] = Empty /\ \A r \in Slots \ {s} : table[r] = w.m.table[r] /\ (r <= w.m.last => r <= last)
  <2>1. table[s] = Empty /\ \A r \in Slots \ {s} : table[r] = w.m.table[r]
    BY <1>2
  <2>2. \A r \in Slots \ {s} : r <= w.m.last => r <= last
    BY <1>2 DEF Slots
  <2> QED BY <2>1, <2>2
<1> HIDE DEF a, nb, na, flags, last, table
<1>5. x.table = table /\ x.last = last /\ x.next = w.m.next /\ x.lost = w.m.lost
  BY <1>2 DEF Memory
<1> HIDE DEF x
<1>6. \A r \in Slots : Announced(a, r) => Announced(w, r) /\ a.m.table[r].pid = w.m.table[r].pid
  BY <1>3, <1>4, <1>5 DEF Announced, Empty
<1>7. ASSUME NEW p \in Pids, Colleague(a, p)
      PROVE  Colleague(w, p) /\ Own(a, p)
  <2>1. Colleague(w, p)
    BY <1>3, <1>7 DEF Colleague, AliveIn
  <2>2. Own(w, p) /\ w.child[p].slot \in Slots
    BY <1>2, <2>1 DEF Agree, AgreeBut, Process
  <2>3. w.child[p].slot # s
    BY <2>2 DEF Own
  <2> QED BY <1>3, <1>4, <1>5, <2>1, <2>2, <2>3 DEF Own
<1>8. \A p \in Pids : p >= a.m.next => a.inbox[p] = <<>>
  BY <1>3, <1>5 DEF Agree, AgreeBut
<1>9. Agree(a)
  BY <1>3, <1>5, <1>6, <1>7, <1>8, AgreeOn DEF Agree
<1> QED BY <1>1, <1>9

\* One slot.
LEMMA ReapSlotAgrees ==
  ASSUME NEW k, k.gen \in DOMAIN Confs, NEW w, Well(k, w), Agree(w), NEW s \in Slots, NEW ok,
         NEW cmd \in {"open", "close"}
  PROVE  Agree(ReapSlot(w, s, ok, cmd))
<1> DEFINE e == w.m.table[s]
           c == ChannelClosed(w, s, cmd)
           x == [w.m EXCEPT !.live = @ \/ IsLive(e)]
           b == With(w, x)
           a == ReapSlot(w, s, ok, cmd)
<1>1. w.m \in Memory(k) /\ w.m.last \in Nat /\ e \in Entry /\ s \in Nat
  <2>1. w.m \in Memory(k) /\ w.m.last \in Nat /\ w.m.table \in [Slots -> Entry]
    BY WorldFields DEF Well
  <2> QED BY <2>1, MasterAssumption DEF Slots
<1>2. CASE s > w.m.last \/ e.pid = None
  BY <1>2 DEF ReapSlot
<1>3. CASE ~(s > w.m.last \/ e.pid = None) /\ ~e.exited
  <2>1. a = b
    BY <1>3 DEF ReapSlot
  <2>2. x.table = w.m.table /\ x.last = w.m.last /\ x.next = w.m.next /\ x.lost = w.m.lost
    BY <1>1 DEF Memory
  <2> HIDE DEF x
  <2>3. Agree(b)
    BY <2>2, MemoryAgrees DEF Agree
  <2> HIDE DEF b
  <2> QED BY <2>1, <2>3
<1>4. CASE ~(s > w.m.last \/ e.pid = None) /\ e.exited
  <2>1. Well(k, c) /\ Like(w, c) /\ Agree(c)
    BY <1>4, ChannelClosedWell, ChannelClosedAgrees
  <2>2. a = IF MayRespawn(w, s) THEN Respawn(c, s, ok) ELSE Forget(c, s)
    BY <1>4 DEF ReapSlot
  <2> HIDE DEF a, c
  <2>3. s <= c.m.last /\ c.m.table[s].exited /\ c.m.table[s].respawn = e.respawn
    BY <1>1, <1>4, <2>1 DEF Like, SameEntry
  <2>4. CASE MayRespawn(w, s)
    <3>1. c.m.table[s].respawn
      BY <2>3, <2>4 DEF MayRespawn
    <3>2. Agree(a)
      BY <2>1, <2>2, <2>3, <2>4, <3>1, RespawnAgrees
    <3> QED BY <3>2 DEF a
  <2>5. CASE ~MayRespawn(w, s)
    <3>1. Agree(a)
      BY <2>1, <2>2, <2>3, <2>5, ForgetAgrees
    <3> QED BY <3>1 DEF a
  <2> QED BY <2>4, <2>5
<1> QED BY <1>2, <1>3, <1>4

\* ngx_reap_children.
LEMMA ReapChildrenAgree ==
  ASSUME NEW k, k.gen \in DOMAIN Confs, NEW w, Well(k, w), OneBinaryIn(w), Agree(w), NEW ok
  PROVE  Agree(ReapChildren(w, ok))
<1> DEFINE x == [w.m EXCEPT !.live = FALSE, !.flags = @ \ {"reap"}]
           first == With(w, x)
           a == ReapChildren(w, ok)
<1>0. MaxSlots \in Nat
  BY MasterAssumption
<1>1. PICK f : f = (CHOOSE g : Reaps(g, w, ok, MaxSlots)) /\ Reaps(f, w, ok, MaxSlots)
  BY <1>0, ReapsExist
<1>2. /\ a = f[MaxSlots]
      /\ \A s \in 0 .. MaxSlots : f[s] = IF s = 0 THEN first ELSE ReapSlot(f[s - 1], s, ok, Command(w, f[s - 1]))
  BY <1>1, ReapsIs DEF Reaps
<1>3. Well(k, first) /\ OneBinaryIn(first) /\ Cleared(first, 0) /\ Agree(first)
  <2>1. /\ x \in Memory(k) /\ x.table = w.m.table /\ x.last = w.m.last /\ x.next = w.m.next
        /\ x.newBinary = w.m.newBinary /\ x.lost = w.m.lost
    <3>1. w.m \in Memory(k)
      BY WorldFields DEF Well
    <3> QED BY <3>1 DEF Memory
  <2> HIDE DEF x
  <2>2. Well(k, first) /\ BinariesOf(first) = BinariesOf(w) /\ first.m = x
    BY <2>1, MemoryWell
  <2>3. Cleared(first, 0)
    BY DEF Cleared, Slots
  <2>4. Agree(first)
    BY <2>1, MemoryAgrees DEF Agree
  <2> HIDE DEF first
  <2> QED BY <2>1, <2>2, <2>3, <2>4 DEF OneBinaryIn
<1> HIDE DEF a, first
<1> DEFINE Good(s) == Well(k, f[s]) /\ OneBinaryIn(f[s]) /\ Cleared(f[s], s) /\ Agree(f[s])
           T == {s \in 0 .. MaxSlots : ~Good(s)}
<1>4. T = {}
  <2> SUFFICES ASSUME T # {} PROVE FALSE
    OBVIOUS
  <2>0. T \in SUBSET Nat
    OBVIOUS
  <2>1. PICK s \in T : \A y \in T : s <= y
    BY <2>0, LeastNumber
  <2>2. CASE s = 0
    BY <1>0, <1>2, <1>3, <2>1, <2>2
  <2>3. CASE s # 0
    <3>1. s \in Slots /\ s - 1 \in 0 .. MaxSlots /\ s - 1 \notin T
      BY <1>0, <2>1, <2>3 DEF Slots
    <3>2. Good(s - 1)
      BY <3>1
    <3>3. f[s] = ReapSlot(f[s - 1], s, ok, Command(w, f[s - 1]))
      BY <1>2, <2>3, <3>1 DEF Slots
    <3>4. Well(k, f[s]) /\ OneBinaryIn(f[s]) /\ Cleared(f[s], s)
      BY <3>1, <3>2, <3>3, ReapSlotWell DEF Command
    <3>5. Agree(f[s])
      BY <3>1, <3>2, <3>3, ReapSlotAgrees DEF Command
    <3> QED BY <2>1, <3>4, <3>5
  <2> QED BY <2>2, <2>3
<1>5. Agree(a)
  BY <1>0, <1>2, <1>4
<1> QED BY <1>5 DEF a

\* ngx_signal_worker_processes names no slot, and nobody alive is missed.
LEMMA SignalAgrees ==
  ASSUME NEW k, NEW w, Well(k, w), Agree(w), NEW sig \in Orders
  PROVE  Agree(SignalWorkers(w, sig))
<1> DEFINE a == SignalWorkers(w, sig)
           miss == Missed(w, sig)
           table == [s \in Slots |-> Signalled(w, s, sig)]
           flags == w.m.flags \cup (IF miss = {} THEN {} ELSE {"reap"})
           to == ByChannel(w, sig)
           msg == Msg(sig, None, None)
           hit(p) == AliveIn(w, p) /\ \E s \in Killed(w, sig) : w.m.table[s].pid = p
           child1 == [p \in Pids |-> IF hit(p) THEN Deliver(w.child[p], sig) ELSE w.child[p]]
<1>1. /\ w \in Worlds(k) /\ w.m \in Memory(k) /\ w.child \in [Pids -> Process] /\ w.inbox \in [Pids -> Seq(Message)]
      /\ w.m.table \in [Slots -> Entry]
  BY WorldFields DEF Well
<1>2. a.inbox = Written(w, to, msg) /\ a.child = child1 /\ a.m = [w.m EXCEPT !.table = table, !.flags = flags]
  BY DEF SignalWorkers
<1>3. msg \in Message /\ msg.cmd \notin {"open", "close"}
  BY MasterAssumption DEF Msg, Message, Orders, None
<1>4. to \in SUBSET Known(w)
  BY DEF ByChannel, Told
<1>5. ASSUME NEW p \in Pids
      PROVE  /\ AliveIn(a, p) => AliveIn(w, p)
             /\ a.child[p].kind = w.child[p].kind /\ a.child[p].slot = w.child[p].slot
             /\ a.child[p].view = w.child[p].view
  <2> DEFINE c == w.child[p]
             d == Deliver(c, sig)
  <2>1. c \in Process /\ a.child[p] \in {c, d} /\ (~hit(p) => a.child[p] = c)
    BY <1>1, <1>2
  <2>2. d.kind = c.kind /\ d.slot = c.slot /\ d.view = c.view
    BY <2>1 DEF Deliver, Process
  <2>3. hit(p) => AliveIn(w, p)
    OBVIOUS
  <2> HIDE DEF d, hit, a
  <2> QED BY <2>1, <2>2, <2>3 DEF AliveIn
<1>6. ASSUME NEW s \in Slots
      PROVE  LET d == w.m.table[s]  e == table[s] IN
             /\ e.pid = d.pid /\ e.chan = d.chan /\ (e.exited => d.exited \/ s \in miss)
             /\ d.exited => e.exited
  <2>1. w.m.table[s] \in Entry /\ table[s] = Signalled(w, s, sig)
    BY <1>1
  <2>2. s \in miss => s \notin Spared(w)
    BY DEF Missed, Told, Spared
  <2>3. Signalled(w, s, sig).exited = (w.m.table[s].exited \/ s \in miss)
    BY <1>1, SignalledIs
  <2> HIDE DEF table, miss
  <2>4. Signalled(w, s, sig).pid = w.m.table[s].pid /\ Signalled(w, s, sig).chan = w.m.table[s].chan
    BY <2>1 DEF Signalled, Entry
  <2> QED BY <2>1, <2>3, <2>4
<1>7. \A s \in miss : s \in Known(w) /\ w.child[w.m.table[s].pid].st = "gone"
  BY DEF Missed, Told
<1> HIDE DEF a, miss, table, flags, to, msg, hit, child1
<1>8. a.m.table = table /\ a.m.last = w.m.last /\ a.m.next = w.m.next /\ a.m.lost = w.m.lost
  BY <1>1, <1>2 DEF Memory
<1>9. \A p \in Pids : p >= a.m.next => a.inbox[p] = <<>>
  BY <1>2, <1>4, <1>8, FreshWritten DEF Agree, AgreeBut
<1>10. \A s \in Slots : Announced(a, s) => Announced(w, s) /\ a.m.table[s].pid = w.m.table[s].pid
  BY <1>6, <1>8 DEF Announced
<1>11. ASSUME NEW p \in Pids, Colleague(a, p)
       PROVE  Colleague(w, p) /\ a.child[p].slot = w.child[p].slot /\ Own(a, p)
  <2>1. Colleague(w, p) /\ a.child[p].slot = w.child[p].slot /\ w.child[p].slot \in Slots
    BY <1>1, <1>5, <1>11 DEF Colleague, Process
  <2>2. Own(w, p) /\ AliveIn(w, p)
    BY <2>1 DEF Agree, AgreeBut, Colleague
  <2>3. w.child[p].slot \notin miss
    BY <1>7, <2>2 DEF Own, AliveIn
  <2> QED BY <1>6, <1>8, <2>1, <2>2, <2>3 DEF Own
<1>12. ASSUME NEW p \in Pids, NEW s \in Slots
       PROVE  Seen(a.child[p].view, a.inbox[p], s) = Seen(w.child[p].view, w.inbox[p], s)
  <2>1. a.inbox[p] \in {w.inbox[p], Append(w.inbox[p], msg)} /\ w.inbox[p] \in Seq(Message)
    BY <1>1, <1>2 DEF Written
  <2>2. Seen(w.child[p].view, Append(w.inbox[p], msg), s) = Seen(w.child[p].view, w.inbox[p], s)
    BY <1>3, <2>1, SeenMore
  <2> QED BY <1>5, <2>1, <2>2
<1>13. Agree(a)
  BY <1>8, <1>9, <1>10, <1>11, <1>12, AgreeOn DEF Agree
<1> QED BY <1>13 DEF a

\* The world that a step leaves.
LEMMA AgreeWorld ==
  ASSUME NEW a, Become(a), Agree(a)
  PROVE  Agree(World)'
<1>1. World'.m = a.m /\ World'.child = a.child /\ World'.inbox = a.inbox
  BY DEF Become, World
<1>2. \A p \in Pids : Colleague(World, p)' <=> Colleague(a, p)
  BY <1>1 DEF Colleague, AliveIn
<1>3. \A p \in Pids : Own(World, p)' <=> Own(a, p)
  BY <1>1 DEF Own
<1>4. \A s \in Slots : Announced(World, s)' <=> Announced(a, s)
  BY <1>1 DEF Announced
<1>5. \A p \in Pids : Informed(World, p, 0)' <=> Informed(a, p, 0)
  BY <1>1, <1>4 DEF Informed
<1> QED BY <1>1, <1>2, <1>3, <1>5 DEF Agree, AgreeBut

\* A memory with the same table of processes.
Heir(k, x) == Alike(k, x) /\ x.lost = m.lost

\* ... is that of a world in which all agree.
LEMMA HeirAgrees ==
  ASSUME Strong, Agree(World), NEW k, NEW x, Heir(k, x)
  PROVE  LET w == With(World, x) IN Well(k, w) /\ Agree(w)
<1>1. Well(k, With(World, x))
  BY AlikeWell DEF Heir, Strong
<1>2. World.m = m /\ Well(m, World)
  BY MasterFields DEF Strong, Sound
<1>3. Agree(With(World, x))
  BY <1>2, MemoryAgrees DEF Heir, Alike, Agree
<1> QED BY <1>1, <1>3

\* A step that changes the memory only, ...
LEMMA MemoryStepAgrees ==
  ASSUME Strong, Agree(World), NEW k, NEW x, Heir(k, x), Become(With(World, x))
  PROVE  Agree(World)'
BY HeirAgrees, AgreeWorld

\* ... that starts a cycle, ...
LEMMA StartStepAgrees ==
  ASSUME Strong, Agree(World), NEW k, k.gen \in DOMAIN Confs, NEW x, Heir(k, x),
         NEW mode \in {"respawn", "justrespawn"}, NEW ok, Become(StartAll(With(World, x), mode, ok))
  PROVE  Agree(World)'
<1> DEFINE w == With(World, x)
           a == StartAll(w, mode, ok)
<1>1. Well(k, w) /\ Agree(w) /\ Become(a)
  BY HeirAgrees
<1> HIDE DEF w
<1>2. Agree(a)
  BY <1>1, StartAllAgrees
<1> HIDE DEF a
<1> QED BY <1>1, <1>2, AgreeWorld

\* ... or that signals the children.
LEMMA SignalStepAgrees ==
  ASSUME Strong, Agree(World), NEW k, NEW x, Heir(k, x), NEW sig \in Orders,
         Become(SignalWorkers(With(World, x), sig))
  PROVE  Agree(World)'
<1> DEFINE w == With(World, x)
           a == SignalWorkers(w, sig)
<1>1. Well(k, w) /\ Agree(w) /\ Become(a)
  BY HeirAgrees
<1> HIDE DEF w
<1>2. Agree(a)
  BY <1>1, SignalAgrees
<1> HIDE DEF a
<1> QED BY <1>1, <1>2, AgreeWorld

\* The memories that the branches of the loop start from.
LEMMA Heirs ==
  ASSUME Sound
  PROVE  Heir(m, m) /\ With(World, m) = World /\ \A f \in Flags : Heir(m, Lower(f))
<1>1. m \in Memory(m)
  BY MasterFields
<1>2. \A f \in Flags : Lower(f).lost = m.lost
  BY <1>1 DEF Lower, Memory
<1> QED BY <1>2, Memories DEF Heir

\* The branches of the loop that only signal.
LEMMA SignalBranchAgrees ==
  ASSUME Strong, Agree(World), Quit \/ Retire \/ Reopen \/ NoAccept
  PROVE  Agree(World)'
<1>1. Sound /\ m \in Memory(m) /\ m.flags \in SUBSET Flags
  BY MasterFields DEF Strong
<1>2. CASE Quit
  <2> DEFINE x == [m EXCEPT !.socks = <<>>]
  <2>1. /\ x \in Memory(x) /\ x.table = m.table /\ x.last = m.last /\ x.next = m.next /\ x.newBinary = m.newBinary
        /\ x.flags = m.flags /\ x.lost = m.lost
    <3>1. x \in Memory(x) /\ x.table = m.table /\ x.last = m.last /\ x.next = m.next
      BY <1>1 DEF Memory
    <3>2. x.newBinary = m.newBinary /\ x.flags = m.flags /\ x.lost = m.lost
      BY <1>1 DEF Memory
    <3> QED BY <3>1, <3>2
  <2>2. Become(SignalWorkers(With(World, x), "quit"))
    BY <1>2 DEF Quit
  <2> HIDE DEF x
  <2>3. Heir(x, x)
    BY <2>1 DEF Heir, Alike
  <2> QED BY <2>2, <2>3, SignalStepAgrees DEF Orders
<1>3. CASE Retire
  <2>1. Become(SignalWorkers(With(World, m), "quit"))
    BY <1>1, <1>3, Heirs DEF Retire
  <2> QED BY <1>1, <2>1, SignalStepAgrees, Heirs DEF Orders
<1>4. CASE Reopen
  <2>1. Become(SignalWorkers(With(World, Lower("reopen")), "reopen"))
    BY <1>4 DEF Reopen
  <2>2. Heir(m, Lower("reopen"))
    BY <1>1, Heirs DEF Flags
  <2> QED BY <2>1, <2>2, SignalStepAgrees DEF Orders
<1>5. CASE NoAccept
  <2> DEFINE x == [Lower("noaccept") EXCEPT !.noaccepting = TRUE]
  <2>1. Become(SignalWorkers(With(World, x), "quit"))
    BY <1>5 DEF NoAccept
  <2>2. Heir(m, x)
    <3>1. Heir(m, Lower("noaccept"))
      BY <1>1, Heirs DEF Flags
    <3> QED BY <3>1 DEF Heir, Alike, Memory
  <2> HIDE DEF x
  <2> QED BY <2>1, <2>2, SignalStepAgrees DEF Orders
<1> QED BY <1>2, <1>3, <1>4, <1>5

\* ngx_terminate.
LEMMA TerminateAgrees ==
  ASSUME Strong, Agree(World), Terminate
  PROVE  Agree(World)'
<1> DEFINE d == IF m.delay = 0 THEN 1 ELSE m.delay
           x == [m EXCEPT !.delay = d, !.sigio = Workers + 2]
           y == [m EXCEPT !.delay = d, !.sigio = m.sigio - 1]
           sig == TerminateSignal(d)
<1>1. /\ Sound /\ m \in Memory(m) /\ m.delay \in 0 .. KillLevel + 1 /\ m.sigio \in 0 .. Workers + 2
  BY MasterFields DEF Strong
<1>2. d \in 0 .. KillLevel + 1 /\ sig \in Orders /\ Workers + 2 \in 0 .. Workers + 2
  BY <1>1, MasterAssumption DEF TerminateSignal, Orders
<1>3. CASE m.sigio > 0
  <2>1. m' = y /\ child' = child /\ inbox' = inbox
    <3>1. m' = [m EXCEPT !.sigio = @ - 1, !.delay = d] /\ child' = child /\ inbox' = inbox
      BY <1>3 DEF Terminate
    <3> QED BY <1>1, <3>1 DEF Memory
  <2>2. m.sigio - 1 \in 0 .. Workers + 2
    BY <1>1, <1>3, MasterAssumption
  <2>3. Alike(m, y)
    BY <1>1, <1>2, <2>2, Memories
  <2>4. y.lost = m.lost
    BY <1>1 DEF Memory
  <2> HIDE DEF y
  <2>5. Become(With(World, y))
    BY <2>1 DEF Become, With, World
  <2> QED BY <2>3, <2>4, <2>5, MemoryStepAgrees DEF Heir
<1>4. CASE ~(m.sigio > 0)
  <2>1. Become(SignalWorkers(With(World, x), sig))
    BY <1>4 DEF Terminate
  <2>2. Alike(m, x)
    BY <1>1, <1>2, Memories
  <2>3. x.lost = m.lost
    BY <1>1 DEF Memory
  <2> HIDE DEF x, sig
  <2> QED BY <1>2, <2>1, <2>2, <2>3, SignalStepAgrees DEF Heir
<1> QED BY <1>3, <1>4

\* The branches that change the memory only.
LEMMA MemoryBranchAgrees ==
  ASSUME Strong, Agree(World),
         \/ KeepCycle \/ AbortCycle \/ MasterExit \/ Proceed \/ Alarm \/ UNCHANGED vars
         \/ \E s \in FromOperator : Order(s)
  PROVE  Agree(World)'
<1>1. Sound /\ m \in Memory(m)
  BY MasterFields DEF Strong
<1>2. CASE KeepCycle
  <2>1. Become(With(World, Lower("reconfigure")))
    BY <1>2 DEF KeepCycle
  <2>2. Heir(m, Lower("reconfigure"))
    BY <1>1, Heirs DEF Flags
  <2> QED BY <2>1, <2>2, MemoryStepAgrees
<1>3. CASE MasterExit
  <2> DEFINE x == [m EXCEPT !.socks = <<>>]
  <2>1. m' = x /\ child' = child /\ inbox' = inbox
    BY <1>3 DEF MasterExit
  <2>2. /\ x \in Memory(x) /\ x.table = m.table /\ x.last = m.last /\ x.next = m.next /\ x.newBinary = m.newBinary
        /\ x.flags = m.flags /\ x.lost = m.lost
    <3>1. x \in Memory(x) /\ x.table = m.table /\ x.last = m.last /\ x.next = m.next
      BY <1>1 DEF Memory
    <3>2. x.newBinary = m.newBinary /\ x.flags = m.flags /\ x.lost = m.lost
      BY <1>1 DEF Memory
    <3> QED BY <3>1, <3>2
  <2> HIDE DEF x
  <2>3. Become(With(World, x))
    BY <2>1 DEF Become, With, World
  <2>4. Heir(x, x)
    BY <2>2 DEF Heir, Alike
  <2> QED BY <2>3, <2>4, MemoryStepAgrees
<1>4. CASE Proceed \/ Alarm \/ UNCHANGED vars \/ \E s \in FromOperator : Order(s)
  <2>1. m' = m /\ child' = child /\ inbox' = inbox
    BY <1>4 DEF Proceed, Alarm, vars, Order
  <2>2. Become(With(World, m))
    BY <2>1 DEF Become, With, World
  <2> QED BY <1>1, <2>2, Heirs, MemoryStepAgrees
<1>5. CASE AbortCycle
  <2>1. PICK made : Become(With(World, Aborted(made)))
    BY <1>5 DEF AbortCycle, Aborted
  <2>2. Heir(Aborted(made), Aborted(made))
    BY <1>1, AbortedIs DEF Heir
  <2> QED BY <2>1, <2>2, MemoryStepAgrees
<1> QED BY <1>2, <1>3, <1>4, <1>5

\* The branches that start a cycle.
LEMMA StartBranchAgrees ==
  ASSUME Strong, Agree(World), Recall \/ Reconfigure \/ Restart
  PROVE  Agree(World)'
<1>1. /\ Sound /\ m \in Memory(m) /\ m.gen \in DOMAIN Confs /\ left \in ScenarioType /\ IsInjective(left.confs)
  BY MasterFields DEF Strong, Staged
<1>2. CASE Recall
  <2> DEFINE x == [Lower("reconfigure") EXCEPT !.noaccepting = FALSE]
  <2>1. \E ok \in ForkOutcomes : Become(StartAll(With(World, x), "respawn", ok))
    BY <1>2 DEF Recall
  <2>2. Heir(m, x)
    <3>1. Heir(m, Lower("reconfigure"))
      BY <1>1, Heirs DEF Flags
    <3> QED BY <3>1 DEF Heir, Alike, Memory
  <2> HIDE DEF x
  <2> QED BY <1>1, <2>1, <2>2, StartStepAgrees
<1>3. CASE Restart
  <2> DEFINE x == [Lower("restart") EXCEPT !.live = TRUE]
  <2>1. \E ok \in ForkOutcomes : Become(StartAll(With(World, x), "respawn", ok))
    BY <1>3 DEF Restart
  <2>2. Heir(m, x)
    <3>1. Heir(m, Lower("restart"))
      BY <1>1, Heirs DEF Flags
    <3> QED BY <3>1 DEF Heir, Alike, Memory
  <2> HIDE DEF x
  <2> QED BY <1>1, <2>1, <2>2, StartStepAgrees
<1>4. CASE Reconfigure
  <2> DEFINE k == NewCycle
  <2>1. left.confs # <<>> /\ \E ok \in ForkOutcomes : Become(StartAll(With(World, k), "justrespawn", ok))
    BY <1>4 DEF Reconfigure
  <2>2. Alike(k, k) /\ k.gen \in DOMAIN Confs
    BY <1>1, <2>1, NewCycleIs DEF Alike
  <2>3. k.lost = m.lost
    BY <1>1 DEF NewCycle, Memory
  <2> HIDE DEF k
  <2> QED BY <2>1, <2>2, <2>3, StartStepAgrees DEF Heir
<1> QED BY <1>2, <1>3, <1>4

\* ngx_exec_new_binary: a new binary has no channel.
LEMMA ChangeBinaryAgrees ==
  ASSUME Strong, Agree(World), ChangeBinary
  PROVE  Agree(World)'
<1> DEFINE w == With(World, Lower("changeBinary"))
           s == FreeSlot(w)
<1>1. PICK ok \in ForkOutcomes :
        LET a == SpawnAt(w, s, "binary", "detached", ok) IN
        Become(With(a, [a.m EXCEPT !.newBinary = IF Spawned(w, a) THEN m.next ELSE Invalid]))
  BY DEF ChangeBinary
<1> DEFINE a == SpawnAt(w, s, "binary", "detached", ok)
           y == [a.m EXCEPT !.newBinary = IF Spawned(w, a) THEN m.next ELSE Invalid]
           b == With(a, y)
<1>2. Become(b) /\ Sound /\ m.gen \in DOMAIN Confs
  BY <1>1, MasterFields DEF Strong
<1>3. Well(m, w) /\ Agree(w)
  <2>1. Heir(m, Lower("changeBinary"))
    BY <1>2, Heirs DEF Flags
  <2> QED BY <2>1, HeirAgrees
<1> HIDE DEF w
<1>4. Placed(w, s, "binary", "detached")
  <2>1. s \in 1 .. w.m.last + 1 /\ (s \in Slots => w.m.table[s].pid = None)
    BY <1>3, FreeSlotIs DEF Well, Sane
  <2>2. w.m.last \in Nat
    BY <1>3, WorldFields DEF Well
  <2> QED BY <2>1, <2>2 DEF Placed, Kinds, Modality
<1> HIDE DEF s
<1>5. Well(m, a) /\ Agree(a)
  BY <1>2, <1>3, <1>4, SpawnAtWell, SpawnAtAgrees
<1> HIDE DEF a
<1>6. y.table = a.m.table /\ y.last = a.m.last /\ y.next = a.m.next /\ y.lost = a.m.lost
  <2>1. a.m \in Memory(m)
    BY <1>5, WorldFields DEF Well
  <2> QED BY <2>1 DEF Memory
<1> HIDE DEF y
<1>7. Agree(b)
  BY <1>5, <1>6, MemoryAgrees DEF Agree
<1> HIDE DEF b
<1> QED BY <1>2, <1>7, AgreeWorld

\* ngx_process_get_status: who is found dead was not alive.
LEMMA WakeAgrees ==
  ASSUME Strong, Agree(World), Wake
  PROVE  Agree(World)'
<1> DEFINE a == [m |-> m', child |-> Collected.child, inbox |-> Collected.inbox]
           dead == IF "CHLD" \in pending THEN {p \in Pids : child[p].st \in {"zombie", "fatal"}} ELSE {}
           at(s) == m.table[s].pid \in dead /\ s <= m.last
<1>1. /\ Sound /\ m \in Memory(m) /\ m.table \in [Slots -> Entry] /\ child \in [Pids -> Process]
      /\ World.m = m /\ World.child = child /\ World.inbox = inbox
      /\ child' = Collected.child /\ inbox' = Collected.inbox
  BY MasterFields DEF Strong, Wake
<1>2. m'.table = Collected.table /\ m'.last = m.last /\ m'.next = m.next /\ m'.lost = m.lost
  BY <1>1 DEF Wake, Memory
<1>3. a.m = m' /\ a.child = Collected.child /\ a.inbox = Collected.inbox /\ Become(a)
  BY <1>1 DEF Become
<1>4. /\ Collected.inbox = [p \in Pids |-> IF p \in dead THEN <<>> ELSE inbox[p]]
      /\ Collected.table = [s \in Slots |-> IF ~at(s) THEN m.table[s]
            ELSE [m.table[s] EXCEPT !.exited = TRUE, !.respawn = @ /\ child[m.table[s].pid].st # "fatal"]]
  BY DEF Collected
<1>5. \A p \in dead : child[p].st \in {"zombie", "fatal"}
  OBVIOUS
<1> HIDE DEF a, dead
<1>6. \A p \in Pids : Collected.inbox[p] \in {<<>>, inbox[p]} /\ (p \notin dead => Collected.inbox[p] = inbox[p])
  BY <1>4
<1>7. ASSUME NEW s \in Slots
      PROVE  LET d == m.table[s]  e == Collected.table[s] IN
             /\ e.pid = d.pid /\ e.chan = d.chan /\ (d.exited => e.exited)
             /\ e.exited => d.exited \/ d.pid \in dead
  <2> DEFINE d == m.table[s]
             e == Collected.table[s]
             fit == d.respawn /\ child[d.pid].st # "fatal"
  <2>1. d \in Entry
    BY <1>1
  <2>2. CASE at(s)
    <3>1. e = [d EXCEPT !.exited = TRUE, !.respawn = fit] /\ d.pid \in dead
      <4>1. e = [d EXCEPT !.exited = TRUE, !.respawn = @ /\ child[d.pid].st # "fatal"] /\ d.pid \in dead
        BY <1>4, <2>2
      <4> HIDE DEF d, e
      <4> QED BY <2>1, <4>1 DEF Entry
    <3> HIDE DEF d, e, fit
    <3>2. e.pid = d.pid /\ e.chan = d.chan /\ e.exited /\ d.pid \in dead
      BY <2>1, <3>1 DEF Entry
    <3> QED BY <3>2 DEF d, e
  <2>3. CASE ~at(s)
    BY <1>4, <2>3
  <2> QED BY <2>2, <2>3
<1>8. \A p \in Pids : Colleague(a, p) => Colleague(World, p) /\ a.child[p] = child[p] /\ p \notin dead
  <2>1. \A p \in Pids : Collected.child[p].st \in {"init", "run", "closing"} => Collected.child[p] = child[p]
    BY <1>1, CollectedIs
  <2> QED BY <1>1, <1>3, <1>5, <2>1 DEF Colleague, AliveIn
<1>9. \A p \in Pids : p >= a.m.next => a.inbox[p] = <<>>
  BY <1>1, <1>2, <1>3, <1>6 DEF Agree, AgreeBut
<1>10. \A s \in Slots : Announced(a, s) => Announced(World, s) /\ a.m.table[s].pid = World.m.table[s].pid
  BY <1>1, <1>2, <1>3, <1>7 DEF Announced
<1>11. ASSUME NEW p \in Pids, Colleague(a, p)
       PROVE  /\ Colleague(World, p) /\ a.child[p].slot = World.child[p].slot /\ Own(a, p)
              /\ a.child[p].view = World.child[p].view /\ a.inbox[p] = World.inbox[p]
  <2>1. Colleague(World, p) /\ a.child[p] = child[p] /\ p \notin dead /\ child[p].slot \in Slots
    BY <1>1, <1>8, <1>11 DEF Process
  <2>2. Own(World, p)
    BY <2>1 DEF Agree, AgreeBut
  <2>3. Own(a, p)
    BY <1>1, <1>2, <1>3, <1>7, <2>1, <2>2 DEF Own
  <2> QED BY <1>1, <1>3, <1>6, <2>1, <2>3
<1>12. Agree(a)
  BY <1>1, <1>2, <1>3, <1>9, <1>10, <1>11, AgreeOn DEF Agree
<1> QED BY <1>3, <1>12, AgreeWorld

\* ngx_reap_children, where a child was lost.
LEMMA ReapAgrees ==
  ASSUME Strong, Agree(World), Reap
  PROVE  Agree(World)'
<1>1. Sound /\ m.gen \in DOMAIN Confs /\ Well(m, World) /\ OneBinaryIn(World)
  BY MasterFields DEF Strong, Sound
<1>2. CASE "reap" \notin m.flags
  <2>1. m' = m /\ child' = child /\ inbox' = inbox
    BY <1>2 DEF Reap
  <2>2. Become(With(World, m))
    BY <2>1 DEF Become, With, World
  <2> QED BY <1>1, <2>2, Heirs, MemoryStepAgrees
<1>3. CASE "reap" \in m.flags
  <2>1. PICK ok \in ForkOutcomes : Become(ReapChildren(World, ok))
    BY <1>3 DEF Reap
  <2>2. Agree(ReapChildren(World, ok))
    BY <1>1, ReapChildrenAgree
  <2> QED BY <2>1, <2>2, AgreeWorld
<1> QED BY <1>2, <1>3

\* A child that changes is dead, or sees the others as before.
LEMMA ChildAgrees ==
  ASSUME Strong, Agree(World), NEW p \in Pids, NEW c \in Process, m' = m, child' = [child EXCEPT ![p] = c],
         inbox' \in {inbox, [inbox EXCEPT ![p] = <<>>]},
         c.st \in {"init", "run", "closing"} =>
           /\ Alive(p) /\ c.kind = child[p].kind /\ c.slot = child[p].slot
           /\ \A s \in Slots : Seen(c.view, inbox'[p], s) = Seen(child[p].view, inbox[p], s)
  PROVE  Agree(World)'
<1> DEFINE a == [m |-> m, child |-> child', inbox |-> inbox']
<1>1. /\ World.m = m /\ World.child = child /\ World.inbox = inbox /\ child \in [Pids -> Process]
      /\ inbox \in [Pids -> Seq(Message)]
  BY MasterFields DEF Strong
<1>2. a.m = m /\ a.child = child' /\ a.inbox = inbox' /\ Become(a)
  BY DEF Become
<1> HIDE DEF a
<1>3. a.child[p] = c /\ \A q \in Pids \ {p} : a.child[q] = child[q] /\ a.inbox[q] = inbox[q]
  BY <1>1, <1>2
<1>4. \A q \in Pids : q >= a.m.next => a.inbox[q] = <<>>
  BY <1>1, <1>2 DEF Agree, AgreeBut
<1>5. \A s \in Slots : Announced(a, s) => Announced(World, s) /\ a.m.table[s].pid = World.m.table[s].pid
  BY <1>1, <1>2 DEF Announced
<1>6. ASSUME NEW q \in Pids, Colleague(a, q)
      PROVE  /\ Colleague(World, q) /\ a.child[q].slot = World.child[q].slot /\ Own(a, q)
             /\ \A s \in Slots : Seen(a.child[q].view, a.inbox[q], s) = Seen(World.child[q].view, World.inbox[q], s)
  <2>1. /\ Colleague(World, q) /\ a.child[q].slot = World.child[q].slot
        /\ \A s \in Slots : Seen(a.child[q].view, a.inbox[q], s) = Seen(World.child[q].view, World.inbox[q], s)
    BY <1>1, <1>2, <1>3, <1>6 DEF Colleague, AliveIn, Alive
  <2>2. Own(World, q)
    BY <2>1 DEF Agree, AgreeBut
  <2> QED BY <1>1, <1>2, <2>1, <2>2 DEF Own
<1>7. AgreeBut(World, 0) /\ (~a.m.lost => ~World.m.lost)
  BY <1>1, <1>2 DEF Agree
<1>8. \A q \in Pids : Colleague(a, q) =>
        /\ Colleague(World, q) /\ a.child[q].slot = World.child[q].slot /\ Own(a, q)
        /\ \A s \in Slots \ {0} : Announced(a, s) =>
             Seen(a.child[q].view, a.inbox[q], s) = Seen(World.child[q].view, World.inbox[q], s)
  BY <1>6
<1>9. AgreeBut(a, 0)
  BY <1>4, <1>5, <1>7, <1>8, AgreeOn
<1>10. Agree(a)
  BY <1>9 DEF Agree
<1> QED BY <1>2, <1>10, AgreeWorld

\* The steps of the children: what one reads it knew, in the sense of Seen, before.
LEMMA ChildrenAgree ==
  ASSUME Strong, Agree(World), NEW p \in Pids,
         ChildWork(p) \/ ChildRefuse(p) \/ LoaderDone(p) \/ Crash(p) \/ BinaryUp(p) \/ BinaryDown(p)
  PROVE  Agree(World)'
<1>1. child \in [Pids -> Process] /\ child[p] \in Process /\ inbox \in [Pids -> Seq(Message)]
  BY MasterFields DEF Strong
<1>2. m' = m
  BY DEF ChildWork, ChildInit, ChildRead, ChildLeave, WorkerClose, WorkerDrained, ChildRefuse, LoaderDone, Crash,
         BinaryUp, BinaryDown
<1>3. CASE ChildInit(p) \/ BinaryUp(p)
  <2> DEFINE c == [child[p] EXCEPT !.st = "run"]
  <2>1. child' = [child EXCEPT ![p] = c] /\ inbox' = inbox /\ Alive(p)
    BY <1>1, <1>3 DEF ChildInit, BinaryUp, Alive
  <2>2. c \in Process /\ c.kind = child[p].kind /\ c.slot = child[p].slot /\ c.view = child[p].view
    BY <1>1 DEF Process, States
  <2> HIDE DEF c
  <2> QED BY <1>2, <2>1, <2>2, ChildAgrees
<1>4. CASE WorkerClose(p)
  <2> DEFINE c == [child[p] EXCEPT !.st = "closing", !.quit = FALSE]
  <2>1. child' = [child EXCEPT ![p] = c] /\ inbox' = inbox /\ Alive(p)
    <3>1. child' = [child EXCEPT ![p].st = "closing", ![p].quit = FALSE] /\ inbox' = inbox /\ Alive(p)
      BY <1>4 DEF WorkerClose, Alive
    <3> QED BY <1>1, <3>1
  <2>2. c \in Process /\ c.kind = child[p].kind /\ c.slot = child[p].slot /\ c.view = child[p].view
    BY <1>1 DEF Process, States
  <2> HIDE DEF c
  <2> QED BY <1>2, <2>1, <2>2, ChildAgrees
<1>5. CASE ChildRead(p)
  <2> DEFINE c == Heard(child[p], inbox[p])
  <2>1. child' = [child EXCEPT ![p] = c] /\ inbox' = [inbox EXCEPT ![p] = <<>>] /\ inbox'[p] = <<>> /\ Alive(p)
    BY <1>1, <1>5 DEF ChildRead, Alive
  <2>2. c \in Process /\ c.kind = child[p].kind /\ c.slot = child[p].slot
    BY <1>1, HeardIs
  <2>3. \A s \in Slots : Seen(c.view, <<>>, s) = Seen(child[p].view, inbox[p], s)
    BY <1>1, HeardSees, SeenNothing
  <2> HIDE DEF c
  <2> QED BY <1>2, <2>1, <2>2, <2>3, ChildAgrees
<1>6. CASE ChildLeave(p) \/ WorkerDrained(p) \/ LoaderDone(p) \/ Crash(p) \/ BinaryDown(p) \/ ChildRefuse(p)
  <2> DEFINE c(how) == [Unborn EXCEPT !.st = how, !.kind = child[p].kind]
  <2>1. \A how \in {"zombie", "fatal"} : c(how) \in Process /\ c(how).st = how
    BY <1>1, RemainsAre DEF Process, States
  <2>2. PICK how \in {"zombie", "fatal"} : Die(p, how)
    BY <1>6 DEF ChildLeave, WorkerDrained, LoaderDone, Crash, BinaryDown, ChildRefuse
  <2>3. child' = [child EXCEPT ![p] = c(how)] /\ inbox' = [inbox EXCEPT ![p] = <<>>]
    BY <2>2 DEF Die
  <2> HIDE DEF c
  <2> QED BY <1>2, <2>1, <2>3, ChildAgrees
<1> QED BY <1>3, <1>4, <1>5, <1>6 DEF ChildWork

\* Every step.
LEMMA NextAgrees ==
  ASSUME Strong, Agree(World), [Next]_vars
  PROVE  Agree(World)'
<1>1. CASE UNCHANGED vars \/ Alarm \/ \E s \in FromOperator : Order(s)
  BY <1>1, MemoryBranchAgrees
<1>2. CASE MasterWork
  <2>1. CASE Quit \/ Retire \/ Reopen \/ NoAccept
    BY <2>1, SignalBranchAgrees
  <2>2. CASE KeepCycle \/ AbortCycle \/ MasterExit \/ Proceed
    BY <2>2, MemoryBranchAgrees
  <2>3. CASE Recall \/ Reconfigure \/ Restart
    BY <2>3, StartBranchAgrees
  <2>4. CASE Terminate \/ ChangeBinary \/ Wake \/ Reap
    BY <2>4, TerminateAgrees, ChangeBinaryAgrees, WakeAgrees, ReapAgrees
  <2> QED BY <1>2, <2>1, <2>2, <2>3, <2>4 DEF MasterWork
<1>3. CASE \E p \in Pids : ChildWork(p) \/ ChildRefuse(p) \/ LoaderDone(p) \/ Crash(p)
                           \/ BinaryUp(p) \/ BinaryDown(p)
  BY <1>3, ChildrenAgree
<1> QED BY <1>1, <1>2, <1>3 DEF Next

\* The first cycle is announced like any other.
LEMMA InitAgrees ==
  ASSUME Init
  PROVE  Agree(World)
<1>1. PICK sc \in Scenarios :
        LET w == StartAll([m |-> Boot(Head(sc.confs)), child |-> [p \in Pids |-> Unborn],
                           inbox |-> [p \in Pids |-> <<>>]], "respawn", TRUE)
        IN m = w.m /\ child = w.child /\ inbox = w.inbox
  BY DEF Init
<1> DEFINE g == Head(sc.confs)
           k == Boot(g)
           w == [m |-> k, child |-> [p \in Pids |-> Unborn], inbox |-> [p \in Pids |-> <<>>]]
           a == StartAll(w, "respawn", TRUE)
<1>2. g \in DOMAIN Confs
  BY ScenarioAssumption, TakeFirst DEF ScenarioType
<1>3. m = a.m /\ child = a.child /\ inbox = a.inbox
  BY <1>1
<1>4. /\ Well(k, w) /\ k.gen = g /\ \A p \in Pids : w.child[p].st = "none" /\ w.inbox[p] = <<>>
  <2>1. Well(k, w)
    BY <1>2, BootIs
  <2>2. k.gen = g
    BY DEF Boot
  <2>3. \A p \in Pids : w.child[p].st = "none" /\ w.inbox[p] = <<>>
    BY UnbornIs
  <2> QED BY <2>1, <2>2, <2>3
<1> HIDE DEF g, k, w
<1>5. Agree(w)
  BY <1>4 DEF Agree, AgreeBut, Colleague, AliveIn
<1>6. Agree(a)
  BY <1>2, <1>4, <1>5, StartAllAgrees
<1> HIDE DEF a
<1>7. World.m = a.m /\ World.child = a.child /\ World.inbox = a.inbox
  BY <1>3 DEF World
<1> QED BY <1>6, <1>7 DEF Agree, AgreeBut, Colleague, AliveIn, Own, Informed, Announced

\* What the invariant says of a child that has read all.
LEMMA AgreeGives ==
  ASSUME Strong, Agree(World)
  PROVE  ViewsAgree
<1>1. /\ World.m = m /\ World.child = child /\ World.inbox = inbox /\ child \in [Pids -> Process]
      /\ m.last \in Nat /\ m.last <= MaxSlots
  BY MasterFields DEF Strong
<1> SUFFICES ASSUME ~m.lost, NEW p \in Pids, child[p].st \in {"run", "closing"}, child[p].kind # "binary",
                    inbox[p] = <<>>, NEW s \in 1 .. m.last \ {child[p].slot},
                    m.table[s].pid # None, m.table[s].chan = "open", ~m.table[s].exited
             PROVE  child[p].view[s] = m.table[s].pid
  BY DEF ViewsAgree
<1>2. s \in Slots \ {child[p].slot, 0}
  BY <1>1, MasterAssumption DEF Slots
<1>3. Announced(World, s) /\ Colleague(World, p)
  BY <1>1 DEF Announced, Colleague, AliveIn
<1>4. Seen(child[p].view, inbox[p], s) = m.table[s].pid
  BY <1>1, <1>2, <1>3 DEF Agree, AgreeBut, Informed
<1> QED BY <1>4, SeenNothing

\* For any sequence of configurations, signals, failed forks and deaths of children: unless
\* a message found its channel full, a child that has read its channel has the pids of all
\* the processes with a channel, those forked before it, after it, and in the place of others
\* (ngx_pass_open_channel, ngx_channel_handler, ngx_reap_children).
THEOREM TablesAgree == Spec => []ViewsAgree
<1>1. Init => Strong /\ Agree(World)
  BY InitStrong, InitAgrees
<1>2. Strong /\ Agree(World) /\ [Next]_vars => (Strong /\ Agree(World))'
  BY NextStep, NextAgrees
<1>3. Strong /\ Agree(World) => ViewsAgree
  BY AgreeGives
<1> QED BY <1>1, <1>2, <1>3, PTL DEF Spec

=============================================================================
