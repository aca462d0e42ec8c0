------------------------------- MODULE Master -------------------------------
(***************************************************************************)
(* The master process of leapvalue: src/client/src/os/unix/                 *)
(* ngx_process_cycle.c and ngx_process.c, the reload of core/ngx_cycle.c    *)
(* and the change of the binary of core/nginx.c.  Signals reach the master  *)
(* only while it sleeps in sigsuspend(); what it then does runs in stages,  *)
(* between which its children run.  A child hears from it by signals and by *)
(* a channel, a socket pair of bounded capacity.                            *)
(***************************************************************************)
EXTENDS Naturals, Sequences, FiniteSets, SequencesExt

CONSTANTS
  MaxSlots,    \* NGX_MAX_PROCESSES
  MaxPid,      \* bound: processes the master ever forks
  Workers,     \* worker_processes
  Confs,       \* per number: a configuration file
  ChanCap,     \* messages a channel holds before it answers EAGAIN
  KillLevel,   \* doublings of the delay after which SIGKILL is sent
  Scenarios    \* bounds, one set of them per behaviour: see ScenarioType

ASSUME MasterAssumption ==
  /\ MaxSlots \in Nat \ {0} /\ MaxPid \in Nat \ {0} /\ Workers \in Nat \ {0}
  /\ ChanCap \in Nat \ {0} /\ KillLevel \in Nat \ {0}
  /\ \A c \in DOMAIN Confs : Confs[c].manager \in BOOLEAN /\ Confs[c].loader \in BOOLEAN

\* noreuse is set by a module on each zone it adds, or on none, and the tag
\* of a zone is its module (ngx_http_upstream_zone_module.c, line 114).
ASSUME NoReuseByTag ==
  \A c, d \in DOMAIN Confs : \A y \in DOMAIN Confs[c].zones, z \in DOMAIN Confs[d].zones :
    Confs[c].zones[y].tag = Confs[d].zones[z].tag => Confs[c].zones[y].noreuse = Confs[d].zones[z].noreuse

VARIABLES
  m,         \* the master's memory: see Boot
  child,     \* per pid: the process as the kernel has it
  inbox,     \* per pid: the messages in its channel
  pc,        \* the stage the master is in
  pending,   \* signals that wait until the master sleeps
  files,     \* who is named by the pid file and by the old pid file
  left       \* the scenario, less what has happened of it: the configurations to
             \* come, the signals an operator will send, the crashes, the failed
             \* forks and the failed starts that may happen; and its history

vars == <<m, child, inbox, pc, pending, files, left>>

Pids == 1 .. MaxPid
Slots == 1 .. MaxSlots
Self == MaxPid + 1      \* the master's own pid
None == 0               \* pid -1
Invalid == MaxPid + 2   \* NGX_INVALID_PID, stored in ngx_new_binary

Helpers == {"manager", "loader"}
Kinds == {"worker", "binary"} \cup Helpers
Signals == {"HUP", "QUIT", "TERM", "USR1", "USR2", "WINCH", "CHLD", "ALRM", "IO"}
FromOperator == Signals \ {"CHLD", "ALRM", "IO"}
Flags == {"reconfigure", "quit", "terminate", "reopen", "changeBinary", "noaccept",
          "reap", "sigalrm", "restart"}
Stages == {"wait", "reap", "decide", "reconfigure", "retire", "restart", "reopen",
           "changeBinary", "noaccept", "exited"}

\* A configuration is tried once, the first one at the start.  History: has a
\* fork or a start failed; which configurations failed after their zones were
\* made; has a master with no child called workers back and not counted since.
ScenarioType ==
  [confs : Seq(DOMAIN Confs), orders : [FromOperator -> Nat],
   crashes : Nat, forks : Nat, refused : Nat,
   failed : BOOLEAN, aborted : SUBSET DOMAIN Confs, uncounted : BOOLEAN]
ASSUME ScenarioAssumption ==
  \A sc \in Scenarios :
    sc \in ScenarioType /\ sc.confs # <<>> /\ IsInjective(sc.confs) /\ sc.aborted = {} /\ ~sc.uncounted

Empty == [pid |-> None, kind |-> "worker", exited |-> FALSE, exiting |-> FALSE,
          detached |-> FALSE, respawn |-> FALSE, just |-> FALSE, chan |-> "none"]
Unborn == [st |-> "none", kind |-> "worker", gen |-> 0, slot |-> 1,
           quit |-> FALSE, term |-> FALSE, view |-> [s \in Slots |-> None]]

Alive(p) == child[p].st \in {"init", "run", "closing"}
Msg(c, s, p) == [cmd |-> c, slot |-> s, pid |-> p]

-----------------------------------------------------------------------------
(* What the C functions do to w, the master's memory, the children and the  *)
(* channels together.                                                        *)
World == [m |-> m, child |-> child, inbox |-> inbox]
With(w, memory) == [m |-> memory, child |-> w.child, inbox |-> w.inbox]
Become(w) == m' = w.m /\ child' = w.child /\ inbox' = w.inbox

AliveIn(w, p) == w.child[p].st \in {"init", "run", "closing"}

\* Mutant: a channel takes any number of messages.
CanWriteAlways(w, s) == w.m.table[s].chan = "open"
\* ngx_write_channel: EAGAIN on a full channel, an error on a closed one.
CanWrite(w, s) ==
  LET e == w.m.table[s] IN
  e.chan = "open" /\ (~AliveIn(w, e.pid) \/ Len(w.inbox[e.pid]) < ChanCap)
\* The channels after msg was written to those of the slots to.
Written(w, to, msg) ==
  [p \in Pids |-> IF AliveIn(w, p) /\ \E s \in to : w.m.table[s].pid = p /\ CanWrite(w, s)
                 THEN Append(w.inbox[p], msg) ELSE w.inbox[p]]

Known(w) == {s \in 1 .. w.m.last : w.m.table[s].pid # None}
\* What cannot be written is lost.
WriteAll(w, to, msg) ==
  [m |-> [w.m EXCEPT !.lost = @ \/ \E s \in to : ~CanWrite(w, s)],
   child |-> w.child, inbox |-> Written(w, to, msg)]

\* Mutant: nobody is told of a new process.
PassOpenChannelForgotten(w, s) == w
PassOpenChannel(w, s) ==
  WriteAll(w, {t \in Known(w) \ {s} : w.m.table[t].chan # "none"},
           Msg("open", s, w.m.table[s].pid))

FreeSlot(w) ==
  LET holes == {s \in 1 .. w.m.last : w.m.table[s].pid = None}
  IN IF holes = {} THEN w.m.last + 1 ELSE Min(holes)

\* ngx_spawn_process with a kind of process and a mode, or into the slot of
\* the process it replaces (mode "again").  ok: socketpair and fork succeed.
\* Mutant: the processes a reload starts are not marked as just spawned.
JustSpawnedNever(mode) == FALSE
JustSpawned(mode) == mode \in {"justspawn", "justrespawn"}
Respawned(mode) == mode \in {"respawn", "justrespawn"}

SpawnAt(w, s, kind, mode, ok) ==
  LET p == w.m.next
      channel == IF mode = "detached" THEN "none" ELSE "open"
      born == [Unborn EXCEPT !.st = "init", !.kind = kind, !.gen = w.m.gen, !.slot = s,
                 !.view = [t \in Slots |->
                    IF t # s /\ w.m.table[t].chan = "open" THEN w.m.table[t].pid ELSE None]]
      entry == IF mode = "again" THEN [w.m.table[s] EXCEPT !.pid = p, !.exited = FALSE, !.chan = "open"]
               ELSE [pid |-> p, kind |-> kind, exited |-> FALSE, exiting |-> FALSE, chan |-> channel,
                     respawn |-> Respawned(mode), just |-> JustSpawned(mode), detached |-> mode = "detached"]
  IN IF s > MaxSlots \/ p > MaxPid THEN w
     ELSE IF ~ok
     THEN With(w, [w.m EXCEPT !.table[s].chan = IF channel = "open" THEN "stale" ELSE "none"])
     ELSE [m |-> [w.m EXCEPT !.table[s] = entry, !.last = IF s > @ THEN s ELSE @, !.next = p + 1],
           child |-> [w.child EXCEPT ![p] = born], inbox |-> w.inbox]

Spawned(w, a) == a.m.next # w.m.next
Spawn(w, kind, mode, ok) ==
  LET s == FreeSlot(w)  a == SpawnAt(w, s, kind, mode, ok)
  IN IF Spawned(w, a) THEN PassOpenChannel(a, s) ELSE a

StartWorkerProcesses(w, mode, ok) ==
  LET a[i \in 0 .. Workers] == IF i = 0 THEN w ELSE Spawn(a[i - 1], "worker", mode, ok) IN a[Workers]

StartCacheManagerProcesses(w, again, ok) ==
  LET a == Spawn(w, "manager", IF again THEN "justrespawn" ELSE "respawn", ok)
  IN IF ~Confs[w.m.gen].manager THEN w
     ELSE IF ~Confs[w.m.gen].loader THEN a
     ELSE Spawn(a, "loader", IF again THEN "justspawn" ELSE "norespawn", ok)

StartAll(w, mode, ok) ==
  StartCacheManagerProcesses(StartWorkerProcesses(w, mode, ok), mode = "justrespawn", ok)

\* A signal, or a message, in a child.
Deliver(c, sig) ==
  CASE sig = "KILL" -> [c EXCEPT !.st = "zombie"]
    [] sig = "terminate" -> [c EXCEPT !.term = TRUE]
    [] sig = "quit" -> [c EXCEPT !.quit = TRUE]
    [] OTHER -> c

\* ngx_signal_worker_processes: who has just been started is spared once, the
\* others are told by the channel if it can be written, else by kill(), which
\* fails for a process already reaped.
Spared(w) == {s \in Known(w) : ~w.m.table[s].detached /\ w.m.table[s].just}
Told(w, sig) ==
  {s \in Known(w) : LET e == w.m.table[s] IN ~e.detached /\ ~e.just /\ ~(e.exiting /\ sig = "quit")}
ByChannel(w, sig) == {s \in Told(w, sig) : sig # "KILL" /\ CanWrite(w, s)}
Killed(w, sig) == {s \in Told(w, sig) \ ByChannel(w, sig) : w.child[w.m.table[s].pid].st # "gone"}
Missed(w, sig) == {s \in Told(w, sig) \ ByChannel(w, sig) : w.child[w.m.table[s].pid].st = "gone"}
Signalled(w, s, sig) ==
  LET e == w.m.table[s] IN
  IF s \in Spared(w) THEN [e EXCEPT !.just = FALSE]
  ELSE IF s \in Missed(w, sig) THEN [e EXCEPT !.exited = TRUE, !.exiting = FALSE]
  ELSE IF s \in Told(w, sig) THEN [e EXCEPT !.exiting = @ \/ sig # "reopen"]
  ELSE e
SignalWorkers(w, sig) ==
  [m |-> [w.m EXCEPT !.table = [s \in Slots |-> Signalled(w, s, sig)],
                     !.flags = @ \cup (IF Missed(w, sig) = {} THEN {} ELSE {"reap"})],
   inbox |-> Written(w, ByChannel(w, sig), Msg(sig, None, None)),
   child |-> [p \in Pids |-> IF AliveIn(w, p) /\ \E s \in Killed(w, sig) : w.m.table[s].pid = p
                             THEN Deliver(w.child[p], sig) ELSE w.child[p]]]

\* Mutant: only a process that was told to leave is waited for.
IsLiveIfTold(e) == e.exiting
\* Mutant: a new binary is waited for.
IsLiveAny(e) == TRUE
\* Does the process keep the master from leaving.
IsLive(e) == e.exiting \/ ~e.detached

\* One slot of ngx_reap_children: the others hear that the channel is closed, and the
\* process is started again or its slot is free.  cmd: ch.command, which is set before
\* the loop and then by each process that is started again, never back.
Others(w) == {t \in Known(w) : ~w.m.table[t].exited /\ w.m.table[t].chan # "none"}
ChannelClosed(w, s, cmd) ==
  LET e == w.m.table[s] IN
  IF e.detached THEN w
  ELSE WriteAll(With(w, [w.m EXCEPT !.table[s].chan = "none"]), Others(w), Msg(cmd, s, e.pid))
\* Mutant: the dead are replaced whether or not they were told to leave.
MayRespawnAlways(w, s) == w.m.table[s].respawn
MayRespawn(w, s) ==
  w.m.table[s].respawn /\ ~w.m.table[s].exiting /\ w.m.flags \cap {"terminate", "quit"} = {}
Respawn(w, s, ok) ==
  LET a == SpawnAt(w, s, w.m.table[s].kind, "again", ok)
  IN IF Spawned(w, a) THEN PassOpenChannel(With(a, [a.m EXCEPT !.live = TRUE]), s) ELSE a
\* A new binary that is dead is forgotten, and workers drained for it come back.
Forget(w, s) ==
  LET binary == w.m.table[s].pid = w.m.newBinary
  IN With(w, [w.m EXCEPT
       !.newBinary = IF binary THEN None ELSE @, !.noaccepting = @ /\ ~binary,
       !.flags = IF binary /\ w.m.noaccepting THEN @ \cup {"restart"} ELSE @,
       !.last = IF s = @ THEN @ - 1 ELSE @, !.table[s] = Empty])
ReapSlot(w, s, ok, cmd) ==
  LET e == w.m.table[s] IN
  IF s > w.m.last \/ e.pid = None THEN w
  ELSE IF ~e.exited THEN With(w, [w.m EXCEPT !.live = @ \/ IsLive(e)])
  ELSE IF MayRespawn(w, s) THEN Respawn(ChannelClosed(w, s, cmd), s, ok)
  ELSE Forget(ChannelClosed(w, s, cmd), s)

Command(w, a) == IF Spawned(w, a) THEN "open" ELSE "close"
ReapChildren(w, ok) ==
  LET a[s \in 0 .. MaxSlots] ==
        IF s = 0 THEN With(w, [w.m EXCEPT !.live = FALSE, !.flags = @ \ {"reap"}])
        ELSE ReapSlot(a[s - 1], s, ok, Command(w, a[s - 1]))
  IN a[MaxSlots]

-----------------------------------------------------------------------------
(* The master.                                                               *)
Socks(g) == [a \in Confs[g].listen |-> g]
Zones(g) == [z \in DOMAIN Confs[g].zones |-> g]
\* May the zone z of configuration g be that of h: the same module's, and as large.
SameZone(z, g, h) ==
  LET a == Confs[g].zones[z]  b == Confs[h].zones[z] IN a.tag = b.tag /\ a.size = b.size /\ ~a.noreuse
\* Does the new cycle g take over zone z; may the old cycle not free it.
Taken(z, g) == z \in DOMAIN m.zones /\ SameZone(z, g, m.gen)
\* Mutant: the old cycle keeps what is not to be used again.
KeptIfAlike(z, g) == z \in DOMAIN Confs[g].zones /\ Confs[g].zones[z].size = Confs[m.gen].zones[z].size
Kept(z, g) == z \in DOMAIN Confs[g].zones /\ SameZone(z, m.gen, g)
\* The socket of address a in cycle g: the old one, or one opened now.
Socket(a, g) == IF a \in DOMAIN m.socks THEN m.socks[a] ELSE g

Boot(g) ==
  [table |-> [s \in Slots |-> Empty], last |-> 0, next |-> 1, flags |-> {}, live |-> TRUE,
   newBinary |-> None, noaccepting |-> FALSE, gen |-> g, delay |-> 0, sigio |-> 0,
   socks |-> Socks(g), zones |-> Zones(g), mapped |-> {<<z, g>> : z \in DOMAIN Zones(g)},
   lost |-> FALSE]

Init ==
  \E sc \in Scenarios :
    /\ LET w == StartAll([m |-> Boot(Head(sc.confs)), child |-> [p \in Pids |-> Unborn],
                          inbox |-> [p \in Pids |-> <<>>]], "respawn", TRUE)
       IN m = w.m /\ child = w.child /\ inbox = w.inbox
    /\ left = [sc EXCEPT !.confs = Tail(@)]
    /\ pc = "wait" /\ pending = {} /\ files = [pid |-> Self, old |-> None]

ForkSpent == [left EXCEPT !.forks = @ - 1, !.failed = TRUE]
RefusalSpent == [left EXCEPT !.refused = @ - 1, !.failed = TRUE]
CrashSpent == [left EXCEPT !.crashes = @ - 1]
\* fork() may fail while the bound allows it.
ForkOutcomes == {ok \in BOOLEAN : ok \/ left.forks > 0}
Rest(ok) == IF ok THEN left ELSE ForkSpent
Forked(ok) == left' = Rest(ok)

Order(s) ==
  /\ left.orders[s] > 0 /\ pc # "exited"
  /\ pending' = pending \cup {s}
  /\ left' = [left EXCEPT !.orders[s] = @ - 1]
  /\ UNCHANGED <<m, child, inbox, pc, files>>

\* setitimer at the top of the loop, armed while there is a delay.
Alarm ==
  /\ pc = "wait" /\ m.delay > 0 /\ "ALRM" \notin pending
  /\ pending' = pending \cup {"ALRM"}
  /\ UNCHANGED <<m, child, inbox, pc, files, left>>

\* ngx_signal_handler, for the signals that were pending.
Raised ==
  {f \in Flags : \/ f = "reconfigure" /\ "HUP" \in pending
                 \/ f = "quit" /\ "QUIT" \in pending
                 \/ f = "terminate" /\ "TERM" \in pending
                 \/ f = "reopen" /\ "USR1" \in pending
                 \/ f = "changeBinary" /\ "USR2" \in pending /\ m.newBinary \notin Pids
                 \/ f = "noaccept" /\ "WINCH" \in pending
                 \/ f = "reap" /\ "CHLD" \in pending
                 \/ f = "sigalrm" /\ "ALRM" \in pending}

\* ngx_process_get_status: every dead child is waited for; one that left with
\* code 2 is not to be started again.
Collected ==
  LET dead == IF "CHLD" \in pending THEN {p \in Pids : child[p].st \in {"zombie", "fatal"}} ELSE {}
      at(s) == m.table[s].pid \in dead /\ s <= m.last
  IN [child |-> [p \in Pids |-> IF p \in dead THEN [Unborn EXCEPT !.st = "gone"] ELSE child[p]],
      inbox |-> [p \in Pids |-> IF p \in dead THEN <<>> ELSE inbox[p]],
      table |-> [s \in Slots |-> IF ~at(s) THEN m.table[s]
         ELSE [m.table[s] EXCEPT !.exited = TRUE, !.respawn = @ /\ child[m.table[s].pid].st # "fatal"]]]

\* The top of the loop, sigsuspend() and the handlers that end it.
Wake ==
  /\ pc = "wait" /\ pending # {}
  /\ LET rang == m.delay > 0 /\ "sigalrm" \in m.flags
         kept == IF rang THEN m.flags \ {"sigalrm"} ELSE m.flags
     IN m' = [m EXCEPT !.flags = kept \cup Raised, !.table = Collected.table,
                       !.sigio = IF rang THEN 0 ELSE @,
                       !.delay = IF rang /\ @ <= KillLevel THEN @ + 1 ELSE @]
  /\ child' = Collected.child /\ inbox' = Collected.inbox
  /\ pending' = {} /\ pc' = "reap"
  /\ UNCHANGED <<files, left>>

\* ngx_reap_children; the pid file gets its name back when the new binary died.
Reap ==
  /\ pc = "reap" /\ pc' = "decide"
  /\ IF "reap" \notin m.flags THEN UNCHANGED <<m, child, inbox, files, left>>
     ELSE \E ok \in ForkOutcomes :
       LET w == ReapChildren(World, ok) IN
       /\ Become(w) /\ left' = [Rest(ok) EXCEPT !.uncounted = FALSE]
       /\ files' = IF m.newBinary \in Pids /\ w.m.newBinary = None
                   THEN [pid |-> files.old, old |-> None] ELSE files
  /\ UNCHANGED pending

Sequel == <<"reconfigure", "restart", "reopen", "changeBinary", "noaccept">>
\* The first of the remaining branches whose flag is up.
GoOn(k) ==
  LET up == {i \in k .. Len(Sequel) : Sequel[i] \in m.flags}
  IN pc' = IF up = {} THEN "wait" ELSE Sequel[Min(up)]

Leaving == m.flags \cap {"terminate", "quit"} # {}

\* ngx_master_process_exit.
MasterExit ==
  /\ pc = "decide" /\ ~m.live /\ Leaving
  /\ pc' = "exited"
  /\ files' = IF m.newBinary # None THEN [files EXCEPT !.old = None] ELSE [files EXCEPT !.pid = None]
  /\ m' = [m EXCEPT !.socks = <<>>]
  /\ UNCHANGED <<child, inbox, pending, left>>

\* Mutant: the signal is never made harder.
TerminateSignalSoft(d) == "terminate"
TerminateSignal(d) == IF d > KillLevel THEN "KILL" ELSE "terminate"

\* The branch of ngx_terminate: a signal to all, then none until as many
\* wake-ups as there are children have passed or the alarm rang.
Terminate ==
  /\ pc = "decide" /\ "terminate" \in m.flags /\ m.live
  /\ LET d == IF m.delay = 0 THEN 1 ELSE m.delay
         w == SignalWorkers(With(World, [m EXCEPT !.delay = d, !.sigio = Workers + 2]), TerminateSignal(d))
     IN IF m.sigio > 0
        THEN m' = [m EXCEPT !.sigio = @ - 1, !.delay = d] /\ UNCHANGED <<child, inbox, pending>>
        ELSE /\ Become(w)
             /\ pending' = IF w.child # child THEN pending \cup {"CHLD"} ELSE pending
  /\ pc' = "wait"
  /\ UNCHANGED <<files, left>>

Quit ==
  /\ pc = "decide" /\ "quit" \in m.flags /\ "terminate" \notin m.flags /\ m.live
  /\ Become(SignalWorkers(With(World, [m EXCEPT !.socks = <<>>]), "quit"))
  /\ pc' = "wait"
  /\ UNCHANGED <<pending, files, left>>

Proceed ==
  /\ pc = "decide" /\ ~Leaving /\ GoOn(1)
  /\ UNCHANGED <<m, child, inbox, pending, files, left>>

Lower(f) == [m EXCEPT !.flags = @ \ {f}]

\* HUP while a new binary was started: the old one gets its workers back, but
\* live stays what it was.
Recall ==
  /\ pc = "reconfigure" /\ m.newBinary # None
  /\ \E ok \in ForkOutcomes :
       /\ Become(StartAll(With(World, [Lower("reconfigure") EXCEPT !.noaccepting = FALSE]), "respawn", ok))
       /\ left' = [Rest(ok) EXCEPT !.uncounted = @ \/ ~m.live]
  /\ pc' = "wait" /\ UNCHANGED <<pending, files>>

\* ngx_init_cycle: sockets of the same address and zones of the same size
\* are taken over, the others are opened; then the old ones are given up.
NewCycle ==
  LET g == Head(left.confs)
      zones == [z \in DOMAIN Confs[g].zones |-> IF Taken(z, g) THEN m.zones[z] ELSE g]
  IN [m EXCEPT !.gen = g, !.flags = @ \ {"reconfigure"}, !.live = TRUE,
        !.socks = [a \in Confs[g].listen |-> Socket(a, g)],
        !.zones = zones,
        !.mapped = (@ \cup {<<z, zones[z]>> : z \in DOMAIN zones})
                      \ {<<z, m.zones[z]>> : z \in {y \in DOMAIN m.zones : ~Kept(y, g)}}]

Reconfigure ==
  /\ pc = "reconfigure" /\ m.newBinary = None /\ left.confs # <<>>
  /\ \E ok \in ForkOutcomes :
       /\ Become(StartAll(With(World, NewCycle), "justrespawn", ok))
       /\ left' = [Rest(ok) EXCEPT !.confs = Tail(@)]
  /\ pc' = "retire" /\ UNCHANGED <<pending, files>>

\* ngx_init_cycle fails when it has made some of its zones: they stay mapped.
AbortCycle ==
  /\ pc = "reconfigure" /\ m.newBinary = None /\ left.confs # <<>>
  /\ LET g == Head(left.confs) IN
     /\ \E made \in SUBSET {z \in DOMAIN Confs[g].zones : ~Taken(z, g)} :
          Become(With(World, [Lower("reconfigure") EXCEPT !.mapped = @ \cup {<<z, g>> : z \in made}]))
     /\ left' = [left EXCEPT !.confs = Tail(@), !.aborted = @ \cup {g}]
  /\ pc' = "wait" /\ UNCHANGED <<pending, files>>

\* The configuration is refused when it is read, or there is none that is newer.
KeepCycle ==
  /\ pc = "reconfigure" /\ m.newBinary = None
  /\ Become(With(World, Lower("reconfigure")))
  /\ pc' = "wait" /\ UNCHANGED <<pending, files, left>>

\* After ngx_msleep(100).
Retire ==
  /\ pc = "retire" /\ Become(SignalWorkers(World, "quit"))
  /\ GoOn(2) /\ UNCHANGED <<pending, files, left>>

Restart ==
  /\ pc = "restart"
  /\ \E ok \in ForkOutcomes :
       /\ Become(StartAll(With(World, [Lower("restart") EXCEPT !.live = TRUE]), "respawn", ok))
       /\ Forked(ok)
  /\ GoOn(3) /\ UNCHANGED <<pending, files>>

Reopen ==
  /\ pc = "reopen" /\ Become(SignalWorkers(With(World, Lower("reopen")), "reopen"))
  /\ GoOn(4) /\ UNCHANGED <<pending, files, left>>

\* Mutant: the name is not changed back when fork fails.
PidFilesRenamed(done) == [pid |-> None, old |-> files.pid]
PidFiles(done) == IF done THEN [pid |-> None, old |-> files.pid] ELSE files

\* ngx_exec_new_binary: the pid file is renamed first, and back if fork fails.
ChangeBinary ==
  /\ pc = "changeBinary"
  /\ \E ok \in ForkOutcomes :
       LET w == With(World, Lower("changeBinary"))
           a == SpawnAt(w, FreeSlot(w), "binary", "detached", ok)
       IN /\ Become(With(a, [a.m EXCEPT !.newBinary = IF Spawned(w, a) THEN m.next ELSE Invalid]))
          /\ files' = PidFiles(Spawned(w, a))
          /\ Forked(ok)
  /\ GoOn(5) /\ UNCHANGED pending

NoAccept ==
  /\ pc = "noaccept"
  /\ Become(SignalWorkers(With(World, [Lower("noaccept") EXCEPT !.noaccepting = TRUE]), "quit"))
  /\ pc' = "wait" /\ UNCHANGED <<pending, files, left>>

-----------------------------------------------------------------------------
(* The children.                                                             *)
Die(p, how) ==
  /\ child' = [child EXCEPT ![p] = [Unborn EXCEPT !.st = how, !.kind = child[p].kind]]
  /\ inbox' = [inbox EXCEPT ![p] = <<>>]
  /\ pending' = pending \cup {"CHLD"}

\* ngx_worker_process_init, which may exit(2).
ChildInit(p) ==
  /\ child[p].st = "init" /\ child[p].kind # "binary"
  /\ child' = [child EXCEPT ![p].st = "run"]
  /\ UNCHANGED <<m, inbox, pc, pending, files, left>>
ChildRefuse(p) ==
  /\ child[p].st = "init" /\ child[p].kind # "binary" /\ left.refused > 0
  /\ Die(p, "fatal") /\ left' = RefusalSpent
  /\ UNCHANGED <<m, pc, files>>

\* ngx_channel_handler reads until the channel is empty.
Heard(c, msgs) ==
  LET told(cmd) == \E i \in DOMAIN msgs : msgs[i].cmd = cmd
      about(s) == {i \in DOMAIN msgs : msgs[i].cmd \in {"open", "close"} /\ msgs[i].slot = s}
  IN [c EXCEPT !.quit = @ \/ told("quit"), !.term = @ \/ told("terminate"),
        !.view = [s \in Slots |-> IF about(s) = {} THEN @[s]
                    ELSE IF msgs[Max(about(s))].cmd = "open" THEN msgs[Max(about(s))].pid ELSE None]]
ChildRead(p) ==
  /\ child[p].st \in {"run", "closing"} /\ inbox[p] # <<>>
  /\ child' = [child EXCEPT ![p] = Heard(@, inbox[p])]
  /\ inbox' = [inbox EXCEPT ![p] = <<>>]
  /\ pending' = IF "terminate" \in m.flags THEN pending \cup {"IO"} ELSE pending
  /\ UNCHANGED <<m, pc, files, left>>

\* A worker acts on its flags after each round of events; a helper, and a
\* worker told to terminate, leaves at once.
ChildLeave(p) ==
  /\ child[p].st \in {"run", "closing"}
  /\ child[p].term \/ (child[p].kind \in Helpers /\ child[p].quit)
  /\ Die(p, "zombie")
  /\ UNCHANGED <<m, pc, files, left>>
WorkerClose(p) ==
  /\ child[p].st = "run" /\ child[p].kind = "worker" /\ child[p].quit /\ ~child[p].term
  /\ child' = [child EXCEPT ![p].st = "closing", ![p].quit = FALSE]
  /\ UNCHANGED <<m, inbox, pc, pending, files, left>>
\* ngx_event_no_timers_left.
WorkerDrained(p) ==
  /\ child[p].st = "closing" /\ Die(p, "zombie")
  /\ UNCHANGED <<m, pc, files, left>>
LoaderDone(p) ==
  /\ child[p].st = "run" /\ child[p].kind = "loader" /\ Die(p, "zombie")
  /\ UNCHANGED <<m, pc, files, left>>

Crash(p) ==
  /\ Alive(p) /\ left.crashes > 0 /\ Die(p, "zombie")
  /\ left' = CrashSpent
  /\ UNCHANGED <<m, pc, files>>

\* The new binary is a master of its own: it writes the pid file when it has
\* started, and deletes it when it leaves.
BinaryUp(p) ==
  /\ child[p].kind = "binary" /\ child[p].st = "init"
  /\ child' = [child EXCEPT ![p].st = "run"] /\ files' = [files EXCEPT !.pid = p]
  /\ UNCHANGED <<m, inbox, pc, pending, left>>
BinaryDown(p) ==
  /\ child[p].kind = "binary" /\ Alive(p) /\ Die(p, "zombie")
  /\ files' = IF child[p].st = "run" THEN [files EXCEPT !.pid = None] ELSE files
  /\ UNCHANGED <<m, pc, left>>

ChildWork(p) == ChildInit(p) \/ ChildRead(p) \/ ChildLeave(p) \/ WorkerClose(p) \/ WorkerDrained(p)
MasterWork ==
  \/ Wake \/ Reap \/ MasterExit \/ Terminate \/ Quit \/ Proceed \/ Recall \/ Reconfigure
  \/ AbortCycle \/ KeepCycle \/ Retire \/ Restart \/ Reopen \/ ChangeBinary \/ NoAccept
Next ==
  \/ MasterWork \/ Alarm
  \/ \E s \in FromOperator : Order(s)
  \/ \E p \in Pids : ChildWork(p) \/ ChildRefuse(p) \/ LoaderDone(p) \/ Crash(p)
                    \/ BinaryUp(p) \/ BinaryDown(p)

\* The master's loop and its timer run; nothing is assumed of the children.
\* Each step of MasterWork, and no other, changes pc, and one is possible
\* exactly when MasterCanWork.
MasterCanWork == pc \notin {"wait", "exited"} \/ (pc = "wait" /\ pending # {})
MasterTurn == MasterCanWork /\ pc' \in Stages
Spec == Init /\ [][Next]_vars /\ WF_pc(MasterTurn) /\ WF_vars(Alarm)

-----------------------------------------------------------------------------
(* Properties.                                                               *)
Entry == [pid : Pids \cup {None}, kind : Kinds, exited : BOOLEAN, exiting : BOOLEAN,
          detached : BOOLEAN, respawn : BOOLEAN, just : BOOLEAN, chan : {"none", "open", "stale"}]
\* The variables hold values of their types; a slot past ngx_last_process has
\* no process of its own, and the channel of a process has a bounded backlog.
TypeOK ==
  /\ m.table \in [Slots -> Entry] /\ m.last \in 0 .. MaxSlots /\ m.next \in 1 .. MaxPid + 1
  /\ m.flags \subseteq Flags /\ pending \subseteq Signals /\ pc \in Stages
  /\ m.newBinary \in Pids \cup {None, Invalid} /\ m.gen \in DOMAIN Confs
  /\ m.delay \in 0 .. KillLevel + 1 /\ m.sigio \in 0 .. Workers + 2
  /\ \A p \in Pids : Len(inbox[p]) <= ChanCap
  /\ \A s \in Slots : s > m.last => m.table[s].pid = None

\* The master never asks the last worker to stop: while nobody told it to
\* leave or to stop accepting, it keeps, whenever it sleeps, a worker of the
\* current configuration that it has not asked to leave, dead workers that
\* it will replace included.  A reload must start the new workers, and must
\* spare them, before it retires the old ones; and when a new binary dies for
\* which the workers were drained, it starts them again.  (A failed fork or a
\* worker that refuses to start, code 2, excuses it, and so does a restart that
\* is still pending when the master sleeps: the turn that was to start the
\* workers was cut short by a HUP whose configuration was refused.)
KeepsServing ==
  pc = "wait" /\ ~Leaving /\ ~m.noaccepting /\ "restart" \notin m.flags /\ ~left.failed
    => \E s \in 1 .. m.last :
         /\ m.table[s].pid # None /\ m.table[s].kind = "worker" /\ ~m.table[s].exiting
         /\ m.table[s].respawn /\ child[m.table[s].pid].gen \in {0, m.gen}

\* ngx_master_process_exit is reached only when every worker and helper the
\* master started is dead, whatever order the signals and the deaths came in,
\* but for one: a HUP that finds no child but a new binary (its workers were
\* drained by WINCH) starts workers without setting live, and a QUIT or TERM
\* before the next reaping leaves them.
NoOrphans ==
  pc = "exited" /\ ~left.uncounted => \A p \in Pids : Alive(p) => child[p].kind = "binary"

\* The master can always be found: while it sleeps its pid is in the pid file
\* or, while a new binary it started is not known to be dead, in the old one.
PidFileNamesTheMaster ==
  pc = "wait" => Self = IF m.newBinary \in Pids THEN files.old ELSE files.pid

\* ngx_processes[] of a child that has read its channel agrees with the
\* master's on every process that has a channel, unless a message was lost on
\* a full channel: processes forked before, after and in the place of others
\* are all announced to it.
ViewsAgree ==
  pc = "wait" /\ ~m.lost /\ ~left.failed =>
    \A p \in Pids : child[p].st \in {"run", "closing"} /\ child[p].kind # "binary" /\ inbox[p] = <<>> =>
      \A s \in 1 .. m.last \ {child[p].slot} :
        m.table[s].pid # None /\ m.table[s].chan = "open" /\ ~m.table[s].exited
          => child[p].view[s] = m.table[s].pid

\* What a reload takes over and what it frees are decided apart, and fit: the
\* shared zones of the configuration in force are mapped, and of the earlier
\* ones only those are that a failed ngx_init_cycle made and left.
ZonesFit ==
  {y \in m.mapped : y[2] \notin left.aborted} = {<<z, m.zones[z]>> : z \in DOMAIN m.zones}

\* A worker is never started without the sockets of its configuration: who dies
\* while the master that quits, its sockets closed, waits for the others is not
\* started again.
BornListening ==
  [][\A p \in Pids : child[p].st = "none" /\ child'[p].st = "init" /\ child'[p].kind = "worker"
       => DOMAIN m'.socks = Confs[child'[p].gen].listen]_vars

\* A master told to terminate does, even when its children hang: SIGALRM
\* doubles the delay until SIGKILL is sent.
TerminateEnds == ("terminate" \in m.flags) ~> (pc = "exited")

\* Told to quit, it leaves once its children do what they are told.
QuitEnds ==
  WF_vars(\E p \in Pids : ChildWork(p)) => (("quit" \in m.flags) ~> (pc = "exited"))

\* Told to leave, in either way, a master does.
StopsEnd == TerminateEnds /\ QuitEnds

\* The types, a pid file that names the master, and the zones that are mapped.
Inv == TypeOK /\ PidFileNamesTheMaster /\ ZonesFit

=============================================================================
