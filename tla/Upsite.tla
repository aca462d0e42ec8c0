------------------------------- MODULE Upsite -------------------------------
(***************************************************************************)
(* The broker src/server/py/py/upsite.py: a ThreadingTCPServer with one     *)
(* handler thread per connection, of an agent or of a panel request.  The   *)
(* threads share the registry conn (address -> handler), a pool of MySQL    *)
(* connections, and the stores: table server (row, online), the redis keys  *)
(* that authorise addresses, and table downLog.                             *)
(*                                                                          *)
(* A thread step is what it does between two accesses to shared state.      *)
(* runMysql is two of them, taking a pooled connection (PoolError when all  *)
(* are taken) and executing the statement.  The agents, the network and the *)
(* panel's transactions are the environment.                                *)
(***************************************************************************)
EXTENDS Naturals, Sequences, FiniteSets

CONSTANTS Addrs,     \* addresses of upgrade servers
          Handlers,  \* threads of agent connections alive at a time (a bound)
          Reqs,      \* downLog ids, never reused; each has a thread of its own,
                     \* that of the connection which carries its command
          PoolSize,  \* pool_size of the MySQL connection pool
          None       \* no handler, address or request

ASSUME PoolAssumption == PoolSize \in Nat
ASSUME ThreadAssumption == Handlers \cap Reqs = {} /\ None \notin Handlers \cup Reqs \cup Addrs
ASSUME FiniteAssumption == IsFiniteSet(Handlers) /\ IsFiniteSet(Reqs)

VARIABLES up,        \* is the broker process running
          conn,      \* upsite.conn, per address: its handler or None
          pc,        \* per thread: where it is
          who,       \* per handler: its client_address
          req,       \* per handler: the reply it handles
          link,      \* per handler: can the peer and it still exchange bytes
          inbox,     \* per handler: lines of the agent not read yet
          outbox,    \* per handler: commands the agent has not taken yet
          leaked,    \* pooled connections lost by a statement that raised
          row, online, auth, \* per address: server row, its flag, redis key
          log,       \* per request: its downLog row and status
          target,    \* per request: the address it is for
          did        \* per request: what the agent's work came to

Threads == Handlers \cup Reqs

handlerVars == <<pc, who, req>>
netVars == <<link, inbox, outbox>>
dbVars == <<row, online, auth, log>>
vars == <<up, conn, pc, who, req, link, inbox, outbox, leaked,
          row, online, auth, log, target, did>>

Queries == {"online", "reply", "mark", "offline"}   \* places that call runMysql
Executing == {"online_x", "reply_x", "mark_x", "offline_x"}
\* finish() has closed wfile.
Closing == {"finish", "offline", "offline_x", "pop", "done", "dead"}
\* "done": returned; "dead": ended by an exception in offline().
PCs == Queries \cup Executing \cup Closing \cup {"auth", "register", "loop", "ctl", "send"}
Replies == {"succ", "fail"} \X Reqs
Pings == {<<"ping", None>>, <<"bad", None>>}   \* "bad": a line json rejects

Init ==
  /\ up = TRUE
  /\ conn = [a \in Addrs |-> None]
  /\ pc = [t \in Threads |-> "done"]
  /\ who = [h \in Handlers |-> None]
  /\ req = [h \in Handlers |-> <<"none", None>>]
  /\ link = [h \in Handlers |-> "closed"]
  /\ inbox = [h \in Handlers |-> <<>>]
  /\ outbox = [h \in Handlers |-> <<>>]
  /\ leaked = 0
  /\ row = [a \in Addrs |-> FALSE]
  /\ online = [a \in Addrs |-> FALSE]
  /\ auth = [a \in Addrs |-> FALSE]
  /\ log = [i \in Reqs |-> "none"]
  /\ target = [i \in Reqs |-> None]
  /\ did = [i \in Reqs |-> "no"]

-----------------------------------------------------------------------------
\* The control flow of a thread.
Goto(h, place) == pc' = [pc EXCEPT ![h] = place] /\ UNCHANGED <<who, req>>
Keep == UNCHANGED <<link, inbox, outbox>>

\* The thread ends; process_request_thread shuts the connection in any case.
End(h, place) ==
  /\ h \in Handlers
  /\ pc' = [pc EXCEPT ![h] = place]
  /\ who' = [who EXCEPT ![h] = None]
  /\ req' = [req EXCEPT ![h] = <<"none", None>>]
  /\ link' = [link EXCEPT ![h] = "closed"]
  /\ inbox' = [inbox EXCEPT ![h] = <<>>]
  /\ outbox' = [outbox EXCEPT ![h] = <<>>]

\* An exception: handle() returns or raises into finish(); one inside finish()
\* itself ends the thread.
Raise(h) ==
  CASE pc[h] \in {"offline", "offline_x"} -> End(h, "dead")
    [] pc[h] \in {"mark", "mark_x"} -> Goto(h, "done") /\ Keep
    [] OTHER -> Goto(h, "finish") /\ Keep

Busy == {t \in Threads : pc[t] \in Executing}
\* Mutant: one connection too many.
PoolFreeOffByOne == Cardinality(Busy) + leaked <= PoolSize

PoolFree == Cardinality(Busy) + leaked < PoolSize

\* A slot for a new connection; a handler the registry still names is no slot.
Free(h) == up /\ pc[h] \in {"done", "dead"} /\ \A a \in Addrs : conn[a] # h

-----------------------------------------------------------------------------
\* handle(), up to its loop.
Auth(h) ==
  /\ pc[h] = "auth"
  /\ Goto(h, IF auth[who[h]] THEN "online" ELSE "finish") /\ Keep
  /\ UNCHANGED <<up, conn, leaked, dbVars, target, did>>

\* runMysql: pool.get_connection().
GetConnection(h) ==
  /\ pc[h] \in Queries
  /\ IF PoolFree
     THEN /\ Goto(h, CASE pc[h] = "online" -> "online_x" [] pc[h] = "reply" -> "reply_x"
                       [] pc[h] = "mark" -> "mark_x" [] pc[h] = "offline" -> "offline_x")
          /\ Keep
     ELSE Raise(h)
  /\ UNCHANGED <<up, conn, leaked, dbVars, target, did>>

\* runMysql: an exception in execute() skips cnx.close(), the connection is
\* never given back.
ExecuteFails(h) ==
  /\ pc[h] \in Executing
  /\ leaked' = leaked + 1
  /\ Raise(h)
  /\ UNCHANGED <<up, conn, dbVars, target, did>>

ExecuteOnline(h) ==
  /\ pc[h] = "online_x"
  /\ online' = [online EXCEPT ![who[h]] = row[who[h]]]
  /\ Goto(h, "register") /\ Keep
  /\ UNCHANGED <<up, conn, leaked, row, auth, log, target, did>>

\* online(): upsite.conn[addr] = self.
Register(h) ==
  /\ pc[h] = "register"
  /\ conn' = [conn EXCEPT ![who[h]] = h]
  /\ Goto(h, "loop") /\ Keep
  /\ UNCHANGED <<up, leaked, dbVars, target, did>>

-----------------------------------------------------------------------------
\* The loop: one line of the agent.
Read(h) ==
  /\ pc[h] = "loop" /\ inbox[h] # <<>>
  /\ LET m == Head(inbox[h]) IN
       /\ inbox' = [inbox EXCEPT ![h] = Tail(@)]
       /\ pc' = [pc EXCEPT ![h] = CASE m[1] = "ping" -> "loop" [] m[1] = "bad" -> "finish"
                                     [] OTHER -> "reply"]
       /\ req' = [req EXCEPT ![h] = IF m \in Replies THEN m ELSE @]
       /\ auth' = [auth EXCEPT ![who[h]] = @ \/ m[1] = "ping"]
  /\ UNCHANGED <<up, conn, who, link, outbox, leaked, row, online, log, target, did>>

\* Mutant: an empty read goes on with the loop.
HangupIgnored(h) ==
  /\ pc[h] = "loop" /\ inbox[h] = <<>> /\ link[h] = "closed"
  /\ UNCHANGED vars

\* An empty read, or 660 seconds without a line.
Hangup(h) ==
  /\ pc[h] = "loop" /\ inbox[h] = <<>> /\ link[h] = "closed"
  /\ Goto(h, "finish") /\ Keep
  /\ UNCHANGED <<up, conn, leaked, dbVars, target, did>>

\* UPDATE downLog waits for the panel's transaction that inserted the row, and
\* finds no row when that was rolled back.
SetStatus(i, s) ==
  /\ log[i] # "tx"
  /\ log' = IF log[i] = "gone" THEN log ELSE [log EXCEPT ![i] = s]

\* Mutant: the two statuses are swapped.
ExecuteReplySwapped(h) ==
  /\ pc[h] = "reply_x"
  /\ SetStatus(req[h][2], IF req[h][1] = "succ" THEN "2" ELSE "1")
  /\ pc' = [pc EXCEPT ![h] = "loop"]
  /\ req' = [req EXCEPT ![h] = <<"none", None>>]
  /\ Keep
  /\ UNCHANGED <<up, conn, who, leaked, row, online, auth, target, did>>

ExecuteReply(h) ==
  /\ pc[h] = "reply_x"
  /\ SetStatus(req[h][2], IF req[h][1] = "succ" THEN "1" ELSE "2")
  /\ pc' = [pc EXCEPT ![h] = "loop"]
  /\ req' = [req EXCEPT ![h] = <<"none", None>>]
  /\ Keep
  /\ UNCHANGED <<up, conn, who, leaked, row, online, auth, target, did>>

-----------------------------------------------------------------------------
\* finish() and offline(): by address, whoever is registered there.
Finish(h) ==
  /\ h \in Handlers /\ pc[h] = "finish"
  /\ IF conn[who[h]] # None THEN Goto(h, "offline") /\ Keep ELSE End(h, "done")
  /\ UNCHANGED <<up, conn, leaked, dbVars, target, did>>

ExecuteOffline(h) ==
  /\ pc[h] = "offline_x"
  /\ online' = [online EXCEPT ![who[h]] = FALSE]
  /\ Goto(h, "pop") /\ Keep
  /\ UNCHANGED <<up, conn, leaked, row, auth, log, target, did>>

\* Mutant: the flag is cleared and the entry stays.
PopForgotten(h) ==
  /\ pc[h] = "pop"
  /\ End(h, "done")
  /\ UNCHANGED <<up, conn, leaked, dbVars, target, did>>

\* pop() of a key another thread has popped raises, and the thread ends too.
Pop(h) ==
  /\ pc[h] = "pop"
  /\ conn' = [conn EXCEPT ![who[h]] = None]
  /\ End(h, "done")
  /\ UNCHANGED <<up, leaked, dbVars, target, did>>

-----------------------------------------------------------------------------
\* A command of the panel, add or del, in the thread of request i.  Its finish()
\* finds no ::1 in the registry.
\* The answer "offline" goes to a socket nobody reads.  add() may also raise,
\* on a v4url without '://' or a command without a website.
Command(i) ==
  /\ pc[i] = "ctl"
  /\ \/ conn[target[i]] # None /\ Goto(i, "send")
     \/ Goto(i, "done")
  /\ Keep
  /\ UNCHANGED <<up, conn, leaked, dbVars, target, did>>

\* Mutant: the status is set after every write, not only after one that raised.
SendMarksAlways(i) ==
  LET g == conn[target[i]] IN
  /\ pc[i] = "send"
  /\ outbox' = IF g # None /\ pc[g] \notin Closing /\ link[g] = "open"
               THEN [outbox EXCEPT ![g] = Append(@, i)] ELSE outbox
  /\ Goto(i, "mark")
  /\ UNCHANGED <<up, conn, link, inbox, leaked, dbVars, target, did>>

\* send(): a write on a connection the peer has left is lost or raises, one on
\* a handler that has finished raises, as does a registry entry popped since.
Send(i) ==
  LET g == conn[target[i]] IN
  /\ pc[i] = "send"
  /\ \/ /\ g # None /\ pc[g] \notin Closing
        /\ outbox' = IF link[g] = "open" THEN [outbox EXCEPT ![g] = Append(@, i)] ELSE outbox
        /\ Goto(i, "done")
     \/ /\ \/ g = None
           \/ g # None /\ (pc[g] \in Closing \/ link[g] = "closed")
        /\ Goto(i, "mark") /\ outbox' = outbox
  /\ UNCHANGED <<up, conn, link, inbox, leaked, dbVars, target, did>>

ExecuteMark(i) ==
  /\ pc[i] = "mark_x"
  /\ SetStatus(i, "2")
  /\ Goto(i, "done") /\ Keep
  /\ UNCHANGED <<up, conn, leaked, row, online, auth, target, did>>

AgentThread(h) ==
  \/ Auth(h) \/ GetConnection(h) \/ ExecuteOnline(h) \/ Register(h)
  \/ Read(h) \/ Hangup(h) \/ ExecuteReply(h)
  \/ Finish(h) \/ ExecuteOffline(h) \/ Pop(h)
CommandThread(i) == Command(i) \/ GetConnection(i) \/ Send(i) \/ ExecuteMark(i)
-----------------------------------------------------------------------------
\* The environment: agents and the network.
\* client.py has one socket: it connects when it has none.
Connect(a) ==
  /\ \A h \in Handlers : ~(link[h] = "open" /\ who[h] = a)
  /\ \E h \in Handlers :
       /\ Free(h)
       /\ pc' = [pc EXCEPT ![h] = "auth"]
       /\ who' = [who EXCEPT ![h] = a]
       /\ link' = [link EXCEPT ![h] = "open"]
  /\ UNCHANGED <<up, conn, req, inbox, outbox, leaked, dbVars, target, did>>

\* The agent closes or the network breaks; what is under way may be lost.
Drop(h) ==
  /\ link[h] = "open"
  /\ link' = [link EXCEPT ![h] = "closed"]
  /\ outbox' = [outbox EXCEPT ![h] = <<>>]
  /\ inbox' = inbox \/ inbox' = [inbox EXCEPT ![h] = <<>>]
  /\ UNCHANGED <<up, conn, handlerVars, leaked, dbVars, target, did>>

\* The agent takes a command and replies, or fails without a reply.
AgentWork(h) ==
  /\ link[h] = "open" /\ outbox[h] # <<>>
  /\ outbox' = [outbox EXCEPT ![h] = Tail(@)]
  /\ LET i == Head(outbox[h]) IN
       \/ \E r \in {"succ", "fail"} :
            /\ did' = [did EXCEPT ![i] = r]
            /\ inbox' = [inbox EXCEPT ![h] = Append(@, <<r, i>>)]
       \/ UNCHANGED <<did, inbox>>
  /\ UNCHANGED <<up, conn, handlerVars, link, leaked, dbVars, target>>

\* A ping, or the doubly encoded line of a send that was tried again.  Bound:
\* only on an empty inbox.
AgentLine(h) ==
  /\ link[h] = "open" /\ inbox[h] = <<>>
  /\ \E m \in Pings : inbox' = [inbox EXCEPT ![h] = <<m>>]
  /\ UNCHANGED <<up, conn, handlerVars, link, outbox, leaked, dbVars, target, did>>

\* The panel: a row of downLog in an open transaction, and a connection that
\* carries the command.
PanelSend(i) ==
  /\ up /\ log[i] = "none"
  /\ \E a \in Addrs : row[a] /\ target' = [target EXCEPT ![i] = a]
  /\ pc' = [pc EXCEPT ![i] = "ctl"]
  /\ log' = [log EXCEPT ![i] = "tx"]
  /\ UNCHANGED <<up, conn, who, req, netVars, leaked, row, online, auth, did>>

PanelEnds(i) ==
  /\ log[i] = "tx"
  /\ \E s \in {"0", "gone"} : log' = [log EXCEPT ![i] = s]
  /\ UNCHANGED <<up, conn, handlerVars, netVars, leaked, row, online, auth, target, did>>

\* controllers/admin/Server.php.
AddServer(a) ==
  /\ ~row[a]
  /\ row' = [row EXCEPT ![a] = TRUE]
  /\ online' = [online EXCEPT ![a] = FALSE]
  /\ auth' = [auth EXCEPT ![a] = TRUE]
  /\ UNCHANGED <<up, conn, handlerVars, netVars, leaked, log, target, did>>

\* The row goes, and with it the server's downLog rows; the redis key stays:
\* del() is called with $data['ipaddr'], and there is no $data.
DelServer(a) ==
  /\ row[a]
  /\ \A i \in Reqs : ~(target[i] = a /\ log[i] = "tx")
  /\ row' = [row EXCEPT ![a] = FALSE]
  /\ online' = [online EXCEPT ![a] = FALSE]
  /\ log' = [i \in Reqs |-> IF target[i] = a THEN "gone" ELSE log[i]]
  /\ UNCHANGED <<up, conn, handlerVars, netVars, leaked, auth, target, did>>

\* The process dies; started again it marks every server offline.
Stop ==
  /\ up /\ up' = FALSE
  /\ conn' = [a \in Addrs |-> None]
  /\ pc' = [t \in Threads |-> "done"]
  /\ who' = [h \in Handlers |-> None]
  /\ req' = [h \in Handlers |-> <<"none", None>>]
  /\ link' = [h \in Handlers |-> "closed"]
  /\ inbox' = [h \in Handlers |-> <<>>]
  /\ outbox' = [h \in Handlers |-> <<>>]
  /\ leaked' = 0
  /\ UNCHANGED <<dbVars, target, did>>

Start ==
  /\ ~up /\ up' = TRUE
  /\ online' = [a \in Addrs |-> FALSE]
  /\ UNCHANGED <<conn, handlerVars, netVars, leaked, row, auth, log, target, did>>

Next ==
  \/ \E h \in Handlers : AgentThread(h)
  \/ \E i \in Reqs : CommandThread(i)
  \/ \E t \in Threads : ExecuteFails(t)
  \/ \E h \in Handlers : Drop(h) \/ AgentWork(h) \/ AgentLine(h)
  \/ \E a \in Addrs : Connect(a) \/ AddServer(a) \/ DelServer(a)
  \/ \E i \in Reqs : PanelSend(i) \/ PanelEnds(i)
  \/ Stop \/ Start

\* The operating system runs every thread, and PHP ends every request.
Fairness ==
  /\ \A h \in Handlers : WF_vars(AgentThread(h))
  /\ \A i \in Reqs : WF_vars(CommandThread(i)) /\ WF_vars(PanelEnds(i))

Spec == Init /\ [][Next]_vars /\ Fairness

-----------------------------------------------------------------------------
(***************************************************************************)
(* Properties                                                               *)
(***************************************************************************)
TypeOK ==
  /\ up \in BOOLEAN
  /\ conn \in [Addrs -> Handlers \cup {None}]
  /\ pc \in [Threads -> PCs]
  /\ who \in [Handlers -> Addrs \cup {None}]
  /\ req \in [Handlers -> {<<"none", None>>} \cup Replies]
  /\ link \in [Handlers -> {"open", "closed"}]
  /\ inbox \in [Handlers -> Seq(Replies \cup Pings)]
  /\ outbox \in [Handlers -> Seq(Reqs)]
  /\ leaked \in 0..PoolSize
  /\ row \in [Addrs -> BOOLEAN] /\ online \in [Addrs -> BOOLEAN] /\ auth \in [Addrs -> BOOLEAN]
  /\ log \in [Reqs -> {"none", "tx", "0", "1", "2", "gone"}]
  /\ target \in [Reqs -> Addrs \cup {None}]
  /\ did \in [Reqs -> {"no", "succ", "fail"}]

\* The registry names a thread of that address, or one whose offline() failed:
\* a command never goes to a server it is not for, and no thread that finished
\* in order is left behind, however connections of one address overlap.
RegistryFits ==
  /\ \A a \in Addrs : conn[a] # None =>
       pc[conn[a]] = "dead" \/ (who[conn[a]] = a /\ pc[conn[a]] \notin {"done", "auth", "online"})
  /\ \A h \in Handlers : \A n \in 1..Len(outbox[h]) : target[outbox[h][n]] = who[h]

\* The status in downLog is what the server's agent made of the command: 1 only
\* when it reported success, 2 never when it did.
StatusIsTheAgents ==
  \A i \in Reqs : /\ log[i] = "1" => did[i] = "succ"
                  /\ log[i] = "2" => did[i] # "succ"

\* A final status is not changed by a late or second update.
StatusIsFinal ==
  [][\A i \in Reqs : log[i] \in {"1", "2"} => log'[i] \in {log[i], "gone"}]_vars

\* A handler whose peer has gone is taken from the registry, unless the pool or
\* MySQL failed it in offline().
HangupUnregisters ==
  \A a \in Addrs, h \in Handlers :
    conn[a] = h /\ link[h] = "closed" ~> conn[a] # h \/ pc[h] = "dead"

\* README, "refresh the page and confirm that the added server is online": an
\* agent that is authorised and stays connected is, or gets, registered.
LiveAgentIsRegistered ==
  \A a \in Addrs, h \in Handlers :
    pc[h] = "loop" /\ who[h] = a ~> conn[a] # None \/ pc[h] # "loop"

\* delServer takes the authorisation of the address back: a connection passes
\* the check in handle() only while the server is in the list.
DeletedServerIsDenied ==
  [][\A h \in Handlers : pc[h] = "auth" /\ pc'[h] = "online" => row[who[h]]]_vars

\* Where a thread can be and what it knows there.
HandlerPCs == {"auth", "online", "online_x", "register", "loop", "reply", "reply_x",
               "finish", "offline", "offline_x", "pop", "done", "dead"}
ThreadsFit ==
  /\ \A h \in Handlers : /\ pc[h] \in HandlerPCs
                         /\ pc[h] \notin {"done", "dead"} => who[h] \in Addrs
                         /\ pc[h] \in {"done", "dead"} => outbox[h] = <<>>
                         /\ pc[h] \in {"reply", "reply_x"} => req[h] \in Replies
  /\ \A i \in Reqs : /\ pc[i] \in {"done", "ctl", "send", "mark", "mark_x"}
                     /\ pc[i] # "done" => target[i] \in Addrs

\* No more connections are in use or lost than the pool has.
PoolFits == Cardinality(Busy) + leaked <= PoolSize

\* A command is with its thread or with one server, once, and without a result;
\* a reply on its way is what the agent did.
CommandsFit ==
  /\ \A i \in Reqs : pc[i] # "done" \/ log[i] = "none" =>
       did[i] = "no" /\ \A h \in Handlers : \A n \in 1..Len(outbox[h]) : outbox[h][n] # i
  /\ \A i \in Reqs : pc[i] # "done" => log[i] \notin {"none", "1", "2"}
  /\ \A h \in Handlers : \A n \in 1..Len(outbox[h]) :
       did[outbox[h][n]] = "no" /\ log[outbox[h][n]] \notin {"none", "1", "2"}
  /\ \A g, h \in Handlers : \A m \in 1..Len(outbox[g]), n \in 1..Len(outbox[h]) :
       outbox[g][m] = outbox[h][n] => g = h /\ m = n
  /\ \A h \in Handlers : \A n \in 1..Len(inbox[h]) :
       inbox[h][n] \in Replies => did[inbox[h][n][2]] = inbox[h][n][1]
  /\ \A h \in Handlers : pc[h] \in {"reply", "reply_x"} => did[req[h][2]] = req[h][1]

\* The types, a registry that fits the live connections, what a command is sent
\* by, and what both rest on.
Inv == TypeOK /\ RegistryFits /\ ThreadsFit /\ PoolFits /\ CommandsFit

=============================================================================
