---------------------------- MODULE UpsiteProofs ----------------------------
(***************************************************************************)
(* Proofs about module Upsite, for any number of servers, connections and   *)
(* requests: the registry fits the connections, the pool is not overdrawn,  *)
(* and the status of a command is what its server's agent made of it.       *)
(***************************************************************************)
EXTENDS Upsite, FiniteSetTheorems, TLAPS

-----------------------------------------------------------------------------
(***************************************************************************)
(* The steps of a thread that only move it: to the next place, or to its    *)
(* end.                                                                     *)
(***************************************************************************)
Others == UNCHANGED <<up, conn, dbVars, target, did>>

Ways == {<<"online", "online_x">>, <<"reply", "reply_x">>, <<"offline", "offline_x">>,
         <<"online", "finish">>, <<"online_x", "finish">>, <<"reply", "finish">>,
         <<"reply_x", "finish">>, <<"finish", "offline">>}
CommandWays == {<<"mark", "mark_x">>, <<"mark", "done">>, <<"mark_x", "done">>,
                <<"ctl", "send">>, <<"ctl", "done">>}

\* Handler h, or the thread of request i, goes on.
Walk(h) == \E q : <<pc[h], q>> \in Ways /\ Goto(h, q) /\ Keep
CommandWalk(i) == \E q : <<pc[i], q>> \in CommandWays /\ Goto(i, q) /\ Keep

\* Handler h ends, in order when no entry of the registry names its address.
Ends(h) ==
  \/ pc[h] \in {"offline", "offline_x"} /\ End(h, "dead")
  \/ pc[h] = "finish" /\ conn[who[h]] = None /\ End(h, "done")

Passes == Others /\ \/ \E h \in Handlers : Walk(h) \/ Ends(h)
                    \/ \E i \in Reqs : CommandWalk(i)

\* A thread that raises goes where a thread may go.
LEMMA RaisePasses ==
  ASSUME TypeOK, ThreadsFit, NEW t \in Threads, Raise(t), pc[t] \in Queries \cup Executing, Others
  PROVE  Passes
<1> USE DEF Passes, ThreadsFit, HandlerPCs
<1>1. CASE t \in Handlers /\ pc[t] \in {"offline", "offline_x"}
  BY <1>1 DEF Raise, Ends
<1>2. CASE t \in Reqs
  <2>1. pc[t] \in {"mark", "mark_x"}
    BY <1>2 DEF Queries, Executing
  <2>2. Goto(t, "done") /\ Keep
    BY <2>1 DEF Raise
  <2> QED BY <1>2, <2>1, <2>2 DEF CommandWalk, CommandWays
<1>3. CASE t \in Handlers /\ pc[t] \notin {"offline", "offline_x"}
  <2>1. pc[t] \in {"online", "online_x", "reply", "reply_x"}
    BY <1>3 DEF Queries, Executing
  <2>2. Goto(t, "finish") /\ Keep
    BY <2>1 DEF Raise
  <2> QED BY <1>3, <2>1, <2>2 DEF Walk, Ways
<1> QED BY <1>1, <1>2, <1>3 DEF Threads

\* So does one that takes a connection from the pool.
LEMMA GetConnectionPasses ==
  ASSUME TypeOK, ThreadsFit, NEW t \in Threads, GetConnection(t)
  PROVE  Passes
<1>1. Others /\ pc[t] \in Queries
  BY DEF GetConnection, Others
<1>2. CASE ~PoolFree
  <2>1. Raise(t)
    BY <1>2 DEF GetConnection
  <2> QED BY <1>1, <2>1, RaisePasses
<1>3. CASE PoolFree /\ t \in Reqs
  <2>1. pc[t] = "mark"
    BY <1>1, <1>3 DEF ThreadsFit, Queries
  <2>2. Goto(t, "mark_x") /\ Keep
    BY <1>3, <2>1 DEF GetConnection
  <2> QED BY <1>1, <1>3, <2>1, <2>2 DEF Passes, CommandWalk, CommandWays
<1>4. CASE PoolFree /\ t \in Handlers
  <2>1. pc[t] \in {"online", "reply", "offline"}
    BY <1>1, <1>4 DEF ThreadsFit, HandlerPCs, Queries
  <2>2. /\ Keep
        /\ pc[t] = "online" => Goto(t, "online_x")
        /\ pc[t] = "reply" => Goto(t, "reply_x")
        /\ pc[t] = "offline" => Goto(t, "offline_x")
    BY <1>4, <2>1 DEF GetConnection
  <2>3. Walk(t)
    BY <2>1, <2>2 DEF Walk, Ways
  <2> QED BY <1>1, <1>4, <2>3 DEF Passes
<1> QED BY <1>2, <1>3, <1>4 DEF Threads

\* So does one whose statement fails.
LEMMA ExecuteFailsPasses ==
  ASSUME TypeOK, ThreadsFit, NEW t \in Threads, ExecuteFails(t)
  PROVE  Passes
<1>1. Others /\ pc[t] \in Executing /\ Raise(t)
  BY DEF ExecuteFails, Others
<1> QED BY <1>1, RaisePasses

\* So does a handler that ends.
LEMMA FinishPasses ==
  ASSUME TypeOK, ThreadsFit, NEW h \in Handlers, Finish(h)
  PROVE  Passes
<1>1. Others /\ pc[h] = "finish"
  BY DEF Finish, Others
<1>2. CASE conn[who[h]] # None
  <2>1. Goto(h, "offline") /\ Keep
    BY <1>2 DEF Finish
  <2> QED BY <1>1, <2>1 DEF Passes, Walk, Ways
<1>3. CASE conn[who[h]] = None
  <2>1. End(h, "done")
    BY <1>3 DEF Finish
  <2> QED BY <1>1, <1>3, <2>1 DEF Passes, Ends
<1> QED BY <1>2, <1>3

\* So does a command of the panel.
LEMMA CommandPasses ==
  ASSUME TypeOK, ThreadsFit, NEW i \in Reqs, Command(i)
  PROVE  Passes
<1>1. Others /\ Keep /\ pc[i] = "ctl" /\ (Goto(i, "send") \/ Goto(i, "done"))
  BY DEF Command, Others
<1>2. CommandWalk(i)
  BY <1>1 DEF CommandWalk, CommandWays
<1> QED BY <1>1, <1>2 DEF Passes

-----------------------------------------------------------------------------
\* The empty lists.
LEMMA Nothing ==
  /\ <<>> \in Seq(Replies \cup Pings) /\ <<>> \in Seq(Reqs) /\ Len(<<>>) = 0
OBVIOUS

\* A command put at the end of what a handler is to send.
LEMMA SendMoves ==
  ASSUME TypeOK, NEW g \in Handlers, NEW i \in Reqs
  PROVE  /\ Append(outbox[g], i) \in Seq(Reqs) /\ Len(outbox[g]) \in Nat
         /\ Len(Append(outbox[g], i)) = Len(outbox[g]) + 1
         /\ \A n \in 1..Len(outbox[g]) : Append(outbox[g], i)[n] = outbox[g][n]
         /\ Append(outbox[g], i)[Len(outbox[g]) + 1] = i
<1>1. outbox[g] \in Seq(Reqs)
  BY DEF TypeOK
<1> QED BY <1>1

\* Taking the first command of those.
LEMMA WorkMoves ==
  ASSUME TypeOK, NEW h \in Handlers, outbox[h] # <<>>
  PROVE  /\ Head(outbox[h]) = outbox[h][1] /\ outbox[h][1] \in Reqs
         /\ Tail(outbox[h]) \in Seq(Reqs) /\ Len(outbox[h]) \in Nat \ {0}
         /\ Len(Tail(outbox[h])) = Len(outbox[h]) - 1
         /\ \A n \in 1..Len(Tail(outbox[h])) :
              Tail(outbox[h])[n] = outbox[h][n + 1] /\ n + 1 \in 1..Len(outbox[h])
<1>1. outbox[h] \in Seq(Reqs)
  BY DEF TypeOK
<1> QED BY <1>1

\* A line put at the end of what an agent sent.
LEMMA LineMoves ==
  ASSUME TypeOK, NEW h \in Handlers, NEW m \in Replies \cup Pings
  PROVE  /\ Append(inbox[h], m) \in Seq(Replies \cup Pings) /\ Len(inbox[h]) \in Nat
         /\ Len(Append(inbox[h], m)) = Len(inbox[h]) + 1
         /\ \A n \in 1..Len(inbox[h]) : Append(inbox[h], m)[n] = inbox[h][n]
         /\ Append(inbox[h], m)[Len(inbox[h]) + 1] = m
<1>1. inbox[h] \in Seq(Replies \cup Pings)
  BY DEF TypeOK
<1> HIDE DEF Replies, Pings
<1> QED BY <1>1

\* Taking the first line of those.
LEMMA ReadMoves ==
  ASSUME TypeOK, NEW h \in Handlers, inbox[h] # <<>>
  PROVE  /\ Head(inbox[h]) = inbox[h][1] /\ inbox[h][1] \in Replies \cup Pings
         /\ Tail(inbox[h]) \in Seq(Replies \cup Pings) /\ Len(inbox[h]) \in Nat \ {0}
         /\ Len(Tail(inbox[h])) = Len(inbox[h]) - 1
         /\ \A n \in 1..Len(Tail(inbox[h])) :
              Tail(inbox[h])[n] = inbox[h][n + 1] /\ n + 1 \in 1..Len(inbox[h])
<1>1. inbox[h] \in Seq(Replies \cup Pings)
  BY DEF TypeOK
<1> QED BY <1>1

\* What the end of a handler changes, place by place.
LEMMA EndMoves ==
  ASSUME TypeOK, NEW h \in Handlers, NEW p, End(h, p)
  PROVE  /\ pc' = [pc EXCEPT ![h] = p] /\ who' = [who EXCEPT ![h] = None]
         /\ req' = [req EXCEPT ![h] = <<"none", None>>]
         /\ link' = [link EXCEPT ![h] = "closed"]
         /\ inbox' \in [Handlers -> Seq(Replies \cup Pings)]
         /\ outbox' \in [Handlers -> Seq(Reqs)]
         /\ inbox'[h] = <<>> /\ outbox'[h] = <<>> /\ pc'[h] = p
         /\ \A g \in Handlers \ {h} : /\ inbox'[g] = inbox[g] /\ outbox'[g] = outbox[g]
                                      /\ pc'[g] = pc[g] /\ who'[g] = who[g] /\ req'[g] = req[g]
         /\ \A i \in Reqs : pc'[i] = pc[i]
<1>1. /\ inbox' = [inbox EXCEPT ![h] = <<>>] /\ outbox' = [outbox EXCEPT ![h] = <<>>]
      /\ pc' = [pc EXCEPT ![h] = p] /\ who' = [who EXCEPT ![h] = None]
      /\ req' = [req EXCEPT ![h] = <<"none", None>>] /\ link' = [link EXCEPT ![h] = "closed"]
  BY DEF End
<1>2. /\ inbox' \in [Handlers -> Seq(Replies \cup Pings)]
      /\ outbox' \in [Handlers -> Seq(Reqs)]
  BY <1>1, Nothing DEF TypeOK
<1>3. /\ inbox'[h] = <<>> /\ outbox'[h] = <<>> /\ pc'[h] = p
      /\ \A g \in Handlers \ {h} : /\ inbox'[g] = inbox[g] /\ outbox'[g] = outbox[g]
                                   /\ pc'[g] = pc[g] /\ who'[g] = who[g] /\ req'[g] = req[g]
      /\ \A i \in Reqs : pc'[i] = pc[i]
  BY <1>1, ThreadAssumption DEF TypeOK, Threads
<1> QED BY <1>1, <1>2, <1>3

\* The same for a connection that breaks.
LEMMA DropMoves ==
  ASSUME TypeOK, NEW h \in Handlers, Drop(h)
  PROVE  /\ inbox' \in [Handlers -> Seq(Replies \cup Pings)]
         /\ outbox' \in [Handlers -> Seq(Reqs)]
         /\ \A g \in Handlers : /\ inbox'[g] \in {inbox[g], <<>>}
                               /\ outbox'[g] \in {outbox[g], <<>>}
<1>1. /\ outbox' = [outbox EXCEPT ![h] = <<>>]
      /\ inbox' = inbox \/ inbox' = [inbox EXCEPT ![h] = <<>>]
  BY DEF Drop
<1>2. /\ inbox' \in [Handlers -> Seq(Replies \cup Pings)]
      /\ outbox' \in [Handlers -> Seq(Reqs)]
  BY <1>1, Nothing DEF TypeOK
<1> QED BY <1>1, <1>2 DEF TypeOK

\* Commands and replies that are lost, or stay where they are, keep the rest.
LEMMA CommandsKept ==
  ASSUME CommandsFit, did' = did, log' = log,
         \A i \in Reqs : pc'[i] = pc[i],
         \A g \in Handlers : /\ inbox'[g] \in {inbox[g], <<>>}
                            /\ outbox'[g] \in {outbox[g], <<>>},
         \A g \in Handlers : pc'[g] \in {"reply", "reply_x"} =>
                              pc[g] \in {"reply", "reply_x"} /\ req'[g] = req[g]
  PROVE  CommandsFit'
<1>1. /\ \A g \in Handlers : \A n \in 1..Len(outbox'[g]) :
           n \in 1..Len(outbox[g]) /\ outbox'[g][n] = outbox[g][n]
      /\ \A g \in Handlers : \A n \in 1..Len(inbox'[g]) :
           n \in 1..Len(inbox[g]) /\ inbox'[g][n] = inbox[g][n]
  BY Nothing
<1> QED BY <1>1 DEF CommandsFit

\* The threads that execute a statement are as many as the pool has given out:
\* one more after a step that finds the pool free, one less after the others.
LEMMA BusyCounts ==
  ASSUME TypeOK
  PROVE  /\ IsFiniteSet(Busy) /\ IsFiniteSet(Busy') /\ Cardinality(Busy) \in Nat
         /\ leaked \in Nat
         /\ Busy' \subseteq Busy => Cardinality(Busy') <= Cardinality(Busy)
         /\ \A t \in Busy \ Busy' : Busy' \subseteq Busy => Cardinality(Busy') + 1 <= Cardinality(Busy)
         /\ \A t : Busy' \subseteq Busy \cup {t} => Cardinality(Busy') <= Cardinality(Busy) + 1
<1>1. IsFiniteSet(Busy) /\ IsFiniteSet(Busy')
  <2>1. IsFiniteSet(Threads)
    BY FiniteAssumption, FS_Union DEF Threads
  <2>2. Busy \subseteq Threads /\ Busy' \subseteq Threads
    BY DEF Busy
  <2> QED BY <2>1, <2>2, FS_Subset
<1>2. Cardinality(Busy) \in Nat /\ Cardinality(Busy') \in Nat
  BY <1>1, FS_CardinalityType
<1>3. leaked \in Nat
  BY PoolAssumption DEF TypeOK
<1>4. ASSUME Busy' \subseteq Busy PROVE Cardinality(Busy') <= Cardinality(Busy)
  BY <1>1, <1>4, FS_Subset
<1>5. ASSUME NEW t \in Busy \ Busy', Busy' \subseteq Busy
      PROVE  Cardinality(Busy') + 1 <= Cardinality(Busy)
  <2>1. Busy' \cup {t} \subseteq Busy
    BY <1>5
  <2>2. Cardinality(Busy' \cup {t}) = Cardinality(Busy') + 1
    BY <1>1, <1>5, FS_AddElement
  <2> QED BY <1>1, <1>2, <2>1, <2>2, FS_Subset
<1>6. ASSUME NEW t, Busy' \subseteq Busy \cup {t}
      PROVE  Cardinality(Busy') <= Cardinality(Busy) + 1
  <2>1. /\ IsFiniteSet(Busy \cup {t})
        /\ Cardinality(Busy \cup {t}) <= Cardinality(Busy) + 1
    <3>1. IsFiniteSet(Busy \cup {t}) /\ (t \notin Busy => Cardinality(Busy \cup {t}) = Cardinality(Busy) + 1)
      BY <1>1, FS_AddElement
    <3>2. t \in Busy => Busy \cup {t} = Busy
      OBVIOUS
    <3> QED BY <1>2, <3>1, <3>2
  <2>2. Cardinality(Busy') <= Cardinality(Busy \cup {t}) /\ Cardinality(Busy \cup {t}) \in Nat
    BY <1>6, <2>1, FS_Subset, FS_CardinalityType
  <2> QED BY <1>2, <2>1, <2>2
<1> QED BY <1>1, <1>2, <1>3, <1>4, <1>5, <1>6

\* Every step keeps the pool's books: busy and leaked connections fit its size.
LEMMA PoolStep ==
  ASSUME TypeOK, ThreadsFit, PoolFits, [Next]_vars
  PROVE  PoolFits' /\ leaked' \in 0..PoolSize
<1>0. PoolSize \in Nat /\ Cardinality(Busy) + leaked <= PoolSize /\ Cardinality(Busy') \in Nat
  BY PoolAssumption, BusyCounts, FS_CardinalityType DEF PoolFits
<1>1. CASE \E t \in Threads : GetConnection(t)
  <2>1. PICK t \in Threads : GetConnection(t)
    BY <1>1
  <2>2. leaked' = leaked
    BY <2>1 DEF GetConnection
  <2>3. CASE PoolFree
    <3>1. \A u \in Threads \ {t} : pc'[u] = pc[u]
      BY <2>1, <2>3 DEF GetConnection, Goto, TypeOK
    <3>2. Busy' \subseteq Busy \cup {t}
      BY <3>1 DEF Busy
    <3> QED BY <1>0, <2>2, <2>3, <3>2, BusyCounts DEF PoolFree, PoolFits
  <2>4. CASE ~PoolFree
    <3>1. Raise(t)
      BY <2>1, <2>4 DEF GetConnection
    <3>2. Busy' \subseteq Busy
      BY <3>1 DEF Raise, End, Goto, Busy, Executing, TypeOK
    <3> QED BY <1>0, <2>2, <3>2, BusyCounts DEF PoolFits
  <2> QED BY <2>3, <2>4
<1>2. CASE \E t \in Threads : ExecuteFails(t)
  <2>1. PICK t \in Threads : ExecuteFails(t)
    BY <1>2
  <2>2. leaked' = leaked + 1 /\ t \in Busy /\ Raise(t)
    BY <2>1 DEF ExecuteFails, Busy
  <2>3. Busy' \subseteq Busy /\ t \notin Busy'
    BY <2>2 DEF Raise, End, Goto, Busy, Executing, TypeOK
  <2>4. Cardinality(Busy') + 1 <= Cardinality(Busy)
    BY <2>2, <2>3, BusyCounts
  <2> QED BY <1>0, <2>2, <2>4, BusyCounts DEF PoolFits
<1>3. CASE Stop
  <2>1. Busy' = {} /\ leaked' = 0
    BY <1>3 DEF Stop, Busy, Executing
  <2> QED BY <1>0, <2>1, FS_EmptySet DEF PoolFits
<1>4. CASE ~(\E t \in Threads : GetConnection(t) \/ ExecuteFails(t)) /\ ~Stop
  <2>1. leaked' = leaked
    BY <1>4 DEF Next, vars, AgentThread, CommandThread, Threads, Auth, ExecuteOnline, Register,
                Read, Hangup, ExecuteReply, Finish, ExecuteOffline, Pop, Command, Send, ExecuteMark,
                Drop, AgentWork, AgentLine, Connect, AddServer, DelServer, PanelSend, PanelEnds, Start
  <2>2. Busy' \subseteq Busy
    <3> USE DEF Busy, Executing, TypeOK, handlerVars
    <3>1. ASSUME NEW h \in Handlers, AgentThread(h) PROVE Busy' \subseteq Busy
      BY <1>4, <3>1 DEF AgentThread, Threads, Auth, ExecuteOnline, Register, Read, Hangup,
                   ExecuteReply, Finish, ExecuteOffline, Pop, Goto, End
    <3>2. ASSUME NEW i \in Reqs, CommandThread(i) PROVE Busy' \subseteq Busy
      BY <1>4, <3>2 DEF CommandThread, Threads, Command, Send, ExecuteMark, Goto
    <3>3. ASSUME NEW h \in Handlers, Drop(h) \/ AgentWork(h) \/ AgentLine(h) PROVE Busy' \subseteq Busy
      BY <3>3 DEF Drop, AgentWork, AgentLine
    <3>4. ASSUME NEW a \in Addrs, Connect(a) \/ AddServer(a) \/ DelServer(a) PROVE Busy' \subseteq Busy
      BY <3>4 DEF Connect, AddServer, DelServer
    <3>5. ASSUME NEW i \in Reqs, PanelSend(i) \/ PanelEnds(i) PROVE Busy' \subseteq Busy
      BY <3>5 DEF PanelSend, PanelEnds
    <3>6. ASSUME Start \/ UNCHANGED vars PROVE Busy' \subseteq Busy
      BY <3>6 DEF Start, vars
    <3> QED BY <1>4, <3>1, <3>2, <3>3, <3>4, <3>5, <3>6 DEF Next
  <2> QED BY <1>0, <2>1, <2>2, BusyCounts DEF PoolFits
<1> QED BY <1>1, <1>2, <1>3, <1>4

\* Every step keeps the types.
LEMMA TypesStep ==
  ASSUME TypeOK, ThreadsFit, leaked' \in 0..PoolSize, [Next]_vars
  PROVE  TypeOK'
<1> USE ThreadAssumption, PoolAssumption DEF TypeOK, ThreadsFit, PCs, HandlerPCs, Threads, Replies, Pings, Queries, Executing, Closing
<1>0. Passes => TypeOK'
  <2>1. ASSUME Others, NEW h \in Handlers, Walk(h) PROVE TypeOK'
    BY <2>1 DEF Others, Walk, Ways, Goto, Keep, dbVars, netVars, handlerVars
  <2>2. ASSUME Others, NEW h \in Handlers, Ends(h) PROVE TypeOK'
    <3>1. PICK p \in {"done", "dead"} : End(h, p)
      BY <2>2 DEF Ends
    <3>2. UNCHANGED <<up, conn, row, online, auth, log, target, did>>
      BY <2>2 DEF Others, dbVars
    <3>3. /\ pc' \in [Threads -> PCs] /\ who' \in [Handlers -> Addrs \cup {None}]
          /\ link' \in [Handlers -> {"open", "closed"}]
          /\ req' \in [Handlers -> {<<"none", None>>} \cup Replies]
      <4>1. /\ pc' = [pc EXCEPT ![h] = p] /\ who' = [who EXCEPT ![h] = None]
            /\ req' = [req EXCEPT ![h] = <<"none", None>>]
            /\ link' = [link EXCEPT ![h] = "closed"]
        BY <3>1, EndMoves
      <4>2. p \in PCs
        BY <3>1
      <4> HIDE DEF ThreadsFit, Replies, PCs
      <4> QED BY <4>1, <4>2
    <3>4. /\ inbox' \in [Handlers -> Seq(Replies \cup Pings)]
          /\ outbox' \in [Handlers -> Seq(Reqs)]
      BY <3>1, EndMoves
    <3> QED BY <3>2, <3>3, <3>4
  <2>3. ASSUME Others, NEW i \in Reqs, CommandWalk(i) PROVE TypeOK'
    BY <2>3 DEF Others, CommandWalk, CommandWays, Goto, Keep, dbVars, netVars, handlerVars
  <2> QED BY <2>1, <2>2, <2>3 DEF Passes
<1>1. ASSUME NEW h \in Handlers, Auth(h) PROVE TypeOK'
  BY <1>1 DEF Auth, Goto, Keep, dbVars, netVars, handlerVars
<1>2. ASSUME NEW t \in Threads, GetConnection(t) PROVE TypeOK'
  BY <1>2, GetConnectionPasses, <1>0
<1>3. ASSUME NEW h \in Handlers, ExecuteOnline(h) PROVE TypeOK'
  BY <1>3 DEF ExecuteOnline, Goto, Keep, dbVars, netVars, handlerVars
<1>4. ASSUME NEW h \in Handlers, Register(h) PROVE TypeOK'
  BY <1>4 DEF Register, Goto, Keep, dbVars, netVars, handlerVars
<1>5. ASSUME NEW h \in Handlers, Read(h) PROVE TypeOK'
  BY <1>5, ReadMoves DEF Read, dbVars, netVars, handlerVars
<1>6. ASSUME NEW h \in Handlers, Hangup(h) PROVE TypeOK'
  BY <1>6 DEF Hangup, Goto, Keep, dbVars, netVars, handlerVars
<1>7. ASSUME NEW h \in Handlers, ExecuteReply(h) PROVE TypeOK'
  BY <1>7 DEF ExecuteReply, Keep, SetStatus, dbVars, netVars, handlerVars
<1>8. ASSUME NEW h \in Handlers, Finish(h) PROVE TypeOK'
  BY <1>8, FinishPasses, <1>0
<1>9. ASSUME NEW h \in Handlers, ExecuteOffline(h) PROVE TypeOK'
  BY <1>9 DEF ExecuteOffline, Goto, Keep, dbVars, netVars, handlerVars
<1>10. ASSUME NEW h \in Handlers, Pop(h) PROVE TypeOK'
  BY <1>10 DEF Pop, End, dbVars, netVars, handlerVars
<1>11. ASSUME NEW i \in Reqs, Command(i) PROVE TypeOK'
  BY <1>11, CommandPasses, <1>0
<1>12. ASSUME NEW i \in Reqs, Send(i) PROVE TypeOK'
  <2>1. CASE outbox' = outbox
    <3>1. pc' = [pc EXCEPT ![i] = "done"] \/ pc' = [pc EXCEPT ![i] = "mark"]
      BY <1>12 DEF Send, Goto
    <3>2. UNCHANGED <<up, conn, who, req, link, inbox, leaked, row, online, auth, log, target, did>>
      BY <1>12 DEF Send, Goto, dbVars
    <3>3. pc' \in [Threads -> PCs]
      <4>1. "done" \in PCs /\ "mark" \in PCs /\ i \in Threads
        OBVIOUS
      <4> HIDE DEF ThreadsFit, PCs, Threads
      <4> QED BY <3>1, <4>1
    <3> QED BY <2>1, <3>2, <3>3
  <2>2. CASE outbox' # outbox
    <3>1. LET g == conn[target[i]] IN
          /\ g \in Handlers /\ pc[g] \notin Closing /\ link[g] = "open" /\ pc[i] = "send"
          /\ outbox' = [outbox EXCEPT ![g] = Append(outbox[g], i)]
          /\ pc' = [pc EXCEPT ![i] = "done"] /\ UNCHANGED <<who, req, inbox, link, conn, log, target, did, up, row, online, auth>>
      BY <1>12, <2>2 DEF Send, Goto, dbVars, netVars, handlerVars
    <3> QED BY <3>1, SendMoves DEF Closing
  <2> QED BY <2>1, <2>2
<1>13. ASSUME NEW i \in Reqs, ExecuteMark(i) PROVE TypeOK'
  BY <1>13 DEF ExecuteMark, Goto, Keep, SetStatus, dbVars, netVars, handlerVars
<1>14. ASSUME NEW t \in Threads, ExecuteFails(t) PROVE TypeOK'
  BY <1>14, ExecuteFailsPasses, <1>0
<1>15. ASSUME NEW h \in Handlers, Drop(h) PROVE TypeOK'
  <2>1. /\ outbox' = [outbox EXCEPT ![h] = <<>>]
        /\ inbox' = inbox \/ inbox' = [inbox EXCEPT ![h] = <<>>]
        /\ link' = [link EXCEPT ![h] = "closed"]
        /\ UNCHANGED <<up, conn, pc, who, req, leaked, row, online, auth, log, target, did>>
    BY <1>15 DEF Drop, dbVars, handlerVars
  <2>2. outbox' \in [Handlers -> Seq(Reqs)] /\ inbox' \in [Handlers -> Seq(Replies \cup Pings)]
    BY <1>15, DropMoves
  <2> QED BY <2>1, <2>2
<1>16. ASSUME NEW h \in Handlers, AgentWork(h) PROVE TypeOK'
  <2>1. /\ outbox[h] # <<>> /\ outbox' = [outbox EXCEPT ![h] = Tail(outbox[h])]
        /\ UNCHANGED <<up, conn, pc, who, req, link, leaked, row, online, auth, log, target>>
    BY <1>16 DEF AgentWork, dbVars, handlerVars
  <2>2. outbox' \in [Handlers -> Seq(Reqs)]
    BY <2>1, WorkMoves
  <2>3. CASE UNCHANGED <<did, inbox>>
    BY <2>1, <2>2, <2>3
  <2>4. CASE \E r \in {"succ", "fail"} :
               /\ did' = [did EXCEPT ![Head(outbox[h])] = r]
               /\ inbox' = [inbox EXCEPT ![h] = Append(inbox[h], <<r, Head(outbox[h])>>)]
    <3>1. inbox' \in [Handlers -> Seq(Replies \cup Pings)]
      BY <2>1, <2>4, WorkMoves, LineMoves
    <3>2. did' \in [Reqs -> {"no", "succ", "fail"}]
      <4> HIDE DEF ThreadsFit, Replies, Pings
      <4> QED BY <2>4
    <3> QED BY <2>1, <2>2, <3>1, <3>2
  <2> QED BY <1>16, <2>3, <2>4 DEF AgentWork
<1>17. ASSUME NEW h \in Handlers, AgentLine(h) PROVE TypeOK'
  BY <1>17, LineMoves DEF AgentLine, dbVars, netVars, handlerVars
<1>18. ASSUME NEW a \in Addrs, Connect(a) PROVE TypeOK'
  BY <1>18 DEF Connect, Free, dbVars, netVars, handlerVars
<1>19. ASSUME NEW a \in Addrs, AddServer(a) PROVE TypeOK'
  BY <1>19 DEF AddServer, dbVars, netVars, handlerVars
<1>20. ASSUME NEW a \in Addrs, DelServer(a) PROVE TypeOK'
  BY <1>20 DEF DelServer, dbVars, netVars, handlerVars
<1>21. ASSUME NEW i \in Reqs, PanelSend(i) PROVE TypeOK'
  BY <1>21 DEF PanelSend, dbVars, netVars, handlerVars
<1>22. ASSUME NEW i \in Reqs, PanelEnds(i) PROVE TypeOK'
  BY <1>22 DEF PanelEnds, dbVars, netVars, handlerVars
<1>23. CASE Stop
  BY <1>23, Nothing DEF Stop, dbVars, netVars, handlerVars
<1>24. CASE Start
  BY <1>24 DEF Start, dbVars, netVars, handlerVars
<1>25. CASE UNCHANGED vars
  BY <1>25 DEF vars, dbVars, netVars, handlerVars
<1> QED
  BY <1>1, <1>2, <1>3, <1>4, <1>5, <1>6, <1>7, <1>8, <1>9, <1>10, <1>11, <1>12, <1>13, <1>14, <1>15, <1>16, <1>17, <1>18, <1>19, <1>20, <1>21, <1>22, <1>23, <1>24, <1>25
     DEF Next, AgentThread, CommandThread, Threads

\* Every step keeps what a thread has in agreement with where it is.
LEMMA ThreadsStep ==
  ASSUME TypeOK, ThreadsFit, [Next]_vars
  PROVE  ThreadsFit'
<1> USE ThreadAssumption, PoolAssumption DEF TypeOK, ThreadsFit, HandlerPCs, Threads, Replies, Pings
<1>0. Passes => ThreadsFit'
  <2>1. ASSUME Others, NEW h \in Handlers, Walk(h) PROVE ThreadsFit'
    BY <2>1 DEF Others, Walk, Ways, Goto, Keep, dbVars, netVars, handlerVars
  <2>2. ASSUME Others, NEW h \in Handlers, Ends(h) PROVE ThreadsFit'
    <3>1. PICK p \in {"done", "dead"} : End(h, p)
      BY <2>2 DEF Ends
    <3>2. UNCHANGED <<up, conn, row, online, auth, log, target, did>>
      BY <2>2 DEF Others, dbVars
    <3> QED BY <2>2, <3>1, <3>2, EndMoves, Nothing DEF Ends
  <2>3. ASSUME Others, NEW i \in Reqs, CommandWalk(i) PROVE ThreadsFit'
    BY <2>3 DEF Others, CommandWalk, CommandWays, Goto, Keep, dbVars, netVars, handlerVars
  <2> QED BY <2>1, <2>2, <2>3 DEF Passes
<1>1. ASSUME NEW h \in Handlers, Auth(h) PROVE ThreadsFit'
  BY <1>1 DEF Auth, Goto, Keep, dbVars, netVars, handlerVars
<1>2. ASSUME NEW t \in Threads, GetConnection(t) PROVE ThreadsFit'
  BY <1>2, GetConnectionPasses, <1>0
<1>3. ASSUME NEW h \in Handlers, ExecuteOnline(h) PROVE ThreadsFit'
  BY <1>3 DEF ExecuteOnline, Goto, Keep, dbVars, netVars, handlerVars
<1>4. ASSUME NEW h \in Handlers, Register(h) PROVE ThreadsFit'
  BY <1>4 DEF Register, Goto, Keep, dbVars, netVars, handlerVars
<1>5. ASSUME NEW h \in Handlers, Read(h) PROVE ThreadsFit'
  BY <1>5, ReadMoves DEF Read, dbVars, netVars, handlerVars
<1>6. ASSUME NEW h \in Handlers, Hangup(h) PROVE ThreadsFit'
  BY <1>6 DEF Hangup, Goto, Keep, dbVars, netVars, handlerVars
<1>7. ASSUME NEW h \in Handlers, ExecuteReply(h) PROVE ThreadsFit'
  BY <1>7, ZenonT(90) DEF ExecuteReply, Keep, SetStatus, dbVars, netVars, handlerVars
<1>8. ASSUME NEW h \in Handlers, Finish(h) PROVE ThreadsFit'
  BY <1>8, FinishPasses, <1>0
<1>9. ASSUME NEW h \in Handlers, ExecuteOffline(h) PROVE ThreadsFit'
  BY <1>9 DEF ExecuteOffline, Goto, Keep, dbVars, netVars, handlerVars
<1>10. ASSUME NEW h \in Handlers, Pop(h) PROVE ThreadsFit'
  BY <1>10 DEF Pop, End, dbVars, netVars, handlerVars
<1>11. ASSUME NEW i \in Reqs, Command(i) PROVE ThreadsFit'
  BY <1>11, CommandPasses, <1>0
<1>12. ASSUME NEW i \in Reqs, Send(i) PROVE ThreadsFit'
  <2>1. CASE outbox' = outbox
    <3>1. /\ pc' = [pc EXCEPT ![i] = "done"] \/ pc' = [pc EXCEPT ![i] = "mark"]
          /\ pc[i] = "send" /\ UNCHANGED <<who, req, target>>
      BY <1>12, <2>1 DEF Send, Goto, handlerVars
    <3>2. /\ \A g \in Handlers : pc'[g] = pc[g]
          /\ \A k \in Reqs : \/ pc'[k] = pc[k]
                             \/ pc'[k] \in {"done", "mark"} /\ pc[k] # "done"
      BY <3>1
    <3> HIDE DEF TypeOK, Replies
    <3> QED BY <2>1, <3>1, <3>2
  <2>2. CASE outbox' # outbox
    <3>1. LET g == conn[target[i]] IN
          /\ g \in Handlers /\ pc[g] \notin Closing /\ link[g] = "open" /\ pc[i] = "send"
          /\ outbox' = [outbox EXCEPT ![g] = Append(outbox[g], i)]
          /\ pc' = [pc EXCEPT ![i] = "done"] /\ UNCHANGED <<who, req, inbox, link, conn, log, target, did, up, row, online, auth>>
      BY <1>12, <2>2 DEF Send, Goto, dbVars, netVars, handlerVars
    <3> QED BY <3>1, SendMoves DEF Closing
  <2> QED BY <2>1, <2>2
<1>13. ASSUME NEW i \in Reqs, ExecuteMark(i) PROVE ThreadsFit'
  BY <1>13 DEF ExecuteMark, Goto, Keep, SetStatus, dbVars, netVars, handlerVars
<1>14. ASSUME NEW t \in Threads, ExecuteFails(t) PROVE ThreadsFit'
  BY <1>14, ExecuteFailsPasses, <1>0
<1>15. ASSUME NEW h \in Handlers, Drop(h) PROVE ThreadsFit'
  BY <1>15, Nothing DEF Drop, dbVars, netVars, handlerVars
<1>16. ASSUME NEW h \in Handlers, AgentWork(h) PROVE ThreadsFit'
  BY <1>16, WorkMoves, LineMoves DEF AgentWork, dbVars, netVars, handlerVars
<1>17. ASSUME NEW h \in Handlers, AgentLine(h) PROVE ThreadsFit'
  BY <1>17, LineMoves DEF AgentLine, dbVars, netVars, handlerVars
<1>18. ASSUME NEW a \in Addrs, Connect(a) PROVE ThreadsFit'
  BY <1>18 DEF Connect, Free, dbVars, netVars, handlerVars
<1>19. ASSUME NEW a \in Addrs, AddServer(a) PROVE ThreadsFit'
  BY <1>19 DEF AddServer, dbVars, netVars, handlerVars
<1>20. ASSUME NEW a \in Addrs, DelServer(a) PROVE ThreadsFit'
  BY <1>20 DEF DelServer, dbVars, netVars, handlerVars
<1>21. ASSUME NEW i \in Reqs, PanelSend(i) PROVE ThreadsFit'
  BY <1>21 DEF PanelSend, dbVars, netVars, handlerVars
<1>22. ASSUME NEW i \in Reqs, PanelEnds(i) PROVE ThreadsFit'
  BY <1>22 DEF PanelEnds, dbVars, netVars, handlerVars
<1>23. CASE Stop
  BY <1>23, Nothing DEF Stop, dbVars, netVars, handlerVars
<1>24. CASE Start
  BY <1>24 DEF Start, dbVars, netVars, handlerVars
<1>25. CASE UNCHANGED vars
  BY <1>25 DEF vars, dbVars, netVars, handlerVars
<1> QED
  BY <1>1, <1>2, <1>3, <1>4, <1>5, <1>6, <1>7, <1>8, <1>9, <1>10, <1>11, <1>12, <1>13, <1>14, <1>15, <1>16, <1>17, <1>18, <1>19, <1>20, <1>21, <1>22, <1>23, <1>24, <1>25
     DEF Next, AgentThread, CommandThread, Threads

\* Every step keeps the registry naming live threads of the right address.
LEMMA RegistryStep ==
  ASSUME TypeOK, ThreadsFit, CommandsFit, RegistryFits, [Next]_vars
  PROVE  RegistryFits'
<1> USE ThreadAssumption, PoolAssumption DEF TypeOK, RegistryFits, ThreadsFit, CommandsFit, HandlerPCs, Threads
<1>0. Passes => RegistryFits'
  <2>1. ASSUME Others, NEW h \in Handlers, Walk(h) PROVE RegistryFits'
    BY <2>1 DEF Others, Walk, Ways, Goto, Keep, dbVars, netVars, handlerVars
  <2>2. ASSUME Others, NEW h \in Handlers, Ends(h) PROVE RegistryFits'
    <3>1. PICK p \in {"done", "dead"} : End(h, p)
      BY <2>2 DEF Ends
    <3>2. UNCHANGED <<up, conn, row, online, auth, log, target, did>>
      BY <2>2 DEF Others, dbVars
    <3>3. /\ pc'[h] = p /\ outbox'[h] = <<>>
          /\ \A g \in Handlers \ {h} : outbox'[g] = outbox[g] /\ pc'[g] = pc[g] /\ who'[g] = who[g]
      BY <3>1, EndMoves
    <3>4. ASSUME NEW a \in Addrs, conn[a] # None
          PROVE  pc'[conn[a]] = "dead" \/ (who'[conn[a]] = a /\ pc'[conn[a]] \notin {"done", "auth", "online"})
      <4>1. CASE conn[a] # h
        BY <3>3, <3>4, <4>1
      <4>2. CASE conn[a] = h /\ pc[h] \in {"offline", "offline_x"}
        BY <2>2, <3>1, <3>3, <4>2 DEF Ends, End
      <4>3. CASE conn[a] = h /\ pc[h] = "finish"
        BY <2>2, <3>4, <4>3 DEF Ends
      <4> QED BY <2>2, <4>1, <4>2, <4>3 DEF Ends
    <3>5. ASSUME NEW g \in Handlers, NEW n \in 1..Len(outbox'[g])
          PROVE  target'[outbox'[g][n]] = who'[g]
      <4>1. g # h
        BY <3>3, <3>5, Nothing
      <4>2. outbox'[g] = outbox[g] /\ who'[g] = who[g] /\ target' = target
        BY <3>2, <3>3, <4>1
      <4> QED BY <3>5, <4>2
    <3> QED BY <3>2, <3>4, <3>5
  <2>3. ASSUME Others, NEW i \in Reqs, CommandWalk(i) PROVE RegistryFits'
    BY <2>3 DEF Others, CommandWalk, CommandWays, Goto, Keep, dbVars, netVars, handlerVars
  <2> QED BY <2>1, <2>2, <2>3 DEF Passes
<1>1. ASSUME NEW h \in Handlers, Auth(h) PROVE RegistryFits'
  BY <1>1 DEF Auth, Goto, Keep, dbVars, netVars, handlerVars
<1>2. ASSUME NEW t \in Threads, GetConnection(t) PROVE RegistryFits'
  BY <1>2, GetConnectionPasses, <1>0
<1>3. ASSUME NEW h \in Handlers, ExecuteOnline(h) PROVE RegistryFits'
  BY <1>3 DEF ExecuteOnline, Goto, Keep, dbVars, netVars, handlerVars
<1>4. ASSUME NEW h \in Handlers, Register(h) PROVE RegistryFits'
  BY <1>4 DEF Register, Goto, Keep, dbVars, netVars, handlerVars
<1>5. ASSUME NEW h \in Handlers, Read(h) PROVE RegistryFits'
  BY <1>5, ReadMoves DEF Read, dbVars, netVars, handlerVars
<1>6. ASSUME NEW h \in Handlers, Hangup(h) PROVE RegistryFits'
  BY <1>6 DEF Hangup, Goto, Keep, dbVars, netVars, handlerVars
<1>7. ASSUME NEW h \in Handlers, ExecuteReply(h) PROVE RegistryFits'
  BY <1>7 DEF ExecuteReply, Keep, SetStatus, dbVars, netVars, handlerVars
<1>8. ASSUME NEW h \in Handlers, Finish(h) PROVE RegistryFits'
  BY <1>8, FinishPasses, <1>0
<1>9. ASSUME NEW h \in Handlers, ExecuteOffline(h) PROVE RegistryFits'
  BY <1>9 DEF ExecuteOffline, Goto, Keep, dbVars, netVars, handlerVars
<1>10. ASSUME NEW h \in Handlers, Pop(h) PROVE RegistryFits'
  BY <1>10 DEF Pop, End, dbVars, netVars, handlerVars
<1>11. ASSUME NEW i \in Reqs, Command(i) PROVE RegistryFits'
  BY <1>11, CommandPasses, <1>0
<1>12. ASSUME NEW i \in Reqs, Send(i) PROVE RegistryFits'
  <2>1. CASE outbox' = outbox
    BY <1>12, <2>1 DEF Send, Goto, Closing, dbVars, netVars, handlerVars
  <2>2. CASE outbox' # outbox
    <3>1. LET g == conn[target[i]] IN
          /\ g \in Handlers /\ pc[g] \notin Closing /\ link[g] = "open" /\ pc[i] = "send"
          /\ outbox' = [outbox EXCEPT ![g] = Append(outbox[g], i)]
          /\ pc' = [pc EXCEPT ![i] = "done"] /\ UNCHANGED <<who, req, inbox, link, conn, log, target, did, up, row, online, auth>>
      BY <1>12, <2>2 DEF Send, Goto, dbVars, netVars, handlerVars
    <3> QED BY <3>1, SendMoves DEF Closing
  <2> QED BY <2>1, <2>2
<1>13. ASSUME NEW i \in Reqs, ExecuteMark(i) PROVE RegistryFits'
  BY <1>13 DEF ExecuteMark, Goto, Keep, SetStatus, dbVars, netVars, handlerVars
<1>14. ASSUME NEW t \in Threads, ExecuteFails(t) PROVE RegistryFits'
  BY <1>14, ExecuteFailsPasses, <1>0
<1>15. ASSUME NEW h \in Handlers, Drop(h) PROVE RegistryFits'
  BY <1>15, Nothing DEF Drop, dbVars, netVars, handlerVars
<1>16. ASSUME NEW h \in Handlers, AgentWork(h) PROVE RegistryFits'
  BY <1>16, WorkMoves, LineMoves DEF AgentWork, dbVars, netVars, handlerVars
<1>17. ASSUME NEW h \in Handlers, AgentLine(h) PROVE RegistryFits'
  BY <1>17, LineMoves DEF AgentLine, dbVars, netVars, handlerVars
<1>18. ASSUME NEW a \in Addrs, Connect(a) PROVE RegistryFits'
  BY <1>18 DEF Connect, Free, dbVars, netVars, handlerVars
<1>19. ASSUME NEW a \in Addrs, AddServer(a) PROVE RegistryFits'
  BY <1>19 DEF AddServer, dbVars, netVars, handlerVars
<1>20. ASSUME NEW a \in Addrs, DelServer(a) PROVE RegistryFits'
  BY <1>20 DEF DelServer, dbVars, netVars, handlerVars
<1>21. ASSUME NEW i \in Reqs, PanelSend(i) PROVE RegistryFits'
  BY <1>21 DEF PanelSend, dbVars, netVars, handlerVars
<1>22. ASSUME NEW i \in Reqs, PanelEnds(i) PROVE RegistryFits'
  BY <1>22 DEF PanelEnds, dbVars, netVars, handlerVars
<1>23. CASE Stop
  BY <1>23, Nothing DEF Stop, dbVars, netVars, handlerVars
<1>24. CASE Start
  BY <1>24 DEF Start, dbVars, netVars, handlerVars
<1>25. CASE UNCHANGED vars
  BY <1>25 DEF vars, dbVars, netVars, handlerVars
<1> QED
  BY <1>1, <1>2, <1>3, <1>4, <1>5, <1>6, <1>7, <1>8, <1>9, <1>10, <1>11, <1>12, <1>13, <1>14, <1>15, <1>16, <1>17, <1>18, <1>19, <1>20, <1>21, <1>22, <1>23, <1>24, <1>25
     DEF Next, AgentThread, CommandThread, Threads

\* Every step keeps commands with the server they are for.
LEMMA CommandsStep ==
  ASSUME TypeOK, ThreadsFit, CommandsFit, StatusIsTheAgents, [Next]_vars
  PROVE  CommandsFit'
<1> USE ThreadAssumption, PoolAssumption DEF TypeOK, ThreadsFit, CommandsFit, StatusIsTheAgents, HandlerPCs, Threads, Replies, Pings
<1>0. Passes => CommandsFit'
  <2>1. ASSUME Others, NEW h \in Handlers, Walk(h) PROVE CommandsFit'
    BY <2>1 DEF Others, Walk, Ways, Goto, Keep, dbVars, netVars, handlerVars
  <2>2. ASSUME Others, NEW h \in Handlers, Ends(h) PROVE CommandsFit'
    <3>1. PICK p \in {"done", "dead"} : End(h, p)
      BY <2>2 DEF Ends
    <3>2. UNCHANGED <<up, conn, row, online, auth, log, target, did>>
      BY <2>2 DEF Others, dbVars
    <3>3. /\ pc'[h] = p /\ inbox'[h] = <<>> /\ outbox'[h] = <<>>
          /\ \A g \in Handlers \ {h} : /\ inbox'[g] = inbox[g] /\ outbox'[g] = outbox[g]
                                       /\ pc'[g] = pc[g] /\ req'[g] = req[g]
          /\ \A i \in Reqs : pc'[i] = pc[i]
      BY <3>1, EndMoves
    <3>4. /\ \A g \in Handlers : /\ inbox'[g] \in {inbox[g], <<>>}
                                /\ outbox'[g] \in {outbox[g], <<>>}
          /\ \A g \in Handlers : pc'[g] \in {"reply", "reply_x"} =>
                                 pc[g] \in {"reply", "reply_x"} /\ req'[g] = req[g]
      <4> HIDE DEF TypeOK, ThreadsFit, CommandsFit, StatusIsTheAgents
      <4> QED BY <3>1, <3>3
    <3> HIDE DEF TypeOK, ThreadsFit, CommandsFit, StatusIsTheAgents
    <3> QED BY <3>2, <3>3, <3>4, CommandsKept
  <2>3. ASSUME Others, NEW i \in Reqs, CommandWalk(i) PROVE CommandsFit'
    BY <2>3 DEF Others, CommandWalk, CommandWays, Goto, Keep, dbVars, netVars, handlerVars
  <2> QED BY <2>1, <2>2, <2>3 DEF Passes
<1>1. ASSUME NEW h \in Handlers, Auth(h) PROVE CommandsFit'
  BY <1>1 DEF Auth, Goto, Keep, dbVars, netVars, handlerVars
<1>2. ASSUME NEW t \in Threads, GetConnection(t) PROVE CommandsFit'
  BY <1>2, GetConnectionPasses, <1>0
<1>3. ASSUME NEW h \in Handlers, ExecuteOnline(h) PROVE CommandsFit'
  BY <1>3 DEF ExecuteOnline, Goto, Keep, dbVars, netVars, handlerVars
<1>4. ASSUME NEW h \in Handlers, Register(h) PROVE CommandsFit'
  BY <1>4 DEF Register, Goto, Keep, dbVars, netVars, handlerVars
<1>5. ASSUME NEW h \in Handlers, Read(h) PROVE CommandsFit'
  <2> DEFINE m == inbox[h][1]
  <2>1. /\ inbox[h] # <<>> /\ inbox' = [inbox EXCEPT ![h] = Tail(inbox[h])]
        /\ m = Head(inbox[h]) /\ m \in Replies \cup Pings
        /\ pc[h] = "loop" /\ UNCHANGED <<who, outbox, log, did>>
        /\ \A t \in Threads \ {h} : pc'[t] = pc[t]
        /\ \A g \in Handlers \ {h} : req'[g] = req[g] /\ inbox'[g] = inbox[g]
    BY <1>5, ReadMoves DEF Read, dbVars, netVars, handlerVars
  <2>2. /\ Len(inbox[h]) \in Nat \ {0} /\ 1 \in 1..Len(inbox[h])
        /\ \A n \in 1..Len(inbox'[h]) : inbox'[h][n] = inbox[h][n + 1] /\ n + 1 \in 1..Len(inbox[h])
    BY <2>1, ReadMoves
  <2>3. pc'[h] = "reply" => m \in Replies /\ req'[h] = m
    BY <1>5, <2>1 DEF Read
  <2>4. pc'[h] # "reply_x"
    BY <1>5 DEF Read
  <2>5. \A g \in Handlers : pc'[g] \in {"reply", "reply_x"} => did[req'[g][2]] = req'[g][1]
    <3>1. pc'[h] = "reply" => did[m[2]] = m[1]
      BY <2>2, <2>3
    <3>2. ASSUME NEW g \in Handlers \ {h}, pc'[g] \in {"reply", "reply_x"}
          PROVE  did[req'[g][2]] = req'[g][1]
      <4>1. pc'[g] = pc[g] /\ req'[g] = req[g]
        BY <2>1
      <4> HIDE DEF TypeOK, ThreadsFit, StatusIsTheAgents
      <4> QED BY <3>2, <4>1
    <3> HIDE DEF m, TypeOK, ThreadsFit, CommandsFit, StatusIsTheAgents
    <3> QED BY <2>3, <2>4, <3>1, <3>2
  <2>6. \A g \in Handlers : \A n \in 1..Len(inbox'[g]) :
          inbox'[g][n] \in Replies => did[inbox'[g][n][2]] = inbox'[g][n][1]
    <3> HIDE DEF Replies
    <3> QED BY <2>1, <2>2
  <2>7. \A i \in Reqs : pc'[i] = pc[i]
    BY <2>1, ZenonT(90)
  <2> QED BY <2>1, <2>5, <2>6, <2>7
<1>6. ASSUME NEW h \in Handlers, Hangup(h) PROVE CommandsFit'
  BY <1>6 DEF Hangup, Goto, Keep, dbVars, netVars, handlerVars
<1>7. ASSUME NEW h \in Handlers, ExecuteReply(h) PROVE CommandsFit'
  BY <1>7 DEF ExecuteReply, Keep, SetStatus, dbVars, netVars, handlerVars
<1>8. ASSUME NEW h \in Handlers, Finish(h) PROVE CommandsFit'
  BY <1>8, FinishPasses, <1>0
<1>9. ASSUME NEW h \in Handlers, ExecuteOffline(h) PROVE CommandsFit'
  BY <1>9 DEF ExecuteOffline, Goto, Keep, dbVars, netVars, handlerVars
<1>10. ASSUME NEW h \in Handlers, Pop(h) PROVE CommandsFit'
  BY <1>10 DEF Pop, End, dbVars, netVars, handlerVars
<1>11. ASSUME NEW i \in Reqs, Command(i) PROVE CommandsFit'
  BY <1>11, CommandPasses, <1>0
<1>12. ASSUME NEW i \in Reqs, Send(i) PROVE CommandsFit'
  <2>1. CASE outbox' = outbox
    <3>1. /\ pc[i] = "send" /\ UNCHANGED <<outbox, inbox, req, did, log>>
          /\ \A t \in Threads \ {i} : pc'[t] = pc[t]
      BY <1>12, <2>1 DEF Send, Goto, dbVars
    <3>2. /\ \A g \in Handlers : pc'[g] = pc[g]
          /\ \A k \in Reqs : pc'[k] # "done" => pc[k] # "done"
      BY <3>1, ZenonT(90)
    <3> HIDE DEF TypeOK, ThreadsFit, StatusIsTheAgents, Replies
    <3> QED BY <3>1, <3>2
  <2>2. CASE outbox' # outbox
    <3>1. LET g == conn[target[i]] IN
          /\ g \in Handlers /\ pc[g] \notin Closing /\ link[g] = "open" /\ pc[i] = "send"
          /\ outbox' = [outbox EXCEPT ![g] = Append(outbox[g], i)]
          /\ pc' = [pc EXCEPT ![i] = "done"] /\ UNCHANGED <<who, req, inbox, link, conn, log, target, did, up, row, online, auth>>
      BY <1>12, <2>2 DEF Send, Goto, dbVars, netVars, handlerVars
    <3>2. PICK g \in Handlers :
            /\ pc[i] = "send" /\ pc'[i] = "done" /\ outbox' = [outbox EXCEPT ![g] = Append(outbox[g], i)]
            /\ \A t \in Threads \ {i} : pc'[t] = pc[t]
            /\ UNCHANGED <<req, inbox, log, did>>
      BY <3>1
    <3>3. /\ \A n \in 1..Len(outbox'[g]) :
               \/ n \in 1..Len(outbox[g]) /\ outbox'[g][n] = outbox[g][n]
               \/ n = Len(outbox[g]) + 1 /\ outbox'[g][n] = i
          /\ \A h \in Handlers \ {g} : outbox'[h] = outbox[h]
      BY <3>2, SendMoves
    <3>4. /\ \A h \in Handlers : \A n \in 1..Len(outbox[h]) : outbox[h][n] # i
          /\ did[i] = "no" /\ log[i] \notin {"none", "1", "2"}
      BY <3>2
    <3>a. /\ \A h \in Handlers : pc'[h] = pc[h]
          /\ \A k \in Reqs : k # i => pc'[k] = pc[k]
      BY <3>2, ZenonT(90)
    <3> HIDE DEF TypeOK, ThreadsFit, StatusIsTheAgents, Replies
    <3>5. ASSUME NEW j \in Reqs, pc'[j] # "done" \/ log[j] = "none"
          PROVE  /\ did[j] = "no"
                 /\ \A h \in Handlers : \A n \in 1..Len(outbox'[h]) : outbox'[h][n] # j
      <4>1. j # i /\ (pc[j] # "done" \/ log[j] = "none")
        BY <3>2, <3>4, <3>5, <3>a
      <4>2. did[j] = "no" /\ \A h \in Handlers : \A n \in 1..Len(outbox[h]) : outbox[h][n] # j
        BY <4>1
      <4> QED BY <3>3, <4>1, <4>2
    <3>6. ASSUME NEW h \in Handlers, NEW n \in 1..Len(outbox'[h])
          PROVE  did[outbox'[h][n]] = "no" /\ log[outbox'[h][n]] \notin {"none", "1", "2"}
      <4>1. CASE outbox'[h][n] = i
        BY <3>4, <4>1
      <4>2. CASE n \in 1..Len(outbox[h]) /\ outbox'[h][n] = outbox[h][n]
        BY <4>2
      <4> QED BY <3>3, <4>1, <4>2
    <3>b. \A h \in Handlers : \A n \in 1..Len(outbox'[h]) :
            \/ outbox'[h][n] = i /\ h = g /\ n = Len(outbox[g]) + 1
            \/ n \in 1..Len(outbox[h]) /\ outbox'[h][n] = outbox[h][n] /\ outbox[h][n] # i
      <4> SUFFICES ASSUME NEW h \in Handlers, NEW n \in 1..Len(outbox'[h])
                   PROVE  \/ outbox'[h][n] = i /\ h = g /\ n = Len(outbox[g]) + 1
                          \/ n \in 1..Len(outbox[h]) /\ outbox'[h][n] = outbox[h][n] /\ outbox[h][n] # i
        OBVIOUS
      <4> HIDE DEF CommandsFit
      <4>1. CASE h = g
        BY <3>3, <3>4, <4>1
      <4>2. CASE h # g
        BY <3>3, <3>4, <4>2
      <4> QED BY <4>1, <4>2
    <3>7. ASSUME NEW h1 \in Handlers, NEW h2 \in Handlers,
                 NEW n1 \in 1..Len(outbox'[h1]), NEW n2 \in 1..Len(outbox'[h2]),
                 outbox'[h1][n1] = outbox'[h2][n2]
          PROVE  h1 = h2 /\ n1 = n2
      <4>1. CASE outbox'[h1][n1] = i
        <5>1. h1 = g /\ n1 = Len(outbox[g]) + 1
          BY <3>b, <4>1
        <5>2. h2 = g /\ n2 = Len(outbox[g]) + 1
          <6>1. outbox'[h2][n2] = i
            BY <3>7, <4>1
          <6> HIDE DEF CommandsFit
          <6> QED BY <3>b, <6>1
        <5> QED BY <5>1, <5>2
      <4>2. CASE outbox'[h1][n1] # i
        <5>1. n1 \in 1..Len(outbox[h1]) /\ outbox'[h1][n1] = outbox[h1][n1]
          BY <3>b, <4>2
        <5>2. n2 \in 1..Len(outbox[h2]) /\ outbox'[h2][n2] = outbox[h2][n2]
          <6>1. outbox'[h2][n2] # i
            BY <3>7, <4>2
          <6> HIDE DEF CommandsFit
          <6> QED BY <3>b, <6>1
        <5>3. outbox[h1][n1] = outbox[h2][n2]
          BY <3>7, <5>1, <5>2
        <5> QED BY <5>1, <5>2, <5>3
      <4> QED BY <4>1, <4>2
    <3>8. \A j \in Reqs : pc'[j] # "done" => log[j] \notin {"none", "1", "2"}
      BY <3>2, <3>a
    <3> QED BY <3>2, <3>a, <3>5, <3>6, <3>7, <3>8
  <2> QED BY <2>1, <2>2
<1>13. ASSUME NEW i \in Reqs, ExecuteMark(i) PROVE CommandsFit'
  BY <1>13, SMTT(60) DEF ExecuteMark, Goto, Keep, SetStatus, dbVars, netVars, handlerVars
<1>14. ASSUME NEW t \in Threads, ExecuteFails(t) PROVE CommandsFit'
  BY <1>14, ExecuteFailsPasses, <1>0
<1>15. ASSUME NEW h \in Handlers, Drop(h) PROVE CommandsFit'
  <2>1. UNCHANGED <<pc, req, did, log>>
    BY <1>15 DEF Drop, dbVars, handlerVars
  <2>2. \A g \in Handlers : /\ inbox'[g] \in {inbox[g], <<>>}
                           /\ outbox'[g] \in {outbox[g], <<>>}
    BY <1>15, DropMoves
  <2> HIDE DEF TypeOK, ThreadsFit, CommandsFit, StatusIsTheAgents
  <2> QED BY <2>1, <2>2, CommandsKept
<1>16. ASSUME NEW h \in Handlers, AgentWork(h) PROVE CommandsFit'
  <2> DEFINE i == outbox[h][1]
  <2>1. /\ outbox[h] # <<>> /\ outbox' = [outbox EXCEPT ![h] = Tail(outbox[h])]
        /\ i = Head(outbox[h]) /\ i \in Reqs /\ UNCHANGED <<pc, req, log>>
    BY <1>16, WorkMoves DEF AgentWork, dbVars, handlerVars
  <2>2. /\ 1 \in 1..Len(outbox[h])
        /\ \A n \in 1..Len(outbox'[h]) :
             outbox'[h][n] = outbox[h][n + 1] /\ n + 1 \in 1..Len(outbox[h]) /\ n \in Nat /\ n + 1 # 1
        /\ \A g \in Handlers \ {h} : outbox'[g] = outbox[g]
    BY <2>1, WorkMoves
  <2>3. /\ did[i] = "no" /\ log[i] \notin {"none", "1", "2"} /\ pc[i] = "done"
    BY <2>1, <2>2
  <2>4. \A g \in Handlers : \A n \in 1..Len(outbox'[g]) : outbox'[g][n] # i
    BY <2>1, <2>2
  <2>5. /\ \A j \in Reqs \ {i} : did'[j] = did[j]
        /\ \A g \in Handlers : \A n \in 1..Len(inbox'[g]) :
             inbox'[g][n] \in Replies => did'[inbox'[g][n][2]] = inbox'[g][n][1]
        /\ \A g \in Handlers : pc[g] \in {"reply", "reply_x"} => did'[req[g][2]] = req[g][1]
    <3>1. CASE UNCHANGED <<did, inbox>>
      BY <3>1
    <3>2. CASE \E r \in {"succ", "fail"} :
                 /\ did' = [did EXCEPT ![i] = r]
                 /\ inbox' = [inbox EXCEPT ![h] = Append(inbox[h], <<r, i>>)]
      <4>1. PICK r \in {"succ", "fail"} :
                 /\ did' = [did EXCEPT ![i] = r]
                 /\ inbox' = [inbox EXCEPT ![h] = Append(inbox[h], <<r, i>>)]
        BY <3>2
      <4>2. <<r, i>> \in Replies
        BY <2>1
      <4>3. \A g \in Handlers : \A n \in 1..Len(inbox'[g]) :
              \/ n \in 1..Len(inbox[g]) /\ inbox'[g][n] = inbox[g][n]
              \/ inbox'[g][n] = <<r, i>>
        <5>1. /\ \A g \in Handlers \ {h} : inbox'[g] = inbox[g]
              /\ inbox'[h] = Append(inbox[h], <<r, i>>)
          BY <4>1
        <5>2. \A n \in 1..Len(inbox'[h]) :
                \/ n \in 1..Len(inbox[h]) /\ inbox'[h][n] = inbox[h][n]
                \/ inbox'[h][n] = <<r, i>>
          <6> HIDE DEF TypeOK, ThreadsFit, StatusIsTheAgents, CommandsFit, Replies, Pings, i
          <6> QED BY <4>2, <5>1, LineMoves
        <5> HIDE DEF TypeOK, ThreadsFit, StatusIsTheAgents, CommandsFit, Replies, Pings, i
        <5> QED BY <5>1, <5>2
      <4>4. did'[i] = r /\ \A j \in Reqs \ {i} : did'[j] = did[j]
        BY <2>1, <4>1
      <4>5. \A q \in Replies : did[q[2]] = q[1] => q[2] # i /\ did'[q[2]] = q[1]
        BY <2>3, <4>4
      <4>6. \A g \in Handlers : \A n \in 1..Len(inbox'[g]) :
              inbox'[g][n] \in Replies => did'[inbox'[g][n][2]] = inbox'[g][n][1]
        <5>1. <<r, i>>[2] = i /\ <<r, i>>[1] = r
          OBVIOUS
        <5>2. \A g \in Handlers : \A n \in 1..Len(inbox[g]) :
                inbox[g][n] \in Replies => did'[inbox[g][n][2]] = inbox[g][n][1]
          <6> HIDE DEF TypeOK, ThreadsFit, StatusIsTheAgents, Replies, i
          <6> QED BY <4>5
        <5> HIDE DEF TypeOK, ThreadsFit, StatusIsTheAgents, CommandsFit, Replies, i
        <5> QED BY <4>3, <4>4, <5>1, <5>2
      <4>7. \A g \in Handlers : pc[g] \in {"reply", "reply_x"} => did'[req[g][2]] = req[g][1]
        <5> HIDE DEF Replies
        <5> QED BY <4>5
      <4> QED BY <4>4, <4>6, <4>7
    <3> QED BY <1>16, <2>1, <3>1, <3>2 DEF AgentWork
  <2>6. \A g1, g2 \in Handlers : \A n1 \in 1..Len(outbox'[g1]), n2 \in 1..Len(outbox'[g2]) :
          outbox'[g1][n1] = outbox'[g2][n2] => g1 = g2 /\ n1 = n2
    <3> SUFFICES ASSUME NEW g1 \in Handlers, NEW g2 \in Handlers,
                        NEW n1 \in 1..Len(outbox'[g1]), NEW n2 \in 1..Len(outbox'[g2]),
                        outbox'[g1][n1] = outbox'[g2][n2]
                 PROVE  g1 = g2 /\ n1 = n2
      OBVIOUS
    <3> HIDE DEF TypeOK, ThreadsFit, StatusIsTheAgents, Replies, i
    <3>1. CASE g1 = h /\ g2 = h
      <4>1. outbox[h][n1 + 1] = outbox[h][n2 + 1] /\ n1 + 1 \in 1..Len(outbox[h])
            /\ n2 + 1 \in 1..Len(outbox[h]) /\ n1 \in Nat /\ n2 \in Nat
        BY <2>2, <3>1
      <4>2. n1 + 1 = n2 + 1
        BY <4>1
      <4> QED BY <3>1, <4>1, <4>2
    <3>2. CASE g1 = h /\ g2 # h
      <4>1. outbox[h][n1 + 1] = outbox[g2][n2] /\ n1 + 1 \in 1..Len(outbox[h]) /\ n2 \in 1..Len(outbox[g2])
        BY <2>2, <3>2
      <4> QED BY <3>2, <4>1
    <3>3. CASE g1 # h /\ g2 = h
      <4>1. outbox[h][n2 + 1] = outbox[g1][n1] /\ n2 + 1 \in 1..Len(outbox[h]) /\ n1 \in 1..Len(outbox[g1])
        BY <2>2, <3>3
      <4> QED BY <3>3, <4>1
    <3>4. CASE g1 # h /\ g2 # h
      BY <2>2, <3>4
    <3> QED BY <3>1, <3>2, <3>3, <3>4
  <2>7. \A j \in Reqs : pc[j] # "done" \/ log[j] = "none" =>
          did'[j] = "no" /\ \A g \in Handlers : \A n \in 1..Len(outbox'[g]) : outbox'[g][n] # j
    <3> SUFFICES ASSUME NEW j \in Reqs, pc[j] # "done" \/ log[j] = "none"
                 PROVE  /\ did'[j] = "no"
                        /\ \A g \in Handlers : \A n \in 1..Len(outbox'[g]) : outbox'[g][n] # j
      OBVIOUS
    <3>1. j # i
      BY <2>3
    <3>2. did[j] = "no" /\ \A g \in Handlers : \A n \in 1..Len(outbox[g]) : outbox[g][n] # j
      OBVIOUS
    <3>3. ASSUME NEW g \in Handlers, NEW n \in 1..Len(outbox'[g])
          PROVE  outbox'[g][n] # j
      <4> HIDE DEF TypeOK, ThreadsFit, StatusIsTheAgents, CommandsFit, i
      <4>1. CASE g = h
        BY <2>2, <3>2, <4>1
      <4>2. CASE g # h
        BY <2>2, <3>2, <4>2
      <4> QED BY <4>1, <4>2
    <3> QED BY <2>5, <3>1, <3>2, <3>3
  <2>8. \A g \in Handlers : \A n \in 1..Len(outbox'[g]) :
          did'[outbox'[g][n]] = "no" /\ log[outbox'[g][n]] \notin {"none", "1", "2"}
    <3> SUFFICES ASSUME NEW g \in Handlers, NEW n \in 1..Len(outbox'[g])
                 PROVE  did'[outbox'[g][n]] = "no" /\ log[outbox'[g][n]] \notin {"none", "1", "2"}
      OBVIOUS
    <3>1. PICK k \in 1..Len(outbox[g]) : outbox'[g][n] = outbox[g][k]
      <4> HIDE DEF TypeOK, ThreadsFit, StatusIsTheAgents, CommandsFit, i
      <4>1. CASE g = h
        BY <2>2, <4>1
      <4>2. CASE g # h
        BY <2>2, <4>2
      <4> QED BY <4>1, <4>2
    <3>2. outbox[g][k] \in Reqs /\ outbox[g][k] # i
      BY <2>4, <3>1
    <3>3. PICK q \in Reqs : q = outbox[g][k] /\ q # i
      BY <3>2
    <3>4. did[q] = "no" /\ log[q] \notin {"none", "1", "2"}
      <4>1. \A m \in 1..Len(outbox[g]) : did[outbox[g][m]] = "no" /\ log[outbox[g][m]] \notin {"none", "1", "2"}
        OBVIOUS
      <4> QED BY <3>1, <3>3, <4>1
    <3>5. did'[q] = did[q] /\ log'[q] = log[q]
      BY <2>1, <2>5, <3>3
    <3> QED BY <3>1, <3>3, <3>4, <3>5
  <2>9. \A j \in Reqs : pc'[j] # "done" \/ log'[j] = "none" =>
          did'[j] = "no" /\ \A g \in Handlers : \A n \in 1..Len(outbox'[g]) : outbox'[g][n] # j
    BY <2>1, <2>7
  <2>10. \A j \in Reqs : pc'[j] # "done" => log'[j] \notin {"none", "1", "2"}
    BY <2>1
  <2>11. \A g \in Handlers : pc'[g] \in {"reply", "reply_x"} => did'[req'[g][2]] = req'[g][1]
    BY <2>1, <2>5
  <2>12. \A g \in Handlers : \A n \in 1..Len(inbox'[g]) :
           inbox'[g][n] \in Replies => did'[inbox'[g][n][2]] = inbox'[g][n][1]
    BY <2>5
  <2>13. \A g \in Handlers : \A n \in 1..Len(outbox'[g]) :
           did'[outbox'[g][n]] = "no" /\ log'[outbox'[g][n]] \notin {"none", "1", "2"}
    BY <2>1, <2>8
  <2> HIDE DEF TypeOK, ThreadsFit, StatusIsTheAgents, Replies, i
  <2> QED BY <2>6, <2>9, <2>10, <2>11, <2>12, <2>13
<1>17. ASSUME NEW h \in Handlers, AgentLine(h) PROVE CommandsFit'
  BY <1>17, LineMoves DEF AgentLine, dbVars, netVars, handlerVars
<1>18. ASSUME NEW a \in Addrs, Connect(a) PROVE CommandsFit'
  BY <1>18 DEF Connect, Free, dbVars, netVars, handlerVars
<1>19. ASSUME NEW a \in Addrs, AddServer(a) PROVE CommandsFit'
  BY <1>19 DEF AddServer, dbVars, netVars, handlerVars
<1>20. ASSUME NEW a \in Addrs, DelServer(a) PROVE CommandsFit'
  BY <1>20 DEF DelServer, dbVars, netVars, handlerVars
<1>21. ASSUME NEW i \in Reqs, PanelSend(i) PROVE CommandsFit'
  BY <1>21 DEF PanelSend, dbVars, netVars, handlerVars
<1>22. ASSUME NEW i \in Reqs, PanelEnds(i) PROVE CommandsFit'
  BY <1>22 DEF PanelEnds, dbVars, netVars, handlerVars
<1>23. CASE Stop
  BY <1>23, Nothing DEF Stop, dbVars, netVars, handlerVars
<1>24. CASE Start
  BY <1>24 DEF Start, dbVars, netVars, handlerVars
<1>25. CASE UNCHANGED vars
  BY <1>25 DEF vars, dbVars, netVars, handlerVars
<1> QED
  BY <1>1, <1>2, <1>3, <1>4, <1>5, <1>6, <1>7, <1>8, <1>9, <1>10, <1>11, <1>12, <1>13, <1>14, <1>15, <1>16, <1>17, <1>18, <1>19, <1>20, <1>21, <1>22, <1>23, <1>24, <1>25
     DEF Next, AgentThread, CommandThread, Threads

\* Every step keeps the status that of the agent.
LEMMA StatusStep ==
  ASSUME TypeOK, ThreadsFit, CommandsFit, StatusIsTheAgents, [Next]_vars
  PROVE  StatusIsTheAgents'
<1> USE ThreadAssumption, PoolAssumption DEF StatusIsTheAgents, TypeOK, ThreadsFit, CommandsFit, HandlerPCs, Threads, Replies
<1>0. Passes => StatusIsTheAgents'
  <2>1. ASSUME Others, NEW h \in Handlers, Walk(h) PROVE StatusIsTheAgents'
    BY <2>1 DEF Others, Walk, Ways, Goto, Keep, dbVars, netVars, handlerVars
  <2>2. ASSUME Others, NEW h \in Handlers, Ends(h) PROVE StatusIsTheAgents'
    <3>1. PICK p \in {"done", "dead"} : End(h, p)
      BY <2>2 DEF Ends
    <3>2. UNCHANGED <<up, conn, row, online, auth, log, target, did>>
      BY <2>2 DEF Others, dbVars
    <3> QED BY <2>2, <3>1, <3>2, EndMoves, Nothing DEF Ends
  <2>3. ASSUME Others, NEW i \in Reqs, CommandWalk(i) PROVE StatusIsTheAgents'
    BY <2>3 DEF Others, CommandWalk, CommandWays, Goto, Keep, dbVars, netVars, handlerVars
  <2> QED BY <2>1, <2>2, <2>3 DEF Passes
<1>1. ASSUME NEW h \in Handlers, Auth(h) PROVE StatusIsTheAgents'
  BY <1>1 DEF Auth, Goto, Keep, dbVars, netVars, handlerVars
<1>2. ASSUME NEW t \in Threads, GetConnection(t) PROVE StatusIsTheAgents'
  BY <1>2, GetConnectionPasses, <1>0
<1>3. ASSUME NEW h \in Handlers, ExecuteOnline(h) PROVE StatusIsTheAgents'
  BY <1>3 DEF ExecuteOnline, Goto, Keep, dbVars, netVars, handlerVars
<1>4. ASSUME NEW h \in Handlers, Register(h) PROVE StatusIsTheAgents'
  BY <1>4 DEF Register, Goto, Keep, dbVars, netVars, handlerVars
<1>5. ASSUME NEW h \in Handlers, Read(h) PROVE StatusIsTheAgents'
  BY <1>5, ReadMoves DEF Read, dbVars, netVars, handlerVars
<1>6. ASSUME NEW h \in Handlers, Hangup(h) PROVE StatusIsTheAgents'
  BY <1>6 DEF Hangup, Goto, Keep, dbVars, netVars, handlerVars
<1>7. ASSUME NEW h \in Handlers, ExecuteReply(h) PROVE StatusIsTheAgents'
  BY <1>7 DEF ExecuteReply, Keep, SetStatus, dbVars, netVars, handlerVars
<1>8. ASSUME NEW h \in Handlers, Finish(h) PROVE StatusIsTheAgents'
  BY <1>8, FinishPasses, <1>0
<1>9. ASSUME NEW h \in Handlers, ExecuteOffline(h) PROVE StatusIsTheAgents'
  BY <1>9 DEF ExecuteOffline, Goto, Keep, dbVars, netVars, handlerVars
<1>10. ASSUME NEW h \in Handlers, Pop(h) PROVE StatusIsTheAgents'
  BY <1>10 DEF Pop, End, dbVars, netVars, handlerVars
<1>11. ASSUME NEW i \in Reqs, Command(i) PROVE StatusIsTheAgents'
  BY <1>11, CommandPasses, <1>0
<1>12. ASSUME NEW i \in Reqs, Send(i) PROVE StatusIsTheAgents'
  <2>1. CASE outbox' = outbox
    BY <1>12, <2>1 DEF Send, Goto, Closing, dbVars, netVars, handlerVars
  <2>2. CASE outbox' # outbox
    <3>1. LET g == conn[target[i]] IN
          /\ g \in Handlers /\ pc[g] \notin Closing /\ link[g] = "open" /\ pc[i] = "send"
          /\ outbox' = [outbox EXCEPT ![g] = Append(outbox[g], i)]
          /\ pc' = [pc EXCEPT ![i] = "done"] /\ UNCHANGED <<who, req, inbox, link, conn, log, target, did, up, row, online, auth>>
      BY <1>12, <2>2 DEF Send, Goto, dbVars, netVars, handlerVars
    <3> QED BY <3>1, SendMoves DEF Closing
  <2> QED BY <2>1, <2>2
<1>13. ASSUME NEW i \in Reqs, ExecuteMark(i) PROVE StatusIsTheAgents'
  BY <1>13 DEF ExecuteMark, Goto, Keep, SetStatus, dbVars, netVars, handlerVars
<1>14. ASSUME NEW t \in Threads, ExecuteFails(t) PROVE StatusIsTheAgents'
  BY <1>14, ExecuteFailsPasses, <1>0
<1>15. ASSUME NEW h \in Handlers, Drop(h) PROVE StatusIsTheAgents'
  BY <1>15, Nothing DEF Drop, dbVars, netVars, handlerVars
<1>16. ASSUME NEW h \in Handlers, AgentWork(h) PROVE StatusIsTheAgents'
  BY <1>16, WorkMoves, LineMoves DEF AgentWork, dbVars, netVars, handlerVars
<1>17. ASSUME NEW h \in Handlers, AgentLine(h) PROVE StatusIsTheAgents'
  BY <1>17, LineMoves DEF AgentLine, dbVars, netVars, handlerVars
<1>18. ASSUME NEW a \in Addrs, Connect(a) PROVE StatusIsTheAgents'
  BY <1>18 DEF Connect, Free, dbVars, netVars, handlerVars
<1>19. ASSUME NEW a \in Addrs, AddServer(a) PROVE StatusIsTheAgents'
  BY <1>19 DEF AddServer, dbVars, netVars, handlerVars
<1>20. ASSUME NEW a \in Addrs, DelServer(a) PROVE StatusIsTheAgents'
  BY <1>20 DEF DelServer, dbVars, netVars, handlerVars
<1>21. ASSUME NEW i \in Reqs, PanelSend(i) PROVE StatusIsTheAgents'
  BY <1>21 DEF PanelSend, dbVars, netVars, handlerVars
<1>22. ASSUME NEW i \in Reqs, PanelEnds(i) PROVE StatusIsTheAgents'
  BY <1>22 DEF PanelEnds, dbVars, netVars, handlerVars
<1>23. CASE Stop
  BY <1>23, Nothing DEF Stop, dbVars, netVars, handlerVars
<1>24. CASE Start
  BY <1>24 DEF Start, dbVars, netVars, handlerVars
<1>25. CASE UNCHANGED vars
  BY <1>25 DEF vars, dbVars, netVars, handlerVars
<1> QED
  BY <1>1, <1>2, <1>3, <1>4, <1>5, <1>6, <1>7, <1>8, <1>9, <1>10, <1>11, <1>12, <1>13, <1>14, <1>15, <1>16, <1>17, <1>18, <1>19, <1>20, <1>21, <1>22, <1>23, <1>24, <1>25
     DEF Next, AgentThread, CommandThread, Threads

-----------------------------------------------------------------------------
\* The broker as it starts.
LEMMA InitInv == Init => Inv /\ StatusIsTheAgents
<1> SUFFICES ASSUME Init PROVE Inv /\ StatusIsTheAgents
  OBVIOUS
<1> USE ThreadAssumption, PoolAssumption DEF Init
<1>1. TypeOK
  <2>1. /\ inbox \in [Handlers -> Seq(Replies \cup Pings)]
        /\ outbox \in [Handlers -> Seq(Reqs)]
    BY Nothing
  <2>2. pc \in [Threads -> PCs] /\ leaked \in 0..PoolSize
    BY DEF PCs, Closing
  <2> QED BY <2>1, <2>2 DEF TypeOK
<1>2. RegistryFits
  BY Nothing DEF RegistryFits
<1>3. ThreadsFit
  BY DEF ThreadsFit, HandlerPCs, Threads
<1>4. PoolFits
  <2>1. Busy = {}
    BY DEF Busy, Executing
  <2> QED BY <2>1, FS_EmptySet DEF PoolFits
<1>5. CommandsFit
  BY Nothing DEF CommandsFit, Threads
<1>6. StatusIsTheAgents
  BY DEF StatusIsTheAgents
<1> QED BY <1>1, <1>2, <1>3, <1>4, <1>5, <1>6 DEF Inv

\* Every step keeps the invariant.
LEMMA InvStep ==
  Inv /\ StatusIsTheAgents /\ [Next]_vars => Inv' /\ StatusIsTheAgents'
BY PoolStep, TypesStep, ThreadsStep, RegistryStep, CommandsStep, StatusStep DEF Inv

\* However connections of one address overlap, break and end, and whatever the
\* statements of MySQL do: the registry names the thread of that address, a
\* command is on its way to the server it is for, and the pool is not overdrawn.
THEOREM Invariance == Spec => []Inv
BY InitInv, InvStep, PTL DEF Spec

\* The status the panel shows is what the server's agent answered.
THEOREM StatusesAreTheAgents == Spec => []StatusIsTheAgents
BY InitInv, InvStep, PTL DEF Spec

\* A status that is final stays, until the row goes.
LEMMA FinalStep ==
  ASSUME Inv, StatusIsTheAgents, [Next]_vars, NEW i \in Reqs, log[i] \in {"1", "2"}
  PROVE  log'[i] \in {log[i], "gone"}
<1> USE DEF Inv, TypeOK
<1>1. ASSUME NEW h \in Handlers, ExecuteReply(h) PROVE log'[i] \in {log[i], "gone"}
  <2>1. /\ req[h] \in Replies /\ did[req[h][2]] = req[h][1]
        /\ log' = log \/ log' = [log EXCEPT ![req[h][2]] = IF req[h][1] = "succ" THEN "1" ELSE "2"]
    BY <1>1 DEF ExecuteReply, SetStatus, ThreadsFit, CommandsFit
  <2>2. i = req[h][2] => log[i] = IF req[h][1] = "succ" THEN "1" ELSE "2"
    BY <2>1 DEF StatusIsTheAgents, Replies
  <2> QED BY <2>1, <2>2
<1>2. ASSUME NEW k \in Reqs, ExecuteMark(k) PROVE log'[i] \in {log[i], "gone"}
  BY <1>2 DEF ExecuteMark, SetStatus, CommandsFit
<1>3. ASSUME NEW a \in Addrs, DelServer(a) PROVE log'[i] \in {log[i], "gone"}
  BY <1>3 DEF DelServer
<1>4. ASSUME NEW k \in Reqs, PanelSend(k) \/ PanelEnds(k) PROVE log'[i] \in {log[i], "gone"}
  BY <1>4 DEF PanelSend, PanelEnds
<1>5. CASE UNCHANGED log
  BY <1>5
<1>6. \/ UNCHANGED log
      \/ \E h \in Handlers : ExecuteReply(h)
      \/ \E k \in Reqs : ExecuteMark(k) \/ PanelSend(k) \/ PanelEnds(k)
      \/ \E a \in Addrs : DelServer(a)
  BY DEF Next, vars, dbVars, AgentThread, CommandThread, ExecuteFails, GetConnection, Auth, ExecuteOnline,
         Register, Read, Hangup, Finish, ExecuteOffline, Pop, Command, Send, Drop, AgentWork,
         AgentLine, Connect, AddServer, Stop, Start
<1> QED BY <1>1, <1>2, <1>3, <1>4, <1>5, <1>6

\* Once the log of a request has its final status, no late reply or second update of the broker changes it.
THEOREM StatusesStay == Spec => StatusIsFinal
<1>1. Inv /\ StatusIsTheAgents /\ [Next]_vars =>
        [\A i \in Reqs : log[i] \in {"1", "2"} => log'[i] \in {log[i], "gone"}]_vars
  BY FinalStep
<1> QED BY InitInv, InvStep, <1>1, PTL DEF Spec, StatusIsFinal
=============================================================================
