------------------------------- MODULE Client -------------------------------
(***************************************************************************)
(* The agent src/server/py/py/client.py on an upgrade server, the init      *)
(* script it calls (src/client/conf/nginx.init) and the leapvalue master    *)
(* that it signals.  The agent turns commands into one file per website in  *)
(* the vhost directory; the script tests the whole directory and sends HUP; *)
(* the master reads the directory again when it gets to the signal.         *)
(*                                                                          *)
(* A command has a kind, the file name made of the website's v6url, and for *)
(* 'add' the flag https and whether the text that the broker filled in is a *)
(* configuration nginx accepts.  Writing a file is one step.                *)
(***************************************************************************)
EXTENDS Naturals, Sequences, FiniteSets

CONSTANTS Names,     \* file names in the vhost directory
          Commands,  \* the commands the broker may send, each once
          CmdOf, NameOf, Https, Good,   \* the fields of a command
          None, Frag \* no command or file; a part of a line

ASSUME CommandsAssumption ==
  /\ CmdOf \in [Commands -> {"add", "del"}] /\ NameOf \in [Commands -> Names]
  /\ Https \in [Commands -> BOOLEAN] /\ Good \in [Commands -> BOOLEAN]
  /\ None \notin Commands /\ Frag \notin Commands

VARIABLES stream,   \* lines on their way to the agent
          unsent,   \* commands the broker has not sent yet
          batch,    \* lines of the last recv not handled yet
          cur, pc,  \* the command in work, and where
          link,     \* is the agent's socket connected
          disk,     \* per name: the add command whose content the file holds
          certs,    \* names with a certificate under SSLPATH
          master,   \* does the leapvalue master run
          hup,      \* has it a HUP to handle
          running,  \* per name: what it serves
          refused,  \* did it reject the directory the last time it read it
          reported, \* per command: what the agent gave to send()
          last,     \* per name: the last command that touched the file
          torn      \* names whose file was in work when the agent was killed

wireVars == <<stream, unsent, batch, link>>
masterVars == <<master, hup, running, refused>>
auxVars == <<last, torn>>
vars == <<stream, unsent, batch, cur, pc, link, disk, certs,
          master, hup, running, refused, reported, last, torn>>

PCs == {"recv", "next", "write", "fetch", "reload", "discard", "remove", "delreload", "succ", "fail"}
Adds == {c \in Commands : CmdOf[c] = "add"}

Init ==
  /\ stream = <<>> /\ unsent = Commands /\ batch = <<>>
  /\ cur = None /\ pc = "recv" /\ link = FALSE
  /\ disk = [n \in Names |-> None]
  /\ certs = {}
  /\ master = TRUE /\ hup = FALSE /\ running = [n \in Names |-> None] /\ refused = FALSE
  /\ reported = [c \in Commands |-> "none"]
  /\ last = [n \in Names |-> None] /\ torn = {}

\* nginx -t accepts the file of command c: its text is right and an https
\* server finds its certificate.
Valid(c) == Good[c] /\ (Https[c] => NameOf[c] \in certs)
BadFiles == {n \in Names : disk[n] # None /\ ~Valid(disk[n])}

-----------------------------------------------------------------------------
\* The broker sends; a connection breaks and what is on it is lost.
BrokerSend ==
  /\ link
  /\ \E c \in unsent : stream' = Append(stream, c) /\ unsent' = unsent \ {c}
  /\ UNCHANGED <<batch, cur, pc, link, disk, certs, masterVars, reported, auxVars>>

LinkDrop ==
  /\ link /\ link' = FALSE /\ stream' = <<>>
  /\ UNCHANGED <<unsent, batch, cur, pc, disk, certs, masterVars, reported, auxVars>>

\* connect(), from the main loop or inside send().
Connect ==
  /\ ~link /\ link' = TRUE
  /\ UNCHANGED <<stream, unsent, batch, cur, pc, disk, certs, masterVars, reported, auxVars>>

-----------------------------------------------------------------------------
\* recv(40960) returns whole lines and perhaps a part of the next one; nothing
\* keeps the part for the next recv.
Recv ==
  /\ pc = "recv" /\ stream # <<>>
  /\ \E n \in 0..Len(stream) :
       \/ n > 0 /\ batch' = SubSeq(stream, 1, n) /\ stream' = SubSeq(stream, n + 1, Len(stream))
       \/ /\ n < Len(stream) /\ stream[n + 1] # Frag
          /\ batch' = Append(SubSeq(stream, 1, n), Frag)
          /\ stream' = <<Frag>> \o SubSeq(stream, n + 2, Len(stream))
  /\ pc' = "next"
  /\ UNCHANGED <<unsent, cur, link, disk, certs, masterVars, reported, auxVars>>

Take ==
  /\ pc = "next" /\ batch # <<>> /\ Head(batch) # Frag
  /\ cur' = Head(batch) /\ batch' = Tail(batch)
  /\ pc' = IF CmdOf[Head(batch)] = "add" THEN "write" ELSE "remove"
  /\ UNCHANGED <<stream, unsent, link, disk, certs, masterVars, reported, auxVars>>

\* An exception anywhere below the loop drops the rest of the batch.
Abandon == batch' = <<>> /\ cur' = None /\ pc' = "recv"

\* A part of a line is no JSON; one of at most 5 characters is passed over.
TakeFragment ==
  /\ pc = "next" /\ batch # <<>> /\ Head(batch) = Frag
  /\ \/ Abandon
     \/ batch' = Tail(batch) /\ UNCHANGED <<cur, pc>>
  /\ UNCHANGED <<stream, unsent, link, disk, certs, masterVars, reported, auxVars>>

BatchDone ==
  /\ pc = "next" /\ batch = <<>> /\ pc' = "recv"
  /\ UNCHANGED <<wireVars, cur, disk, certs, masterVars, reported, auxVars>>

-----------------------------------------------------------------------------
\* add()
Write ==
  /\ pc = "write"
  /\ disk' = [disk EXCEPT ![NameOf[cur]] = cur]
  /\ last' = [last EXCEPT ![NameOf[cur]] = cur]
  /\ torn' = torn \ {NameOf[cur]}
  /\ pc' = IF Https[cur] THEN "fetch" ELSE "reload"
  /\ UNCHANGED <<wireVars, cur, certs, masterVars, reported>>

\* wget -O <v6url>.pem <SSLPATH><cert>: the file to write and the place to read
\* from are exchanged, so nothing arrives under SSLPATH.
Fetch ==
  /\ pc = "fetch" /\ pc' = "reload"
  /\ UNCHANGED <<wireVars, cur, disk, certs, masterVars, reported, auxVars>>

\* Mutant: the script tests and sends nothing.
HupForgotten == UNCHANGED masterVars

\* The init script's reload: test_config, then HUP to a master that runs.
Hup == hup' = master /\ UNCHANGED <<master, running, refused>>

Reload ==
  /\ pc = "reload"
  /\ IF BadFiles = {} THEN Hup /\ pc' = "succ" ELSE UNCHANGED masterVars /\ pc' = "discard"
  /\ UNCHANGED <<wireVars, cur, disk, certs, reported, auxVars>>

\* Mutant: the rejected file stays.
DiscardForgotten ==
  /\ pc = "discard" /\ pc' = "fail"
  /\ UNCHANGED <<wireVars, cur, disk, certs, masterVars, reported, auxVars>>

\* mv to /tmp, whatever the file was before this command.
Discard ==
  /\ pc = "discard" /\ pc' = "fail"
  /\ disk' = [disk EXCEPT ![NameOf[cur]] = None]
  /\ UNCHANGED <<wireVars, cur, certs, masterVars, reported, auxVars>>

-----------------------------------------------------------------------------
\* delete(): os.remove raises when there is no file, and nothing is sent.
Remove ==
  /\ pc = "remove"
  /\ IF disk[NameOf[cur]] = None
     THEN Abandon /\ UNCHANGED <<disk, auxVars>>
     ELSE /\ disk' = [disk EXCEPT ![NameOf[cur]] = None]
          /\ last' = [last EXCEPT ![NameOf[cur]] = cur]
          /\ torn' = torn \ {NameOf[cur]}
          /\ pc' = "delreload" /\ UNCHANGED <<batch, cur>>
  /\ UNCHANGED <<stream, unsent, link, certs, masterVars, reported>>

\* Mutant: the command is forgotten before its result is sent.
DelReloadLosesCur ==
  /\ pc = "delreload" /\ pc' = "succ"
  /\ cur' = None
  /\ UNCHANGED <<wireVars, disk, certs, masterVars, reported, auxVars>>

\* The result of the reload is not looked at.
DelReload ==
  /\ pc = "delreload" /\ pc' = "succ"
  /\ IF BadFiles = {} THEN Hup ELSE UNCHANGED masterVars
  /\ UNCHANGED <<wireVars, cur, disk, certs, reported, auxVars>>

\* Mutant: the result of the reload is not looked at.
ReplyAlwaysSucc ==
  /\ pc \in {"succ", "fail"} /\ pc' = "next"
  /\ reported' = [reported EXCEPT ![cur] = "succ"]
  /\ cur' = None
  /\ \/ UNCHANGED <<stream, link>>
     \/ ~link /\ link' = TRUE /\ stream' = stream
  /\ UNCHANGED <<unsent, batch, disk, certs, masterVars, auxVars>>

\* send() of the result.  When the write raises, connect() loops until it has a
\* new connection; the line sent there is encoded twice and useless.
Reply ==
  /\ pc \in {"succ", "fail"} /\ pc' = "next"
  /\ reported' = [reported EXCEPT ![cur] = pc]
  /\ cur' = None
  /\ \/ UNCHANGED <<stream, link>>
     \/ ~link /\ link' = TRUE /\ stream' = stream
  /\ UNCHANGED <<unsent, batch, disk, certs, masterVars, auxVars>>

\* The agent dies.  start.py starts it again, unless the signal was TERM or KILL:
\* then an operator does, or the agent takes no further step.
Kill ==
  /\ pc # "recv"
  /\ torn' = IF pc \in {"fetch", "reload", "discard"} THEN torn \cup {NameOf[cur]} ELSE torn
  /\ Abandon /\ link' = FALSE /\ stream' = <<>>
  /\ UNCHANGED <<unsent, disk, certs, masterVars, reported, last>>

-----------------------------------------------------------------------------
\* The master: HUP, stop and start.
MasterRead ==
  /\ master /\ hup /\ hup' = FALSE
  /\ IF BadFiles = {} THEN running' = disk /\ refused' = FALSE
     ELSE running' = running /\ refused' = TRUE
  /\ UNCHANGED <<wireVars, cur, pc, disk, certs, master, reported, auxVars>>

MasterStop ==
  /\ master /\ master' = FALSE /\ hup' = FALSE
  /\ running' = [n \in Names |-> None] /\ refused' = FALSE
  /\ UNCHANGED <<wireVars, cur, pc, disk, certs, reported, auxVars>>

\* leapvalue does not start on a directory it rejects.
MasterStart ==
  /\ ~master /\ BadFiles = {}
  /\ master' = TRUE /\ running' = disk
  /\ UNCHANGED <<wireVars, cur, pc, disk, certs, hup, refused, reported, auxVars>>

Agent ==
  \/ Recv \/ Take \/ TakeFragment \/ BatchDone
  \/ Write \/ Fetch \/ Reload \/ Discard \/ Remove \/ DelReload \/ Reply

Next ==
  \/ Agent \/ Kill
  \/ BrokerSend \/ LinkDrop \/ Connect
  \/ MasterRead \/ MasterStop \/ MasterStart

\* The processes run, and the master handles its signals.
Fairness == WF_vars(Agent) /\ WF_vars(MasterRead)

Spec == Init /\ [][Next]_vars /\ Fairness

-----------------------------------------------------------------------------
(***************************************************************************)
(* Properties                                                               *)
(***************************************************************************)
TypeOK ==
  /\ stream \in Seq(Commands \cup {Frag}) /\ batch \in Seq(Commands \cup {Frag})
  /\ unsent \in SUBSET Commands
  /\ cur \in Commands \cup {None} /\ pc \in PCs /\ link \in BOOLEAN
  /\ disk \in [Names -> Adds \cup {None}] /\ running \in [Names -> Adds \cup {None}]
  /\ certs \in SUBSET Names /\ torn \in SUBSET Names
  /\ master \in BOOLEAN /\ hup \in BOOLEAN /\ refused \in BOOLEAN
  /\ reported \in [Commands -> {"none", "succ", "fail"}]
  /\ last \in [Names -> Commands \cup {None}]
  /\ pc \notin {"recv", "next"} => cur \in Commands

\* The agent leaves no file behind that breaks every later reload: what nginx
\* rejects is the file in work, or one in work when the agent was killed.
NoBadFileStays ==
  BadFiles \subseteq torn \cup (IF pc \in {"fetch", "reload", "discard"} THEN {NameOf[cur]} ELSE {})

\* The status that reaches downLog is what became of the file, until the next
\* command for that file or the agent's death in it: an add reported done has
\* its file there, a failed add and a done del have left none.
DiskIsWhatWasReported ==
  \A n \in Names :
    LET c == last[n] IN
    c # None => /\ CmdOf[c] = "add" /\ reported[c] = "succ" => disk[n] = c
                /\ CmdOf[c] = "del" \/ reported[c] = "fail" => disk[n] = None

\* A website reported as added gets served: unless its file has been replaced or
\* removed since, the master is stopped, or it rejected the directory.
ServedUnlessRefused ==
  \A c \in Adds :
    reported[c] = "succ" ~> running[NameOf[c]] = c \/ disk[NameOf[c]] # c \/ ~master \/ refused

\* downLog.status 1 means success: an add reported as done gets served.
SuccIsServed ==
  \A c \in Adds :
    reported[c] = "succ" ~> running[NameOf[c]] = c \/ disk[NameOf[c]] # c \/ ~master

\* An https website with a correct text is added, if no other file is wrong: the
\* agent fetches the certificate before it reloads.
HttpsAddSucceeds ==
  [][\A c \in Adds : pc = "reload" /\ cur = c /\ Https[c] /\ Good[c] /\ BadFiles \subseteq {NameOf[c]}
       => pc' # "discard"]_vars

\* A command is in one place at most: not sent, on the wire, read, or in work.
\* Until its answer it has no status, and until its work begins no trace on disk.
Once(s) == \A i, j \in 1..Len(s) : s[i] = s[j] /\ s[i] # Frag => i = j
Apart == \A i \in 1..Len(stream), j \in 1..Len(batch) : stream[i] = batch[j] => stream[i] = Frag
Fresh(c) == reported[c] = "none" /\ c # cur /\ \A n \in Names : last[n] # c

CommandsOnce ==
  /\ Once(stream) /\ Once(batch) /\ Apart
  /\ \A c \in unsent : /\ Fresh(c)
                       /\ \A i \in 1..Len(stream) : stream[i] # c
                       /\ \A i \in 1..Len(batch) : batch[i] # c
  /\ \A i \in 1..Len(stream) : stream[i] # Frag => Fresh(stream[i])
  /\ \A i \in 1..Len(batch) : batch[i] # Frag => Fresh(batch[i])
  /\ cur # None => reported[cur] = "none"
  /\ pc \in {"write", "remove"} => \A n \in Names : last[n] # cur

\* What the command in work has done so far: an add that was written has its file,
\* one that failed and a del have left none.
WorkFits ==
  /\ pc \in {"recv", "next"} <=> cur = None
  /\ pc \in {"write", "fetch", "reload", "discard", "fail"} => CmdOf[cur] = "add"
  /\ pc \in {"remove", "delreload"} => CmdOf[cur] = "del"
  /\ pc \in {"fetch", "reload", "discard", "delreload", "succ", "fail"} =>
       /\ last[NameOf[cur]] = cur
       /\ disk[NameOf[cur]] = IF CmdOf[cur] = "add" /\ pc # "fail" THEN cur ELSE None
  /\ \A n \in Names : last[n] # None => NameOf[last[n]] = n

\* The types, no file left that the server refuses, and what both rest on: the
\* commands in work and to come.
Inv == TypeOK /\ NoBadFileStays /\ CommandsOnce /\ WorkFits

=============================================================================
