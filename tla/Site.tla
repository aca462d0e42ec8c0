-------------------------------- MODULE Site --------------------------------
(***************************************************************************)
(* The panel: PHP workers that serve requests on the tables of Schema       *)
(* (models/Site.php, models/Upsitepy.php and the controllers that call      *)
(* them).  A worker serves one request at a time; every MySQL statement and *)
(* every socket write is a step, so the steps of two workers interleave.    *)
(*                                                                          *)
(* A statement that writes and the trans_complete() that follows it at once *)
(* are one step: nothing is visible between them.  The row locks of InnoDB  *)
(* are derived from pc: bindV6 holds the v6 row from its SELECT ... FOR     *)
(* UPDATE to its end, unbindV6 holds the v6site row in the same way, and    *)
(* the process's exit rolls the transaction back and releases them.         *)
(***************************************************************************)
EXTENDS Schema

CONSTANTS Workers,   \* PHP processes
          Admin,     \* the caller of the admin controllers
          NoSite, NoV6

ASSUME AdminAssumption == Admin \notin Users
ASSUME NoIdAssumption == NoSite \notin Sites /\ NoV6 \notin V6

VARIABLES pc,      \* where worker w is
          job,     \* the request it serves: operation, ids, and the owner read
          answer,  \* the HTTP status of its last answer
          broker   \* does upsite.py accept connections on ::1 port 6446

workVars == <<pc, job, answer>>
vars == <<siteRow, siteBelong, v6Row, belong, quota, v6site,
          pc, job, answer, broker>>

Book == INSTANCE Bindings

PCs == {"idle", "bind_lock", "bind_count", "bind_send", "bind_insert",
        "unbind_lock", "unbind_send", "unbind_delete",
        "del_list", "del_delete", "mod_update", "mod_list", "auth_write"}
Ops == {"none", "addBind", "delBind", "delSite", "modSite", "addAuth"}
\* "none": no answer yet; "lost": the process died without one.
Answers == {"none", "lost", "201", "204", "403", "406", "410", "500", "502", "503"}
Jobs == [op : Ops, s : Sites \cup {NoSite}, v : V6 \cup {NoV6}, u : Owners]
NoJob == [op |-> "none", s |-> NoSite, v |-> NoV6, u |-> NoUser]

Init ==
  /\ BookInit
  /\ pc = [w \in Workers |-> "idle"]
  /\ job = [w \in Workers |-> NoJob]
  /\ answer = [w \in Workers |-> "none"]
  /\ broker = TRUE

-----------------------------------------------------------------------------
\* The flow of a request.
Begin(w, place, o, s, v, u) ==
  /\ pc' = [pc EXCEPT ![w] = place]
  /\ job' = [job EXCEPT ![w] = [op |-> o, s |-> s, v |-> v, u |-> u]]
  /\ answer' = [answer EXCEPT ![w] = "none"]

Goto(w, place) == pc' = [pc EXCEPT ![w] = place] /\ UNCHANGED <<job, answer>>

\* restful() and an uncaught exception both end the process's work: the
\* transaction is closed with the connection and its locks are released.
Answer(w, code) ==
  /\ pc' = [pc EXCEPT ![w] = "idle"]
  /\ job' = [job EXCEPT ![w] = NoJob]
  /\ answer' = [answer EXCEPT ![w] = code]

\* A request that is refused by the first row it reads.
Refuse(w, code) == answer' = [answer EXCEPT ![w] = code] /\ UNCHANGED <<pc, job>>

HoldsV6(w, v) ==
  pc[w] \in {"bind_count", "bind_send", "bind_insert"} /\ job[w].v = v
HoldsBinding(w, p) ==
  pc[w] \in {"unbind_send", "unbind_delete"} /\ p = <<job[w].v, job[w].s>>
V6Free(v) == \A w \in Workers : ~HoldsV6(w, v)
BindingFree(p) == \A w \in Workers : ~HoldsBinding(w, p)

\* The ids a page can have shown to the caller.
KnownSites == {s \in Sites : siteRow[s] # "unborn"}
KnownV6 == {v \in V6 : v6Row[v] # "unborn"}
-----------------------------------------------------------------------------
\* addBind of the user and of the admin controller, then models/Site.php
\* bindV6: the website is read before the transaction begins.
AddBind(w) ==
  /\ pc[w] = "idle"
  /\ \E s \in KnownSites, v \in KnownV6, caller \in Users \cup {Admin} :
       IF caller # Admin /\ siteBelong[s] # caller
       THEN Refuse(w, "403")
       ELSE Begin(w, "bind_lock", "addBind", s, v, siteBelong[s])
  /\ UNCHANGED <<bookVars, broker>>

\* Mutant: a SELECT without FOR UPDATE.
BindLockPlainRead(w) ==
  /\ pc[w] = "bind_lock"
  /\ IF belong[job[w].v] # job[w].u THEN Answer(w, "403") ELSE Goto(w, "bind_count")
  /\ UNCHANGED <<bookVars, broker>>

\* SELECT ... FROM v6 ... FOR UPDATE waits for the row's holder.
BindLock(w) ==
  /\ pc[w] = "bind_lock"
  /\ V6Free(job[w].v)
  /\ IF belong[job[w].v] # job[w].u THEN Answer(w, "403") ELSE Goto(w, "bind_count")
  /\ UNCHANGED <<bookVars, broker>>

BindCount(w) ==
  /\ pc[w] = "bind_count"
  /\ IF quota[job[w].v] <= BoundCount(job[w].v)
     THEN Answer(w, "403") ELSE Goto(w, "bind_send")
  /\ UNCHANGED <<bookVars, broker>>

\* Upsitepy::bind inside the transaction: the command leaves the panel in this
\* step, before the binding is recorded; nobody reads what the broker answers.
BindSend(w) ==
  /\ pc[w] = "bind_send"
  /\ IF broker THEN Goto(w, "bind_insert") ELSE Answer(w, "502")
  /\ UNCHANGED <<bookVars, broker>>

\* INSERT into v6site and trans_complete().
BindInsert(w) ==
  LET v == job[w].v  s == job[w].s IN
  /\ pc[w] = "bind_insert"
  /\ BindingFree(<<v, s>>)
  /\ \/ InsertBinding(v, s) /\ Answer(w, "201")
     \/ ~MayInsertBinding(v, s) /\ Answer(w, "503") /\ UNCHANGED bookVars
  /\ broker' = broker

-----------------------------------------------------------------------------
\* delBind of both controllers, then models/Site.php unbindV6.
DelBind(w) ==
  /\ pc[w] = "idle"
  /\ \E s \in KnownSites, v \in KnownV6, caller \in Users \cup {Admin} :
       IF caller # Admin /\ siteBelong[s] # caller
       THEN Refuse(w, "403")
       ELSE Begin(w, "unbind_lock", "delBind", s, v, NoUser)
  /\ UNCHANGED <<bookVars, broker>>

\* Mutant: a SELECT without FOR UPDATE.
UnbindPlainRead(w) ==
  LET p == <<job[w].v, job[w].s>> IN
  /\ pc[w] = "unbind_lock"
  /\ IF p \notin v6site THEN Answer(w, "406") ELSE Goto(w, "unbind_send")
  /\ UNCHANGED <<bookVars, broker>>

\* SELECT * FROM v6site ... FOR UPDATE.
UnbindLock(w) ==
  LET p == <<job[w].v, job[w].s>> IN
  /\ pc[w] = "unbind_lock"
  /\ BindingFree(p)
  /\ IF p \notin v6site THEN Answer(w, "406") ELSE Goto(w, "unbind_send")
  /\ UNCHANGED <<bookVars, broker>>

UnbindSend(w) ==
  /\ pc[w] = "unbind_send"
  /\ IF broker THEN Goto(w, "unbind_delete") ELSE Answer(w, "502")
  /\ UNCHANGED <<bookVars, broker>>

\* Mutant: the DELETE names the address only.
UnbindDeleteAll(w) ==
  /\ pc[w] = "unbind_delete"
  /\ v6site' = v6site \ ({job[w].v} \X Sites)
  /\ Answer(w, "204")
  /\ UNCHANGED <<siteRow, siteBelong, v6Row, belong, quota, broker>>

UnbindDelete(w) ==
  /\ pc[w] = "unbind_delete"
  /\ DeleteBinding(job[w].v, job[w].s)
  /\ Answer(w, "204")
  /\ broker' = broker

-----------------------------------------------------------------------------
\* The user controller's delSite, then models/Site.php delSite.
DelSite(w) ==
  /\ pc[w] = "idle"
  /\ \E s \in KnownSites, caller \in Users :
       CASE siteRow[s] # "live" -> Refuse(w, "410")
         [] siteRow[s] = "live" /\ siteBelong[s] # caller -> Refuse(w, "403")
         [] OTHER -> Begin(w, "del_list", "delSite", s, NoV6, NoUser)
  /\ UNCHANGED <<bookVars, broker>>

\* The loop over the bindings never comes back from its first unbindV6, which
\* ends in restful() and so in exit().
DelSiteList(w) ==
  LET s == job[w].s  bound == {v \in V6 : <<v, s>> \in v6site} IN
  /\ pc[w] = "del_list"
  /\ \/ bound = {} /\ Goto(w, "del_delete")
     \/ \E v \in bound : Begin(w, "unbind_lock", "delSite", s, v, NoUser)
  /\ UNCHANGED <<bookVars, broker>>

\* DELETE waits, in its cascade, for the v6site rows that unbindV6 holds.  It
\* succeeds as well when another request has deleted the row before.
DelSiteDelete(w) ==
  LET s == job[w].s IN
  /\ pc[w] = "del_delete"
  /\ \A v \in V6 : BindingFree(<<v, s>>)
  /\ \/ DeleteSite(s)
     \/ siteRow[s] # "live" /\ UNCHANGED bookVars
  /\ Answer(w, "204")
  /\ broker' = broker

\* The user controller's modSite, with or without a new certificate.
ModSite(w) ==
  /\ pc[w] = "idle"
  /\ \E s \in KnownSites, caller \in Users :
       CASE siteRow[s] # "live" -> Refuse(w, "410")
         [] siteRow[s] = "live" /\ siteBelong[s] # caller -> Refuse(w, "403")
         [] OTHER -> Begin(w, "mod_update", "modSite", s, NoV6, NoUser)
  /\ UNCHANGED <<bookVars, broker>>

\* UPDATE site: name, company and cert are columns the book does not tell
\* apart.  A certificate goes on to models/Site.php updateSite.
ModSiteUpdate(w) ==
  /\ pc[w] = "mod_update"
  /\ Answer(w, "204") \/ Goto(w, "mod_list")
  /\ UNCHANGED <<bookVars, broker>>

\* updateSite pastes the row array $vid into the text of its SELECT: the
\* statement is "... WHERE id=Array", query() returns FALSE and ->row_array()
\* on FALSE is an Error, so no command is sent when there is a binding.
UpdateSite(w) ==
  /\ pc[w] = "mod_list"
  /\ IF \E v \in V6 : <<v, job[w].s>> \in v6site
     THEN Answer(w, "500") ELSE Answer(w, "204")
  /\ UNCHANGED <<bookVars, broker>>

-----------------------------------------------------------------------------
\* The admin's addAuth reads v6.belong and writes it in two statements.
AddAuth(w) ==
  /\ pc[w] = "idle"
  /\ \E v \in KnownV6, u \in Users :
       IF belong[v] # NoUser
       THEN Refuse(w, "406")
       ELSE Begin(w, "auth_write", "addAuth", NoSite, v, u)
  /\ UNCHANGED <<bookVars, broker>>

AddAuthWrite(w) ==
  LET v == job[w].v IN
  /\ pc[w] = "auth_write"
  /\ V6Free(v)
  /\ \/ UpdateBelong(v, job[w].u)
     \/ v6Row[v] # "live" /\ UNCHANGED bookVars
  /\ Answer(w, "201")
  /\ broker' = broker

\* Requests of one writing statement, whose answer nothing depends on; what
\* delAuth reads first only goes into its log line.
AddSite == \E s \in Sites, u \in Users : InsertSite(s, u)
AddAddr == \E v \in V6, u \in Owners, q \in 0..MaxQuota : InsertV6(v, u, q)
ModAddr == \E v \in V6, q \in 0..MaxQuota : V6Free(v) /\ UpdateQuota(v, q)
DelAuth == \E v \in V6 : V6Free(v) /\ UpdateBelong(v, NoUser)
DelAddr ==
  \E v \in V6 :
    /\ V6Free(v)
    /\ \A s \in Sites : BindingFree(<<v, s>>)
    /\ DeleteV6(v)

AdminStep ==
  /\ AddSite \/ AddAddr \/ ModAddr \/ DelAuth \/ DelAddr
  /\ UNCHANGED <<workVars, broker>>

-----------------------------------------------------------------------------
\* A statement that waits for a lock can time out or be chosen as a deadlock's
\* victim: after a failed SELECT the worker calls a method of FALSE (500), a
\* failed write is seen and answered (503).  Either way it rolls back.
StatementFails(w) ==
  /\ \/ pc[w] \in {"bind_lock", "unbind_lock"} /\ Answer(w, "500")
     \/ pc[w] \in {"bind_insert", "unbind_delete", "del_delete", "mod_update", "auth_write"}
        /\ Answer(w, "503")
  /\ UNCHANGED <<bookVars, broker>>

\* The PHP process or its connection to MySQL dies.
Crash(w) ==
  /\ pc[w] # "idle"
  /\ Answer(w, "lost")
  /\ UNCHANGED <<bookVars, broker>>

\* upsite.py stops and is started again.
BrokerFlip == broker' = ~broker /\ UNCHANGED <<bookVars, workVars>>

Bind(w) == AddBind(w) \/ BindLock(w) \/ BindCount(w) \/ BindSend(w) \/ BindInsert(w)
Unbind(w) == DelBind(w) \/ UnbindLock(w) \/ UnbindSend(w) \/ UnbindDelete(w)
Delete(w) == DelSite(w) \/ DelSiteList(w) \/ DelSiteDelete(w)
Modify(w) == ModSite(w) \/ ModSiteUpdate(w) \/ UpdateSite(w)
Grant(w) == AddAuth(w) \/ AddAuthWrite(w)

Work(w) == Bind(w) \/ Unbind(w) \/ Delete(w) \/ Modify(w) \/ Grant(w)

Next ==
  \/ \E w \in Workers : Work(w) \/ StatementFails(w) \/ Crash(w)
  \/ AdminStep
  \/ BrokerFlip

Spec == Init /\ [][Next]_vars
-----------------------------------------------------------------------------
(***************************************************************************)
(* Properties                                                               *)
(***************************************************************************)
\* Every variable has its type, and a place in the code has the ids it uses.
TypeOK ==
  /\ BookTypeOK
  /\ pc \in [Workers -> PCs]
  /\ job \in [Workers -> Jobs]
  /\ answer \in [Workers -> Answers]
  /\ broker \in BOOLEAN

Binding(w) == pc[w] \in {"bind_lock", "bind_count", "bind_send", "bind_insert"}
Unbinding(w) == pc[w] \in {"unbind_lock", "unbind_send", "unbind_delete"}

JobsFit ==
  \A w \in Workers :
    /\ Binding(w) \/ Unbinding(w) => job[w].s \in Sites /\ job[w].v \in V6
    /\ pc[w] \in {"del_list", "del_delete", "mod_update", "mod_list"} => job[w].s \in Sites
    /\ pc[w] = "auth_write" => job[w].v \in V6 /\ job[w].u \in Users

RowsFit ==
  /\ \A s \in Sites : siteRow[s] = "live" <=> siteBelong[s] # NoUser
  /\ \A v \in V6 : v6Row[v] # "live" => belong[v] = NoUser /\ quota[v] = 0
  /\ \A p \in v6site : v6Row[p[1]] = "live" /\ siteRow[p[2]] = "live"

\* What bindV6 has read and checked still holds when it is used, in spite of
\* every other worker and administrator: the website's owner if the website is
\* still there, under the lock the address's owner, and after the count that
\* there is room for one more.
BindChecksStand ==
  \A w \in Workers :
    /\ Binding(w) /\ siteRow[job[w].s] = "live" => siteBelong[job[w].s] = job[w].u
    /\ Binding(w) => siteRow[job[w].s] # "unborn" /\ v6Row[job[w].v] # "unborn"
    /\ pc[w] \in {"bind_count", "bind_send", "bind_insert"} => belong[job[w].v] = job[w].u
    /\ pc[w] \in {"bind_send", "bind_insert"} => BoundCount(job[w].v) < quota[job[w].v]

\* The binding that unbindV6 has locked, and for which it sends the command
\* 'del', is there until the worker itself deletes it.
UnbindChecksStand ==
  \A w \in Workers :
    pc[w] \in {"unbind_send", "unbind_delete"} => <<job[w].v, job[w].s>> \in v6site

LockExclusion ==
  \A w1, w2 \in Workers :
    w1 # w2 =>
      /\ \A v \in V6 : ~(HoldsV6(w1, v) /\ HoldsV6(w2, v))
      /\ \A p \in Pairs : ~(HoldsBinding(w1, p) /\ HoldsBinding(w2, p))

\* The row locks of bindV6 and unbindV6 do their work: they exclude each other
\* and nothing that was checked under them is stale when it is used.
LocksProtect == LockExclusion /\ BindChecksStand /\ UnbindChecksStand

\* The inductive form of LocksProtect: a place in the code has the ids it uses,
\* the rows obey the keys and the cascades of upsite.sql, and what bindV6 and
\* unbindV6 have checked under their locks stands until they use it.
Inv == TypeOK /\ JobsFit /\ RowsFit /\ LocksProtect

\* The interleaved requests change the book as if each did all its work in one
\* step: in the step where bindV6's binding appears the customer is the same
\* and the limit v6.site is not exceeded, and nothing else touches the book.
ImplementsBindings == Book!Spec

\* unbindV6 that answers 204 has taken away its binding and no other row, in
\* that very step, so that one 'del' command stands for one binding.
UnbindIsExact ==
  [][\A w \in Workers :
       Unbinding(w) /\ answer'[w] = "204" =>
         /\ <<job[w].v, job[w].s>> \in v6site
         /\ v6site' = v6site \ {<<job[w].v, job[w].s>>}]_vars

\* models/Site.php delSite deletes the website, and the page tells so: a
\* delSite that answers success has taken the website away.
DelSiteDeletes ==
  [][\A w \in Workers :
       job[w].op = "delSite" /\ answer'[w] = "204" => siteRow'[job[w].s] = "gone"]_vars

\* The comment on models/Site.php updateSite, "update the certificate of an
\* https website": with the certificate stored, updateSite ends without error.
UpdateSiteCompletes ==
  [][\A w \in Workers : pc[w] = "mod_list" => answer'[w] # "500"]_vars

\* addAuth refuses an address that is granted already: a grant never takes an
\* address from another customer.
GrantIsExclusive ==
  [][\A v \in V6 : belong[v] \in Users /\ belong'[v] # belong[v] => belong'[v] = NoUser]_vars
=============================================================================
