------------------------------ MODULE SiteProofs ------------------------------
(***************************************************************************)
(* Proofs about module Site, for any number of workers, websites, addresses *)
(* and customers: its invariant, and that it implements module Bindings.    *)
(***************************************************************************)
EXTENDS Site, FiniteSetTheorems, TLAPS

\* A count is a number, before a step and after it.
LEMMA CountType ==
  ASSUME NEW v \in V6
  PROVE  BoundCount(v) \in Nat /\ BoundCount(v)' \in Nat
<1>1. IsFiniteSet(BoundTo(v)) /\ IsFiniteSet(BoundTo(v)')
  <2>1. BoundTo(v) \subseteq Sites /\ BoundTo(v)' \subseteq Sites
    BY DEF BoundTo
  <2> QED BY <2>1, FS_Subset, SitesAssumption
<1> QED BY <1>1, FS_CardinalityType DEF BoundCount

-----------------------------------------------------------------------------
\* The book as it starts.
LEMMA InitInv == Init => Inv
<1> SUFFICES ASSUME Init PROVE Inv
  OBVIOUS
<1> USE DEF Init, BookInit
<1>1. TypeOK
  BY QuotaAssumption DEF TypeOK, BookTypeOK, Rows, Owners, Pairs, PCs, Jobs, Ops, NoJob, Answers
<1>2. JobsFit
  BY DEF JobsFit, Binding, Unbinding
<1>3. RowsFit
  BY DEF RowsFit
<1>4. LocksProtect
  BY DEF LocksProtect, LockExclusion, BindChecksStand, UnbindChecksStand,
         HoldsV6, HoldsBinding, Binding
<1> QED BY <1>1, <1>2, <1>3, <1>4 DEF Inv

-----------------------------------------------------------------------------
(***************************************************************************)
(* The parts of the invariant for one worker at place p with request j.     *)
(***************************************************************************)
BindPCs == {"bind_lock", "bind_count", "bind_send", "bind_insert"}
V6PCs == {"bind_count", "bind_send", "bind_insert"}
BindingPCs == {"unbind_send", "unbind_delete"}

FitAt(p, j) ==
  /\ p \in BindPCs \cup BindingPCs \cup {"unbind_lock"} => j.s \in Sites /\ j.v \in V6
  /\ p \in {"del_list", "del_delete", "mod_update", "mod_list"} => j.s \in Sites
  /\ p = "auth_write" => j.v \in V6 /\ j.u \in Users

StandAt(p, j) ==
  /\ p \in BindPCs /\ siteRow[j.s] = "live" => siteBelong[j.s] = j.u
  /\ p \in BindPCs => siteRow[j.s] # "unborn" /\ v6Row[j.v] # "unborn"
  /\ p \in V6PCs => belong[j.v] = j.u
  /\ p \in {"bind_send", "bind_insert"} => BoundCount(j.v) < quota[j.v]
  /\ p \in BindingPCs => <<j.v, j.s>> \in v6site

\* Nobody but w holds what a worker at p with request j holds.
ApartAt(w, p, j) ==
  \A w2 \in Workers \ {w} :
    /\ p \in V6PCs => ~HoldsV6(w2, j.v)
    /\ p \in BindingPCs => ~HoldsBinding(w2, <<j.v, j.s>>)

\* The invariant, taken apart by request.
LEMMA InvParts ==
  Inv <=> /\ TypeOK /\ RowsFit
          /\ \A w \in Workers : /\ FitAt(pc[w], job[w])
                                /\ StandAt(pc[w], job[w])
          /\ LockExclusion
<1>1. JobsFit <=> \A w \in Workers : FitAt(pc[w], job[w])
  BY DEF JobsFit, FitAt, Binding, Unbinding, BindPCs, BindingPCs
<1>2. BindChecksStand /\ UnbindChecksStand <=> \A w \in Workers : StandAt(pc[w], job[w])
  BY DEF BindChecksStand, UnbindChecksStand, StandAt, Binding, BindPCs, V6PCs, BindingPCs
<1> QED BY <1>1, <1>2 DEF Inv, LocksProtect

\* And put together again for the next state.
LEMMA InvPartsPrime ==
  ASSUME TypeOK', RowsFit',
         \A w \in Workers : FitAt(pc[w], job[w])' /\ StandAt(pc[w], job[w])',
         LockExclusion'
  PROVE  Inv'
<1>1. JobsFit'
  BY DEF JobsFit, FitAt, Binding, Unbinding, BindPCs, BindingPCs
<1>2. BindChecksStand' /\ UnbindChecksStand'
  BY DEF BindChecksStand, UnbindChecksStand, StandAt, Binding, BindPCs, V6PCs, BindingPCs
<1> QED BY <1>1, <1>2 DEF Inv, LocksProtect

-----------------------------------------------------------------------------
\* A step of one worker that reads the book only.
LEMMA QuietStep ==
  ASSUME Inv, NEW w \in Workers, NEW p \in PCs, NEW j \in Jobs, NEW a \in Answers,
         pc' = [pc EXCEPT ![w] = p], job' = [job EXCEPT ![w] = j],
         answer' = [answer EXCEPT ![w] = a],
         UNCHANGED bookVars, broker' = broker,
         FitAt(p, j), StandAt(p, j), ApartAt(w, p, j)
  PROVE  Inv'
<1>0. TypeOK /\ RowsFit /\ LockExclusion
      /\ \A w2 \in Workers : FitAt(pc[w2], job[w2]) /\ StandAt(pc[w2], job[w2])
  BY InvParts
<1>1. TypeOK'
  BY <1>0 DEF TypeOK, BookTypeOK, bookVars
<1>2. RowsFit'
  BY <1>0 DEF RowsFit, bookVars
<1>3. \A w2 \in Workers : pc'[w2] = (IF w2 = w THEN p ELSE pc[w2])
                         /\ job'[w2] = (IF w2 = w THEN j ELSE job[w2])
  BY <1>0 DEF TypeOK
<1>4. \A w2 \in Workers : FitAt(pc[w2], job[w2])' /\ StandAt(pc[w2], job[w2])'
  <2> TAKE w2 \in Workers
  <2>1. FitAt(pc'[w2], job'[w2]) /\ StandAt(pc'[w2], job'[w2])
    BY <1>0, <1>3
  <2>2. \A v : BoundCount(v)' = BoundCount(v)
    BY DEF BoundCount, BoundTo, bookVars
  <2> QED BY <2>1, <2>2 DEF FitAt, StandAt, bookVars
<1>5. LockExclusion'
  <2> SUFFICES ASSUME NEW w1 \in Workers, NEW w2 \in Workers, w1 # w2
               PROVE  /\ \A v \in V6 : ~(HoldsV6(w1, v) /\ HoldsV6(w2, v))'
                      /\ \A q \in Pairs : ~(HoldsBinding(w1, q) /\ HoldsBinding(w2, q))'
    BY DEF LockExclusion
  <2>1. CASE w1 # w /\ w2 # w
    BY <2>1, <1>0, <1>3 DEF LockExclusion, HoldsV6, HoldsBinding
  <2>2. CASE w1 = w
    BY <2>2, <1>3 DEF ApartAt, HoldsV6, HoldsBinding, V6PCs, BindingPCs
  <2>3. CASE w2 = w
    BY <2>3, <1>3 DEF ApartAt, HoldsV6, HoldsBinding, V6PCs, BindingPCs
  <2> QED BY <2>1, <2>2, <2>3
<1> QED BY <1>1, <1>2, <1>4, <1>5, InvPartsPrime

\* An answer that leaves the book as it is.
LEMMA QuietAnswer ==
  ASSUME Inv, NEW w \in Workers, NEW a \in Answers, Answer(w, a),
         UNCHANGED bookVars, broker' = broker
  PROVE  Inv'
<1>1. NoJob \in Jobs /\ "idle" \in PCs
  BY DEF NoJob, Jobs, Ops, PCs, Owners
<1>2. FitAt("idle", NoJob) /\ StandAt("idle", NoJob) /\ ApartAt(w, "idle", NoJob)
  BY DEF FitAt, StandAt, ApartAt, BindPCs, V6PCs, BindingPCs
<1> QED BY <1>1, <1>2, QuietStep DEF Answer

\* Going on with the same request.
LEMMA QuietGoto ==
  ASSUME Inv, NEW w \in Workers, NEW p \in PCs, Goto(w, p),
         UNCHANGED bookVars, broker' = broker,
         FitAt(p, job[w]), StandAt(p, job[w]), ApartAt(w, p, job[w])
  PROVE  Inv'
<1>1. TypeOK
  BY DEF Inv
<1>2. job[w] \in Jobs /\ answer[w] \in Answers
      /\ job = [job EXCEPT ![w] = job[w]] /\ answer = [answer EXCEPT ![w] = answer[w]]
  BY <1>1 DEF TypeOK
<1> QED BY <1>2, QuietStep DEF Goto

\* A request that is refused at once.
LEMMA QuietRefuse ==
  ASSUME Inv, NEW w \in Workers, NEW a \in Answers, pc[w] = "idle", Refuse(w, a),
         UNCHANGED bookVars, broker' = broker
  PROVE  Inv'
<1>1. TypeOK
  BY DEF Inv
<1>2. /\ job[w] \in Jobs /\ pc[w] \in PCs
      /\ pc = [pc EXCEPT ![w] = pc[w]] /\ job = [job EXCEPT ![w] = job[w]]
  BY <1>1 DEF TypeOK
<1>3. FitAt(pc[w], job[w]) /\ StandAt(pc[w], job[w]) /\ ApartAt(w, pc[w], job[w])
  BY DEF FitAt, StandAt, ApartAt, BindPCs, V6PCs, BindingPCs
<1> QED BY <1>2, <1>3, QuietStep DEF Refuse

\* A step that writes the book, by a worker that ends with it or by none.
LEMMA BookStep ==
  ASSUME Inv, BookTypeOK', RowsFit', broker' = broker,
         pc' \in [Workers -> PCs], job' \in [Workers -> Jobs], answer' \in [Workers -> Answers],
         \A w \in Workers :
           \/ pc'[w] = "idle"
           \/ pc'[w] = pc[w] /\ job'[w] = job[w] /\ StandAt(pc[w], job[w])'
  PROVE  Inv'
<1>0. TypeOK /\ LockExclusion /\ \A w \in Workers : FitAt(pc[w], job[w])
  BY InvParts
<1>1. TypeOK'
  BY <1>0 DEF TypeOK
<1>2. \A w \in Workers : FitAt(pc[w], job[w])' /\ StandAt(pc[w], job[w])'
  BY <1>0, ZenonT(60) DEF FitAt, StandAt, BindPCs, V6PCs, BindingPCs
<1>3. LockExclusion'
  BY <1>0 DEF LockExclusion, HoldsV6, HoldsBinding
<1> QED BY <1>1, <1>2, <1>3, InvPartsPrime

-----------------------------------------------------------------------------
(***************************************************************************)
(* The invariant is inductive: first the steps that read the book only.     *)
(***************************************************************************)
LEMMA BindInv ==
  ASSUME Inv, NEW w \in Workers, AddBind(w) \/ BindLock(w) \/ BindCount(w) \/ BindSend(w)
  PROVE  Inv'
<1>0. TypeOK /\ RowsFit /\ FitAt(pc[w], job[w]) /\ StandAt(pc[w], job[w]) /\ LockExclusion
  BY InvParts
<1>1. job[w] \in Jobs
  BY <1>0 DEF TypeOK
<1>2. CASE AddBind(w)
  <2> PICK s \in KnownSites, v \in KnownV6, caller \in Users \cup {Admin} :
        IF caller # Admin /\ siteBelong[s] # caller
        THEN Refuse(w, "403")
        ELSE Begin(w, "bind_lock", "addBind", s, v, siteBelong[s])
    BY <1>2 DEF AddBind
  <2>1. pc[w] = "idle" /\ UNCHANGED bookVars /\ broker' = broker
    BY <1>2 DEF AddBind
  <2>2. CASE Refuse(w, "403")
    BY <2>1, <2>2, QuietRefuse DEF Answers
  <2>3. CASE Begin(w, "bind_lock", "addBind", s, v, siteBelong[s])
    <3> DEFINE j == [op |-> "addBind", s |-> s, v |-> v, u |-> siteBelong[s]]
    <3>1. /\ s \in Sites /\ v \in V6 /\ siteBelong[s] \in Owners
          /\ siteRow[s] # "unborn" /\ v6Row[v] # "unborn"
      BY <1>0 DEF KnownSites, KnownV6, TypeOK, BookTypeOK
    <3>2. j \in Jobs /\ "bind_lock" \in PCs /\ "none" \in Answers
      BY <3>1 DEF Jobs, Ops, PCs, Answers
    <3>3. FitAt("bind_lock", j) /\ StandAt("bind_lock", j) /\ ApartAt(w, "bind_lock", j)
      BY <3>1 DEF FitAt, StandAt, ApartAt, BindPCs, V6PCs, BindingPCs
    <3> HIDE DEF j
    <3>4. /\ pc' = [pc EXCEPT ![w] = "bind_lock"] /\ job' = [job EXCEPT ![w] = j]
          /\ answer' = [answer EXCEPT ![w] = "none"]
      BY <2>3 DEF Begin, j
    <3> QED BY <2>1, <3>2, <3>3, <3>4, QuietStep
  <2> QED BY <2>2, <2>3
<1>3. CASE BindLock(w)
  <2>1. /\ pc[w] = "bind_lock" /\ V6Free(job[w].v) /\ UNCHANGED bookVars /\ broker' = broker
        /\ Answer(w, "403") \/ (belong[job[w].v] = job[w].u /\ Goto(w, "bind_count"))
    BY <1>3 DEF BindLock
  <2>2. CASE Answer(w, "403")
    BY <2>1, <2>2, QuietAnswer DEF Answers
  <2>3. CASE belong[job[w].v] = job[w].u /\ Goto(w, "bind_count")
    <3>1. FitAt("bind_count", job[w]) /\ StandAt("bind_count", job[w])
      BY <1>0, <2>1, <2>3 DEF FitAt, StandAt, BindPCs, V6PCs, BindingPCs
    <3>2. ApartAt(w, "bind_count", job[w])
      BY <2>1 DEF ApartAt, V6Free, BindingPCs
    <3> QED BY <2>1, <2>3, <3>1, <3>2, QuietGoto DEF PCs
  <2> QED BY <2>1, <2>2, <2>3
<1>4. ASSUME pc[w] \in V6PCs PROVE ApartAt(w, "bind_send", job[w]) /\ ApartAt(w, "bind_insert", job[w])
  BY <1>0, <1>4 DEF ApartAt, V6PCs, BindingPCs, LockExclusion, HoldsV6, FitAt, BindPCs
<1>5. CASE BindCount(w)
  <2>1. /\ pc[w] = "bind_count" /\ UNCHANGED bookVars /\ broker' = broker
        /\ Answer(w, "403") \/ (~(quota[job[w].v] <= BoundCount(job[w].v)) /\ Goto(w, "bind_send"))
    BY <1>5 DEF BindCount
  <2>2. CASE Answer(w, "403")
    BY <2>1, <2>2, QuietAnswer DEF Answers
  <2>3. CASE ~(quota[job[w].v] <= BoundCount(job[w].v)) /\ Goto(w, "bind_send")
    <3>1. FitAt("bind_send", job[w])
      BY <1>0, <2>1 DEF FitAt, BindPCs, BindingPCs
    <3>2. quota[job[w].v] \in Nat /\ BoundCount(job[w].v) \in Nat
      BY <1>0, <3>1, CountType, QuotaAssumption DEF TypeOK, BookTypeOK, FitAt, BindPCs
    <3>3. BoundCount(job[w].v) < quota[job[w].v]
      BY <2>3, <3>2
    <3>4. StandAt("bind_send", job[w])
      BY <1>0, <2>1, <3>3 DEF StandAt, BindPCs, V6PCs, BindingPCs
    <3> QED BY <2>1, <2>3, <3>1, <3>4, <1>4, QuietGoto DEF PCs, V6PCs
  <2> QED BY <2>1, <2>2, <2>3
<1>6. CASE BindSend(w)
  <2>1. /\ pc[w] = "bind_send" /\ UNCHANGED bookVars /\ broker' = broker
        /\ Answer(w, "502") \/ Goto(w, "bind_insert")
    BY <1>6 DEF BindSend
  <2>2. CASE Answer(w, "502")
    BY <2>1, <2>2, QuietAnswer DEF Answers
  <2>3. CASE Goto(w, "bind_insert")
    <3>1. FitAt("bind_insert", job[w]) /\ StandAt("bind_insert", job[w])
      BY <1>0, <2>1 DEF FitAt, StandAt, BindPCs, V6PCs, BindingPCs
    <3> QED BY <2>1, <2>3, <3>1, <1>4, QuietGoto DEF PCs, V6PCs
  <2> QED BY <2>1, <2>2, <2>3
<1> QED BY <1>2, <1>3, <1>5, <1>6
\* The handlers that unbind an address keep the invariant.
LEMMA UnbindInv ==
  ASSUME Inv, NEW w \in Workers, DelBind(w) \/ UnbindLock(w) \/ UnbindSend(w)
  PROVE  Inv'
<1>0. TypeOK /\ RowsFit /\ FitAt(pc[w], job[w]) /\ StandAt(pc[w], job[w]) /\ LockExclusion
  BY InvParts
<1>1. CASE DelBind(w)
  <2> PICK s \in KnownSites, v \in KnownV6, caller \in Users \cup {Admin} :
        IF caller # Admin /\ siteBelong[s] # caller
        THEN Refuse(w, "403")
        ELSE Begin(w, "unbind_lock", "delBind", s, v, NoUser)
    BY <1>1 DEF DelBind
  <2>1. pc[w] = "idle" /\ UNCHANGED bookVars /\ broker' = broker
    BY <1>1 DEF DelBind
  <2>2. CASE Refuse(w, "403")
    BY <2>1, <2>2, QuietRefuse DEF Answers
  <2>3. CASE Begin(w, "unbind_lock", "delBind", s, v, NoUser)
    <3> DEFINE j == [op |-> "delBind", s |-> s, v |-> v, u |-> NoUser]
    <3>1. s \in Sites /\ v \in V6
      BY DEF KnownSites, KnownV6
    <3>2. j \in Jobs /\ "unbind_lock" \in PCs /\ "none" \in Answers
      BY <3>1 DEF Jobs, Ops, PCs, Answers, Owners
    <3>3. FitAt("unbind_lock", j) /\ StandAt("unbind_lock", j) /\ ApartAt(w, "unbind_lock", j)
      BY <3>1 DEF FitAt, StandAt, ApartAt, BindPCs, V6PCs, BindingPCs
    <3> HIDE DEF j
    <3>4. /\ pc' = [pc EXCEPT ![w] = "unbind_lock"] /\ job' = [job EXCEPT ![w] = j]
          /\ answer' = [answer EXCEPT ![w] = "none"]
      BY <2>3 DEF Begin, j
    <3> QED BY <2>1, <3>2, <3>3, <3>4, QuietStep
  <2> QED BY <2>2, <2>3
<1>2. CASE UnbindLock(w)
  <2> DEFINE p == <<job[w].v, job[w].s>>
  <2>1. /\ pc[w] = "unbind_lock" /\ BindingFree(p) /\ UNCHANGED bookVars /\ broker' = broker
        /\ Answer(w, "406") \/ (p \in v6site /\ Goto(w, "unbind_send"))
    BY <1>2 DEF UnbindLock
  <2>2. CASE Answer(w, "406")
    BY <2>1, <2>2, QuietAnswer DEF Answers
  <2>3. CASE p \in v6site /\ Goto(w, "unbind_send")
    <3>1. FitAt("unbind_send", job[w]) /\ StandAt("unbind_send", job[w])
      BY <1>0, <2>1, <2>3 DEF FitAt, StandAt, BindPCs, V6PCs, BindingPCs
    <3>2. ApartAt(w, "unbind_send", job[w])
      BY <2>1 DEF ApartAt, BindingFree, V6PCs
    <3> QED BY <2>1, <2>3, <3>1, <3>2, QuietGoto DEF PCs
  <2> QED BY <2>1, <2>2, <2>3
<1>3. CASE UnbindSend(w)
  <2>1. /\ pc[w] = "unbind_send" /\ UNCHANGED bookVars /\ broker' = broker
        /\ Answer(w, "502") \/ Goto(w, "unbind_delete")
    BY <1>3 DEF UnbindSend
  <2>2. CASE Answer(w, "502")
    BY <2>1, <2>2, QuietAnswer DEF Answers
  <2>3. CASE Goto(w, "unbind_delete")
    <3>1. FitAt("unbind_delete", job[w]) /\ StandAt("unbind_delete", job[w])
      BY <1>0, <2>1 DEF FitAt, StandAt, BindPCs, V6PCs, BindingPCs
    <3>2. \A q : HoldsBinding(w, q) <=> q = <<job[w].v, job[w].s>>
      BY <2>1 DEF HoldsBinding
    <3>3. <<job[w].v, job[w].s>> \in Pairs
      BY <3>1 DEF FitAt, BindingPCs, Pairs
    <3>4. ApartAt(w, "unbind_delete", job[w])
      BY <1>0, <3>2, <3>3 DEF ApartAt, V6PCs, LockExclusion
    <3> QED BY <2>1, <2>3, <3>1, <3>4, QuietGoto DEF PCs
  <2> QED BY <2>1, <2>2, <2>3
<1> QED BY <1>1, <1>2, <1>3

\* Those that delete and modify a website.
LEMMA DeleteModifyInv ==
  ASSUME Inv, NEW w \in Workers,
         DelSite(w) \/ DelSiteList(w) \/ ModSite(w) \/ ModSiteUpdate(w) \/ UpdateSite(w)
  PROVE  Inv'
<1>0. TypeOK /\ FitAt(pc[w], job[w])
  BY InvParts
<1>1. \A p \in {"del_list", "del_delete", "mod_update", "mod_list"}, j \in Jobs :
        j.s \in Sites => FitAt(p, j) /\ StandAt(p, j) /\ ApartAt(w, p, j)
  BY DEF FitAt, StandAt, ApartAt, BindPCs, V6PCs, BindingPCs
<1>2. ASSUME NEW o \in {"delSite", "modSite"}, NEW p \in {"del_list", "mod_update"},
             NEW s \in Sites, Begin(w, p, o, s, NoV6, NoUser), UNCHANGED bookVars, broker' = broker
      PROVE  Inv'
  <2> DEFINE j == [op |-> o, s |-> s, v |-> NoV6, u |-> NoUser]
  <2>1. j \in Jobs /\ p \in PCs /\ "none" \in Answers /\ j.s \in Sites
    BY DEF Jobs, Ops, PCs, Answers, Owners
  <2> HIDE DEF j
  <2>2. /\ pc' = [pc EXCEPT ![w] = p] /\ job' = [job EXCEPT ![w] = j]
        /\ answer' = [answer EXCEPT ![w] = "none"]
    BY <1>2 DEF Begin, j
  <2>3. FitAt(p, j) /\ StandAt(p, j) /\ ApartAt(w, p, j)
    BY <1>1, <2>1
  <2> QED BY <1>2, <2>1, <2>2, <2>3, QuietStep
<1>3. CASE DelSite(w)
  <2>1. pc[w] = "idle" /\ UNCHANGED bookVars /\ broker' = broker
    BY <1>3 DEF DelSite
  <2>2. PICK s \in Sites : \/ Refuse(w, "410") \/ Refuse(w, "403")
                           \/ Begin(w, "del_list", "delSite", s, NoV6, NoUser)
    BY <1>3 DEF DelSite, KnownSites
  <2> QED BY <1>2, <2>1, <2>2, QuietRefuse DEF Answers
<1>4. CASE ModSite(w)
  <2>1. pc[w] = "idle" /\ UNCHANGED bookVars /\ broker' = broker
    BY <1>4 DEF ModSite
  <2>2. PICK s \in Sites : \/ Refuse(w, "410") \/ Refuse(w, "403")
                           \/ Begin(w, "mod_update", "modSite", s, NoV6, NoUser)
    BY <1>4 DEF ModSite, KnownSites
  <2> QED BY <1>2, <2>1, <2>2, QuietRefuse DEF Answers
<1>5. CASE DelSiteList(w)
  <2>1. pc[w] = "del_list" /\ UNCHANGED bookVars /\ broker' = broker
    BY <1>5 DEF DelSiteList
  <2>2. job[w] \in Jobs /\ job[w].s \in Sites
    BY <1>0, <2>1 DEF TypeOK, FitAt
  <2>3. CASE Goto(w, "del_delete")
    BY <1>1, <2>1, <2>2, <2>3, QuietGoto DEF PCs
  <2>4. ASSUME NEW v \in V6, Begin(w, "unbind_lock", "delSite", job[w].s, v, NoUser)
        PROVE  Inv'
    <3> DEFINE j == [op |-> "delSite", s |-> job[w].s, v |-> v, u |-> NoUser]
    <3>1. j \in Jobs /\ "unbind_lock" \in PCs /\ "none" \in Answers
      BY <2>2 DEF Jobs, Ops, PCs, Answers, Owners
    <3>2. FitAt("unbind_lock", j) /\ StandAt("unbind_lock", j) /\ ApartAt(w, "unbind_lock", j)
      BY <2>2 DEF FitAt, StandAt, ApartAt, BindPCs, V6PCs, BindingPCs
    <3> HIDE DEF j
    <3>3. /\ pc' = [pc EXCEPT ![w] = "unbind_lock"] /\ job' = [job EXCEPT ![w] = j]
          /\ answer' = [answer EXCEPT ![w] = "none"]
      BY <2>4 DEF Begin, j
    <3> QED BY <2>1, <3>1, <3>2, <3>3, QuietStep
  <2> QED BY <1>5, <2>3, <2>4 DEF DelSiteList
<1>6. CASE ModSiteUpdate(w)
  <2>1. /\ pc[w] = "mod_update" /\ UNCHANGED bookVars /\ broker' = broker
        /\ Answer(w, "204") \/ Goto(w, "mod_list")
    BY <1>6 DEF ModSiteUpdate
  <2>2. job[w] \in Jobs /\ job[w].s \in Sites
    BY <1>0, <2>1 DEF TypeOK, FitAt
  <2> QED BY <1>1, <2>1, <2>2, QuietGoto, QuietAnswer DEF PCs, Answers
<1>7. CASE UpdateSite(w)
  BY <1>7, QuietAnswer DEF UpdateSite, Answers
<1> QED BY <1>3, <1>4, <1>5, <1>6, <1>7

\* The first step of adding an address.
LEMMA AddAuthInv ==
  ASSUME Inv, NEW w \in Workers, AddAuth(w)
  PROVE  Inv'
<1>1. pc[w] = "idle" /\ UNCHANGED bookVars /\ broker' = broker
  BY DEF AddAuth
<1>2. PICK v \in V6, u \in Users : \/ Refuse(w, "406")
                                   \/ Begin(w, "auth_write", "addAuth", NoSite, v, u)
  BY DEF AddAuth, KnownV6
<1>3. CASE Refuse(w, "406")
  BY <1>1, <1>3, QuietRefuse DEF Answers
<1>4. CASE Begin(w, "auth_write", "addAuth", NoSite, v, u)
  <2> DEFINE j == [op |-> "addAuth", s |-> NoSite, v |-> v, u |-> u]
  <2>1. j \in Jobs /\ "auth_write" \in PCs /\ "none" \in Answers
    BY DEF Jobs, Ops, PCs, Answers, Owners
  <2>2. FitAt("auth_write", j) /\ StandAt("auth_write", j) /\ ApartAt(w, "auth_write", j)
    BY DEF FitAt, StandAt, ApartAt, BindPCs, V6PCs, BindingPCs
  <2> HIDE DEF j
  <2>3. /\ pc' = [pc EXCEPT ![w] = "auth_write"] /\ job' = [job EXCEPT ![w] = j]
        /\ answer' = [answer EXCEPT ![w] = "none"]
    BY <1>4 DEF Begin, j
  <2> QED BY <1>1, <2>1, <2>2, <2>3, QuietStep
<1> QED BY <1>2, <1>3, <1>4

\* The ends of a request that are not its own: a failed statement, a crash.
LEMMA FailInv ==
  ASSUME Inv, NEW w \in Workers, StatementFails(w) \/ Crash(w)
  PROVE  Inv'
BY QuietAnswer DEF StatementFails, Crash, Answers

-----------------------------------------------------------------------------
(***************************************************************************)
(* The steps that write the book.  What the other workers have checked is   *)
(* safe for one of three reasons: the step takes bindings away and so makes *)
(* room, the locks keep it from their rows, or a deleted row only switches  *)
(* off what is said of a live one.                                          *)
(***************************************************************************)
\* The worker's own answer, after which nothing is said of it.
LEMMA EndTypes ==
  ASSUME TypeOK, NEW w \in Workers, NEW a \in Answers, Answer(w, a)
  PROVE  /\ pc' \in [Workers -> PCs] /\ job' \in [Workers -> Jobs]
         /\ answer' \in [Workers -> Answers]
         /\ pc'[w] = "idle"
         /\ \A w2 \in Workers \ {w} : pc'[w2] = pc[w2] /\ job'[w2] = job[w2]
<1>1. NoJob \in Jobs /\ "idle" \in PCs
  BY DEF NoJob, Jobs, Ops, PCs, Owners
<1> QED BY <1>1 DEF TypeOK, Answer

\* The INSERT of a binding.
LEMMA BindInsertInv ==
  ASSUME Inv, NEW w \in Workers, BindInsert(w)
  PROVE  Inv'
<1> DEFINE v == job[w].v
           s == job[w].s
<1>0. TypeOK /\ RowsFit /\ LockExclusion
      /\ \A w2 \in Workers : FitAt(pc[w2], job[w2]) /\ StandAt(pc[w2], job[w2])
  BY InvParts
<1>1. pc[w] = "bind_insert" /\ broker' = broker
  BY DEF BindInsert
<1>2. CASE ~MayInsertBinding(v, s) /\ Answer(w, "503") /\ UNCHANGED bookVars
  BY <1>1, <1>2, QuietAnswer DEF Answers
<1>3. CASE InsertBinding(v, s) /\ Answer(w, "201")
  <2>1. /\ siteRow[s] = "live" /\ v6Row[v] = "live"
        /\ v6site' = v6site \cup {<<v, s>>}
        /\ UNCHANGED <<siteRow, siteBelong, v6Row, belong, quota>>
    BY <1>3 DEF InsertBinding, MayInsertBinding
  <2>2. v \in V6 /\ s \in Sites
    BY <1>0, <1>1 DEF FitAt, BindPCs
  <2>3. BookTypeOK'
    BY <1>0, <2>1, <2>2 DEF TypeOK, BookTypeOK, Pairs
  <2>4. RowsFit'
    BY <1>0, <2>1 DEF RowsFit
  <2>5. /\ pc' \in [Workers -> PCs] /\ job' \in [Workers -> Jobs]
        /\ answer' \in [Workers -> Answers]
        /\ pc'[w] = "idle"
        /\ \A w2 \in Workers \ {w} : pc'[w2] = pc[w2] /\ job'[w2] = job[w2]
    BY <1>0, <1>3, EndTypes DEF Answers
  <2>6. ASSUME NEW w2 \in Workers \ {w} PROVE StandAt(pc[w2], job[w2])'
    <3>1. CASE pc[w2] \in {"bind_send", "bind_insert"}
      <4>1. job[w2].v \in V6 /\ job[w2].v # v
        BY <1>0, <1>1, <3>1 DEF FitAt, BindPCs, LockExclusion, HoldsV6
      <4>2. BoundCount(job[w2].v)' = BoundCount(job[w2].v)
        <5>1. job'[w2] = job[w2]
          BY <2>5
        <5>2. BoundTo(job[w2].v)' = BoundTo(job[w2].v)
          BY <4>1, <2>1, <5>1 DEF BoundTo
        <5> QED BY <5>2 DEF BoundCount
      <4> QED BY <1>0, <2>1, <2>5, <3>1, <4>2 DEF StandAt, BindPCs, V6PCs, BindingPCs
    <3>2. CASE pc[w2] \notin {"bind_send", "bind_insert"}
      BY <1>0, <2>1, <2>5, <3>2 DEF StandAt
    <3> QED BY <3>1, <3>2
  <2> QED BY <1>1, <2>3, <2>4, <2>5, <2>6, BookStep
<1> QED BY <1>2, <1>3 DEF BindInsert

\* What a worker has checked survives a step that only takes bindings away,
\* unless it is the one it has locked.
LEMMA StandDrops ==
  ASSUME TypeOK, NEW w \in Workers, FitAt(pc[w], job[w]), StandAt(pc[w], job[w]),
         pc'[w] = pc[w], job'[w] = job[w],
         v6site' \subseteq v6site,
         siteRow'[job[w].s] \in {siteRow[job[w].s], "gone"},
         siteRow'[job[w].s] = "live" => siteBelong'[job[w].s] = siteBelong[job[w].s],
         v6Row'[job[w].v] \in {v6Row[job[w].v], "gone"},
         pc[w] \in V6PCs => /\ belong'[job[w].v] = belong[job[w].v]
                            /\ quota'[job[w].v] = quota[job[w].v],
         pc[w] \in BindingPCs => <<job[w].v, job[w].s>> \in v6site'
  PROVE  StandAt(pc[w], job[w])'
<1>1. CASE pc[w] \in {"bind_send", "bind_insert"}
  <2>1. job[w].v \in V6
    BY <1>1 DEF FitAt, BindPCs
  <2>2. BoundTo(job[w].v)' \subseteq BoundTo(job[w].v) /\ BoundTo(job[w].v) \subseteq Sites
    BY DEF BoundTo
  <2>3. /\ IsFiniteSet(BoundTo(job[w].v))
        /\ Cardinality(BoundTo(job[w].v)') \in Nat /\ Cardinality(BoundTo(job[w].v)) \in Nat
        /\ Cardinality(BoundTo(job[w].v)') <= Cardinality(BoundTo(job[w].v))
    BY <2>2, FS_Subset, FS_CardinalityType, SitesAssumption
  <2>4. quota[job[w].v] \in Nat
    BY <2>1, QuotaAssumption DEF TypeOK, BookTypeOK
  <2>5. Cardinality(BoundTo(job[w].v)) < quota[job[w].v]
    BY <1>1 DEF StandAt, BoundCount
  <2>6. Cardinality(BoundTo(job[w].v)') < quota'[job[w].v]
    BY <1>1, <2>3, <2>4, <2>5 DEF V6PCs
  <2>7. BoundCount(job[w].v)' < quota'[job'[w].v]
    BY <2>6 DEF BoundCount
  <2> QED BY <1>1, <2>7 DEF StandAt, BindPCs, V6PCs, BindingPCs
<1>2. CASE pc[w] \notin {"bind_send", "bind_insert"}
  BY <1>2 DEF StandAt, BindPCs
<1> QED BY <1>1, <1>2

\* The DELETE of a binding.
LEMMA UnbindDeleteInv ==
  ASSUME Inv, NEW w \in Workers, UnbindDelete(w)
  PROVE  Inv'
<1> DEFINE q == <<job[w].v, job[w].s>>
<1>0. TypeOK /\ RowsFit /\ LockExclusion
      /\ \A w2 \in Workers : FitAt(pc[w2], job[w2]) /\ StandAt(pc[w2], job[w2])
  BY InvParts
<1>1. /\ pc[w] = "unbind_delete" /\ broker' = broker
      /\ v6site' = v6site \ {q} /\ Answer(w, "204")
      /\ UNCHANGED <<siteRow, siteBelong, v6Row, belong, quota>>
  BY DEF UnbindDelete, DeleteBinding
<1>2. BookTypeOK' /\ RowsFit'
  BY <1>0, <1>1 DEF TypeOK, BookTypeOK, RowsFit
<1>3. /\ pc' \in [Workers -> PCs] /\ job' \in [Workers -> Jobs]
      /\ answer' \in [Workers -> Answers]
      /\ pc'[w] = "idle"
      /\ \A w2 \in Workers \ {w} : pc'[w2] = pc[w2] /\ job'[w2] = job[w2]
  BY <1>0, <1>1, EndTypes DEF Answers
<1>4. ASSUME NEW w2 \in Workers \ {w} PROVE StandAt(pc[w2], job[w2])'
  <2>1. q \in Pairs /\ HoldsBinding(w, q)
    BY <1>0, <1>1 DEF FitAt, BindingPCs, Pairs, HoldsBinding
  <2>2. ~HoldsBinding(w2, q)
    BY <1>0, <2>1 DEF LockExclusion
  <2>3. pc[w2] \in BindingPCs => <<job[w2].v, job[w2].s>> \in v6site'
    BY <1>0, <1>1, <2>2 DEF StandAt, BindingPCs, HoldsBinding
  <2> QED BY <1>0, <1>1, <1>3, <2>3, StandDrops
<1> QED BY <1>1, <1>2, <1>3, <1>4, BookStep

\* The DELETE of a website, with what hangs on it.
LEMMA DelSiteDeleteInv ==
  ASSUME Inv, NEW w \in Workers, DelSiteDelete(w)
  PROVE  Inv'
<1> DEFINE s == job[w].s
<1>0. TypeOK /\ RowsFit
      /\ \A w2 \in Workers : FitAt(pc[w2], job[w2]) /\ StandAt(pc[w2], job[w2])
  BY InvParts
<1>1. /\ pc[w] = "del_delete" /\ broker' = broker /\ Answer(w, "204")
      /\ \A v \in V6 : BindingFree(<<v, s>>)
      /\ DeleteSite(s) \/ UNCHANGED bookVars
  BY DEF DelSiteDelete
<1>2. CASE UNCHANGED bookVars
  BY <1>1, <1>2, QuietAnswer DEF Answers
<1>3. CASE DeleteSite(s)
  <2>1. /\ siteRow' = [siteRow EXCEPT ![s] = "gone"]
        /\ siteBelong' = [siteBelong EXCEPT ![s] = NoUser]
        /\ v6site' = v6site \ (V6 \X {s})
        /\ UNCHANGED <<v6Row, belong, quota>>
    BY <1>3 DEF DeleteSite
  <2>2. s \in Sites
    BY <1>0, <1>1 DEF FitAt
  <2>3. BookTypeOK' /\ RowsFit'
    BY <1>0, <2>1, <2>2 DEF TypeOK, BookTypeOK, RowsFit, Rows, Owners, Pairs
  <2>4. /\ pc' \in [Workers -> PCs] /\ job' \in [Workers -> Jobs]
        /\ answer' \in [Workers -> Answers]
        /\ pc'[w] = "idle"
        /\ \A w2 \in Workers \ {w} : pc'[w2] = pc[w2] /\ job'[w2] = job[w2]
    BY <1>0, <1>1, EndTypes DEF Answers
  <2>5. ASSUME NEW w2 \in Workers \ {w} PROVE pc'[w2] = "idle" \/ StandAt(pc[w2], job[w2])'
    <3>1. ASSUME pc[w2] \in BindingPCs PROVE <<job[w2].v, job[w2].s>> \in v6site'
      <4>1. job[w2].v \in V6 /\ <<job[w2].v, job[w2].s>> \in v6site
        BY <1>0, <3>1 DEF FitAt, StandAt
      <4>2. job[w2].s # s
        BY <1>1, <3>1, <4>1 DEF BindingFree, HoldsBinding, BindingPCs
      <4> QED BY <2>1, <4>1, <4>2
    <3>2. CASE pc[w2] \in BindPCs \cup BindingPCs
      <4>1. job[w2].s \in Sites
        BY <1>0, <3>2 DEF FitAt
      <4>2. /\ siteRow'[job[w2].s] \in {siteRow[job[w2].s], "gone"}
            /\ siteRow'[job[w2].s] = "live" => siteBelong'[job[w2].s] = siteBelong[job[w2].s]
        BY <1>0, <2>1, <2>2, <4>1 DEF TypeOK, BookTypeOK
      <4> QED BY <1>0, <2>1, <2>4, <3>1, <4>2, StandDrops
    <3>3. CASE pc[w2] \notin BindPCs \cup BindingPCs
      BY <2>4, <3>3 DEF StandAt, BindPCs, V6PCs, BindingPCs
    <3> QED BY <3>2, <3>3
  <2> QED BY <1>1, <2>3, <2>4, <2>5, BookStep
<1> QED BY <1>1, <1>2, <1>3

\* The write of an address.
LEMMA AddAuthWriteInv ==
  ASSUME Inv, NEW w \in Workers, AddAuthWrite(w)
  PROVE  Inv'
<1> DEFINE v == job[w].v
<1>0. TypeOK /\ RowsFit
      /\ \A w2 \in Workers : FitAt(pc[w2], job[w2]) /\ StandAt(pc[w2], job[w2])
  BY InvParts
<1>1. /\ pc[w] = "auth_write" /\ broker' = broker /\ V6Free(v) /\ Answer(w, "201")
      /\ UpdateBelong(v, job[w].u) \/ UNCHANGED bookVars
  BY DEF AddAuthWrite
<1>2. CASE UNCHANGED bookVars
  BY <1>1, <1>2, QuietAnswer DEF Answers
<1>3. CASE UpdateBelong(v, job[w].u)
  <2>1. /\ v6Row[v] = "live" /\ belong' = [belong EXCEPT ![v] = job[w].u]
        /\ UNCHANGED <<siteRow, siteBelong, v6Row, quota, v6site>>
    BY <1>3 DEF UpdateBelong
  <2>2. v \in V6 /\ job[w].u \in Users
    BY <1>0, <1>1 DEF FitAt
  <2>3. BookTypeOK' /\ RowsFit'
    BY <1>0, <2>1, <2>2 DEF TypeOK, BookTypeOK, RowsFit, Owners
  <2>4. /\ pc' \in [Workers -> PCs] /\ job' \in [Workers -> Jobs]
        /\ answer' \in [Workers -> Answers]
        /\ pc'[w] = "idle"
        /\ \A w2 \in Workers \ {w} : pc'[w2] = pc[w2] /\ job'[w2] = job[w2]
    BY <1>0, <1>1, EndTypes DEF Answers
  <2>5. ASSUME NEW w2 \in Workers \ {w} PROVE pc'[w2] = "idle" \/ StandAt(pc[w2], job[w2])'
    <3>1. CASE pc[w2] \in BindPCs \cup BindingPCs
      <4>1. job[w2].s \in Sites /\ job[w2].v \in V6
        BY <1>0, <3>1 DEF FitAt
      <4>2. pc[w2] \in V6PCs => job[w2].v # v
        BY <1>1 DEF V6Free, HoldsV6, V6PCs
      <4>3. pc[w2] \in V6PCs => belong'[job[w2].v] = belong[job[w2].v]
        BY <1>0, <2>1, <2>2, <4>1, <4>2 DEF TypeOK, BookTypeOK
      <4>4. pc[w2] \in BindingPCs => <<job[w2].v, job[w2].s>> \in v6site'
        BY <1>0, <2>1 DEF StandAt
      <4> QED BY <1>0, <2>1, <2>4, <4>3, <4>4, StandDrops
    <3>2. CASE pc[w2] \notin BindPCs \cup BindingPCs
      BY <2>4, <3>2 DEF StandAt, BindPCs, V6PCs, BindingPCs
    <3> QED BY <3>1, <3>2
  <2> QED BY <1>1, <2>3, <2>4, <2>5, BookStep
<1> QED BY <1>1, <1>2, <1>3

\* The administrator's statements: no worker moves.
LEMMA AdminInv ==
  ASSUME Inv, AdminStep
  PROVE  Inv'
<1>0. TypeOK /\ RowsFit
      /\ \A w \in Workers : FitAt(pc[w], job[w]) /\ StandAt(pc[w], job[w])
  BY InvParts
<1>1. UNCHANGED workVars /\ broker' = broker
  BY DEF AdminStep
<1>2. /\ pc' \in [Workers -> PCs] /\ job' \in [Workers -> Jobs]
      /\ answer' \in [Workers -> Answers]
  BY <1>0, <1>1 DEF TypeOK, workVars
<1>3. SUFFICES /\ BookTypeOK' /\ RowsFit'
               /\ \A w \in Workers : pc[w] \in BindPCs \cup BindingPCs => StandAt(pc[w], job[w])'
  <2>1. ASSUME NEW w \in Workers, pc[w] \notin BindPCs \cup BindingPCs
        PROVE  StandAt(pc[w], job[w])'
    BY <1>1, <2>1 DEF StandAt, BindPCs, V6PCs, BindingPCs, workVars
  <2> QED BY <1>1, <1>2, <2>1, BookStep DEF workVars
<1>4. \A w \in Workers : pc[w] \in BindPCs \cup BindingPCs => job[w].s \in Sites /\ job[w].v \in V6
  BY <1>0 DEF FitAt
<1>5. \A w \in Workers : pc[w] \in BindingPCs => <<job[w].v, job[w].s>> \in v6site
  BY <1>0 DEF StandAt
<1>6. CASE AddSite
  <2> PICK s \in Sites, u \in Users : InsertSite(s, u)
    BY <1>6 DEF AddSite
  <2>1. /\ siteRow[s] = "unborn" /\ siteRow' = [siteRow EXCEPT ![s] = "live"]
        /\ siteBelong' = [siteBelong EXCEPT ![s] = u]
        /\ UNCHANGED <<v6Row, belong, quota, v6site>>
    BY DEF InsertSite
  <2>2. BookTypeOK' /\ RowsFit'
    BY <1>0, <2>1, NoUserAssumption DEF TypeOK, BookTypeOK, RowsFit, Rows, Owners, Pairs
  <2>3. ASSUME NEW w \in Workers, pc[w] \in BindPCs \cup BindingPCs
        PROVE  StandAt(pc[w], job[w])'
    <3>1. job[w].s # s
      <4>1. siteRow[job[w].s] # "unborn"
        BY <1>0, <1>4, <2>3 DEF StandAt, RowsFit, BindPCs, BindingPCs
      <4> QED BY <2>1, <4>1
    <3>2. siteRow'[job[w].s] = siteRow[job[w].s] /\ siteBelong'[job[w].s] = siteBelong[job[w].s]
      BY <1>0, <1>4, <2>1, <2>3, <3>1 DEF TypeOK, BookTypeOK
    <3> QED BY <1>0, <1>1, <1>5, <2>1, <3>2, StandDrops DEF workVars
  <2> QED BY <2>2, <2>3
<1>7. CASE AddAddr
  <2> PICK v \in V6, u \in Owners, q \in 0..MaxQuota : InsertV6(v, u, q)
    BY <1>7 DEF AddAddr
  <2>1. /\ v6Row[v] = "unborn" /\ v6Row' = [v6Row EXCEPT ![v] = "live"]
        /\ belong' = [belong EXCEPT ![v] = u] /\ quota' = [quota EXCEPT ![v] = q]
        /\ UNCHANGED <<siteRow, siteBelong, v6site>>
    BY DEF InsertV6
  <2>2. BookTypeOK' /\ RowsFit'
    BY <1>0, <2>1 DEF TypeOK, BookTypeOK, RowsFit, Rows
  <2>3. ASSUME NEW w \in Workers, pc[w] \in BindPCs \cup BindingPCs
        PROVE  StandAt(pc[w], job[w])'
    <3>1. job[w].v # v
      BY <1>0, <1>5, <2>1, <2>3 DEF StandAt, RowsFit, BindPCs, BindingPCs
    <3>2. pc[w] \in V6PCs => belong'[job[w].v] = belong[job[w].v] /\ quota'[job[w].v] = quota[job[w].v]
      BY <1>0, <1>4, <2>1, <2>3, <3>1 DEF TypeOK, BookTypeOK
    <3>3. v6Row'[job[w].v] = v6Row[job[w].v]
      BY <1>0, <1>4, <2>1, <2>3, <3>1 DEF TypeOK, BookTypeOK
    <3> QED BY <1>0, <1>1, <1>5, <2>1, <3>2, <3>3, StandDrops DEF workVars
  <2> QED BY <2>2, <2>3
<1>8. CASE ModAddr
  <2> PICK v \in V6, q \in 0..MaxQuota : V6Free(v) /\ UpdateQuota(v, q)
    BY <1>8 DEF ModAddr
  <2>1. /\ v6Row[v] = "live" /\ quota' = [quota EXCEPT ![v] = q]
        /\ UNCHANGED <<siteRow, siteBelong, v6Row, belong, v6site>>
    BY DEF UpdateQuota
  <2>2. BookTypeOK' /\ RowsFit'
    BY <1>0, <2>1 DEF TypeOK, BookTypeOK, RowsFit
  <2>3. ASSUME NEW w \in Workers, pc[w] \in BindPCs \cup BindingPCs
        PROVE  StandAt(pc[w], job[w])'
    <3>1. pc[w] \in V6PCs => quota'[job[w].v] = quota[job[w].v]
      BY <1>0, <1>4, <2>1, <2>3 DEF TypeOK, BookTypeOK, V6Free, HoldsV6, V6PCs
    <3> QED BY <1>0, <1>1, <1>5, <2>1, <3>1, StandDrops DEF workVars
  <2> QED BY <2>2, <2>3
<1>9. CASE DelAuth
  <2> PICK v \in V6 : V6Free(v) /\ UpdateBelong(v, NoUser)
    BY <1>9 DEF DelAuth
  <2>1. /\ v6Row[v] = "live" /\ belong' = [belong EXCEPT ![v] = NoUser]
        /\ UNCHANGED <<siteRow, siteBelong, v6Row, quota, v6site>>
    BY DEF UpdateBelong
  <2>2. BookTypeOK' /\ RowsFit'
    BY <1>0, <2>1 DEF TypeOK, BookTypeOK, RowsFit, Owners
  <2>3. ASSUME NEW w \in Workers, pc[w] \in BindPCs \cup BindingPCs
        PROVE  StandAt(pc[w], job[w])'
    <3>1. pc[w] \in V6PCs => belong'[job[w].v] = belong[job[w].v]
      BY <1>0, <1>4, <2>1, <2>3 DEF TypeOK, BookTypeOK, V6Free, HoldsV6, V6PCs
    <3> QED BY <1>0, <1>1, <1>5, <2>1, <3>1, StandDrops DEF workVars
  <2> QED BY <2>2, <2>3
<1>10. CASE DelAddr
  <2> PICK v \in V6 : /\ V6Free(v) /\ \A s \in Sites : BindingFree(<<v, s>>)
                      /\ DeleteV6(v)
    BY <1>10 DEF DelAddr
  <2>1. /\ v6Row' = [v6Row EXCEPT ![v] = "gone"]
        /\ belong' = [belong EXCEPT ![v] = NoUser] /\ quota' = [quota EXCEPT ![v] = 0]
        /\ v6site' = v6site \ ({v} \X Sites)
        /\ UNCHANGED <<siteRow, siteBelong>>
    BY DEF DeleteV6
  <2>2. BookTypeOK' /\ RowsFit'
    BY <1>0, <2>1, QuotaAssumption DEF TypeOK, BookTypeOK, RowsFit, Rows, Owners, Pairs
  <2>3. ASSUME NEW w \in Workers, pc[w] \in BindPCs \cup BindingPCs
        PROVE  StandAt(pc[w], job[w])'
    <3>1. pc[w] \in V6PCs => belong'[job[w].v] = belong[job[w].v] /\ quota'[job[w].v] = quota[job[w].v]
      BY <1>0, <1>4, <2>1, <2>3 DEF TypeOK, BookTypeOK, V6Free, HoldsV6, V6PCs
    <3>2. ASSUME pc[w] \in BindingPCs PROVE <<job[w].v, job[w].s>> \in v6site'
      BY <1>4, <1>5, <2>1, <2>3, <3>2 DEF BindingFree, HoldsBinding, BindingPCs
    <3>3. v6Row'[job[w].v] \in {v6Row[job[w].v], "gone"}
      BY <1>0, <1>4, <2>1, <2>3 DEF TypeOK, BookTypeOK
    <3> QED BY <1>0, <1>1, <2>1, <3>1, <3>2, <3>3, StandDrops DEF workVars
  <2> QED BY <2>2, <2>3
<1> QED BY <1>6, <1>7, <1>8, <1>9, <1>10 DEF AdminStep

-----------------------------------------------------------------------------
\* Every step keeps the invariant.
LEMMA NextInv == Inv /\ [Next]_vars => Inv'
<1> SUFFICES ASSUME Inv, [Next]_vars PROVE Inv'
  OBVIOUS
<1>1. CASE UNCHANGED vars
  <2>1. TypeOK /\ RowsFit /\ LockExclusion
        /\ \A w \in Workers : FitAt(pc[w], job[w]) /\ StandAt(pc[w], job[w])
    BY InvParts
  <2>2. BookTypeOK' /\ RowsFit' /\ broker' = broker
    BY <1>1, <2>1 DEF vars, TypeOK, BookTypeOK, RowsFit
  <2>3. /\ pc' \in [Workers -> PCs] /\ job' \in [Workers -> Jobs]
        /\ answer' \in [Workers -> Answers]
    BY <1>1, <2>1 DEF vars, TypeOK
  <2>4. \A w \in Workers : pc'[w] = pc[w] /\ job'[w] = job[w] /\ StandAt(pc[w], job[w])'
    BY <1>1, <2>1 DEF vars, StandAt, BoundCount, BoundTo
  <2> QED BY <2>2, <2>3, <2>4, BookStep
<1>2. ASSUME NEW w \in Workers, Work(w) PROVE Inv'
  <2>1. CASE Bind(w)
    BY <2>1, BindInv, BindInsertInv DEF Bind
  <2>2. CASE Unbind(w)
    BY <2>2, UnbindInv, UnbindDeleteInv DEF Unbind
  <2>3. CASE Delete(w)
    BY <2>3, DeleteModifyInv, DelSiteDeleteInv DEF Delete
  <2>4. CASE Modify(w)
    BY <2>4, DeleteModifyInv DEF Modify
  <2>5. CASE Grant(w)
    BY <2>5, AddAuthInv, AddAuthWriteInv DEF Grant
  <2> QED BY <1>2, <2>1, <2>2, <2>3, <2>4, <2>5 DEF Work
<1>3. ASSUME NEW w \in Workers, StatementFails(w) \/ Crash(w) PROVE Inv'
  BY <1>3, FailInv
<1>4. CASE AdminStep
  BY <1>4, AdminInv
<1>5. CASE BrokerFlip
  <2>1. TypeOK /\ JobsFit /\ RowsFit /\ LocksProtect
    BY DEF Inv
  <2>2. TypeOK'
    BY <1>5, <2>1 DEF BrokerFlip, TypeOK, BookTypeOK, bookVars, workVars
  <2>3. JobsFit'
    BY <1>5, <2>1 DEF BrokerFlip, JobsFit, Binding, Unbinding, workVars
  <2>4. RowsFit'
    BY <1>5, <2>1 DEF BrokerFlip, RowsFit, bookVars
  <2>5. LockExclusion' /\ BindChecksStand' /\ UnbindChecksStand'
    BY <1>5, <2>1 DEF BrokerFlip, LocksProtect, LockExclusion, BindChecksStand, UnbindChecksStand,
         HoldsV6, HoldsBinding, Binding, BoundCount, BoundTo, bookVars, workVars
  <2> QED BY <2>2, <2>3, <2>4, <2>5 DEF Inv, LocksProtect
<1> QED BY <1>1, <1>2, <1>3, <1>4, <1>5 DEF Next

\* The invariant holds in every state, however many requests interleave.
THEOREM Invariance == Spec => []Inv
BY InitInv, NextInv, PTL DEF Spec

\* Every variable keeps its type.
THEOREM TypeCorrect == Spec => []TypeOK
<1>1. Inv => TypeOK
  BY DEF Inv
<1> QED BY <1>1, Invariance, PTL

\* The row locks exclude each other and protect what was checked under them.
THEOREM LocksAreEnough == Spec => []LocksProtect
<1>1. Inv => LocksProtect
  BY DEF Inv
<1> QED BY <1>1, Invariance, PTL

-----------------------------------------------------------------------------
(***************************************************************************)
(* The refinement of module Bindings: every step of the panel that touches  *)
(* the book is one whole operation of the book.                             *)
(***************************************************************************)
LEMMA BindRefines ==
  ASSUME Inv, NEW w \in Workers, InsertBinding(job[w].v, job[w].s), pc[w] = "bind_insert"
  PROVE  Book!Next
<1> DEFINE v == job[w].v
           s == job[w].s
<1>1. FitAt(pc[w], job[w]) /\ StandAt(pc[w], job[w])
  BY InvParts
<1>2. v \in V6 /\ s \in Sites
  BY <1>1 DEF FitAt, BindPCs
<1>3. siteRow[s] = "live"
  BY DEF InsertBinding, MayInsertBinding
<1>4. belong[v] = siteBelong[s] /\ BoundCount(v) < quota[v]
  BY <1>1, <1>3 DEF StandAt, BindPCs, V6PCs
<1>5. Book!BoundCount(v) = BoundCount(v)
  <2>1. \A S : Book!Cardinality(S) = Cardinality(S)
    BY DEF Book!Cardinality, Cardinality
  <2> QED BY <2>1 DEF Book!BoundCount, Book!BoundTo, BoundCount, BoundTo
<1>6. Book!Bind(v, s)
  BY <1>4, <1>5 DEF Book!Bind, Book!InsertBinding, Book!MayInsertBinding,
       InsertBinding, MayInsertBinding
<1> QED BY <1>2, <1>6 DEF Book!Next

\* A step of a handler is a step of the abstract book or a stutter.
LEMMA WorkRefines ==
  ASSUME Inv, NEW w \in Workers, Work(w) \/ StatementFails(w) \/ Crash(w)
  PROVE  Book!Next \/ UNCHANGED bookVars
<1>0. TypeOK /\ FitAt(pc[w], job[w]) /\ StandAt(pc[w], job[w])
  BY InvParts DEF Inv
<1>1. CASE BindInsert(w)
  BY <1>1, BindRefines DEF BindInsert
<1>2. CASE UnbindDelete(w)
  <2>1. pc[w] = "unbind_delete" /\ DeleteBinding(job[w].v, job[w].s)
    BY <1>2 DEF UnbindDelete
  <2>2. job[w].v \in V6 /\ job[w].s \in Sites /\ <<job[w].v, job[w].s>> \in v6site
    BY <1>0, <2>1 DEF FitAt, StandAt, BindingPCs
  <2>3. Book!Unbind(job[w].v, job[w].s)
    BY <2>1, <2>2 DEF Book!Unbind, Book!DeleteBinding, DeleteBinding
  <2> QED BY <2>2, <2>3 DEF Book!Next
<1>3. CASE DelSiteDelete(w)
  <2>1. CASE DeleteSite(job[w].s)
    <3>1. job[w].s \in Sites
      BY <1>0, <1>3 DEF DelSiteDelete, FitAt
    <3> QED BY <2>1, <3>1 DEF Book!Next, Book!DeleteSite, DeleteSite
  <2> QED BY <1>3, <2>1 DEF DelSiteDelete
<1>4. CASE AddAuthWrite(w)
  <2>1. CASE UpdateBelong(job[w].v, job[w].u)
    <3>1. job[w].v \in V6 /\ job[w].u \in Book!Owners
      BY <1>0, <1>4 DEF AddAuthWrite, FitAt, Book!Owners
    <3> QED BY <2>1, <3>1 DEF Book!Next, Book!UpdateBelong, UpdateBelong
  <2> QED BY <1>4, <2>1 DEF AddAuthWrite
<1>5. CASE AddBind(w) \/ BindLock(w) \/ BindCount(w) \/ BindSend(w)
  BY <1>5 DEF AddBind, BindLock, BindCount, BindSend
<1>6. CASE DelBind(w) \/ UnbindLock(w) \/ UnbindSend(w) \/ AddAuth(w)
  BY <1>6 DEF DelBind, UnbindLock, UnbindSend, AddAuth
<1>7. CASE DelSite(w) \/ DelSiteList(w) \/ ModSite(w) \/ ModSiteUpdate(w) \/ UpdateSite(w)
  BY <1>7 DEF DelSite, DelSiteList, ModSite, ModSiteUpdate, UpdateSite
<1>8. CASE StatementFails(w) \/ Crash(w)
  BY <1>8 DEF StatementFails, Crash
<1> QED BY <1>1, <1>2, <1>3, <1>4, <1>5, <1>6, <1>7, <1>8
        DEF Work, Bind, Unbind, Delete, Modify, Grant

\* So is one of the administrator.
LEMMA AdminRefines ==
  ASSUME AdminStep
  PROVE  Book!Next
<1>1. CASE AddSite
  BY <1>1 DEF AddSite, InsertSite, Book!Next, Book!InsertSite
<1>2. CASE AddAddr
  BY <1>2 DEF AddAddr, InsertV6, Owners, Book!Next, Book!InsertV6, Book!Owners
<1>3. CASE ModAddr
  BY <1>3 DEF ModAddr, UpdateQuota, Book!Next, Book!UpdateQuota
<1>4. CASE DelAuth
  BY <1>4 DEF DelAuth, UpdateBelong, Book!Next, Book!UpdateBelong, Book!Owners
<1>5. CASE DelAddr
  BY <1>5 DEF DelAddr, DeleteV6, Book!Next, Book!DeleteV6
<1> QED BY <1>1, <1>2, <1>3, <1>4, <1>5 DEF AdminStep

\* The panel implements the book: a binding appears only between a website and
\* an address of one customer and within the limit, as if bindV6 were atomic.
THEOREM Refinement == Spec => ImplementsBindings
<1>1. Init => Book!BookInit
  BY DEF Init, BookInit, Book!BookInit
<1>2. Inv /\ [Next]_vars => [Book!Next]_(Book!bookVars)
  <2> SUFFICES ASSUME Inv, [Next]_vars PROVE Book!Next \/ UNCHANGED bookVars
    BY DEF Book!bookVars, bookVars
  <2>1. CASE UNCHANGED vars
    BY <2>1 DEF vars, bookVars
  <2>2. CASE BrokerFlip
    BY <2>2 DEF BrokerFlip
  <2> QED BY <2>1, <2>2, WorkRefines, AdminRefines DEF Next
<1> QED BY <1>1, <1>2, Invariance, PTL DEF Spec, ImplementsBindings, Book!Spec

-----------------------------------------------------------------------------
(***************************************************************************)
(* unbindV6's answer belongs to the step that deletes its row.              *)
(***************************************************************************)
\* A worker that serves a request has not answered it.
Silent == \A w \in Workers : pc[w] # "idle" => answer[w] = "none"

\* The four ways a worker moves; the others stand still.
Moves(w) ==
  \/ \E p, o, s, v, u : Begin(w, p, o, s, v, u)
  \/ \E p : Goto(w, p) /\ pc[w] # "idle"
  \/ \E a : Answer(w, a)
  \/ \E a : Refuse(w, a) /\ pc[w] = "idle"

\* Where a handler may go in one step.
LEMMA WorkMoves ==
  ASSUME NEW w \in Workers, Work(w) \/ StatementFails(w) \/ Crash(w)
  PROVE  Moves(w)
<1>1. CASE AddBind(w) \/ DelBind(w) \/ DelSite(w) \/ ModSite(w) \/ AddAuth(w)
  BY <1>1 DEF AddBind, DelBind, DelSite, ModSite, AddAuth, Moves
<1>2. CASE BindLock(w) \/ BindCount(w) \/ BindSend(w) \/ BindInsert(w)
  BY <1>2 DEF BindLock, BindCount, BindSend, BindInsert, Moves
<1>3. CASE UnbindLock(w) \/ UnbindSend(w) \/ UnbindDelete(w)
  BY <1>3 DEF UnbindLock, UnbindSend, UnbindDelete, Moves
<1>4. CASE DelSiteList(w) \/ DelSiteDelete(w) \/ ModSiteUpdate(w) \/ UpdateSite(w)
  BY <1>4 DEF DelSiteList, DelSiteDelete, ModSiteUpdate, UpdateSite, Moves
<1>5. CASE AddAuthWrite(w) \/ StatementFails(w) \/ Crash(w)
  BY <1>5 DEF AddAuthWrite, StatementFails, Crash, Moves
<1> QED BY <1>1, <1>2, <1>3, <1>4, <1>5 DEF Work, Bind, Unbind, Delete, Modify, Grant

\* A worker that is in a handler has not given its answer yet.
LEMMA SilentInv == Inv /\ Silent /\ [Next]_vars => Silent'
<1> SUFFICES ASSUME Inv, Silent, [Next]_vars PROVE Silent'
  OBVIOUS
<1>1. pc \in [Workers -> PCs] /\ answer \in [Workers -> Answers]
  BY DEF Inv, TypeOK
<1>2. CASE UNCHANGED workVars
  BY <1>2 DEF Silent, workVars
<1>3. ASSUME NEW w \in Workers, Moves(w) PROVE Silent'
  BY <1>1, <1>3 DEF Moves, Begin, Goto, Answer, Refuse, Silent
<1> QED BY <1>2, <1>3, WorkMoves DEF Next, AdminStep, BrokerFlip, vars, workVars

\* An unbinding worker answers 204 in the one step that deletes its binding.
LEMMA UnbindAnswers ==
  ASSUME Inv, Silent, [Next]_vars, NEW w \in Workers, Unbinding(w), answer'[w] = "204"
  PROVE  UnbindDelete(w)
<1>1. answer \in [Workers -> Answers] /\ answer[w] = "none" /\ pc[w] # "idle"
  BY DEF Inv, TypeOK, Silent, Unbinding
<1>2. ~UNCHANGED answer
  BY <1>1
<1>3. PICK x \in Workers : Work(x) \/ StatementFails(x) \/ Crash(x)
  BY <1>2 DEF Next, AdminStep, BrokerFlip, vars, workVars
<1>4. x = w
  <2>1. \E a : answer' = [answer EXCEPT ![x] = a]
    <3>1. answer = [answer EXCEPT ![x] = answer[x]]
      BY <1>1
    <3> QED BY <1>3, <3>1, WorkMoves DEF Moves, Begin, Goto, Answer, Refuse
  <2> QED BY <1>1, <2>1
<1>5. ~(StatementFails(w) \/ Crash(w))
  BY <1>1 DEF StatementFails, Crash, Answer
<1>6. ~(Bind(w) \/ Delete(w) \/ Modify(w) \/ Grant(w))
  BY DEF Unbinding, Bind, AddBind, BindLock, BindCount, BindSend, BindInsert,
         Delete, DelSite, DelSiteList, DelSiteDelete, Modify, ModSite, ModSiteUpdate,
         UpdateSite, Grant, AddAuth, AddAuthWrite
<1>7. ~(DelBind(w) \/ UnbindLock(w) \/ UnbindSend(w))
  BY <1>1 DEF DelBind, UnbindLock, UnbindSend, Answer, Goto, Unbinding
<1> QED BY <1>3, <1>4, <1>5, <1>6, <1>7 DEF Work, Unbind

\* unbindV6 that answers 204 has taken away its own binding and nothing else.
THEOREM UnbindExact == Spec => UnbindIsExact
<1>1. Init => Silent
  BY DEF Init, Silent
<1>2. Inv /\ Silent /\ [Next]_vars =>
        [\A w \in Workers :
           Unbinding(w) /\ answer'[w] = "204" =>
             /\ <<job[w].v, job[w].s>> \in v6site
             /\ v6site' = v6site \ {<<job[w].v, job[w].s>>}]_vars
  <2> SUFFICES ASSUME Inv, Silent, [Next]_vars,
                      NEW w \in Workers, Unbinding(w), answer'[w] = "204"
               PROVE  /\ <<job[w].v, job[w].s>> \in v6site
                      /\ v6site' = v6site \ {<<job[w].v, job[w].s>>}
    OBVIOUS
  <2>1. UnbindDelete(w)
    BY UnbindAnswers
  <2>2. UnbindChecksStand
    BY DEF Inv, LocksProtect
  <2> QED BY <2>1, <2>2 DEF UnbindChecksStand, UnbindDelete, DeleteBinding
<1> QED BY <1>1, <1>2, SilentInv, Invariance, PTL DEF Spec, UnbindIsExact

=============================================================================
