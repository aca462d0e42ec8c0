--------------------------- MODULE UpstreamProofs ---------------------------
(***************************************************************************)
(* Proofs about the choice of a server (Peers) and about the requests that   *)
(* are passed on (Upstream), for every setup: the account of who holds a     *)
(* server, the balance of the weights, what is kept of a connection, that a  *)
(* handler returns, that a request that may not be repeated reaches one      *)
(* server, and that a failed server is spared.                               *)
(***************************************************************************)
EXTENDS Upstream, ListProofs

-----------------------------------------------------------------------------
(* The choice.                                                               *)
\* A total order of the numbers up to n.
TotalOn(R, n) ==
  /\ \A i, j \in 1 .. n : <<i, j>> \in R \/ <<j, i>> \in R
  /\ \A i, j, k \in 1 .. n : <<i, j>> \in R /\ <<j, k>> \in R => <<i, k>> \in R

\* Of some of the numbers up to n, one is before all the others in a total order.
LEMMA HasFirst ==
  ASSUME NEW n \in Nat, NEW R, TotalOn(R, n), NEW S \in SUBSET (1 .. n), S # {}
  PROVE  \E i \in S : \A j \in S : <<i, j>> \in R
<1> DEFINE Bad(m) == \E s \in SUBSET (1 .. m) : s # {} /\ ~\E i \in s : \A j \in s : <<i, j>> \in R
           T == {m \in 0 .. n : Bad(m)}
<1>a. T = {}
  <2> SUFFICES ASSUME T # {} PROVE FALSE
    OBVIOUS
  <2> HIDE DEF T
  <2>0. T \in SUBSET Nat
    BY DEF T
  <2>1. PICK m \in T : \A y \in T : m <= y
    BY <2>0, LeastNumber
  <2>2. PICK s \in SUBSET (1 .. m) : s # {} /\ ~\E i \in s : \A j \in s : <<i, j>> \in R
    BY <2>1 DEF T
  <2>3. m \in 1 .. n /\ m - 1 \in 0 .. n /\ m - 1 \notin T
    <3>1. m \in 0 .. n
      BY <2>1 DEF T
    <3>2. m # 0
      <4>1. PICK i \in s : TRUE
        BY <2>2
      <4>2. i \in 1 .. m
        BY <2>2, <4>1
      <4> QED BY <4>2, <3>1
    <3>3. ~(m <= m - 1)
      BY <3>1
    <3> QED BY <2>1, <3>1, <3>2, <3>3
  <2>4. \A u \in SUBSET (1 .. m - 1) : u # {} => \E i \in u : \A j \in u : <<i, j>> \in R
    BY <2>3 DEF T
  <2>5. s \ {m} \in SUBSET (1 .. m - 1)
    BY <2>3
  <2>6. m \in s /\ s \ {m} # {}
    <3>1. CASE m \notin s
      BY <3>1, <2>2, <2>4, <2>5
    <3>2. CASE s = {m}
      <4>1. <<m, m>> \in R
        BY <2>3 DEF TotalOn
      <4> QED BY <3>2, <4>1, <2>2
    <3> QED BY <3>1, <3>2, <2>2
  <2>7. PICK i \in s \ {m} : \A j \in s \ {m} : <<i, j>> \in R
    BY <2>4, <2>5, <2>6
  <2>8. \A j \in s : j \in 1 .. n
    BY <2>2, <2>3
  <2>a. i \in 1 .. n
    BY <2>7, <2>8
  <2>9. CASE <<i, m>> \in R
    BY <2>2, <2>7, <2>9
  <2>10. CASE <<m, i>> \in R
    <3>1. <<m, m>> \in R
      BY <2>3 DEF TotalOn
    <3>2. \A j \in s : <<m, j>> \in R
      BY <2>3, <2>7, <2>8, <2>a, <2>10, <3>1 DEF TotalOn
    <3> QED BY <2>2, <2>6, <3>2
  <2> QED BY <2>3, <2>a, <2>9, <2>10 DEF TotalOn
<1>b. n \in 0 .. n
  OBVIOUS
<1> QED BY <1>a, <1>b

-----------------------------------------------------------------------------
\* The servers of a setup are as configured.
Configured ==
  /\ setup \in Setups
  /\ Index = 1 .. Len(Servers) /\ Len(Servers) \in Nat /\ 1 \in Index
  /\ \A i \in Index :
       /\ Servers[i].weight \in Nat \ {0} /\ Servers[i].maxFails \in Nat /\ Servers[i].failTimeout \in Nat
       /\ Servers[i].maxConns \in Nat /\ Servers[i].backup \in BOOLEAN
  /\ Method \in Methods
  /\ \A k \in DOMAIN KeyOrder :
       /\ Len(KeyOrder[k]) \in Nat \ {0}
       /\ \A j \in 1 .. Len(KeyOrder[k]) : KeyOrder[k][j] \in Index

\* The setups that the module assumes have everything the choice of a server reads.
LEMMA ConfiguredIs ==
  ASSUME setup \in Setups
  PROVE  Configured
<1>1. /\ Servers # <<>> /\ Method \in Methods
      /\ Servers \in Seq([weight : Nat \ {0}, maxFails : Nat, failTimeout : Nat, maxConns : Nat,
                          down : BOOLEAN, backup : BOOLEAN])
      /\ \A k \in DOMAIN KeyOrder : KeyOrder[k] \in Seq(Index) /\ KeyOrder[k] # <<>>
  BY PeersAssumption DEF Servers, Method, KeyOrder, Index
<1>2. Index = 1 .. Len(Servers) /\ Len(Servers) \in Nat /\ Len(Servers) # 0
  BY <1>1 DEF Index
<1>3. \A i \in Index :
         Servers[i] \in [weight : Nat \ {0}, maxFails : Nat, failTimeout : Nat, maxConns : Nat,
                         down : BOOLEAN, backup : BOOLEAN]
  <2> DEFINE X == [weight : Nat \ {0}, maxFails : Nat, failTimeout : Nat, maxConns : Nat,
                   down : BOOLEAN, backup : BOOLEAN]
             q == Servers
  <2>1. q \in Seq(X)
    BY <1>1
  <2> HIDE DEF X, q
  <2>2. \A i \in DOMAIN q : q[i] \in X
    BY <2>1
  <2> QED BY <2>2 DEF X, q, Index
<1>4. \A k \in DOMAIN KeyOrder :
       /\ Len(KeyOrder[k]) \in Nat \ {0}
       /\ \A j \in 1 .. Len(KeyOrder[k]) : KeyOrder[k][j] \in Index
  <2> SUFFICES ASSUME NEW k \in DOMAIN KeyOrder
               PROVE  /\ Len(KeyOrder[k]) \in Nat \ {0}
                      /\ \A j \in 1 .. Len(KeyOrder[k]) : KeyOrder[k][j] \in Index
    OBVIOUS
  <2> DEFINE o == KeyOrder[k]
             I == Index
  <2>1. o \in Seq(I) /\ o # <<>>
    BY <1>1
  <2> HIDE DEF o, I
  <2>2. Len(o) \in Nat \ {0} /\ \A j \in 1 .. Len(o) : o[j] \in I
    BY <2>1
  <2> QED BY <2>2 DEF o, I
<1> QED BY <1>1, <1>2, <1>3, <1>4 DEF Configured

\* The counters of the servers hold values of their types.
PeersOf(t) ==
  {p \in [Index -> [conns : Int, fails : Nat, accessed : Nat, checked : 0 .. t, effective : Int, current : Int]] :
     \A i \in Index : p[i].effective \in 0 .. Servers[i].weight}
DataOK(d) == d \in [backup : BOOLEAN, tried : SUBSET Index, key : DOMAIN KeyOrder, hash : Int, tries : Int]

\* Every list has servers of the highest weight, and of the fewest connections.
LEMMA SomeHighest ==
  ASSUME Configured, NEW t \in Nat, NEW p \in PeersOf(t), NEW s \in SUBSET Index, s # {}
  PROVE  Min(Highest(p, s)) \in s
<1> DEFINE R == {w \in Index \X Index : p[w[2]].current <= p[w[1]].current}
<1>1. Index = 1 .. Len(Servers) /\ Len(Servers) \in Nat
  BY DEF Configured
<1>2. \A i \in Index : p[i].current \in Int
  BY DEF PeersOf
<1>3. \A i, j \in Index : <<i, j>> \in R <=> p[j].current <= p[i].current
  OBVIOUS
<1> HIDE DEF R
<1>4. \E i \in s : \A j \in s : <<i, j>> \in R
  <2>1. \A i, j \in Index : <<i, j>> \in R \/ <<j, i>> \in R
    <3> SUFFICES ASSUME NEW i \in Index, NEW j \in Index PROVE <<i, j>> \in R \/ <<j, i>> \in R
      OBVIOUS
    <3>1. p[i].current <= p[j].current \/ p[j].current <= p[i].current
      BY <1>2
    <3> QED BY <1>3, <3>1
  <2>2. \A i, j, k \in Index : <<i, j>> \in R /\ <<j, k>> \in R => <<i, k>> \in R
    BY <1>2, <1>3
  <2>3. TotalOn(R, Len(Servers))
    BY <1>1, <2>1, <2>2 DEF TotalOn
  <2> QED BY <1>1, <2>3, HasFirst
<1>5. Highest(p, s) # {} /\ Highest(p, s) \subseteq s
  BY <1>3, <1>4 DEF Highest
<1>6. Highest(p, s) \in SUBSET Nat
  <2>1. \A i \in Highest(p, s) : i \in 1 .. Len(Servers)
    BY <1>1, <1>5
  <2> QED BY <2>1
<1> QED BY <1>5, <1>6, MinIn

\* Every list has servers of the fewest connections for their weight.
LEMMA SomeLeast ==
  ASSUME Configured, NEW t \in Nat, NEW p \in PeersOf(t), NEW s \in SUBSET Index, s # {}
  PROVE  Least(p, s) # {}
<1> DEFINE R == {w \in Index \X Index : p[w[1]].conns * Servers[w[2]].weight <= p[w[2]].conns * Servers[w[1]].weight}
<1>1. Index = 1 .. Len(Servers) /\ Len(Servers) \in Nat
  BY DEF Configured
<1>2. \A i \in Index : p[i].conns \in Int /\ Servers[i].weight \in Nat \ {0}
  BY DEF PeersOf, Configured
<1>3. \A i, j \in Index : <<i, j>> \in R <=> p[i].conns * Servers[j].weight <= p[j].conns * Servers[i].weight
  OBVIOUS
<1> HIDE DEF R
<1>4. \A a, b, c \in Int, x, y, z \in Nat \ {0} : a * y <= b * x /\ b * z <= c * y => a * z <= c * x
  <2> SUFFICES ASSUME NEW a \in Int, NEW b \in Int, NEW c \in Int,
                      NEW x \in Nat \ {0}, NEW y \in Nat \ {0}, NEW z \in Nat \ {0},
                      a * y <= b * x, b * z <= c * y
               PROVE  a * z <= c * x
    OBVIOUS
  <2>1. \A u, v \in Int, w \in Nat : u <= v => u * w <= v * w
    BY Z3
  <2>2. (a * y) * z <= (b * x) * z
    BY <2>1
  <2>3. (b * z) * x <= (c * y) * x
    BY <2>1
  <2>4. (b * x) * z = (b * z) * x /\ (a * y) * z = (a * z) * y /\ (c * y) * x = (c * x) * y
    BY Z3
  <2>5. (a * z) * y <= (c * x) * y
    BY <2>2, <2>3, <2>4
  <2>6. ASSUME NEW u \in Int, NEW v \in Int, NEW w \in Nat \ {0}, u * w <= v * w PROVE u <= v
    <3>1. u > v => (u - v) * w > 0
      BY Z3
    <3>2. (u - v) * w = u * w - v * w
      BY Z3
    <3> QED BY <2>6, <3>1, <3>2
  <2> QED BY <2>5, <2>6
<1>5. \E i \in s : \A j \in s : <<i, j>> \in R
  <2>1. \A i, j \in Index : <<i, j>> \in R \/ <<j, i>> \in R
    <3> SUFFICES ASSUME NEW i \in Index, NEW j \in Index PROVE <<i, j>> \in R \/ <<j, i>> \in R
      OBVIOUS
    <3>1. p[i].conns * Servers[j].weight <= p[j].conns * Servers[i].weight \/ p[j].conns * Servers[i].weight <= p[i].conns * Servers[j].weight
      BY <1>2
    <3> QED BY <1>3, <3>1
  <2>2. \A i, j, k \in Index : <<i, j>> \in R /\ <<j, k>> \in R => <<i, k>> \in R
    <3> SUFFICES ASSUME NEW i \in Index, NEW j \in Index, NEW k \in Index,
                        <<i, j>> \in R, <<j, k>> \in R
                 PROVE  <<i, k>> \in R
      OBVIOUS
    <3>1. /\ p[i].conns * Servers[j].weight <= p[j].conns * Servers[i].weight
          /\ p[j].conns * Servers[k].weight <= p[k].conns * Servers[j].weight
      BY <1>3
    <3>2. p[i].conns * Servers[k].weight <= p[k].conns * Servers[i].weight
      BY <1>2, <1>4, <3>1
    <3> QED BY <1>3, <3>2
  <2>3. TotalOn(R, Len(Servers))
    BY <1>1, <2>1, <2>2 DEF TotalOn
  <2> QED BY <1>1, <2>3, HasFirst
<1> QED BY <1>3, <1>5 DEF Least

-----------------------------------------------------------------------------
\* The counters but for the weights, of which only the sums matter, are the same.
Alike(p, w) ==
  /\ \A i \in Index : w[i].conns = p[i].conns /\ w[i].fails = p[i].fails /\ w[i].checked = p[i].checked
  /\ \A b \in BOOLEAN : Over(Current(w), Group(b)) = Over(Current(p), Group(b))

\* What raising the weights of the servers of s leaves.
LEMMA RaisedIs ==
  ASSUME Configured, NEW t \in Nat, NEW p \in PeersOf(t), NEW s \in SUBSET Index
  PROVE  /\ Raised(p, s) \in PeersOf(t)
         /\ \A i \in Index :
              /\ Raised(p, s)[i].conns = p[i].conns /\ Raised(p, s)[i].fails = p[i].fails
              /\ Raised(p, s)[i].checked = p[i].checked
              /\ Raised(p, s)[i].current = p[i].current + (IF i \in s THEN p[i].effective ELSE 0)
<1> DEFINE r == Raised(p, s)
           E == [conns : Int, fails : Nat, accessed : Nat, checked : 0 .. t, effective : Int, current : Int]
<1>1. \A i \in Index : p[i] \in E /\ p[i].effective \in 0 .. Servers[i].weight /\ Servers[i].weight \in Nat \ {0}
  BY DEF PeersOf, Configured
<1>2. r = [i \in Index |-> IF i \notin s THEN p[i]
             ELSE [p[i] EXCEPT !.current = @ + p[i].effective,
                               !.effective = IF @ < Servers[i].weight THEN @ + 1 ELSE @]]
  BY Zenon DEF Raised
<1>3. ASSUME NEW i \in Index
      PROVE  /\ r[i] \in E /\ r[i].effective \in 0 .. Servers[i].weight
             /\ r[i].conns = p[i].conns /\ r[i].fails = p[i].fails /\ r[i].checked = p[i].checked
             /\ r[i].current = p[i].current + (IF i \in s THEN p[i].effective ELSE 0)
  <2>1. CASE i \notin s
    <3>1. r[i] = p[i]
      BY <1>2, <2>1
    <3> QED BY <1>1, <2>1, <3>1
  <2>2. CASE i \in s
    <3>1. r[i] = [p[i] EXCEPT !.current = @ + p[i].effective,
                              !.effective = IF @ < Servers[i].weight THEN @ + 1 ELSE @]
      BY <1>2, <2>2
    <3>2. /\ p[i].current + p[i].effective \in Int /\ p[i].effective \in Int
          /\ p[i].effective \in 0 .. Servers[i].weight /\ Servers[i].weight \in Nat
      BY <1>1
    <3> DEFINE y == IF p[i].effective < Servers[i].weight THEN p[i].effective + 1 ELSE p[i].effective
               a == p[i].current + p[i].effective
    <3>4. y \in 0 .. Servers[i].weight
      BY <3>2
    <3>5. r[i] = [p[i] EXCEPT !.current = a, !.effective = y]
      BY <1>1, <3>1
    <3> HIDE DEF r, y
    <3>6. a \in Int
      BY <3>2
    <3>7. a = p[i].current + p[i].effective
      OBVIOUS
    <3> HIDE DEF a
    <3>8. /\ r[i] \in E /\ r[i].effective \in 0 .. Servers[i].weight
          /\ r[i].conns = p[i].conns /\ r[i].fails = p[i].fails /\ r[i].checked = p[i].checked
          /\ r[i].current = a
      <4>1. /\ p[i] \in E /\ p[i].conns \in Int /\ p[i].fails \in Nat /\ p[i].accessed \in Nat /\ p[i].checked \in 0 .. t
        BY <1>1
      <4>2. r[i] = [conns |-> p[i].conns, fails |-> p[i].fails, accessed |-> p[i].accessed,
                    checked |-> p[i].checked, effective |-> y, current |-> a]
        BY <4>1, <3>5
      <4>3. y \in Int
        BY <3>2, <3>4
      <4> QED BY <4>1, <4>2, <4>3, <3>4, <3>6
    <3> QED BY <2>2, <3>7, <3>8
  <2> QED BY <2>1, <2>2
<1>4. r \in [Index -> E]
  BY <1>2, <1>3
<1> QED BY <1>3, <1>4 DEF PeersOf

\* The sum of a field over a set of servers is a whole number.
LEMMA OverTyped ==
  ASSUME Configured, NEW f \in [Index -> Int], NEW s \in SUBSET Index
  PROVE  Over(f, s) \in Int
<1> DEFINE g == [i \in Index |-> IF i \in s THEN f[i] ELSE 0]
           n == Len(Servers)
<1>1. Index = 1 .. n /\ n \in Nat
  BY DEF Configured
<1>2. g \in [1 .. n -> Int]
  BY <1>1
<1>3. n \in 0 .. n
  BY <1>1
<1> HIDE DEF g, n
<1>4. Sum(g, n) \in Int
  BY <1>1, <1>2, <1>3, SumTyped
<1> QED BY <1>4 DEF Over, g, n

\* A round of the weights chooses a server of the set and keeps the sum of each list.
LEMMA WeighIs ==
  ASSUME Configured, NEW t \in Nat, NEW p \in PeersOf(t), NEW c \in BOOLEAN, NEW s \in SUBSET Group(c), s # {}
  PROVE  /\ Weigh(p, s).best \in s /\ Weigh(p, s).p \in PeersOf(t)
         /\ Alike(p, Weigh(p, s).p)
<1> DEFINE r == Raised(p, s)
           best == Min(Highest(r, s))
           x == Over(Effective(p), s)
           w == [r EXCEPT ![best].current = @ - x]
           n == Len(Servers)
           E == [conns : Int, fails : Nat, accessed : Nat, checked : 0 .. t, effective : Int, current : Int]
<1>0. Weigh(p, s).best = best /\ Weigh(p, s).p = w
  BY DEF Weigh
<1>1. s \in SUBSET Index
  BY DEF Group
<1>2. /\ r \in PeersOf(t)
      /\ \A i \in Index :
           /\ r[i].conns = p[i].conns /\ r[i].fails = p[i].fails /\ r[i].checked = p[i].checked
           /\ r[i].current = p[i].current + (IF i \in s THEN p[i].effective ELSE 0)
  BY <1>1, RaisedIs
<1>3. best \in s
  BY <1>1, <1>2, SomeHighest
<1>4. Effective(p) \in [Index -> Int]
  BY DEF Effective, PeersOf
<1>5. x \in Int
  BY <1>1, <1>4, OverTyped
<1> HIDE DEF r, best, x
<1>6. /\ r \in [Index -> E] /\ \A i \in Index : r[i].effective \in 0 .. Servers[i].weight
      /\ p \in [Index -> E]
  BY <1>2 DEF PeersOf
<1>7. /\ w \in [Index -> E]
      /\ \A i \in Index :
           /\ w[i].conns = r[i].conns /\ w[i].fails = r[i].fails /\ w[i].checked = r[i].checked
           /\ w[i].effective = r[i].effective
           /\ w[i].current = r[i].current - (IF i = best THEN x ELSE 0)
  BY <1>1, <1>3, <1>5, <1>6
<1>8. w \in PeersOf(t)
  BY <1>6, <1>7 DEF PeersOf
<1> HIDE DEF w
<1>9. ASSUME NEW b \in BOOLEAN PROVE Over(Current(w), Group(b)) = Over(Current(p), Group(b))
  <2> DEFINE h == [i \in Index |-> IF i \in Group(b) THEN Current(w)[i] ELSE 0]
             f == [i \in Index |-> IF i \in Group(b) THEN Current(p)[i] ELSE 0]
             g == [i \in Index |-> IF i \in s THEN Effective(p)[i] ELSE 0]
  <2>1. CASE b = c
    <3>1. /\ h \in [Index -> Int] /\ f \in [Index -> Int] /\ g \in [Index -> Int]
      BY <1>6, <1>7, <1>4 DEF Current
    <3>2. \A i \in Index : h[i] = f[i] + g[i] + (IF i = best THEN -x ELSE 0)
      <4> SUFFICES ASSUME NEW i \in Index PROVE h[i] = f[i] + g[i] + (IF i = best THEN -x ELSE 0)
        OBVIOUS
      <4>0. /\ w[i].current = r[i].current - (IF i = best THEN x ELSE 0)
            /\ r[i].current = p[i].current + (IF i \in s THEN p[i].effective ELSE 0)
        BY <1>2, <1>7, Zenon
      <4>1. i \in s => i \in Group(b)
        BY <2>1
      <4>2. best \in Group(b)
        BY <2>1, <1>3
      <4>3. w[i].current = p[i].current + (IF i \in s THEN p[i].effective ELSE 0) - (IF i = best THEN x ELSE 0)
        <5>1. w[i].current \in Int /\ r[i].current \in Int /\ p[i].current \in Int /\ p[i].effective \in Int
          BY <1>6, <1>7
        <5> HIDE DEF h, f, g
        <5> QED BY <4>0, <5>1, <1>5
      <4>4. p[i].current \in Int /\ p[i].effective \in Int
        BY <1>6
      <4>5. /\ h[i] = IF i \in Group(b) THEN w[i].current ELSE 0
            /\ f[i] = IF i \in Group(b) THEN p[i].current ELSE 0
            /\ g[i] = IF i \in s THEN p[i].effective ELSE 0
        BY DEF Current, Effective
      <4> HIDE DEF h, f, g
      <4> QED BY <4>1, <4>2, <4>3, <4>4, <4>5, <1>5
    <3>3. x = Sum(g, n)
      BY DEF x, Over
    <3>4. Over(Current(w), Group(b)) = Sum(h, n) /\ Over(Current(p), Group(b)) = Sum(f, n)
      BY DEF Over
    <3>5. Index = 1 .. n /\ n \in Nat /\ best \in 1 .. n
      BY <1>1, <1>3 DEF Configured
    <3> HIDE DEF h, f, g, n
    <3>6. -x \in Int
      BY <1>5
    <3>7. Sum(h, n) = Sum(f, n) + Sum(g, n) + (-x)
      BY <3>1, <3>2, <3>5, <3>6, SumAdds
    <3>8. Sum(f, n) \in Int
      <4>1. n \in 0 .. n
        BY <3>5
      <4> QED BY <4>1, <3>1, <3>5, SumTyped
    <3> QED BY <3>3, <3>4, <3>7, <3>8, <1>5
  <2>2. CASE b # c
    <3>1. \A i \in Group(b) : i \notin s /\ i # best
      BY <2>2, <1>3 DEF Group
    <3>2. \A i \in Index : h[i] = f[i]
      <4> SUFFICES ASSUME NEW i \in Index, i \in Group(b) PROVE Current(w)[i] = Current(p)[i]
        OBVIOUS
      <4> QED BY <3>1, <1>2, <1>6, <1>7 DEF Current
    <3>3. h = f
      BY <3>2
    <3> QED BY <3>3 DEF Over
  <2> QED BY <2>1, <2>2
<1>10. Alike(p, w)
  BY <1>2, <1>7, <1>9 DEF Alike
<1> QED BY <1>0, <1>3, <1>8, <1>10

-----------------------------------------------------------------------------
\* A server that has failed too often.
Failed(p, i) == ~Single /\ Servers[i].maxFails > 0 /\ p[i].fails >= Servers[i].maxFails

\* What a choice at time t promises: of the servers at most the one it names is
\* given a connection, and a failed one is only named, and its probe noted, when
\* fail_timeout has passed.
Gives(p, g, t) ==
  /\ DOMAIN g = {"peer", "p", "d"}
  /\ g.peer \in Index \union {0} /\ g.p \in PeersOf(t) /\ DataOK(g.d)
  /\ \A i \in Index :
       /\ g.p[i].conns = p[i].conns + (IF i = g.peer THEN 1 ELSE 0)
       /\ g.p[i].fails = p[i].fails /\ g.p[i].checked >= p[i].checked
  /\ \A b \in BOOLEAN : Over(Current(g.p), Group(b)) = Over(Current(p), Group(b))
  /\ g.peer # 0 /\ Failed(p, g.peer)
       => t - p[g.peer].checked > Servers[g.peer].failTimeout /\ g.p[g.peer].checked = t
  /\ g.peer = 0 => g.p = p

\* NGX_BUSY, with which peer.get leaves the servers as they are.
LEMMA NoneGives ==
  ASSUME Configured, NEW t \in Nat, NEW p \in PeersOf(t), NEW d, DataOK(d)
  PROVE  Gives(p, None(p, d), t)
<1>1. None(p, d).peer = 0 /\ None(p, d).p = p /\ None(p, d).d = d /\ DOMAIN None(p, d) = {"peer", "p", "d"}
  BY DEF None
<1>2. 0 \notin Index /\ \A i \in Index : p[i].conns \in Int /\ p[i].checked \in Int
  <2>1. 0 \notin Index
    BY DEF Configured
  <2>2. p \in [Index -> [conns : Int, fails : Nat, accessed : Nat, checked : 0 .. t, effective : Int, current : Int]]
    BY DEF PeersOf
  <2> QED BY <2>1, <2>2
<1> QED BY <1>1, <1>2 DEF Gives

\* Taking a server raises its connections by one and nothing else but its time.
LEMMA TakeIs ==
  ASSUME Configured, NEW t \in Nat, NEW p \in PeersOf(t), NEW i \in Index
  PROVE  LET w == Take(p, i, t) IN
         /\ w \in PeersOf(t) /\ Current(w) = Current(p)
         /\ w[i].checked = IF t - p[i].checked > Servers[i].failTimeout THEN t ELSE p[i].checked
         /\ \A j \in Index :
              /\ w[j].conns = p[j].conns + (IF j = i THEN 1 ELSE 0) /\ w[j].fails = p[j].fails
              /\ w[j].checked >= p[j].checked
<1> DEFINE E == [conns : Int, fails : Nat, accessed : Nat, checked : 0 .. t, effective : Int, current : Int]
           y == IF t - p[i].checked > Servers[i].failTimeout THEN t ELSE p[i].checked
           a == p[i].conns + 1
           w == Take(p, i, t)
<1>1. p \in [Index -> E] /\ \A j \in Index : p[j].effective \in 0 .. Servers[j].weight
  BY DEF PeersOf
<1>2. /\ p[i] \in E /\ p[i].conns \in Int /\ p[i].fails \in Nat /\ p[i].accessed \in Nat /\ p[i].checked \in 0 .. t
      /\ p[i].current \in Int /\ p[i].effective \in Int
  BY <1>1
<1>3. a \in Int /\ y \in 0 .. t /\ y >= p[i].checked
  BY <1>2
<1>4. w = [p EXCEPT ![i] = [conns |-> a, fails |-> p[i].fails, accessed |-> p[i].accessed, checked |-> y,
                            effective |-> p[i].effective, current |-> p[i].current]]
  <2> DEFINE u == [p EXCEPT ![i] = [p[i] EXCEPT !.conns = a]]
  <2>1. u \in [Index -> E] /\ u[i] = [p[i] EXCEPT !.conns = a]
    BY <1>1, <1>2, <1>3
  <2>2. w = [u EXCEPT ![i] = [u[i] EXCEPT !.checked = y]]
    BY <1>1 DEF Take
  <2>3. [u[i] EXCEPT !.checked = y]
          = [conns |-> a, fails |-> p[i].fails, accessed |-> p[i].accessed, checked |-> y,
             effective |-> p[i].effective, current |-> p[i].current]
    <3>1. [p[i] EXCEPT !.conns = a]
            = [conns |-> a, fails |-> p[i].fails, accessed |-> p[i].accessed, checked |-> p[i].checked,
               effective |-> p[i].effective, current |-> p[i].current]
      BY <1>2
    <3>2. [[conns |-> a, fails |-> p[i].fails, accessed |-> p[i].accessed, checked |-> p[i].checked,
             effective |-> p[i].effective, current |-> p[i].current] EXCEPT !.checked = y]
            = [conns |-> a, fails |-> p[i].fails, accessed |-> p[i].accessed, checked |-> y,
               effective |-> p[i].effective, current |-> p[i].current]
      OBVIOUS
    <3> HIDE DEF y, a, u
    <3> QED BY <2>1, <3>1, <3>2
  <2> QED BY <1>1, <2>1, <2>2, <2>3
<1>7. a = p[i].conns + 1 /\ y = IF t - p[i].checked > Servers[i].failTimeout THEN t ELSE p[i].checked
  OBVIOUS
<1> HIDE DEF y, a, w
<1>5. /\ w \in [Index -> E]
      /\ \A j \in Index :
           /\ w[j].conns = p[j].conns + (IF j = i THEN 1 ELSE 0) /\ w[j].fails = p[j].fails
           /\ w[j].checked >= p[j].checked /\ w[j].effective = p[j].effective /\ w[j].current = p[j].current
      /\ w[i].checked = y
  <2>1. [conns |-> a, fails |-> p[i].fails, accessed |-> p[i].accessed, checked |-> y,
         effective |-> p[i].effective, current |-> p[i].current] \in E
    BY <1>2, <1>3
  <2>2. w \in [Index -> E] /\ w[i].checked = y
    BY <1>1, <1>4, <2>1
  <2>3. ASSUME NEW j \in Index
        PROVE  /\ w[j].conns = p[j].conns + (IF j = i THEN 1 ELSE 0) /\ w[j].fails = p[j].fails
               /\ w[j].checked >= p[j].checked /\ w[j].effective = p[j].effective /\ w[j].current = p[j].current
    <3>1. CASE j = i
      BY <1>1, <1>2, <1>3, <1>4, <1>7, <3>1
    <3>2. CASE j # i
      <4>1. w[j] = p[j] /\ p[j].conns \in Int /\ p[j].checked \in Int
        BY <1>1, <1>4, <3>2
      <4> QED BY <4>1, <3>2
    <3> QED BY <3>1, <3>2
  <2> QED BY <2>2, <2>3
<1>6. Current(w) = Current(p)
  BY <1>5 DEF Current
<1>8. w \in PeersOf(t)
  BY <1>1, <1>5 DEF PeersOf
<1> QED BY <1>5, <1>6, <1>7, <1>8 DEF w

\* A server that may be chosen is given, whatever the weights have become.
LEMMA GotGives ==
  ASSUME Configured, NEW t \in Nat, NEW p \in PeersOf(t), NEW w \in PeersOf(t), Alike(p, w),
         NEW d, DataOK(d), NEW e, DataOK(e), NEW i \in Index, Eligible(p, d, i, t)
  PROVE  Gives(p, Got(w, e, i, t), t)
<1> DEFINE g == Got(w, e, i, t)
           v == Take(w, i, t)
<1>1. g.peer = i /\ g.p = v /\ g.d = [e EXCEPT !.tried = @ \union {i}] /\ DOMAIN g = {"peer", "p", "d"}
  BY DEF Got
<1>2. DataOK(g.d)
  BY <1>1 DEF DataOK
<1>3. /\ v \in PeersOf(t) /\ Current(v) = Current(w)
      /\ v[i].checked = IF t - w[i].checked > Servers[i].failTimeout THEN t ELSE w[i].checked
      /\ \A j \in Index :
           /\ v[j].conns = w[j].conns + (IF j = i THEN 1 ELSE 0) /\ v[j].fails = w[j].fails
           /\ v[j].checked >= w[j].checked
  BY TakeIs
<1> HIDE DEF v, g
<1>4. \A j \in Index : w[j].conns = p[j].conns /\ w[j].fails = p[j].fails /\ w[j].checked = p[j].checked
  BY DEF Alike
<1>5. \A b \in BOOLEAN : Over(Current(g.p), Group(b)) = Over(Current(p), Group(b))
  BY <1>1, <1>3 DEF Alike
<1>6. Failed(p, i) => t - p[i].checked > Servers[i].failTimeout
  <2>1. p[i].checked \in Int /\ Servers[i].failTimeout \in Int
    BY DEF PeersOf, Configured
  <2> QED BY <2>1 DEF Failed, Eligible, Unavailable
<1>7. 0 \notin Index
  BY DEF Configured
<1>8. \A j \in Index :
         g.p[j].conns = p[j].conns + (IF j = i THEN 1 ELSE 0) /\ g.p[j].fails = p[j].fails /\ g.p[j].checked >= p[j].checked
  BY <1>1, <1>3, <1>4
<1>9. Failed(p, i) => g.p[i].checked = t
  BY <1>1, <1>3, <1>4, <1>6
<1>10. g.peer \in Index \union {0} /\ g.p \in PeersOf(t) /\ g.peer # 0
  BY <1>1, <1>3, <1>7
<1>11. Gives(p, g, t)
  BY <1>1, <1>2, <1>5, <1>6, <1>8, <1>9, <1>10, Zenon DEF Gives
<1> QED BY <1>11 DEF g

\* The weights are alike to themselves.
LEMMA AlikeSelf ==
  ASSUME NEW p
  PROVE  Alike(p, p)
BY DEF Alike

\* ngx_http_upstream_get_round_robin_peer gives a server that may be chosen, or none;
\* a list of one server is given whatever it has done.
LEMMA RoundRobinGives ==
  ASSUME Configured, NEW t \in Nat, NEW p \in PeersOf(t), NEW d, DataOK(d)
  PROVE  Gives(p, RoundRobin(p, d, t), t)
<1> DEFINE s == May(p, d, t)
           b == Weigh(p, s)
<1>1. CASE Single
  <2> DEFINE w == [p EXCEPT ![1].conns = @ + 1]
             g == [peer |-> 1, p |-> w, d |-> d]
             E == [conns : Int, fails : Nat, accessed : Nat, checked : 0 .. t, effective : Int, current : Int]
  <2>1. RoundRobin(p, d, t) = IF Servers[1].down \/ Full(p, 1) THEN None(p, d) ELSE g
    BY <1>1, Zenon DEF RoundRobin
  <2>2. 1 \in Index /\ 0 \notin Index
    BY DEF Configured
  <2>3. p \in [Index -> E] /\ \A i \in Index : p[i].effective \in 0 .. Servers[i].weight
    BY DEF PeersOf
  <2>4. /\ w \in [Index -> E]
        /\ \A i \in Index :
             /\ w[i].conns = p[i].conns + (IF i = 1 THEN 1 ELSE 0) /\ w[i].fails = p[i].fails
             /\ w[i].checked = p[i].checked /\ w[i].effective = p[i].effective /\ w[i].current = p[i].current
    BY <2>2, <2>3
  <2>5. Current(w) = Current(p)
    BY <2>4 DEF Current
  <2>6. w \in PeersOf(t)
    BY <2>3, <2>4 DEF PeersOf
  <2>7. \A i \in Index : p[i].checked \in Int
    BY <2>3
  <2>8. g.peer = 1 /\ g.p = w /\ g.d = d /\ DOMAIN g = {"peer", "p", "d"}
    OBVIOUS
  <2> HIDE DEF w, g
  <2>9. \A i \in Index : g.p[i].conns = p[i].conns + (IF i = g.peer THEN 1 ELSE 0)
                         /\ g.p[i].fails = p[i].fails /\ g.p[i].checked >= p[i].checked
    BY <2>4, <2>7, <2>8
  <2>10. Gives(p, g, t)
    BY <1>1, <2>2, <2>5, <2>6, <2>8, <2>9 DEF Gives, Failed
  <2> QED BY <2>1, <2>10, NoneGives
<1>2. CASE ~Single
  <2>1. RoundRobin(p, d, t) = IF s = {} THEN None(p, d) ELSE Got(b.p, d, b.best, t)
    BY <1>2, Zenon DEF RoundRobin
  <2>2. CASE s # {}
    <3>1. s \in SUBSET Group(d.backup) /\ d.backup \in BOOLEAN
      BY DEF May, DataOK
    <3>2. b.best \in s /\ b.p \in PeersOf(t) /\ Alike(p, b.p)
      BY <2>2, <3>1, WeighIs
    <3>3. b.best \in Index /\ Eligible(p, d, b.best, t)
      BY <3>2 DEF May, Group
    <3> HIDE DEF s, b
    <3> QED BY <2>1, <2>2, <3>2, <3>3, GotGives
  <2> QED BY <2>1, <2>2, NoneGives
<1> QED BY <1>1, <1>2

\* ngx_http_upstream_get_least_conn_peer likewise.
LEMMA LeastConnGives ==
  ASSUME Configured, NEW t \in Nat, NEW p \in PeersOf(t), NEW d, DataOK(d)
  PROVE  Gives(p, LeastConn(p, d, t), t)
<1> DEFINE s == Least(p, May(p, d, t))
           b == Weigh(p, s)
<1>1. LeastConn(p, d, t) = IF s = {} THEN None(p, d)
                           ELSE IF Cardinality(s) = 1 THEN Got(p, d, Min(s), t) ELSE Got(b.p, d, b.best, t)
  BY Zenon DEF LeastConn
<1>2. CASE s # {}
  <2>1. s \in SUBSET Group(d.backup) /\ d.backup \in BOOLEAN
    BY DEF Least, May, DataOK
  <2>2. b.best \in s /\ b.p \in PeersOf(t) /\ Alike(p, b.p)
    BY <1>2, <2>1, WeighIs
  <2>3. \A i \in s : i \in Index /\ Eligible(p, d, i, t)
    BY DEF Least, May, Group
  <2>4. Min(s) \in s
    <3>1. s \in SUBSET Nat
      BY <2>3 DEF Configured
    <3> QED BY <3>1, <1>2, MinIn
  <2> HIDE DEF s, b
  <2>5. Gives(p, Got(p, d, Min(s), t), t)
    BY <2>3, <2>4, GotGives, AlikeSelf
  <2>6. Gives(p, Got(b.p, d, b.best, t), t)
    BY <2>2, <2>3, GotGives
  <2> QED BY <1>1, <1>2, <2>5, <2>6
<1> QED BY <1>1, <1>2, NoneGives

\* Falling back to the servers for backup keeps what was said of each list.
LEMMA OrBackupGives ==
  ASSUME Configured, NEW t \in Nat, NEW p \in PeersOf(t), NEW d, DataOK(d)
  PROVE  Gives(p, OrBackup(p, d, t), t)
<1> DEFINE first == InList(p, d, t)
           e == [d EXCEPT !.backup = TRUE, !.tried = {}]
<1>1. ASSUME NEW x, DataOK(x) PROVE Gives(p, InList(p, x, t), t)
  BY <1>1, RoundRobinGives, LeastConnGives DEF InList
<1>2. OrBackup(p, d, t) = IF first.peer # 0 \/ d.backup \/ ~HasBackup THEN first ELSE InList(first.p, e, t)
  BY DEF OrBackup
<1>3. DataOK(e)
  BY DEF DataOK
<1> HIDE DEF e, first
<1>4. Gives(p, first, t)
  BY <1>1 DEF first
<1>5. first.peer = 0 => first.p = p
  BY <1>4 DEF Gives
<1> QED BY <1>1, <1>2, <1>3, <1>4, <1>5

\* Every server that a hash names is one of the upstream's.
LEMMA NamedIs ==
  ASSUME Configured, NEW d, DataOK(d), NEW k \in Int
  PROVE  NamedBy(d, k) \in Index
<1> DEFINE n == Len(KeyOrder[d.key])
           z == d.hash + k - 2
<1>1. n \in Nat \ {0} /\ \A j \in 1 .. n : KeyOrder[d.key][j] \in Index
  BY DEF Configured, DataOK
<1>2. z \in Int
  BY DEF DataOK
<1> HIDE DEF n, z
<1>3. z % n \in 0 .. n - 1
  BY <1>1, <1>2
<1>4. (z % n) + 1 \in 1 .. n
  BY <1>1, <1>3
<1>5. NamedBy(d, k) = KeyOrder[d.key][(z % n) + 1]
  BY DEF NamedBy, n, z
<1> QED BY <1>1, <1>4, <1>5

\* Trying another hash leaves the rest of the data of a request as it was.
LEMMA HashMoves ==
  ASSUME NEW d, DataOK(d), NEW h \in Int, NEW k \in Int
  PROVE  DataOK([d EXCEPT !.hash = h, !.tries = k])
<1>1. [d EXCEPT !.hash = h, !.tries = k]
        = [backup |-> d.backup, tried |-> d.tried, key |-> d.key, hash |-> h, tries |-> k]
  <2> DEFINE e == [d EXCEPT !.hash = h]
  <2>1. e = [backup |-> d.backup, tried |-> d.tried, key |-> d.key, hash |-> h, tries |-> d.tries]
    BY DEF DataOK
  <2> HIDE DEF e
  <2>2. [e EXCEPT !.tries = k] = [backup |-> d.backup, tried |-> d.tried, key |-> d.key, hash |-> h, tries |-> k]
    BY <2>1
  <2> QED BY <2>2 DEF e
<1> QED BY <1>1 DEF DataOK

\* The two hash balancers give a server that may be chosen, or fall back to round
\* robin.
LEMMA HashGives ==
  ASSUME Configured, NEW t \in Nat, NEW p \in PeersOf(t), NEW d, DataOK(d)
  PROVE  Gives(p, Hash(p, d, t), t) /\ Gives(p, ConsistentHash(p, d, t), t)
<1> DEFINE ks == HashFinds(p, d, t)
           k == Min(ks)
           i == NamedBy(d, k)
           a == Attempts(d)
           w == Weigh(p, {i}).p
           d1 == [d EXCEPT !.hash = @ + a, !.tries = HashTries + 1]
           d2 == [d EXCEPT !.hash = @ + k, !.tries = @ + k - 1]
           d3 == [d EXCEPT !.hash = @ + k - 1, !.tries = @ + k - 1]
<1>1. /\ Hash(p, d, t) = IF Single \/ d.tries > HashTries THEN RoundRobin(p, d, t)
                         ELSE IF ks = {} THEN RoundRobin(p, d1, t) ELSE Got(p, d2, i, t)
      /\ ConsistentHash(p, d, t) = IF Single \/ d.tries > HashTries THEN RoundRobin(p, d, t)
                                   ELSE IF ks = {} THEN RoundRobin(p, d1, t) ELSE Got(w, d3, i, t)
  BY Zenon DEF Hash, ConsistentHash
<1>2. HashTries \in Nat /\ d.hash \in Int /\ d.tries \in Int
  BY PeersAssumption DEF DataOK
<1>3. a \in Int
  BY <1>2 DEF Attempts
<1>4. ks \in SUBSET Nat
  BY <1>3 DEF HashFinds
<1> HIDE DEF a
<1>5. DataOK(d1)
  <2>1. d1 = [d EXCEPT !.hash = d.hash + a, !.tries = HashTries + 1]
    BY DEF DataOK
  <2>2. d.hash + a \in Int /\ HashTries + 1 \in Int
    BY <1>2, <1>3
  <2> HIDE DEF d1
  <2> QED BY <2>1, <2>2, HashMoves
<1>6. CASE ks = {}
  BY <1>1, <1>5, <1>6, RoundRobinGives
<1>7. CASE ks # {}
  <2>1. k \in ks /\ k \in Int
    BY <1>4, <1>7, MinIn
  <2>2. Eligible(p, d, i, t)
    BY <2>1 DEF HashFinds
  <2>3. i \in Index
    BY <2>1, NamedIs
  <2> HIDE DEF k, ks, i
  <2>4. DataOK(d2) /\ DataOK(d3)
    <3>1. /\ d2 = [d EXCEPT !.hash = d.hash + k, !.tries = d.tries + k - 1]
          /\ d3 = [d EXCEPT !.hash = d.hash + k - 1, !.tries = d.tries + k - 1]
      BY DEF DataOK
    <3>2. d.hash + k \in Int /\ d.hash + k - 1 \in Int /\ d.tries + k - 1 \in Int
      BY <1>2, <2>1
    <3> HIDE DEF d2, d3
    <3> QED BY <3>1, <3>2, HashMoves
  <2>5. {i} \in SUBSET Group(Servers[i].backup) /\ Servers[i].backup \in BOOLEAN
    BY <2>3 DEF Group, Configured
  <2>6. w \in PeersOf(t) /\ Alike(p, w)
    BY <2>5, WeighIs
  <2> HIDE DEF w, d2, d3
  <2>7. Gives(p, Got(p, d2, i, t), t)
    BY <2>2, <2>3, <2>4, GotGives, AlikeSelf
  <2>8. Gives(p, Got(w, d3, i, t), t)
    BY <2>2, <2>3, <2>4, <2>6, GotGives
  <2> HIDE DEF d1
  <2> QED BY <1>1, <1>7, <2>7, <2>8, RoundRobinGives
<1> QED BY <1>6, <1>7

\* What u->peer.get comes to, by whatever method.
LEMMA GetPeerGives ==
  ASSUME Configured, NEW t \in Nat, NEW p \in PeersOf(t), NEW d, DataOK(d)
  PROVE  Gives(p, GetPeer(p, d, t), t)
<1>1. Gives(p, IpHash(p, d, t), t)
  <2> DEFINE h == Hash(p, d, t)
             g == [h EXCEPT !.d.hash = d.hash]
  <2>1. Gives(p, h, t) /\ DOMAIN h = {"peer", "p", "d"}
    <3>1. Gives(p, h, t)
      BY HashGives
    <3> HIDE DEF h
    <3> QED BY <3>1 DEF Gives
  <2>2. IpHash(p, d, t) = IF h.d.tries > HashTries THEN g ELSE h
    BY DEF IpHash
  <2> HIDE DEF h
  <2>3. DataOK(h.d) /\ DataOK(d)
    BY <2>1 DEF Gives
  <2>4. g = [h EXCEPT !.d = [h.d EXCEPT !.hash = d.hash]]
    BY <2>1
  <2>5. DataOK([h.d EXCEPT !.hash = d.hash])
    BY <2>3 DEF DataOK
  <2>6. DOMAIN g = {"peer", "p", "d"} /\ g.peer = h.peer /\ g.p = h.p /\ DataOK(g.d)
    BY <2>1, <2>4, <2>5
  <2> HIDE DEF g
  <2>7. Gives(p, g, t)
    BY <2>1, <2>6 DEF Gives
  <2> QED BY <2>1, <2>2, <2>7
<1>2. Method \in Methods
  BY DEF Configured
<1>3. CASE Method \in {"round_robin", "least_conn"}
  BY <1>3, OrBackupGives DEF GetPeer
<1>4. CASE Method \notin {"round_robin", "least_conn"}
  BY <1>1, <1>2, <1>4, HashGives DEF GetPeer, Methods
<1> QED BY <1>3, <1>4

\* A server that is freed has one connection less, and no weight is moved.
LEMMA FreePeerIs ==
  ASSUME Configured, NEW t \in Nat, NEW p \in PeersOf(t), NEW i \in Index, NEW how
  PROVE  LET w == FreePeer(p, i, how, t) IN
         /\ w \in PeersOf(t) /\ Current(w) = Current(p)
         /\ \A j \in Index :
              /\ w[j].conns = p[j].conns - (IF j = i THEN 1 ELSE 0)
              /\ w[j].checked >= p[j].checked
<1> DEFINE E == [conns : Int, fails : Nat, accessed : Nat, checked : 0 .. t, effective : Int, current : Int]
           w == FreePeer(p, i, how, t)
           e == p[i]
           q == Servers[i].weight \div Servers[i].maxFails
           less == e.effective - (IF Servers[i].maxFails > 0 THEN q ELSE 0)
           y == IF less < 0 THEN 0 ELSE less
           freed == [e EXCEPT !.conns = @ - 1]
           z == IF Single THEN freed
                ELSE IF how = "failed" THEN [freed EXCEPT !.fails = @ + 1, !.accessed = t, !.checked = t, !.effective = y]
                ELSE [freed EXCEPT !.fails = IF e.accessed < e.checked THEN 0 ELSE @]
<1>1. p \in [Index -> E] /\ \A j \in Index : p[j].effective \in 0 .. Servers[j].weight
  BY DEF PeersOf
<1>2. /\ e \in E /\ e.conns \in Int /\ e.fails \in Nat /\ e.accessed \in Nat /\ e.checked \in 0 .. t
      /\ e.current \in Int /\ e.effective \in 0 .. Servers[i].weight
      /\ Servers[i].weight \in Nat /\ Servers[i].maxFails \in Nat
  BY <1>1 DEF Configured
<1>3. w = [p EXCEPT ![i] = z]
  BY DEF FreePeer
<1>4. y \in 0 .. Servers[i].weight /\ y \in Int
  <2>1. Servers[i].maxFails > 0 => q \in Int /\ q >= 0
    BY <1>2
  <2> HIDE DEF q, e
  <2> QED BY <1>2, <2>1
<1> HIDE DEF y
<1>5. /\ z \in E /\ z.effective \in 0 .. Servers[i].weight
      /\ z.conns = e.conns - 1 /\ z.current = e.current /\ z.checked \in {e.checked, t}
  <2>1. freed = [conns |-> e.conns - 1, fails |-> e.fails, accessed |-> e.accessed, checked |-> e.checked,
                 effective |-> e.effective, current |-> e.current]
    BY <1>2
  <2>2. e.conns - 1 \in Int /\ e.fails + 1 \in Nat /\ t \in 0 .. t /\ e.effective \in Int
    BY <1>2
  <2> HIDE DEF freed, e
  <2>3. CASE z = freed
    BY <1>2, <2>1, <2>2, <2>3
  <2>4. CASE z = [freed EXCEPT !.fails = @ + 1, !.accessed = t, !.checked = t, !.effective = y]
    <3>1. z = [conns |-> e.conns - 1, fails |-> e.fails + 1, accessed |-> t, checked |-> t,
               effective |-> y, current |-> e.current]
      BY <2>1, <2>4
    <3> HIDE DEF z
    <3> QED BY <1>2, <1>4, <2>2, <3>1
  <2>5. ASSUME NEW x \in Nat, z = [freed EXCEPT !.fails = x]
        PROVE  /\ z \in E /\ z.effective \in 0 .. Servers[i].weight
               /\ z.conns = e.conns - 1 /\ z.current = e.current /\ z.checked \in {e.checked, t}
    <3>1. z = [conns |-> e.conns - 1, fails |-> x, accessed |-> e.accessed, checked |-> e.checked,
               effective |-> e.effective, current |-> e.current]
      BY <2>1, <2>5
    <3> HIDE DEF z
    <3> QED BY <1>2, <2>2, <3>1
  <2>6. freed.fails \in Nat
    BY <1>2, <2>1
  <2>7. \/ z = freed
        \/ z = [freed EXCEPT !.fails = @ + 1, !.accessed = t, !.checked = t, !.effective = y]
        \/ z = [freed EXCEPT !.fails = 0] \/ z = [freed EXCEPT !.fails = freed.fails]
    OBVIOUS
  <2> HIDE DEF z
  <2> QED BY <2>3, <2>4, <2>5, <2>6, <2>7
<1> HIDE DEF z
<1>6. /\ w \in [Index -> E]
      /\ \A j \in Index :
           /\ w[j].conns = p[j].conns - (IF j = i THEN 1 ELSE 0) /\ w[j].checked >= p[j].checked
           /\ w[j].effective \in 0 .. Servers[j].weight /\ w[j].current = p[j].current
  <2>1. w \in [Index -> E] /\ w[i] = z
    BY <1>1, <1>3, <1>5
  <2>2. ASSUME NEW j \in Index
        PROVE  /\ w[j].conns = p[j].conns - (IF j = i THEN 1 ELSE 0) /\ w[j].checked >= p[j].checked
               /\ w[j].effective \in 0 .. Servers[j].weight /\ w[j].current = p[j].current
    <3>1. CASE j = i
      BY <1>2, <1>5, <2>1, <3>1
    <3>2. CASE j # i
      <4>1. w[j] = p[j] /\ p[j].conns \in Int /\ p[j].checked \in Int
        BY <1>1, <1>3, <3>2
      <4> QED BY <1>1, <3>2, <4>1
    <3> QED BY <3>1, <3>2
  <2> QED BY <2>1, <2>2
<1>7. Current(w) = Current(p)
  BY <1>6 DEF Current
<1>8. w \in PeersOf(t)
  BY <1>6 DEF PeersOf
<1> HIDE DEF w
<1> QED BY <1>6, <1>7, <1>8 DEF w

-----------------------------------------------------------------------------
(* The invariant of the requests.                                            *)
ReqFields ==
  {"st", "kind", "d", "peer", "start", "conn", "reading", "requestSent", "bodySent", "headerSent", "whole",
   "keepalive", "timer", "stop", "gone", "asked", "result"}
WorldFields == {"req", "tries", "peers", "pool", "now", "probes", "env"}
Shape(w) ==
  /\ DOMAIN w = WorldFields /\ DOMAIN w.req = Requests /\ DOMAIN w.tries = Requests
  /\ \A q \in Requests : DOMAIN w.req[q] = ReqFields

\* A request that may not be repeated.
NoRepeat(k) == (k.post /\ "non_idempotent" \notin Conf.nextOn) \/ k.unbuffered
Asking == {"connecting", "handshake", "open"}
Basic(e, t) ==
  /\ e.st \in {"new", "resolving", "connect", "done"} \union Asking
  /\ e.peer \in Index \union {0} /\ t \in Counts
  /\ e.st # "done" => DataOK(e.d) /\ e.kind \in setup.kinds
  /\ e.keepalive => e.whole
  /\ NoRepeat(e.kind) => e.asked = {} \/ \E x \in Index : e.asked = {x}
Settled(e, t) ==
  /\ e.peer # 0 <=> e.st \in Asking
  /\ t > 0 <=> e.st \in Asking \union {"connect"}
  /\ e.st \in {"new", "resolving"} => ~e.timer
  /\ NoRepeat(e.kind) /\ e.st # "done" /\ e.asked # {} => e.st = "open" /\ e.requestSent /\ e.asked = {e.peer}
Holders(r, i) == {q \in Requests : r[q].peer = i}
Global(w) ==
  /\ Shape(w)
  /\ w.now \in 0 .. setup.maxNow /\ w.peers \in PeersOf(w.now)
  /\ \A i \in Index : w.peers[i].conns = Cardinality(Holders(w.req, i))
  /\ \A b \in BOOLEAN : Over(Current(w.peers), Group(b)) = 0
  /\ w.pool \in Seq([peer : Index, eof : BOOLEAN, clean : {TRUE}]) /\ Len(w.pool) <= Conf.keep
  /\ \A i \in Index :
       /\ w.probes[i] \in Seq(Int) /\ Len(w.probes[i]) = 2
       /\ w.probes[i][1] >= 0 => w.probes[i][2] - w.probes[i][1] > Servers[i].failTimeout
       /\ w.probes[i][2] <= w.peers[i].checked
Hops ==
  /\ hops \in Nat
  /\ \A p, q \in Requests : req[p].st = "connect" /\ req[q].st = "connect" => p = q
  /\ hops > 0 <=> \E q \in Requests : req[q].st = "connect"
  /\ \A q \in Requests : req[q].st = "connect" => hops + tries[q] + Len(pool) <= HopsMax + 1
IInv ==
  /\ setup \in Setups
  /\ Global(World(Quiet))
  /\ \A q \in Requests : Basic(req[q], tries[q]) /\ Settled(req[q], tries[q])
  /\ Hops

-----------------------------------------------------------------------------
\* What changes at most at request q.
Same(w, v, q) ==
  /\ \A r \in Requests \ {q} : v.req[r] = w.req[r] /\ v.tries[r] = w.tries[r]
  /\ v.now = w.now /\ v.env = w.env
Held(e, i) == IF e.peer = i THEN 1 ELSE 0

\* What the assumptions on the setups say, in the form the proofs cite.
LEMMA SetupIs ==
  ASSUME setup \in Setups
  PROVE  /\ Configured /\ Requests \subseteq Nat \ {0} /\ IsFiniteSet(Requests)
         /\ Conf.nextTries \in Nat /\ Conf.keep \in Nat /\ setup.maxNow \in Nat
         /\ Conf.nextOn \subseteq NextOn
         /\ setup.kinds \subseteq [post : BOOLEAN, unbuffered : BOOLEAN, cacheable : BOOLEAN, key : DOMAIN KeyOrder]
         /\ TriesInit \in Nat \ {0} /\ TriesInit = Len(Servers) /\ Counts = 0 .. TriesInit
<1>1. Configured
  BY ConfiguredIs
<1>2. TriesInit = Len(Servers)
  BY <1>1, FS_Interval DEF Configured, TriesInit
<1>3. 1 <= TriesInit /\ TriesInit \in Nat
  BY <1>1, <1>2 DEF Configured
<1>4. /\ Requests \subseteq Nat \ {0} /\ IsFiniteSet(Requests)
      /\ Conf.nextTries \in Nat /\ Conf.keep \in Nat /\ setup.maxNow \in Nat /\ Conf.nextOn \subseteq NextOn
      /\ setup.kinds \subseteq [post : BOOLEAN, unbuffered : BOOLEAN, cacheable : BOOLEAN, key : DOMAIN KeyOrder]
  BY UpstreamAssumption DEF Conf, KeyOrder
<1> QED BY <1>1, <1>2, <1>3, <1>4 DEF Counts

\* A handler that serves q moves a server's holders only by what q held and holds.
LEMMA HoldersMove ==
  ASSUME setup \in Setups, NEW w, NEW v, Shape(w), Shape(v), NEW q \in Requests, Same(w, v, q), NEW i
  PROVE  /\ Cardinality(Holders(w.req, i)) \in Nat /\ Cardinality(Holders(v.req, i)) \in Nat
         /\ Cardinality(Holders(v.req, i))
              = Cardinality(Holders(w.req, i)) - Held(w.req[q], i) + Held(v.req[q], i)
<1> DEFINE a == [r \in Requests |-> [node |-> w.req[r].peer]]
           b == [r \in Requests |-> [node |-> v.req[r].peer]]
<1>1. Holders(w.req, i) = At(a, i) /\ Holders(v.req, i) = At(b, i)
  BY DEF Holders, At
<1>2. Held(w.req[q], i) = Pointed(a, i, q) /\ Held(v.req[q], i) = Pointed(b, i, q)
  BY DEF Held, Pointed
<1>3. DOMAIN a = Requests /\ DOMAIN b = Requests /\ \A r \in Requests \ {q} : b[r].node = a[r].node
  BY DEF Same
<1>4. IsFiniteSet(Requests)
  BY SetupIs
<1> HIDE DEF a, b
<1> QED BY <1>1, <1>2, <1>3, <1>4, PointsElsewhere

\* A request of which other fields change than its server.
LEMMA PutKeeps ==
  ASSUME setup \in Setups, NEW w, Global(w), NEW q \in Requests, NEW e, DOMAIN e = ReqFields, e.peer = w.req[q].peer
  PROVE  LET v == [w EXCEPT !.req = [w.req EXCEPT ![q] = e]] IN
         /\ Global(v) /\ Same(w, v, q) /\ v.req[q] = e /\ v.tries = w.tries
         /\ v.pool = w.pool /\ v.peers = w.peers /\ v.probes = w.probes
<1> DEFINE v == [w EXCEPT !.req = [w.req EXCEPT ![q] = e]]
<1>1. /\ DOMAIN v = WorldFields /\ v.req = [w.req EXCEPT ![q] = e] /\ v.tries = w.tries /\ v.peers = w.peers
      /\ v.pool = w.pool /\ v.now = w.now /\ v.probes = w.probes /\ v.env = w.env
  BY DEF Global, Shape, WorldFields
<1> HIDE DEF v
<1>2. DOMAIN v.req = Requests /\ v.req[q] = e /\ \A r \in Requests \ {q} : v.req[r] = w.req[r]
  BY <1>1 DEF Global, Shape
<1>3. Shape(w) /\ Shape(v) /\ Same(w, v, q)
  BY <1>1, <1>2 DEF Global, Shape, Same
<1>4. \A i \in Index : Cardinality(Holders(v.req, i)) = Cardinality(Holders(w.req, i))
  <2> SUFFICES ASSUME NEW i \in Index PROVE Cardinality(Holders(v.req, i)) = Cardinality(Holders(w.req, i))
    OBVIOUS
  <2>1. Held(v.req[q], i) = Held(w.req[q], i) /\ Held(w.req[q], i) \in Int
    BY <1>2 DEF Held
  <2>2. /\ Cardinality(Holders(w.req, i)) \in Nat /\ Cardinality(Holders(v.req, i)) \in Nat
        /\ Cardinality(Holders(v.req, i))
             = Cardinality(Holders(w.req, i)) - Held(w.req[q], i) + Held(v.req[q], i)
    BY <1>3, HoldersMove
  <2> QED BY <2>1, <2>2
<1>5. Global(v)
  BY <1>1, <1>3, <1>4 DEF Global
<1> QED BY <1>1, <1>2, <1>3, <1>5 DEF v

\* A connection that may be kept is clean, and the pool does not outgrow its size.
LEMMA PooledIs ==
  ASSUME setup \in Setups, NEW w, Global(w), NEW e, e.peer \in Index, e.keepalive => e.whole,
         NEW how, MayPool(e, how)
  PROVE  Pooled(w, e) \in Seq([peer : Index, eof : BOOLEAN, clean : {TRUE}]) /\ Len(Pooled(w, e)) <= Conf.keep
<1> DEFINE S == [peer : Index, eof : BOOLEAN, clean : {TRUE}]
           item == [peer |-> e.peer, eof |-> FALSE, clean |-> e.bodySent /\ e.whole]
           n == IF Len(w.pool) < Conf.keep THEN Len(w.pool) + 1 ELSE Conf.keep
           idle == w.pool
           z == <<item>> \o idle
<1>1. item \in S
  <2>1. (e.bodySent /\ e.whole) = TRUE
    BY DEF MayPool
  <2> QED BY <2>1
<1>2. idle \in Seq(S) /\ Len(idle) <= Conf.keep /\ Conf.keep \in Nat /\ Conf.keep > 0
  BY SetupIs DEF Global, MayPool
<1>3. n \in 1 .. Len(idle) + 1 /\ n <= Conf.keep
  BY <1>2
<1>4. Pooled(w, e) = SubSeq(z, 1, n)
  BY DEF Pooled
<1> HIDE DEF S, item, idle, n
<1>5. z \in Seq(S) /\ Len(z) = Len(idle) + 1
  BY <1>1, <1>2
<1> HIDE DEF z
<1>6. SubSeq(z, 1, n) \in Seq(S) /\ Len(SubSeq(z, 1, n)) = n
  BY <1>2, <1>3, <1>5
<1> QED BY <1>3, <1>4, <1>6 DEF S

\* Freeing a request's server, if it holds one, keeps the account.
LEMMA ReleaseKeeps ==
  ASSUME setup \in Setups, NEW w, Global(w), NEW q \in Requests, Basic(w.req[q], w.tries[q]), NEW how
  PROVE  LET v == Release(w, q, how) IN
         /\ Global(v) /\ Same(w, v, q)
         /\ v.req[q].peer = 0 /\ \A x \in ReqFields \ {"peer", "conn"} : v.req[q][x] = w.req[q][x]
         /\ v.tries[q] = IF w.req[q].peer = 0 THEN w.tries[q] ELSE TriesAfter(w.tries[q])
         /\ how = "failed" => v.pool = w.pool
<1> DEFINE v == Release(w, q, how)
           e == w.req[q]
           c == IF MayPool(e, how) THEN "none" ELSE e.conn
           f == [e EXCEPT !.peer = 0, !.conn = c]
           idle == IF MayPool(e, how) THEN Pooled(w, e) ELSE w.pool
           peers1 == FreePeer(w.peers, e.peer, how, w.now)
<1>0. Shape(w)
  BY DEF Global
<1>1. CASE e.peer = 0
  <2>1. v = w
    BY <1>1 DEF Release
  <2> HIDE DEF v
  <2> QED BY <1>1, <2>1 DEF Same, v
<1>2. CASE e.peer # 0
  <2>1. v = [w EXCEPT !.pool = idle, !.peers = peers1, !.tries = [w.tries EXCEPT ![q] = TriesAfter(w.tries[q])],
                      !.req = [w.req EXCEPT ![q] = f]]
    BY <1>0, <1>2 DEF Release, Shape, WorldFields
  <2> HIDE DEF idle, peers1, f
  <2>2. /\ DOMAIN v = WorldFields /\ v.req = [w.req EXCEPT ![q] = f] /\ v.peers = peers1 /\ v.pool = idle
        /\ v.tries = [w.tries EXCEPT ![q] = TriesAfter(w.tries[q])] /\ v.now = w.now /\ v.probes = w.probes
        /\ v.env = w.env
    BY <1>0, <2>1 DEF Shape, WorldFields
  <2> HIDE DEF v
  <2>3. DOMAIN f = ReqFields /\ f.peer = 0 /\ \A x \in ReqFields \ {"peer", "conn"} : f[x] = e[x]
    BY <1>0 DEF f, Shape, ReqFields
  <2>4. /\ Shape(v) /\ Same(w, v, q) /\ v.req[q] = f /\ v.tries[q] = TriesAfter(w.tries[q])
    BY <1>0, <2>2, <2>3 DEF Shape, Same
  <2>5. e.peer \in Index /\ (e.keepalive => e.whole)
    BY <1>2 DEF Basic
  <2>6. idle \in Seq([peer : Index, eof : BOOLEAN, clean : {TRUE}]) /\ Len(idle) <= Conf.keep
    BY <2>5, PooledIs DEF idle, Global
  <2>7. w.now \in Nat /\ w.peers \in PeersOf(w.now)
    BY SetupIs DEF Global
  <2>8. /\ peers1 \in PeersOf(w.now) /\ Current(peers1) = Current(w.peers)
        /\ \A j \in Index : /\ peers1[j].conns = w.peers[j].conns - (IF j = e.peer THEN 1 ELSE 0)
                            /\ peers1[j].checked >= w.peers[j].checked
    BY <2>5, <2>7, SetupIs, FreePeerIs DEF peers1
  <2>9. \A i \in Index : v.peers[i].conns = Cardinality(Holders(v.req, i))
    <3> SUFFICES ASSUME NEW i \in Index PROVE v.peers[i].conns = Cardinality(Holders(v.req, i))
      OBVIOUS
    <3>1. /\ Cardinality(Holders(w.req, i)) \in Nat
          /\ Cardinality(Holders(v.req, i)) = Cardinality(Holders(w.req, i)) - Held(w.req[q], i) + Held(v.req[q], i)
      BY <1>0, <2>4, HoldersMove
    <3>2. i # 0
      BY SetupIs DEF Configured
    <3>3. Held(v.req[q], i) = 0 /\ Held(w.req[q], i) = IF i = e.peer THEN 1 ELSE 0
      BY <2>3, <2>4, <3>2 DEF Held
    <3>4. w.peers[i].conns = Cardinality(Holders(w.req, i))
      BY DEF Global
    <3> QED BY <2>2, <2>8, <3>1, <3>3, <3>4
  <2>10. \A i \in Index : v.probes[i][2] <= v.peers[i].checked
    <3> SUFFICES ASSUME NEW i \in Index PROVE v.probes[i][2] <= v.peers[i].checked
      OBVIOUS
    <3>1. w.probes[i][2] \in Int /\ w.probes[i][2] <= w.peers[i].checked
      BY DEF Global
    <3>2. w.peers[i].checked \in Int /\ peers1[i].checked \in Int
      BY <2>7, <2>8 DEF PeersOf
    <3> QED BY <2>2, <2>8, <3>1, <3>2
  <2>11. Global(v)
    <3>1. \A b \in BOOLEAN : Over(Current(v.peers), Group(b)) = 0
      BY <2>2, <2>8 DEF Global
    <3> QED BY <2>2, <2>4, <2>6, <2>8, <2>9, <2>10, <3>1 DEF Global
  <2>12. how = "failed" => v.pool = w.pool
    BY <2>2 DEF idle, MayPool
  <2> QED BY <1>2, <2>3, <2>4, <2>11, <2>12 DEF v
<1> QED BY <1>1, <1>2

\* A handler's step that leaves all well.
Good(w, v, q) ==
  /\ Global(v) /\ Same(w, v, q)
  /\ Basic(v.req[q], v.tries[q]) /\ Settled(v.req[q], v.tries[q])

\* pc->tries never falls below zero, and giving one back stays within the configured
\* number.
LEMMA TriesAfterIs ==
  ASSUME setup \in Setups, NEW t \in Counts
  PROVE  /\ TriesAfter(t) \in Counts /\ TriesAfter(t) <= t
         /\ t > 0 => TriesAfter(t) + 1 \in Counts /\ TriesAfter(t) + 1 <= t
<1>1. TriesInit \in Nat \ {0} /\ Counts = 0 .. TriesInit
  BY SetupIs
<1> QED BY <1>1 DEF TriesAfter

\* The other count of tries changes nothing else.
LEMMA TriesKeep ==
  ASSUME NEW w, Global(w), NEW q \in Requests, NEW t
  PROVE  LET v == [w EXCEPT !.tries = [w.tries EXCEPT ![q] = t]] IN
         /\ Global(v) /\ Same(w, v, q) /\ v.req = w.req /\ v.tries[q] = t
         /\ v.pool = w.pool /\ v.peers = w.peers /\ v.probes = w.probes
<1> DEFINE v == [w EXCEPT !.tries = [w.tries EXCEPT ![q] = t]]
<1>1. /\ DOMAIN v = WorldFields /\ v.req = w.req /\ v.tries = [w.tries EXCEPT ![q] = t] /\ v.peers = w.peers
      /\ v.pool = w.pool /\ v.now = w.now /\ v.probes = w.probes /\ v.env = w.env
  BY DEF Global, Shape, WorldFields
<1> HIDE DEF v
<1>2. Shape(v) /\ Same(w, v, q) /\ v.tries[q] = t
  BY <1>1 DEF Global, Shape, Same
<1>3. Global(v)
  BY <1>1, <1>2 DEF Global
<1> QED BY <1>1, <1>2, <1>3 DEF v

\* ngx_http_upstream_finalize_request frees the server and leaves the request done.
LEMMA FinalizeKeeps ==
  ASSUME setup \in Setups, NEW w, Global(w), NEW q \in Requests, Basic(w.req[q], w.tries[q]),
         w.req[q].st # "done", NEW rc
  PROVE  LET v == Finalize(w, q, rc) IN Good(w, v, q) /\ v.req[q].st = "done"
<1> DEFINE v == Finalize(w, q, rc)
           e == w.req[q]
           a == Release(w, q, "ok")
           res == CASE rc = "ok" /\ e.headerSent -> "full" [] ~e.headerSent -> "error" [] OTHER -> "broken"
           f == [Fresh(e.kind) EXCEPT !.st = "done", !.asked = e.asked, !.result = res]
           b == [a EXCEPT !.tries = [a.tries EXCEPT ![q] = 0]]
<1>1. Global(a) /\ Same(w, a, q) /\ a.req[q].peer = 0
  BY ReleaseKeeps
<1> HIDE DEF a
<1>2. v = [b EXCEPT !.req = [b.req EXCEPT ![q] = f]]
  BY DEF Finalize, a
<1>3. Global(b) /\ Same(a, b, q) /\ b.req = a.req /\ b.tries[q] = 0
  BY <1>1, TriesKeep
<1> HIDE DEF b, res
<1>4. /\ DOMAIN f = ReqFields /\ f.peer = 0 /\ f.st = "done" /\ f.asked = e.asked /\ f.kind = e.kind
      /\ f.keepalive = FALSE
  BY DEF Fresh, ReqFields
<1> HIDE DEF f
<1>5. Global(v) /\ Same(b, v, q) /\ v.req[q] = f /\ v.tries = b.tries
  BY <1>1, <1>2, <1>3, <1>4, PutKeeps
<1> HIDE DEF v
<1>6. Same(w, v, q)
  BY <1>1, <1>3, <1>5 DEF Same
<1>7. 0 \in Counts
  BY SetupIs
<1>8. Basic(f, 0) /\ Settled(f, 0)
  BY <1>4, <1>7 DEF Basic, Settled, Asking
<1> QED BY <1>3, <1>4, <1>5, <1>6, <1>8 DEF Good, v

\* ngx_http_upstream_next frees the server and ends the request or goes to
\* ngx_http_upstream_connect with a try less, which only a broken idle connection
\* gives back; a request that may not be repeated goes on only when nobody was asked.
LEMMA NextServerKeeps ==
  ASSUME setup \in Setups, NEW w, Global(w), NEW q \in Requests, Basic(w.req[q], w.tries[q]),
         w.req[q].st # "done", w.tries[q] > 0,
         NoRepeat(w.req[q].kind) /\ w.req[q].asked # {} => w.req[q].requestSent,
         NEW ft, w.req[q].peer = 0 => ft = "nolive"
  PROVE  LET v == NextServer(w, q, ft)
             refund == w.req[q].conn \in {"cached", "stale"} /\ ft = "error" IN
         /\ Good(w, v, q) /\ v.req[q].st \in {"done", "connect"}
         /\ v.req[q].st = "connect" =>
              /\ v.tries[q] = TriesAfter(w.tries[q]) + (IF refund THEN 1 ELSE 0)
              /\ ft # "404" => v.pool = w.pool
<1> DEFINE v == NextServer(w, q, ft)
           e == w.req[q]
           refund == e.conn \in {"cached", "stale"} /\ ft = "error"
           r == Release(w, q, IF ft = "404" THEN "next" ELSE "failed")
           t == IF refund THEN r.tries[q] + 1 ELSE r.tries[q]
           a == [r EXCEPT !.tries = [r.tries EXCEPT ![q] = t]]
           f == [a.req[q] EXCEPT !.st = "connect", !.conn = "none"]
           c == [a EXCEPT !.req = [a.req EXCEPT ![q] = f]]
<1>1. /\ Global(r) /\ Same(w, r, q) /\ r.req[q].peer = 0
      /\ \A x \in ReqFields \ {"peer", "conn"} : r.req[q][x] = e[x]
      /\ r.tries[q] = IF e.peer = 0 THEN w.tries[q] ELSE TriesAfter(w.tries[q])
      /\ ft # "404" => r.pool = w.pool
  BY ReleaseKeeps
<1>2. v = IF e.gone THEN Finalize(a, q, "499")
          ELSE IF a.tries[q] = 0 \/ ~MayRepeat(e, ft, w.now) THEN Finalize(a, q, ft) ELSE c
  BY DEF NextServer
<1> HIDE DEF r
<1>3. /\ Global(a) /\ Same(r, a, q) /\ a.req = r.req /\ a.tries[q] = t
      /\ a.pool = r.pool
  BY <1>1, TriesKeep
<1> HIDE DEF a
<1>4. t \in Counts
  <2>1. w.tries[q] \in Counts
    BY DEF Basic
  <2>2. CASE e.peer = 0
    BY <1>1, <2>1, <2>2
  <2>3. CASE e.peer # 0
    BY <1>1, <2>1, <2>3, TriesAfterIs
  <2> QED BY <2>2, <2>3
<1>5. /\ a.req[q].peer = 0 /\ DOMAIN a.req[q] = ReqFields
      /\ a.req[q].st = e.st /\ a.req[q].kind = e.kind /\ a.req[q].d = e.d /\ a.req[q].asked = e.asked
      /\ a.req[q].keepalive = e.keepalive /\ a.req[q].whole = e.whole
  BY <1>1, <1>3 DEF ReqFields, Global, Shape
<1>6. Basic(a.req[q], a.tries[q])
  BY <1>3, <1>4, <1>5 DEF Basic
<1>7. Same(w, a, q)
  BY <1>1, <1>3 DEF Same
<1>8. ASSUME NEW rc PROVE Good(w, Finalize(a, q, rc), q) /\ Finalize(a, q, rc).req[q].st = "done"
  <2>1. Good(a, Finalize(a, q, rc), q) /\ Finalize(a, q, rc).req[q].st = "done"
    BY <1>3, <1>5, <1>6, FinalizeKeeps
  <2> QED BY <2>1, <1>7 DEF Good, Same
<1>9. CASE a.tries[q] # 0 /\ MayRepeat(e, ft, w.now)
  <2>1. /\ DOMAIN f = ReqFields /\ f.peer = 0 /\ f.st = "connect" /\ f.kind = e.kind /\ f.d = e.d
        /\ f.asked = e.asked /\ f.keepalive = e.keepalive /\ f.whole = e.whole
    BY <1>5 DEF ReqFields
  <2> HIDE DEF f
  <2>2. Global(c) /\ Same(a, c, q) /\ c.req[q] = f /\ c.tries = a.tries /\ c.pool = a.pool
    BY <1>3, <1>5, <2>1, PutKeeps
  <2> HIDE DEF c
  <2>3. ft \in Conf.nextOn /\ (e.requestSent => ~NoRepeat(e.kind))
    BY <1>9 DEF MayRepeat, NoRepeat
  <2>4. e.peer # 0
    BY <2>3, SetupIs DEF NextOn
  <2>5. NoRepeat(e.kind) => e.asked = {}
    BY <2>3
  <2>6. Basic(f, t)
    BY <1>4, <2>1 DEF Basic
  <2>7. t > 0
    BY <1>3, <1>4, <1>9, SetupIs
  <2>8. Settled(f, t)
    BY <2>1, <2>5, <2>7 DEF Settled, Asking
  <2>9. Good(w, c, q)
    BY <1>3, <1>7, <2>2, <2>6, <2>8 DEF Good, Same
  <2>10. t = TriesAfter(w.tries[q]) + (IF refund THEN 1 ELSE 0)
    <3>1. TriesAfter(w.tries[q]) \in Int
      BY TriesAfterIs, SetupIs DEF Basic
    <3> QED BY <1>1, <2>4, <3>1
  <2>11. ft # "404" => c.pool = w.pool
    BY <1>1, <1>3, <2>2
  <2>12. c.tries[q] = t /\ c.req[q].st = "connect"
    BY <1>3, <2>1, <2>2
  <2> HIDE DEF v, t, refund
  <2>13. CASE e.gone
    <3>1. v = Finalize(a, q, "499")
      BY <1>2, <2>13
    <3>2. v.req[q].st = "done" /\ Good(w, v, q)
      BY <1>8, <3>1
    <3> QED BY <3>2 DEF v, refund
  <2>14. CASE ~e.gone
    <3>1. v = c
      BY <1>2, <1>9, <2>14
    <3> QED BY <2>9, <2>10, <2>11, <2>12, <3>1 DEF v, refund
  <2> QED BY <2>13, <2>14
<1>10. CASE ~(a.tries[q] # 0 /\ MayRepeat(e, ft, w.now))
  BY <1>2, <1>8, <1>10
<1> QED BY <1>9, <1>10

\* The request is written, as far as it goes, or the connection turns out to be
\* broken and the next server is asked for.
LEMMA SendRequestKeeps ==
  ASSUME setup \in Setups, NEW w, Global(w), NEW q \in Requests, Basic(w.req[q], w.tries[q]),
         w.req[q].st # "done", w.tries[q] > 0, w.req[q].peer # 0,
         NoRepeat(w.req[q].kind) /\ w.req[q].asked # {} => w.req[q].asked = {w.req[q].peer}
  PROVE  LET v == SendRequest(w, q) IN
         /\ Good(w, v, q) /\ v.req[q].st \in {"open", "done", "connect"}
         /\ v.req[q].st = "connect" =>
              /\ v.tries[q] = TriesAfter(w.tries[q]) + (IF w.req[q].conn \in {"cached", "stale"} THEN 1 ELSE 0)
              /\ v.pool = w.pool
<1> DEFINE v == SendRequest(w, q)
           e == w.req[q]
           b == w.env.send = "all"
           f == [e EXCEPT !.st = "open", !.requestSent = TRUE, !.asked = e.asked \union {e.peer}, !.bodySent = b]
           a == [w EXCEPT !.req = [w.req EXCEPT ![q] = f]]
           g == [a.req[q] EXCEPT !.timer = ~a.req[q].bodySent]
           s == [a EXCEPT !.req = [a.req EXCEPT ![q] = g]]
<1>0. DOMAIN e = ReqFields
  BY DEF Global, Shape
<1>1. a = SendBody(w, q)
  BY <1>0 DEF SendBody, ReqFields, Global, Shape, WorldFields
<1>2. /\ DOMAIN f = ReqFields /\ f.st = "open" /\ f.requestSent = TRUE /\ f.asked = e.asked \union {e.peer}
      /\ f.peer = e.peer /\ f.kind = e.kind /\ f.d = e.d /\ f.keepalive = e.keepalive /\ f.whole = e.whole
      /\ f.conn = e.conn
  BY <1>0 DEF ReqFields
<1> HIDE DEF f
<1>3. Global(a) /\ Same(w, a, q) /\ a.req[q] = f /\ a.tries = w.tries /\ a.pool = w.pool
  BY <1>2, PutKeeps
<1>4. v = IF w.env.send = "error" \/ (a.req[q].bodySent /\ a.req[q].conn = "stale" /\ ~a.req[q].headerSent)
          THEN NextServer(s, q, "error") ELSE s
  BY <1>1, Zenon DEF SendRequest
<1> HIDE DEF a
<1>5. /\ DOMAIN g = ReqFields /\ g.st = "open" /\ g.requestSent = TRUE /\ g.asked = e.asked \union {e.peer}
      /\ g.peer = e.peer /\ g.kind = e.kind /\ g.d = e.d /\ g.keepalive = e.keepalive /\ g.whole = e.whole
      /\ g.conn = e.conn
  BY <1>2, <1>3 DEF ReqFields
<1> HIDE DEF g
<1>6. Global(s) /\ Same(a, s, q) /\ s.req[q] = g /\ s.tries = a.tries /\ s.pool = a.pool
  BY <1>2, <1>3, <1>5, PutKeeps
<1> HIDE DEF s
<1>7. Same(w, s, q)
  BY <1>3, <1>6 DEF Same
<1>8. e.peer \in Index
  BY DEF Basic
<1>9. NoRepeat(e.kind) => g.asked = {e.peer}
  <2>1. NoRepeat(e.kind) => e.asked = {} \/ e.asked = {e.peer}
    OBVIOUS
  <2> QED BY <2>1, <1>5
<1>10. Basic(g, w.tries[q])
  BY <1>5, <1>8, <1>9 DEF Basic, Asking
<1>11. Settled(g, w.tries[q])
  BY <1>5, <1>8, <1>9 DEF Settled, Asking
<1>12. Good(w, s, q)
  BY <1>3, <1>6, <1>7, <1>10, <1>11 DEF Good
<1>13. LET n == NextServer(s, q, "error") IN
       /\ Good(s, n, q) /\ n.req[q].st \in {"done", "connect"}
       /\ n.req[q].st = "connect" =>
            /\ n.tries[q] = TriesAfter(s.tries[q]) + (IF s.req[q].conn \in {"cached", "stale"} THEN 1 ELSE 0)
            /\ n.pool = s.pool
  <2>1. /\ Basic(s.req[q], s.tries[q]) /\ s.req[q].st # "done" /\ s.tries[q] > 0 /\ s.req[q].peer # 0
        /\ (NoRepeat(s.req[q].kind) /\ s.req[q].asked # {} => s.req[q].requestSent)
    BY <1>3, <1>5, <1>6, <1>10
  <2> QED BY <1>6, <2>1, NextServerKeeps
<1> DEFINE n == NextServer(s, q, "error")
<1>14. Good(w, n, q)
  BY <1>7, <1>13 DEF Good, Same
<1> HIDE DEF n
<1>15. CASE v = s
  BY <1>5, <1>6, <1>12, <1>15
<1>16. CASE v = n
  <2>1. n.req[q].st = "connect" =>
            /\ n.tries[q] = TriesAfter(w.tries[q]) + (IF e.conn \in {"cached", "stale"} THEN 1 ELSE 0)
            /\ n.pool = w.pool
    BY <1>3, <1>5, <1>6, <1>13 DEF n
  <2>2. n.req[q].st \in {"done", "connect"}
    BY <1>13 DEF n
  <2> QED BY <1>14, <1>16, <2>1, <2>2
<1> QED BY <1>4, <1>15, <1>16 DEF n

\* A connection that is opened has yet to carry the request.
LEMMA OpenedKeeps ==
  ASSUME setup \in Setups, NEW w, Global(w), NEW q \in Requests, Basic(w.req[q], w.tries[q]),
         w.req[q].st # "done", w.tries[q] > 0, w.req[q].peer # 0, NoRepeat(w.req[q].kind) => w.req[q].asked = {},
         NEW conn, NEW st \in {"connecting", "open"}
  PROVE  LET v == Opened(w, q, conn, st) IN
         /\ Good(w, v, q) /\ v.req[q].st = st /\ v.req[q].conn = conn
         /\ v.req[q].asked = w.req[q].asked /\ v.req[q].peer = w.req[q].peer /\ v.req[q].kind = w.req[q].kind
         /\ v.tries = w.tries /\ v.pool = w.pool
<1> DEFINE v == Opened(w, q, conn, st)
           e == w.req[q]
           a == Reinit(e)
           f == [a EXCEPT !.conn = conn, !.st = st, !.reading = "header", !.requestSent = FALSE,
                          !.bodySent = FALSE, !.timer = TRUE, !.stop = FALSE]
<1>0. DOMAIN e = ReqFields
  BY DEF Global, Shape
<1>1. v = [w EXCEPT !.req = [w.req EXCEPT ![q] = f]]
  BY DEF Opened
<1>2. /\ DOMAIN a = ReqFields /\ a.peer = e.peer /\ a.kind = e.kind /\ a.d = e.d /\ a.asked = e.asked
      /\ (e.keepalive => e.whole) => (a.keepalive => a.whole)
  <2>1. CASE e.requestSent
    BY <1>0, <2>1 DEF Reinit, ReqFields
  <2>2. CASE ~e.requestSent
    BY <1>0, <2>2 DEF Reinit
  <2> QED BY <2>1, <2>2
<1> HIDE DEF a
<1>3. /\ DOMAIN f = ReqFields /\ f.peer = e.peer /\ f.kind = e.kind /\ f.d = e.d /\ f.asked = e.asked
      /\ f.st = st /\ f.conn = conn /\ f.keepalive = a.keepalive /\ f.whole = a.whole
  BY <1>2 DEF ReqFields
<1> HIDE DEF f
<1>4. Global(v) /\ Same(w, v, q) /\ v.req[q] = f /\ v.tries = w.tries /\ v.pool = w.pool
  BY <1>1, <1>3, PutKeeps
<1> HIDE DEF v
<1>5. Basic(f, w.tries[q])
  BY <1>2, <1>3 DEF Basic, Asking
<1>6. Settled(f, w.tries[q])
  BY <1>3 DEF Settled, Asking
<1>7. Good(w, v, q)
  BY <1>4, <1>5, <1>6 DEF Good
<1> QED BY <1>3, <1>4, <1>7 DEF v

\* A connection taken out of the pool.
LEMMA RemovedIs ==
  ASSUME NEW S, NEW z \in Seq(S), NEW k \in DOMAIN z
  PROVE  RemoveAt(z, k) \in Seq(S) /\ Len(RemoveAt(z, k)) = Len(z) - 1
<1> DEFINE a == SubSeq(z, 1, k - 1)
           b == SubSeq(z, k + 1, Len(z))
<1>0. k \in 1 .. Len(z) /\ Len(z) \in Nat
  OBVIOUS
<1>1. a \in Seq(S) /\ Len(a) = k - 1
  BY <1>0, SubSeqProperties
<1>2. b \in Seq(S) /\ Len(b) = Len(z) - k
  BY <1>0, SubSeqProperties
<1>3. RemoveAt(z, k) = a \o b
  BY DEF RemoveAt
<1> HIDE DEF a, b
<1>4. a \o b \in Seq(S) /\ Len(a \o b) = Len(a) + Len(b)
  BY <1>1, <1>2, ConcatProperties
<1> QED BY <1>0, <1>1, <1>2, <1>3, <1>4

\* Other idle connections, as long as they are clean and fit, disturb nothing else.
LEMMA PoolKeeps ==
  ASSUME NEW w, Global(w), NEW q, NEW idle \in Seq([peer : Index, eof : BOOLEAN, clean : {TRUE}]), Len(idle) <= Conf.keep
  PROVE  LET v == [w EXCEPT !.pool = idle] IN
         /\ Global(v) /\ Same(w, v, q) /\ v.req = w.req /\ v.tries = w.tries /\ v.pool = idle
<1> DEFINE v == [w EXCEPT !.pool = idle]
<1>1. /\ DOMAIN v = WorldFields /\ v.req = w.req /\ v.tries = w.tries /\ v.peers = w.peers
      /\ v.pool = idle /\ v.now = w.now /\ v.probes = w.probes /\ v.env = w.env
  BY DEF Global, Shape, WorldFields
<1> HIDE DEF v
<1>2. Shape(v) /\ Same(w, v, q)
  BY <1>1 DEF Global, Shape, Same
<1>3. Global(v)
  BY <1>1, <1>2 DEF Global
<1> QED BY <1>1, <1>2, <1>3 DEF v

\* On the way to a server that was chosen: it is asked, or one try or one idle
\* connection less is left.
LEMMA ConnectKeeps ==
  ASSUME setup \in Setups, NEW w, Global(w), NEW q \in Requests, Basic(w.req[q], w.tries[q]),
         w.req[q].st # "done", w.tries[q] > 0, NoRepeat(w.req[q].kind) => w.req[q].asked = {},
         w.req[q].conn = "none"
  PROVE  LET v == Connect(w, q) IN
         /\ Good(w, v, q)
         /\ v.req[q].st = "connect" => v.tries[q] + Len(v.pool) < w.tries[q] + Len(w.pool)
<1> DEFINE v == Connect(w, q)
           e == w.req[q]
           i == e.peer
           ids == Idle(w, i)
           k == Min(ids)
           idle == RemoveAt(w.pool, k)
           a == [w EXCEPT !.pool = idle]
           conn == IF w.pool[k].eof THEN "stale" ELSE "cached"
           b == Opened(a, q, conn, "open")
           ft == IF i = 0 THEN "nolive" ELSE "error"
           S == [peer : Index, eof : BOOLEAN, clean : {TRUE}]
<1>0. /\ w.tries[q] \in Int /\ TriesAfter(w.tries[q]) \in Int /\ TriesAfter(w.tries[q]) < w.tries[q]
      /\ TriesAfter(w.tries[q]) + 1 <= w.tries[q]
  BY SetupIs DEF Basic, TriesAfter
<1>1. w.pool \in Seq(S) /\ Len(w.pool) <= Conf.keep /\ Conf.keep \in Nat /\ Len(w.pool) \in Nat
  BY SetupIs DEF Global
<1>2. v = IF i = 0 \/ (ids = {} /\ w.env.refuse) THEN NextServer(w, q, ft)
          ELSE IF ids = {} THEN Opened(w, q, "fresh", "connecting")
          ELSE SendRequest(b, q)
  BY Zenon DEF Connect
<1>3. CASE i = 0 \/ (ids = {} /\ w.env.refuse)
  <2> DEFINE n == NextServer(w, q, ft)
  <2>1. /\ Good(w, n, q)
        /\ n.req[q].st = "connect" =>
             /\ n.tries[q] = TriesAfter(w.tries[q]) + (IF e.conn \in {"cached", "stale"} /\ ft = "error" THEN 1 ELSE 0)
             /\ ft # "404" => n.pool = w.pool
    <3>1. /\ NoRepeat(e.kind) /\ e.asked # {} => e.requestSent
          /\ e.peer = 0 => ft = "nolive"
      OBVIOUS
    <3> HIDE DEF ft
    <3> QED BY <3>1, NextServerKeeps
  <2>2. v = n /\ ft # "404"
    BY <1>2, <1>3
  <2>3. n.req[q].st = "connect" => n.tries[q] = TriesAfter(w.tries[q]) /\ n.pool = w.pool
    BY <1>0, <2>1, <2>2
  <2> HIDE DEF v, n, ft
  <2>4. n.req[q].st = "connect" => n.tries[q] + Len(n.pool) < w.tries[q] + Len(w.pool)
    BY <1>0, <1>1, <2>3
  <2> QED BY <2>1, <2>2, <2>4 DEF v
<1>4. CASE ~(i = 0 \/ (ids = {} /\ w.env.refuse)) /\ ids = {}
  <2> DEFINE n == Opened(w, q, "fresh", "connecting")
  <2>1. Good(w, n, q) /\ n.req[q].st = "connecting"
    BY <1>4, OpenedKeeps
  <2> HIDE DEF n
  <2> QED BY <1>2, <1>4, <2>1 DEF n
<1>5. CASE ~(i = 0 \/ (ids = {} /\ w.env.refuse)) /\ ids # {}
  <2>1. k \in DOMAIN w.pool
    <3>1. ids \in SUBSET Nat /\ ids \subseteq DOMAIN w.pool
      BY <1>1 DEF Idle
    <3> QED BY <1>5, <3>1, MinIn
  <2>2. idle \in Seq(S) /\ Len(idle) = Len(w.pool) - 1
    BY <1>1, <2>1, RemovedIs
  <2> HIDE DEF idle
  <2>3. Global(a) /\ Same(w, a, q) /\ a.req = w.req /\ a.tries = w.tries /\ a.pool = idle
    <3>1. idle \in Seq([peer : Index, eof : BOOLEAN, clean : {TRUE}]) /\ Len(idle) <= Conf.keep
      BY <1>1, <2>2
    <3> QED BY <3>1, PoolKeeps
  <2> HIDE DEF a, conn, ids, k
  <2>4. /\ Good(a, b, q) /\ b.req[q].st = "open" /\ b.req[q].conn = conn
        /\ b.req[q].asked = e.asked /\ b.req[q].peer = i /\ b.req[q].kind = e.kind
        /\ b.tries = w.tries /\ b.pool = idle
    BY <1>5, <2>3, OpenedKeeps
  <2>5. conn \in {"cached", "stale"}
    BY DEF conn
  <2> HIDE DEF b
  <2> DEFINE n == SendRequest(b, q)
  <2>6. /\ Good(b, n, q)
        /\ n.req[q].st = "connect" => n.tries[q] = TriesAfter(b.tries[q]) + 1 /\ n.pool = b.pool
    <3>1. /\ Global(b) /\ Basic(b.req[q], b.tries[q]) /\ b.req[q].st # "done" /\ b.tries[q] > 0 /\ b.req[q].peer # 0
          /\ NoRepeat(b.req[q].kind) /\ b.req[q].asked # {} => b.req[q].asked = {b.req[q].peer}
      BY <1>5, <2>4 DEF Good
    <3> QED BY <2>4, <2>5, <3>1, SendRequestKeeps
  <2> HIDE DEF n
  <2>7. Good(w, n, q)
    BY <2>3, <2>4, <2>6 DEF Good, Same
  <2>8. n.req[q].st = "connect" => n.tries[q] + Len(n.pool) < w.tries[q] + Len(w.pool)
    <3>1. n.req[q].st = "connect" => n.tries[q] = TriesAfter(w.tries[q]) + 1 /\ Len(n.pool) = Len(w.pool) - 1
      BY <2>2, <2>4, <2>6
    <3> QED BY <1>0, <1>1, <3>1
  <2> QED BY <1>2, <1>5, <2>7, <2>8 DEF n
<1> QED BY <1>3, <1>4, <1>5

\* The choice of a server, and the note of its probe.
LEMMA ChosenKeeps ==
  ASSUME setup \in Setups, NEW w, Global(w), NEW q \in Requests, Basic(w.req[q], w.tries[q]),
         w.req[q].st = "connect", w.req[q].peer = 0, NEW g, Gives(w.peers, g, w.now)
  PROVE  LET v == Chosen(w, q, g) IN
         /\ Global(v) /\ Same(w, v, q) /\ Basic(v.req[q], v.tries[q])
         /\ v.tries = w.tries /\ v.pool = w.pool
         /\ v.req[q].st = "connect" /\ v.req[q].conn = "none"
         /\ v.req[q].kind = w.req[q].kind /\ v.req[q].asked = w.req[q].asked
<1> DEFINE v == Chosen(w, q, g)
           e == w.req[q]
           i == g.peer
           f == [e EXCEPT !.d = g.d, !.peer = i, !.conn = "none"]
           probes1 == [j \in Index |-> IF j = i /\ Servers[j].maxFails > 0 /\ w.peers[j].fails >= Servers[j].maxFails /\ ~Single
                                       THEN <<Last(w.probes[j]), w.now>> ELSE w.probes[j]]
<1>0. Shape(w)
  BY DEF Global
<1>1. v = [w EXCEPT !.peers = g.p, !.req = [w.req EXCEPT ![q] = f], !.probes = probes1]
  BY <1>0 DEF Chosen, Shape, WorldFields
<1>2. /\ DOMAIN f = ReqFields /\ f.d = g.d /\ f.peer = i /\ f.conn = "none" /\ f.st = e.st /\ f.kind = e.kind
      /\ f.asked = e.asked /\ f.keepalive = e.keepalive /\ f.whole = e.whole
  BY <1>0 DEF Shape, ReqFields
<1> HIDE DEF f, probes1
<1>3. /\ DOMAIN v = WorldFields /\ v.req = [w.req EXCEPT ![q] = f] /\ v.peers = g.p /\ v.pool = w.pool
      /\ v.tries = w.tries /\ v.now = w.now /\ v.probes = probes1 /\ v.env = w.env
  BY <1>0, <1>1 DEF Shape, WorldFields
<1> HIDE DEF v
<1>4. Shape(v) /\ Same(w, v, q) /\ v.req[q] = f
  BY <1>0, <1>2, <1>3 DEF Shape, Same
<1>5. /\ i \in Index \union {0} /\ g.p \in PeersOf(w.now) /\ DataOK(g.d) /\ 0 \notin Index
      /\ w.now \in Nat /\ w.peers \in PeersOf(w.now)
  BY SetupIs DEF Gives, Configured, Global
<1>6. Basic(f, w.tries[q])
  BY <1>2, <1>5 DEF Basic
<1>7. ASSUME NEW j \in Index PROVE v.peers[j].conns = Cardinality(Holders(v.req, j))
  <2>1. /\ Cardinality(Holders(w.req, j)) \in Nat
        /\ Cardinality(Holders(v.req, j)) = Cardinality(Holders(w.req, j)) - Held(w.req[q], j) + Held(v.req[q], j)
    BY <1>0, <1>4, HoldersMove
  <2>2. Held(w.req[q], j) = 0 /\ Held(v.req[q], j) = IF j = i THEN 1 ELSE 0
    BY <1>2, <1>4, <1>5 DEF Held
  <2>3. w.peers[j].conns = Cardinality(Holders(w.req, j)) /\ g.p[j].conns = w.peers[j].conns + (IF j = i THEN 1 ELSE 0)
    BY DEF Global, Gives
  <2> QED BY <1>3, <2>1, <2>2, <2>3
<1>8. ASSUME NEW j \in Index
      PROVE  /\ v.probes[j] \in Seq(Int) /\ Len(v.probes[j]) = 2
             /\ v.probes[j][1] >= 0 => v.probes[j][2] - v.probes[j][1] > Servers[j].failTimeout
             /\ v.probes[j][2] <= v.peers[j].checked
  <2>1. /\ w.probes[j] \in Seq(Int) /\ Len(w.probes[j]) = 2
        /\ w.probes[j][1] >= 0 => w.probes[j][2] - w.probes[j][1] > Servers[j].failTimeout
        /\ w.probes[j][2] <= w.peers[j].checked
    BY DEF Global
  <2>2. w.peers[j].checked \in Int /\ g.p[j].checked \in Int /\ g.p[j].checked >= w.peers[j].checked
    BY <1>5 DEF PeersOf, Gives
  <2>3. w.probes[j][1] \in Int /\ w.probes[j][2] \in Int /\ Last(w.probes[j]) = w.probes[j][2]
    BY <2>1 DEF Last
  <2>4. CASE v.probes[j] = w.probes[j]
    BY <1>3, <2>1, <2>2, <2>3, <2>4
  <2>5. CASE v.probes[j] # w.probes[j]
    <3>1. j = i /\ Failed(w.peers, i) /\ v.probes[j] = <<w.probes[j][2], w.now>>
      BY <1>3, <2>3, <2>5 DEF probes1, Failed
    <3>2. w.now - w.peers[j].checked > Servers[j].failTimeout /\ g.p[j].checked = w.now
      BY <1>5, <3>1 DEF Gives
    <3>3. Servers[j].failTimeout \in Nat
      BY SetupIs DEF Configured
    <3> DEFINE u == <<w.probes[j][2], w.now>>
    <3>4. u \in Seq(Int) /\ Len(u) = 2 /\ u[1] = w.probes[j][2] /\ u[2] = w.now
      BY <1>5, <2>3
    <3> HIDE DEF u
    <3>5. v.probes[j] = u
      BY <3>1 DEF u
    <3>6. w.now - w.probes[j][2] > Servers[j].failTimeout
      BY <1>5, <2>1, <2>2, <2>3, <3>2, <3>3
    <3> QED BY <1>3, <1>5, <3>2, <3>4, <3>5, <3>6
  <2> QED BY <2>4, <2>5
<1>9. \A b \in BOOLEAN : Over(Current(v.peers), Group(b)) = 0
  BY <1>3 DEF Gives, Global
<1>10. Global(v)
  BY <1>3, <1>4, <1>5, <1>7, <1>8, <1>9 DEF Global
<1> QED BY <1>2, <1>3, <1>4, <1>6, <1>10 DEF v

\* What a handler has come to is the state after it.
LEMMA BecomeKeeps ==
  ASSUME IInv, NEW w, Global(w), Become(w),
         \A r \in Requests : Basic(w.req[r], w.tries[r]) /\ Settled(w.req[r], w.tries[r]),
         \A p, r \in Requests : w.req[p].st = "connect" /\ w.req[r].st = "connect" => p = r,
         \A r \in Requests : w.req[r].st = "connect" => hops + w.tries[r] + Len(w.pool) <= HopsMax
  PROVE  IInv'
<1>1. /\ req' = w.req /\ tries' = w.tries /\ peers' = w.peers /\ pool' = w.pool /\ now' = w.now
      /\ probes' = w.probes /\ setup' = setup
      /\ hops' = IF \E q \in Requests : w.req[q].st = "connect" THEN hops + 1 ELSE 0
  BY DEF Become
<1>2. /\ Servers' = Servers /\ Index' = Index /\ Conf' = Conf /\ Counts' = Counts /\ TriesInit' = TriesInit
      /\ KeyOrder' = KeyOrder /\ HopsMax' = HopsMax
  BY <1>1 DEF Servers, Index, Conf, Counts, TriesInit, KeyOrder, HopsMax
<1>3. setup \in Setups /\ setup' \in Setups
  BY <1>1 DEF IInv
<1> DEFINE u == [req |-> w.req, tries |-> w.tries, peers |-> w.peers, pool |-> w.pool, now |-> w.now,
                 probes |-> w.probes, env |-> Quiet]
<1>4. Global(u)
  BY DEF Global, Shape, WorldFields
<1>5. World(Quiet)' = u
  BY <1>1 DEF World, Quiet
<1> HIDE DEF u
<1>6. Global(World(Quiet))'
  <2>1. Shape(u)' /\ (u.now \in 0 .. setup.maxNow)'
    BY <1>1, <1>4 DEF Global, Shape
  <2> QED BY <1>1, <1>2, <1>4, <1>5 DEF Global, Shape, PeersOf, Over, Group, Current, Holders
<1>7. \A r \in Requests : (Basic(req[r], tries[r]) /\ Settled(req[r], tries[r]))'
  BY <1>1, <1>2 DEF Basic, Settled, DataOK, NoRepeat
<1>8. Hops'
  <2>1. hops \in Nat
    BY DEF IInv, Hops
  <2>2. \A r \in Requests : w.tries[r] \in Int
    BY <1>3, SetupIs DEF Basic
  <2>3. Len(w.pool) \in Int /\ HopsMax \in Int
    BY <1>3, SetupIs DEF Global, HopsMax
  <2>4. hops' \in Nat /\ (hops' > 0 <=> \E q \in Requests : w.req[q].st = "connect")
    BY <1>1, <2>1
  <2>5. ASSUME NEW r \in Requests, w.req[r].st = "connect" PROVE hops' + w.tries[r] + Len(w.pool) <= HopsMax + 1
    BY <1>1, <2>1, <2>2, <2>3, <2>5
  <2> QED BY <1>1, <1>2, <2>4, <2>5 DEF Hops
<1> QED BY <1>3, <1>6, <1>7, <1>8 DEF IInv

-----------------------------------------------------------------------------
\* A request that holds a server, in a world where all is well.
Fit(w, q) ==
  /\ Global(w) /\ Basic(w.req[q], w.tries[q]) /\ Settled(w.req[q], w.tries[q])
  /\ w.req[q].st \in Asking

\* Steps follow one another.
LEMMA GoodThen ==
  ASSUME NEW w, NEW v, NEW u, NEW q \in Requests, Same(w, v, q), Good(v, u, q)
  PROVE  Good(w, u, q)
BY DEF Good, Same

\* Fields that the account does not look at.
LEMMA PutFits ==
  ASSUME setup \in Setups, NEW w, NEW q \in Requests, Fit(w, q), NEW e, DOMAIN e = ReqFields,
         e.st = w.req[q].st, e.peer = w.req[q].peer, e.kind = w.req[q].kind, e.d = w.req[q].d,
         e.asked = w.req[q].asked, e.requestSent = w.req[q].requestSent, e.keepalive => e.whole
  PROVE  LET v == [w EXCEPT !.req = [w.req EXCEPT ![q] = e]] IN
         Fit(v, q) /\ Good(w, v, q) /\ v.req[q] = e /\ v.tries = w.tries
<1> DEFINE v == [w EXCEPT !.req = [w.req EXCEPT ![q] = e]]
<1>1. Global(v) /\ Same(w, v, q) /\ v.req[q] = e /\ v.tries = w.tries
  BY PutKeeps DEF Fit
<1> HIDE DEF v
<1>2. Basic(e, w.tries[q])
  BY DEF Fit, Basic
<1>3. Settled(e, w.tries[q])
  BY DEF Fit, Settled, Asking
<1>4. v.req[q].st \in Asking
  BY <1>1 DEF Fit
<1> QED BY <1>1, <1>2, <1>3, <1>4 DEF Fit, Good, v

\* What may be used of a request that is asking its server.
LEMMA FitIs ==
  ASSUME NEW w, NEW q \in Requests, Fit(w, q)
  PROVE  /\ Global(w) /\ Basic(w.req[q], w.tries[q]) /\ Settled(w.req[q], w.tries[q])
         /\ w.req[q].st \in Asking /\ w.req[q].st # "done" /\ w.req[q].peer # 0 /\ w.tries[q] > 0
         /\ DOMAIN w.req[q] = ReqFields /\ (w.req[q].keepalive => w.req[q].whole)
         /\ NoRepeat(w.req[q].kind) /\ w.req[q].asked # {}
              => w.req[q].st = "open" /\ w.req[q].requestSent /\ w.req[q].asked = {w.req[q].peer}
<1>1. w.req[q].st # "done" /\ w.req[q].peer # 0 /\ w.tries[q] > 0
  BY DEF Fit, Settled, Asking
<1> QED BY <1>1 DEF Fit, Settled, Basic, Global, Shape

\* ngx_http_upstream_next, as the handlers of an asking request call it.
LEMMA NextServerFits ==
  ASSUME setup \in Setups, NEW w, NEW q \in Requests, Fit(w, q), NEW ft
  PROVE  Good(w, NextServer(w, q, ft), q)
BY FitIs, NextServerKeeps

\* ngx_http_upstream_finalize_request, as the handlers of an asking request call it.
LEMMA FinalizeFits ==
  ASSUME setup \in Setups, NEW w, NEW q \in Requests, Fit(w, q), NEW rc
  PROVE  Good(w, Finalize(w, q, rc), q)
BY FitIs, FinalizeKeeps

\* The end of an answer (upstream_done), after which the connection may be kept.
LEMMA CompleteFits ==
  ASSUME setup \in Setups, NEW w, NEW q \in Requests, Fit(w, q)
  PROVE  Good(w, Complete(w, q), q)
<1> DEFINE f == [w.req[q] EXCEPT !.whole = TRUE, !.keepalive = w.env.keep]
           v == [w EXCEPT !.req = [w.req EXCEPT ![q] = f]]
<1>1. /\ DOMAIN f = ReqFields /\ f.st = w.req[q].st /\ f.peer = w.req[q].peer /\ f.kind = w.req[q].kind
      /\ f.d = w.req[q].d /\ f.asked = w.req[q].asked /\ f.requestSent = w.req[q].requestSent
      /\ f.whole = TRUE
  BY FitIs DEF ReqFields
<1>2. Complete(w, q) = Finalize(v, q, "ok")
  BY DEF Complete
<1> HIDE DEF f
<1>3. Fit(v, q) /\ Good(w, v, q)
  BY <1>1, PutFits
<1> HIDE DEF v
<1>4. Good(v, Finalize(v, q, "ok"), q)
  BY <1>3, FinalizeFits
<1> QED BY <1>2, <1>3, <1>4, GoodThen DEF Good

\* The header of an answer, whatever it says.
LEMMA SendResponseFits ==
  ASSUME setup \in Setups, NEW w, NEW q \in Requests, Fit(w, q), NEW a
  PROVE  Good(w, SendResponse(w, q, a), q)
<1> DEFINE f == [w.req[q] EXCEPT !.headerSent = TRUE, !.reading = "body"]
           s == [w EXCEPT !.req = [w.req EXCEPT ![q] = f]]
           g == [s.req[q] EXCEPT !.reading = "upgraded", !.stop = TRUE]
           u == [s EXCEPT !.req = [s.req EXCEPT ![q] = g]]
<1>1. /\ DOMAIN f = ReqFields /\ f.st = w.req[q].st /\ f.peer = w.req[q].peer /\ f.kind = w.req[q].kind
      /\ f.d = w.req[q].d /\ f.asked = w.req[q].asked /\ f.requestSent = w.req[q].requestSent
      /\ (f.keepalive => f.whole)
  BY FitIs DEF ReqFields
<1>2. SendResponse(w, q, a) \in {Finalize(s, q, "502"), Upgrade(s, q), s, Complete(s, q)}
  BY DEF SendResponse
<1> HIDE DEF f
<1>3. Fit(s, q) /\ Good(w, s, q)
  BY <1>1, PutFits
<1>4. Upgrade(s, q) = u
  BY DEF Upgrade
<1> HIDE DEF s
<1>5. /\ DOMAIN g = ReqFields /\ g.st = s.req[q].st /\ g.peer = s.req[q].peer /\ g.kind = s.req[q].kind
      /\ g.d = s.req[q].d /\ g.asked = s.req[q].asked /\ g.requestSent = s.req[q].requestSent
      /\ (g.keepalive => g.whole)
  BY <1>3, FitIs DEF ReqFields
<1> HIDE DEF g
<1>6. Good(s, u, q)
  BY <1>3, <1>5, PutFits
<1> HIDE DEF u
<1>7. Good(s, Finalize(s, q, "502"), q) /\ Good(s, Complete(s, q), q)
  BY <1>3, FinalizeFits, CompleteFits
<1>8. Good(w, Finalize(s, q, "502"), q) /\ Good(w, Complete(s, q), q) /\ Good(w, u, q)
  BY <1>3, <1>6, <1>7, GoodThen DEF Good
<1> QED BY <1>2, <1>3, <1>4, <1>8

\* ngx_http_upstream_process_header: the next server, an interception, a redirect, an
\* upgrade or the response.
LEMMA ProcessHeaderFits ==
  ASSUME setup \in Setups, NEW w, NEW q \in Requests, Fit(w, q), NEW a
  PROVE  Good(w, ProcessHeader(w, q, a), q)
<1> DEFINE n == Finalize(w, q, "declined")
           f == [n.req[q] EXCEPT !.result = "redirected"]
           r == [n EXCEPT !.req = [n.req EXCEPT ![q] = f]]
<1>1. ProcessHeader(w, q, a) \in
        {NextServer(w, q, "error"), NextServer(w, q, "invalid"), NextServer(w, q, a), Finalize(w, q, a), r,
         SendResponse(w, q, a)}
  BY DEF ProcessHeader, Redirect
<1>2. Good(w, n, q) /\ n.req[q].st = "done"
  BY FitIs, FinalizeKeeps
<1> HIDE DEF n
<1>3. Global(n) /\ Basic(n.req[q], n.tries[q]) /\ Settled(n.req[q], n.tries[q]) /\ DOMAIN n.req[q] = ReqFields
  BY <1>2 DEF Good, Global, Shape
<1>4. /\ DOMAIN f = ReqFields /\ f.st = n.req[q].st /\ f.peer = n.req[q].peer /\ f.kind = n.req[q].kind
      /\ f.d = n.req[q].d /\ f.asked = n.req[q].asked /\ f.requestSent = n.req[q].requestSent
      /\ f.keepalive = n.req[q].keepalive /\ f.whole = n.req[q].whole /\ f.timer = n.req[q].timer
  BY <1>3 DEF ReqFields
<1> HIDE DEF f
<1>5. Global(r) /\ Same(n, r, q) /\ r.req[q] = f /\ r.tries = n.tries
  BY <1>3, <1>4, PutKeeps
<1> HIDE DEF r
<1>6. Basic(f, n.tries[q]) /\ Settled(f, n.tries[q])
  BY <1>3, <1>4 DEF Basic, Settled, Asking
<1>7. Good(w, r, q)
  BY <1>2, <1>5, <1>6 DEF Good, Same
<1>8. \A x : Good(w, NextServer(w, q, x), q) /\ Good(w, Finalize(w, q, x), q)
  BY NextServerFits, FinalizeFits
<1> QED BY <1>1, <1>7, <1>8, SendResponseFits

-----------------------------------------------------------------------------
\* The world a handler starts from.
LEMMA WorldIs ==
  ASSUME IInv, NEW env
  PROVE  LET w == World(env) IN
         /\ setup \in Setups /\ Global(w)
         /\ w.req = req /\ w.tries = tries /\ w.pool = pool /\ w.peers = peers /\ w.now = now /\ w.env = env
         /\ \A q \in Requests : /\ Basic(w.req[q], w.tries[q]) /\ Settled(w.req[q], w.tries[q])
                                /\ DOMAIN w.req[q] = ReqFields
                                /\ w.req[q].st \in Asking => Fit(w, q)
<1> DEFINE w == World(env)
<1>1. /\ w.req = req /\ w.tries = tries /\ w.pool = pool /\ w.peers = peers /\ w.now = now /\ w.env = env
      /\ w.probes = probes /\ DOMAIN w = WorldFields
  BY DEF World, WorldFields
<1> HIDE DEF w
<1>2. Global(w)
  BY <1>1 DEF IInv, Global, Shape, World
<1>3. \A q \in Requests : Basic(w.req[q], w.tries[q]) /\ Settled(w.req[q], w.tries[q])
  BY <1>1 DEF IInv
<1>4. setup \in Setups
  BY DEF IInv
<1>5. \A q \in Requests : DOMAIN w.req[q] = ReqFields
  BY <1>2 DEF Global, Shape
<1>6. \A q \in Requests : w.req[q].st \in Asking => Fit(w, q)
  BY <1>2, <1>3 DEF Fit
<1> QED BY <1>1, <1>2, <1>3, <1>4, <1>5, <1>6 DEF w

\* A handler that served q and left all well.
LEMMA HandlerKeeps ==
  ASSUME IInv, Returned, NEW q \in Requests, NEW env, NEW v, Good(World(env), v, q), Become(v)
  PROVE  IInv'
<1> DEFINE w == World(env)
<1>1. /\ w.req = req /\ w.tries = tries /\ setup \in Setups
      /\ \A r \in Requests : Basic(w.req[r], w.tries[r]) /\ Settled(w.req[r], w.tries[r])
  BY WorldIs
<1>2. \A r \in Requests \ {q} : v.req[r] = req[r] /\ v.tries[r] = tries[r]
  BY <1>1 DEF Good, Same
<1> HIDE DEF w
<1>3. \A r \in Requests : Basic(v.req[r], v.tries[r]) /\ Settled(v.req[r], v.tries[r])
  BY <1>1, <1>2 DEF Good
<1>4. hops = 0 /\ \A r \in Requests : req[r].st # "connect"
  BY DEF Returned, IInv, Hops
<1>5. \A p, r \in Requests : v.req[p].st = "connect" /\ v.req[r].st = "connect" => p = r
  BY <1>2, <1>4
<1>6. \A r \in Requests : v.req[r].st = "connect" => hops + v.tries[r] + Len(v.pool) <= HopsMax
  <2>1. \A r \in Requests : v.tries[r] \in Counts
    BY <1>3 DEF Basic
  <2>2. Counts = 0 .. TriesInit /\ TriesInit \in Nat /\ Conf.keep \in Nat
    BY <1>1, SetupIs
  <2>3. Len(v.pool) \in Nat /\ Len(v.pool) <= Conf.keep
    BY DEF Good, Global
  <2> QED BY <1>4, <2>1, <2>2, <2>3 DEF HopsMax
<1>7. Global(v)
  BY DEF Good
<1> QED BY <1>3, <1>5, <1>6, <1>7, BecomeKeeps

\* The handler goes to one more server.
LEMMA AttemptKeeps ==
  ASSUME IInv, NEW q \in Requests, Attempt(q)
  PROVE  IInv'
<1>1. PICK env \in Env : Become(Connect(Chosen(World(env), q, GetPeer(peers, req[q].d, now)), q))
  BY DEF Attempt
<1> DEFINE w == World(env)
           g == GetPeer(peers, req[q].d, now)
           c == Chosen(w, q, g)
           v == Connect(c, q)
<1>2. /\ w.req = req /\ w.tries = tries /\ w.pool = pool /\ w.peers = peers /\ w.now = now /\ setup \in Setups
      /\ Global(w)
      /\ \A r \in Requests : Basic(w.req[r], w.tries[r]) /\ Settled(w.req[r], w.tries[r])
  BY WorldIs
<1>3. req[q].st = "connect"
  BY DEF Attempt
<1> HIDE DEF w
<1>4. /\ req[q].peer = 0 /\ DataOK(req[q].d) /\ tries[q] > 0
      /\ NoRepeat(req[q].kind) => req[q].asked = {}
  BY <1>2, <1>3 DEF Basic, Settled, Asking
<1>5. Gives(w.peers, g, w.now)
  <2>1. Configured /\ now \in Nat /\ peers \in PeersOf(now)
    BY <1>2, SetupIs DEF Global
  <2> QED BY <1>2, <1>4, <2>1, GetPeerGives
<1> HIDE DEF g
<1>6. /\ Global(c) /\ Same(w, c, q) /\ Basic(c.req[q], c.tries[q])
      /\ c.tries = w.tries /\ c.pool = w.pool /\ c.req[q].st = "connect" /\ c.req[q].conn = "none"
      /\ c.req[q].kind = w.req[q].kind /\ c.req[q].asked = w.req[q].asked
  BY <1>2, <1>3, <1>4, <1>5, ChosenKeeps
<1> HIDE DEF c
<1>7. /\ Good(c, v, q)
      /\ v.req[q].st = "connect" => v.tries[q] + Len(v.pool) < c.tries[q] + Len(c.pool)
  BY <1>2, <1>4, <1>6, ConnectKeeps
<1>8. Become(v)
  BY <1>1 DEF v, c, g, w
<1> HIDE DEF v
<1>9. \A r \in Requests \ {q} : v.req[r] = req[r] /\ v.tries[r] = tries[r] /\ req[r].st # "connect"
  <2>1. \A r \in Requests \ {q} : v.req[r] = req[r] /\ v.tries[r] = tries[r]
    BY <1>2, <1>6, <1>7 DEF Good, Same
  <2> QED BY <1>3, <2>1 DEF IInv, Hops
<1>10. \A r \in Requests : Basic(v.req[r], v.tries[r]) /\ Settled(v.req[r], v.tries[r])
  BY <1>2, <1>7, <1>9 DEF Good
<1>11. \A p, r \in Requests : v.req[p].st = "connect" /\ v.req[r].st = "connect" => p = r
  BY <1>9
<1>12. \A r \in Requests : v.req[r].st = "connect" => hops + v.tries[r] + Len(v.pool) <= HopsMax
  <2> SUFFICES ASSUME v.req[q].st = "connect" PROVE hops + v.tries[q] + Len(v.pool) <= HopsMax
    BY <1>9
  <2>1. v.tries[q] \in Int /\ tries[q] \in Int
    BY <1>2, <1>10, SetupIs DEF Basic
  <2>2. Len(v.pool) \in Int /\ Len(pool) \in Int /\ HopsMax \in Int /\ hops \in Int
    BY <1>2, <1>7, SetupIs DEF Good, Global, HopsMax, IInv, Hops
  <2>3. hops + tries[q] + Len(pool) <= HopsMax + 1
    BY <1>3 DEF IInv, Hops
  <2>4. v.tries[q] + Len(v.pool) < tries[q] + Len(pool)
    BY <1>2, <1>6, <1>7
  <2>5. ASSUME NEW h \in Int, NEW a \in Int, NEW b \in Int, NEW c1 \in Int, NEW d \in Int, NEW m \in Int,
               h + a + b <= m + 1, c1 + d < a + b
        PROVE  h + c1 + d <= m
    BY <2>5
  <2> QED BY <2>1, <2>2, <2>3, <2>4, <2>5
<1>13. Global(v)
  BY <1>7 DEF Good
<1> QED BY <1>8, <1>10, <1>11, <1>12, <1>13, BecomeKeeps

\* The request gets its tries.
LEMMA GoKeeps ==
  ASSUME setup \in Setups, NEW w, Global(w), NEW q \in Requests, Basic(w.req[q], w.tries[q]), Settled(w.req[q], w.tries[q]),
         w.req[q].st \in {"new", "resolving"}
  PROVE  Good(w, Go(w, q), q)
<1> DEFINE f == [w.req[q] EXCEPT !.st = "connect", !.start = now]
           a == [w EXCEPT !.req = [w.req EXCEPT ![q] = f]]
           v == [a EXCEPT !.tries = [a.tries EXCEPT ![q] = TriesAtFirst]]
<1>0. DOMAIN w.req[q] = ReqFields
  BY DEF Global, Shape
<1>1. Go(w, q) = v
  BY DEF Go
<1>2. /\ DOMAIN f = ReqFields /\ f.st = "connect" /\ f.peer = w.req[q].peer /\ f.kind = w.req[q].kind
      /\ f.d = w.req[q].d /\ f.asked = w.req[q].asked /\ f.keepalive = w.req[q].keepalive /\ f.whole = w.req[q].whole
  BY <1>0 DEF ReqFields
<1> HIDE DEF f
<1>3. Global(a) /\ Same(w, a, q) /\ a.req[q] = f
  BY <1>2, PutKeeps
<1> HIDE DEF a
<1>4. Global(v) /\ Same(a, v, q) /\ v.req = a.req /\ v.tries[q] = TriesAtFirst
  BY <1>3, TriesKeep
<1> HIDE DEF v
<1>5. TriesAtFirst \in Counts /\ TriesAtFirst > 0
  BY SetupIs DEF TriesAtFirst
<1>6. Basic(f, TriesAtFirst)
  BY <1>2, <1>5 DEF Basic
<1>7. Settled(f, TriesAtFirst)
  BY <1>2, <1>5 DEF Settled, Asking
<1> QED BY <1>1, <1>3, <1>4, <1>6, <1>7 DEF Good, Same

\* ngx_http_upstream_init_request.
LEMMA StartKeeps ==
  ASSUME IInv, Returned, NEW q \in Requests, Start(q)
  PROVE  IInv'
<1> DEFINE w == World(Quiet)
           f == [w.req[q] EXCEPT !.st = "resolving"]
           a == [w EXCEPT !.req = [w.req EXCEPT ![q] = f]]
<1>1. req[q].st = "new" /\ Become(IF Conf.resolve THEN a ELSE Go(w, q))
  BY DEF Start
<1>2. /\ Global(w) /\ w.req = req /\ w.tries = tries /\ Basic(w.req[q], w.tries[q]) /\ Settled(w.req[q], w.tries[q])
      /\ DOMAIN w.req[q] = ReqFields /\ setup \in Setups
  BY WorldIs
<1> HIDE DEF w
<1>3. Good(w, Go(w, q), q)
  BY <1>1, <1>2, GoKeeps
<1>4. Good(w, a, q)
  <2>1. /\ DOMAIN f = ReqFields /\ f.st = "resolving" /\ f.peer = w.req[q].peer /\ f.kind = w.req[q].kind
        /\ f.d = w.req[q].d /\ f.asked = w.req[q].asked /\ f.keepalive = w.req[q].keepalive
        /\ f.whole = w.req[q].whole /\ f.timer = w.req[q].timer
    BY <1>2 DEF ReqFields
  <2> HIDE DEF f
  <2>2. Global(a) /\ Same(w, a, q) /\ a.req[q] = f /\ a.tries = w.tries
    BY <1>2, <2>1, PutKeeps
  <2> HIDE DEF a
  <2>3. Basic(f, w.tries[q]) /\ Settled(f, w.tries[q])
    BY <1>1, <1>2, <2>1 DEF Basic, Settled, Asking
  <2> QED BY <2>2, <2>3 DEF Good
<1> HIDE DEF a
<1> QED BY <1>1, <1>3, <1>4, HandlerKeeps DEF w

\* ngx_http_upstream_resolve_handler.
LEMMA ResolvedKeeps ==
  ASSUME IInv, Returned, NEW q \in Requests, NEW ok \in BOOLEAN, Resolved(q, ok)
  PROVE  IInv'
<1> DEFINE w == World(Quiet)
<1>1. req[q].st = "resolving" /\ Become(IF ok THEN Go(w, q) ELSE Finalize(w, q, "502"))
  BY DEF Resolved
<1>2. /\ Global(w) /\ w.req = req /\ w.tries = tries /\ Basic(w.req[q], w.tries[q]) /\ Settled(w.req[q], w.tries[q])
      /\ DOMAIN w.req[q] = ReqFields /\ setup \in Setups
  BY WorldIs
<1> HIDE DEF w
<1>3. Good(w, Go(w, q), q)
  BY <1>1, <1>2, GoKeeps
<1>4. Good(w, Finalize(w, q, "502"), q)
  BY <1>1, <1>2, FinalizeKeeps
<1> QED BY <1>1, <1>3, <1>4, HandlerKeeps DEF w

\* What is written on a connection of a request that holds its server.
LEMMA SendFits ==
  ASSUME setup \in Setups, NEW w, NEW q \in Requests, Fit(w, q)
  PROVE  Good(w, SendRequest(w, q), q)
BY FitIs, SendRequestKeeps

\* The end of a connect or of a TLS handshake.
LEMMA ConnectedKeeps ==
  ASSUME IInv, Returned, NEW q \in Requests, NEW ok \in BOOLEAN, Connected(q, ok)
  PROVE  IInv'
<1>1. PICK env \in Env : Become(
       IF ~ok THEN NextServer(World(env), q, "error")
       ELSE IF Conf.ssl /\ req[q].st = "connecting" THEN [World(env) EXCEPT !.req[q].st = "handshake"]
       ELSE IF Ignored(q) /\ req[q].st = "connecting"
       THEN [World(env) EXCEPT !.req[q] = [@ EXCEPT !.st = "open", !.stop = TRUE]]
       ELSE SendRequest(World(env), q))
  BY DEF Connected
<1> DEFINE w == World(env)
           f == [w.req[q] EXCEPT !.st = "handshake"]
           a == [w EXCEPT !.req = [w.req EXCEPT ![q] = f]]
           g == [w.req[q] EXCEPT !.st = "open", !.stop = TRUE]
           b == [w EXCEPT !.req = [w.req EXCEPT ![q] = g]]
<1>2. \/ Become(NextServer(w, q, "error")) \/ Become(a) \/ Become(b) \/ Become(SendRequest(w, q))
  BY <1>1
<1>3. req[q].st \in {"connecting", "handshake"}
  BY DEF Connected
<1>4. /\ Global(w) /\ w.req = req /\ w.tries = tries /\ Basic(w.req[q], w.tries[q]) /\ Settled(w.req[q], w.tries[q])
      /\ DOMAIN w.req[q] = ReqFields /\ setup \in Setups /\ Fit(w, q)
  BY <1>3, WorldIs DEF Asking
<1> HIDE DEF w
<1>5. Good(w, NextServer(w, q, "error"), q) /\ Good(w, SendRequest(w, q), q)
  BY <1>4, NextServerFits, SendFits
<1>6. ASSUME NEW st \in {"handshake", "open"}, NEW e, DOMAIN e = ReqFields, e.st = st, e.peer = w.req[q].peer,
             e.kind = w.req[q].kind, e.d = w.req[q].d, e.asked = w.req[q].asked,
             e.keepalive = w.req[q].keepalive, e.whole = w.req[q].whole
      PROVE  Good(w, [w EXCEPT !.req = [w.req EXCEPT ![q] = e]], q)
  <2> DEFINE v == [w EXCEPT !.req = [w.req EXCEPT ![q] = e]]
  <2>1. Global(v) /\ Same(w, v, q) /\ v.req[q] = e /\ v.tries = w.tries
    BY <1>4, <1>6, PutKeeps
  <2> HIDE DEF v
  <2>2. Basic(e, w.tries[q])
    BY <1>3, <1>4, <1>6 DEF Basic, Asking
  <2>3. Settled(e, w.tries[q])
    BY <1>3, <1>4, <1>6 DEF Settled, Asking
  <2>4. Good(w, v, q)
    BY <2>1, <2>2, <2>3 DEF Good
  <2> QED BY <2>4 DEF v
<1>7. /\ DOMAIN f = ReqFields /\ f.st = "handshake" /\ f.peer = w.req[q].peer
      /\ f.kind = w.req[q].kind /\ f.d = w.req[q].d /\ f.asked = w.req[q].asked
      /\ f.keepalive = w.req[q].keepalive /\ f.whole = w.req[q].whole
  BY <1>4 DEF ReqFields
<1>8. /\ DOMAIN g = ReqFields /\ g.st = "open" /\ g.peer = w.req[q].peer
      /\ g.kind = w.req[q].kind /\ g.d = w.req[q].d /\ g.asked = w.req[q].asked
      /\ g.keepalive = w.req[q].keepalive /\ g.whole = w.req[q].whole
  BY <1>4 DEF ReqFields
<1> HIDE DEF f, g
<1>9. Good(w, a, q) /\ Good(w, b, q)
  BY <1>6, <1>7, <1>8
<1> HIDE DEF a, b
<1> QED BY <1>2, <1>5, <1>9, HandlerKeeps DEF w

\* ngx_http_upstream_send_request_handler, ready or timed out.
LEMMA WritableKeeps ==
  ASSUME IInv, Returned, NEW q \in Requests, Writable(q) \/ WriteTimeout(q)
  PROVE  IInv'
<1> DEFINE w == World(Quiet)
           f == [w.req[q] EXCEPT !.stop = TRUE]
           a == [w EXCEPT !.req = [w.req EXCEPT ![q] = f]]
           g == [w.req[q] EXCEPT !.timer = FALSE]
           b == [w EXCEPT !.req = [w.req EXCEPT ![q] = g]]
<1>1. \/ Become(a) \/ Become(NextServer(b, q, "timeout")) \/ \E env \in Env : Become(SendRequest(World(env), q))
  BY DEF Writable, WriteTimeout
<1>2. req[q].st \in Asking
  <2>1. \A r \in Requests : req[r].st # "connect"
    BY DEF IInv, Hops, Returned
  <2>2. Basic(req[q], tries[q]) /\ Settled(req[q], tries[q])
    BY DEF IInv
  <2> QED BY <2>1, <2>2 DEF Writable, WriteTimeout, Live, Basic, Settled, Asking
<1>3. Fit(w, q) /\ setup \in Setups
  BY <1>2, WorldIs
<1>4. ASSUME NEW env, Become(SendRequest(World(env), q)) PROVE IInv'
  <2>1. Fit(World(env), q)
    BY <1>2, WorldIs
  <2>2. Good(World(env), SendRequest(World(env), q), q)
    BY <1>3, <2>1, SendFits
  <2> QED BY <1>4, <2>2, HandlerKeeps
<1> HIDE DEF w
<1>5. /\ DOMAIN f = ReqFields /\ f.st = w.req[q].st /\ f.peer = w.req[q].peer /\ f.kind = w.req[q].kind
      /\ f.d = w.req[q].d /\ f.asked = w.req[q].asked /\ f.requestSent = w.req[q].requestSent
      /\ (f.keepalive => f.whole)
  BY <1>3, FitIs DEF ReqFields
<1>6. /\ DOMAIN g = ReqFields /\ g.st = w.req[q].st /\ g.peer = w.req[q].peer /\ g.kind = w.req[q].kind
      /\ g.d = w.req[q].d /\ g.asked = w.req[q].asked /\ g.requestSent = w.req[q].requestSent
      /\ (g.keepalive => g.whole)
  BY <1>3, FitIs DEF ReqFields
<1> HIDE DEF f, g
<1>7. Good(w, a, q) /\ Fit(b, q) /\ Good(w, b, q)
  BY <1>3, <1>5, <1>6, PutFits
<1> HIDE DEF a, b
<1>8. Good(b, NextServer(b, q, "timeout"), q)
  BY <1>3, <1>7, NextServerFits
<1>9. Good(w, NextServer(b, q, "timeout"), q)
  BY <1>7, <1>8, GoodThen DEF Good
<1> QED BY <1>1, <1>4, <1>7, <1>9, HandlerKeeps DEF w

\* Ends of the pipe, of the direct reading and of an upgraded connection.
LEMMA BodyFits ==
  ASSUME setup \in Setups, NEW w, NEW q \in Requests, Fit(w, q), NEW a
  PROVE  /\ Good(w, ProcessRequest(w, q, a), q) /\ Good(w, ProcessDirect(w, q, a), q)
         /\ Good(w, ProcessUpgraded(w, q, a), q)
<1>1. \A x : Good(w, Finalize(w, q, x), q)
  BY FinalizeFits
<1>2. Good(w, Complete(w, q), q)
  BY CompleteFits
<1>3. Good(w, w, q)
  BY DEF Fit, Good, Same
<1>4. ProcessRequest(w, q, a) \in {Complete(w, q), Finalize(w, q, "ok"), w, Finalize(w, q, "error"), Finalize(w, q, "502")}
  BY DEF ProcessRequest
<1>5. ProcessDirect(w, q, a) \in {Complete(w, q), Finalize(w, q, "ok"), Finalize(w, q, "408"), Finalize(w, q, "502")}
  BY DEF ProcessDirect
<1>6. ProcessUpgraded(w, q, a) \in {Finalize(w, q, "ok"), Finalize(w, q, "504")}
  BY DEF ProcessUpgraded
<1> QED BY <1>1, <1>2, <1>3, <1>4, <1>5, <1>6

\* Handlers that read: the client's body timeout, the header, the read timeout and the
\* body.
LEMMA ReadKeeps ==
  ASSUME IInv, Returned, NEW q \in Requests, ClientTimeout(q) \/ ReadHeader(q) \/ ReadTimeout(q) \/ ReadBody(q)
  PROVE  IInv'
<1>1. req[q].st \in Asking
  BY DEF ClientTimeout, ReadHeader, ReadTimeout, ReadBody, Asking
<1>2. setup \in Setups /\ \A env : Fit(World(env), q)
  BY <1>1, WorldIs
<1>3. CASE ClientTimeout(q)
  <2>1. Become(Finalize(World(Quiet), q, "408"))
    BY <1>3 DEF ClientTimeout
  <2>2. Good(World(Quiet), Finalize(World(Quiet), q, "408"), q)
    BY <1>2, FinalizeFits
  <2> QED BY <2>1, <2>2, HandlerKeeps
<1>4. CASE ReadHeader(q)
  <2>1. PICK a \in Answers, k \in BOOLEAN : Become(ProcessHeader(World([Quiet EXCEPT !.keep = k]), q, a))
    BY <1>4 DEF ReadHeader
  <2> DEFINE env == [Quiet EXCEPT !.keep = k]
  <2> HIDE DEF env
  <2>2. Good(World(env), ProcessHeader(World(env), q, a), q)
    BY <1>2, ProcessHeaderFits
  <2>3. Become(ProcessHeader(World(env), q, a))
    BY <2>1 DEF env
  <2> QED BY <2>2, <2>3, HandlerKeeps
<1>5. CASE ReadTimeout(q)
  <2>1. Become(NextServer(World(Quiet), q, "timeout"))
    BY <1>5 DEF ReadTimeout
  <2>2. Good(World(Quiet), NextServer(World(Quiet), q, "timeout"), q)
    BY <1>2, NextServerFits
  <2> QED BY <2>1, <2>2, HandlerKeeps
<1>6. CASE ReadBody(q)
  <2>1. PICK k \in BOOLEAN, a \in {"done", "closed", "broken"} :
          \/ Become(ProcessUpgraded(World([Quiet EXCEPT !.keep = k]), q, a))
          \/ Become(ProcessRequest(World([Quiet EXCEPT !.keep = k]), q, a))
          \/ Become(ProcessDirect(World([Quiet EXCEPT !.keep = k]), q, a))
    BY <1>6 DEF ReadBody
  <2> DEFINE env == [Quiet EXCEPT !.keep = k]
  <2> HIDE DEF env
  <2>2. /\ Good(World(env), ProcessRequest(World(env), q, a), q) /\ Good(World(env), ProcessDirect(World(env), q, a), q)
        /\ Good(World(env), ProcessUpgraded(World(env), q, a), q)
    BY <1>2, BodyFits
  <2>3. \/ Become(ProcessUpgraded(World(env), q, a)) \/ Become(ProcessRequest(World(env), q, a))
        \/ Become(ProcessDirect(World(env), q, a))
    BY <2>1 DEF env
  <2> QED BY <2>2, <2>3, HandlerKeeps
<1> QED BY <1>3, <1>4, <1>5, <1>6

\* The client stops reading or closes: the request ends, or goes on for the cache.
LEMMA ClientKeeps ==
  ASSUME IInv, Returned, NEW q \in Requests, ClientStops(q) \/ ClientGone(q)
  PROVE  IInv'
<1>0. PICK error \in BOOLEAN :
        LET a == [World(Quiet) EXCEPT !.req[q].gone = error] IN
        \/ /\ req[q].st \in Asking
           /\ \/ Become(ProcessUpgraded(a, q, "client"))
              \/ Become(ProcessRequest(a, q, "client"))
              \/ Become(ProcessDirect(a, q, "client"))
        \/ ClientGone(q) /\ error = TRUE
  BY DEF ClientStops, Asking
<1> DEFINE w == World(Quiet)
           f == [w.req[q] EXCEPT !.gone = error]
           a == [w EXCEPT !.req = [w.req EXCEPT ![q] = f]]
<1>1. /\ Global(w) /\ w.req = req /\ w.tries = tries /\ Basic(w.req[q], w.tries[q]) /\ Settled(w.req[q], w.tries[q])
      /\ DOMAIN w.req[q] = ReqFields /\ setup \in Setups /\ (req[q].st \in Asking => Fit(w, q))
  BY WorldIs
<1>2. \/ Become(a) /\ req[q].st \in Asking
      \/ Become(Finalize(a, q, "499")) /\ Live(q)
      \/ /\ req[q].st \in Asking
         /\ \/ Become(ProcessUpgraded(a, q, "client"))
            \/ Become(ProcessRequest(a, q, "client"))
            \/ Become(ProcessDirect(a, q, "client"))
  <2>1. a = [World(Quiet) EXCEPT !.req[q].gone = error]
    OBVIOUS
  <2>2. CASE ClientGone(q) /\ error = TRUE
    <3>1. req[q].st # "connect"
      BY DEF IInv, Hops, Returned
    <3>2. Live(q) /\ (req[q].st # "resolving" => req[q].st \in Asking)
      BY <1>1, <2>2, <3>1 DEF ClientGone, Live, Basic, Asking
    <3>3. Become(IF req[q].kind.cacheable /\ req[q].st # "resolving" THEN a ELSE Finalize(a, q, "499"))
      BY <2>2 DEF ClientGone
    <3> HIDE DEF a
    <3> QED BY <3>2, <3>3
  <2> HIDE DEF a
  <2> QED BY <1>0, <2>1, <2>2
<1> HIDE DEF w
<1>3. /\ DOMAIN f = ReqFields /\ f.st = w.req[q].st /\ f.peer = w.req[q].peer /\ f.kind = w.req[q].kind
      /\ f.d = w.req[q].d /\ f.asked = w.req[q].asked /\ f.requestSent = w.req[q].requestSent
      /\ f.keepalive = w.req[q].keepalive /\ f.whole = w.req[q].whole
  BY <1>1 DEF ReqFields
<1> HIDE DEF f
<1>4. /\ Global(a) /\ Same(w, a, q) /\ a.req[q] = f /\ a.tries = w.tries
  BY <1>1, <1>3, PutKeeps
<1>5. Basic(f, w.tries[q])
  BY <1>1, <1>3 DEF Basic
<1>6. Live(q) => Good(w, Finalize(a, q, "499"), q)
  <2>1. Live(q) => Good(a, Finalize(a, q, "499"), q)
    BY <1>1, <1>3, <1>4, <1>5, FinalizeKeeps DEF Live
  <2> HIDE DEF a
  <2> QED BY <1>4, <2>1, GoodThen
<1>7. req[q].st \in Asking => Fit(a, q) /\ Good(w, a, q)
  BY <1>1, <1>3, FitIs, PutFits
<1> HIDE DEF a
<1>8. req[q].st \in Asking =>
        /\ Good(w, ProcessUpgraded(a, q, "client"), q) /\ Good(w, ProcessRequest(a, q, "client"), q)
        /\ Good(w, ProcessDirect(a, q, "client"), q)
  BY <1>1, <1>4, <1>7, BodyFits, GoodThen
<1> QED BY <1>2, <1>6, <1>7, <1>8, HandlerKeeps DEF w

\* The idle connections are other ones, and not more.
LEMMA PoolChanges ==
  ASSUME IInv, Returned, NEW x \in Seq([peer : Index, eof : BOOLEAN, clean : {TRUE}]), Len(x) <= Len(pool),
         NEW v, v = [World(Quiet) EXCEPT !.pool = x], Become(v)
  PROVE  IInv'
<1> DEFINE w == World(Quiet)
<1>1. /\ Global(w) /\ w.req = req /\ w.tries = tries /\ w.pool = pool /\ setup \in Setups
      /\ \A q \in Requests : Basic(w.req[q], w.tries[q]) /\ Settled(w.req[q], w.tries[q])
  BY WorldIs
<1>2. v = [w EXCEPT !.pool = x]
  OBVIOUS
<1> HIDE DEF w
<1>3. Len(x) <= Conf.keep
  <2>1. Len(pool) <= Conf.keep /\ Conf.keep \in Int /\ Len(pool) \in Int /\ Len(x) \in Nat
    BY <1>1, SetupIs DEF Global
  <2> QED BY <2>1
<1>4. Global(v) /\ v.req = req /\ v.tries = tries
  <2> DEFINE u == [w EXCEPT !.pool = x]
  <2>1. Global(u) /\ Same(w, u, 0) /\ u.req = w.req /\ u.tries = w.tries
    BY <1>1, <1>3, PoolKeeps
  <2> HIDE DEF u
  <2>2. u = v
    BY <1>2 DEF u
  <2> QED BY <1>1, <2>1, <2>2
<1>6. \A r \in Requests : v.req[r].st # "connect"
  BY <1>4 DEF IInv, Hops, Returned
<1> QED BY <1>1, <1>4, <1>6, BecomeKeeps

\* A server closes an idle connection, and ngx_http_upstream_keepalive_close_handler
\* notices.
LEMMA IdleKeeps ==
  ASSUME IInv, Returned, NEW k \in DOMAIN pool, ServerCloses(k) \/ IdleClosed(k)
  PROVE  IInv'
<1> DEFINE w == World(Quiet)
           S == [peer : Index, eof : BOOLEAN, clean : {TRUE}]
<1>1. pool \in Seq(S) /\ k \in 1 .. Len(pool) /\ Len(pool) \in Nat /\ w.pool = pool
  <2>1. Global(w) /\ w.pool = pool
    BY WorldIs
  <2> HIDE DEF w
  <2> QED BY <2>1 DEF Global
<1>2. CASE ServerCloses(k)
  <2> DEFINE x == [pool[k] EXCEPT !.eof = TRUE]
             z == [pool EXCEPT ![k] = x]
  <2>1. Become([w EXCEPT !.pool = [w.pool EXCEPT ![k] = [w.pool[k] EXCEPT !.eof = TRUE]]])
    BY <1>2 DEF ServerCloses
  <2>2. x \in S
    <3> DEFINE y == pool[k]
    <3> HIDE DEF S
    <3>1. y \in S
      BY <1>1
    <3> HIDE DEF y
    <3>2. [y EXCEPT !.eof = TRUE] \in S
      BY <3>1 DEF S
    <3> QED BY <3>2 DEF y
  <2>3. Become([w EXCEPT !.pool = z])
    BY <1>1, <2>1
  <2> HIDE DEF x, S
  <2>4. z \in Seq(S) /\ Len(z) = Len(pool)
    BY <1>1, <2>2
  <2>5. Len(z) <= Len(pool)
    BY <1>1, <2>4
  <2> HIDE DEF z
  <2> QED BY <2>3, <2>4, <2>5, PoolChanges DEF S
<1>3. CASE IdleClosed(k)
  <2> DEFINE z == RemoveAt(pool, k)
  <2>1. Become([w EXCEPT !.pool = RemoveAt(w.pool, k)])
    BY <1>3 DEF IdleClosed
  <2>2. Become([w EXCEPT !.pool = z])
    BY <1>1, <2>1
  <2> HIDE DEF S
  <2>3. z \in Seq(S) /\ Len(z) = Len(pool) - 1
    BY <1>1, RemovedIs
  <2>4. Len(z) <= Len(pool)
    BY <1>1, <2>3
  <2> HIDE DEF z
  <2> QED BY <2>2, <2>3, <2>4, PoolChanges DEF S
<1> QED BY <1>2, <1>3

\* The clock moves.
LEMMA TickKeeps ==
  ASSUME IInv, Returned, Tick
  PROVE  IInv'
<1> DEFINE w == World(Quiet)
           v == [w EXCEPT !.now = w.now + 1]
<1>1. /\ Global(w) /\ w.req = req /\ w.tries = tries /\ w.now = now /\ setup \in Setups
      /\ \A q \in Requests : Basic(w.req[q], w.tries[q]) /\ Settled(w.req[q], w.tries[q])
  BY WorldIs
<1>2. Become(v) /\ now < setup.maxNow
  BY DEF Tick
<1> HIDE DEF w
<1>3. /\ DOMAIN v = WorldFields /\ v.req = w.req /\ v.tries = w.tries /\ v.peers = w.peers
      /\ v.pool = w.pool /\ v.now = w.now + 1 /\ v.probes = w.probes
  BY <1>1 DEF Global, Shape, WorldFields
<1> HIDE DEF v
<1>4. Global(v)
  <2>1. Shape(v)
    BY <1>1, <1>3 DEF Global, Shape
  <2>2. w.now \in 0 .. setup.maxNow /\ setup.maxNow \in Nat
    BY <1>1, SetupIs DEF Global
  <2>3. v.now \in 0 .. setup.maxNow
    BY <1>1, <1>2, <1>3, <2>2
  <2>4. v.peers \in PeersOf(v.now)
    <3>1. w.peers \in PeersOf(w.now)
      BY <1>1 DEF Global
    <3>2. \A x : x \in 0 .. w.now => x \in 0 .. w.now + 1
      BY <2>2
    <3> QED BY <1>3, <3>1, <3>2 DEF PeersOf
  <2> QED BY <1>1, <1>3, <2>1, <2>3, <2>4 DEF Global
<1>5. \A r \in Requests : v.req[r].st # "connect"
  BY <1>1, <1>3 DEF IInv, Hops, Returned
<1> QED BY <1>1, <1>2, <1>3, <1>4, <1>5, BecomeKeeps

-----------------------------------------------------------------------------
\* The initial states.
LEMMA InitKeeps ==
  ASSUME Init
  PROVE  IInv
<1> DEFINE w == World(Quiet)
<1>1. /\ setup \in Setups /\ tries = [q \in Requests |-> 0] /\ peers = PeersInit /\ pool = <<>> /\ now = 0 /\ hops = 0
      /\ probes = [i \in Index |-> <<-1, -1>>]
      /\ req \in [Requests -> {Fresh(k) : k \in setup.kinds} \union {Never}]
  BY DEF Init
<1>2. /\ w.req = req /\ w.tries = tries /\ w.pool = pool /\ w.peers = peers /\ w.now = now
      /\ w.probes = probes /\ DOMAIN w = WorldFields
  BY DEF World, WorldFields
<1> HIDE DEF w
<1>3. ASSUME NEW k PROVE /\ DOMAIN Fresh(k) = ReqFields /\ Fresh(k).st = "new" /\ Fresh(k).peer = 0
                         /\ Fresh(k).asked = {} /\ Fresh(k).kind = k /\ Fresh(k).keepalive = FALSE
                         /\ Fresh(k).timer = FALSE /\ Fresh(k).d = DataInit(k.key)
  BY DEF Fresh, ReqFields
<1>4. /\ DOMAIN Never = ReqFields /\ Never.st = "done" /\ Never.peer = 0 /\ Never.asked = {} /\ Never.keepalive = FALSE
  BY <1>3 DEF Never, ReqFields
<1>5. \A k \in setup.kinds : DataOK(DataInit(k.key))
  <2>1. \A k \in setup.kinds : k.key \in DOMAIN KeyOrder
    BY <1>1, SetupIs
  <2> QED BY <2>1 DEF DataOK, DataInit
<1>6. ASSUME NEW q \in Requests
      PROVE  /\ DOMAIN req[q] = ReqFields /\ req[q].peer = 0 /\ req[q].st # "connect"
             /\ Basic(req[q], tries[q]) /\ Settled(req[q], tries[q])
  <2>1. req[q] \in {Fresh(k) : k \in setup.kinds} \union {Never} /\ tries[q] = 0
    BY <1>1
  <2>2. 0 \in Counts
    BY <1>1, SetupIs
  <2>3. CASE req[q] = Never
    BY <1>4, <2>1, <2>2, <2>3 DEF Basic, Settled, Asking
  <2>4. ASSUME NEW k \in setup.kinds, req[q] = Fresh(k)
        PROVE  /\ DOMAIN req[q] = ReqFields /\ req[q].peer = 0 /\ req[q].st # "connect"
               /\ Basic(req[q], tries[q]) /\ Settled(req[q], tries[q])
    <3>1. /\ DOMAIN req[q] = ReqFields /\ req[q].st = "new" /\ req[q].peer = 0 /\ req[q].asked = {}
          /\ req[q].kind = k /\ req[q].keepalive = FALSE /\ req[q].timer = FALSE /\ DataOK(req[q].d)
      <4> DEFINE e == Fresh(k)
      <4>1. /\ DOMAIN e = ReqFields /\ e.st = "new" /\ e.peer = 0 /\ e.asked = {}
            /\ e.kind = k /\ e.keepalive = FALSE /\ e.timer = FALSE /\ e.d = DataInit(k.key)
        BY <1>3
      <4>2. DataOK(DataInit(k.key))
        BY <1>5
      <4> HIDE DEF e
      <4>3. req[q] = e
        BY <2>4 DEF e
      <4> QED BY <4>1, <4>2, <4>3
    <3> QED BY <2>1, <2>2, <3>1 DEF Basic, Settled, Asking
  <2> QED BY <2>1, <2>3, <2>4
<1>7. Configured /\ Conf.keep \in Nat /\ setup.maxNow \in Nat
  BY <1>1, SetupIs
<1>8. peers \in PeersOf(now)
  BY <1>1, <1>7 DEF PeersInit, PeersOf, Configured
<1>9. \A i \in Index : peers[i].conns = Cardinality(Holders(req, i)) /\ peers[i].checked = 0
  <2> SUFFICES ASSUME NEW i \in Index PROVE peers[i].conns = Cardinality(Holders(req, i)) /\ peers[i].checked = 0
    OBVIOUS
  <2>1. i # 0
    BY <1>7 DEF Configured
  <2>2. Holders(req, i) = {}
    BY <1>6, <2>1 DEF Holders
  <2> QED BY <1>1, <2>2, FS_EmptySet DEF PeersInit
<1>10. ASSUME NEW b \in BOOLEAN PROVE Over(Current(peers), Group(b)) = 0
  <2> DEFINE g == [i \in Index |-> IF i \in Group(b) THEN Current(peers)[i] ELSE 0]
             n == Len(Servers)
  <2>1. Index = 1 .. n /\ n \in Nat
    BY <1>7 DEF Configured
  <2>2. g = [i \in 1 .. n |-> 0]
    BY <1>1, <2>1 DEF Current, PeersInit
  <2>3. Over(Current(peers), Group(b)) = Sum(g, n)
    BY DEF Over
  <2> HIDE DEF g, n
  <2> QED BY <2>1, <2>2, <2>3, SumOfNone
<1>11. \A i \in Index : /\ probes[i] \in Seq(Int) /\ Len(probes[i]) = 2
                        /\ probes[i][1] = -1 /\ probes[i][2] = -1
  BY <1>1
<1>12. Global(w)
  <2>1. Shape(w)
    BY <1>1, <1>2, <1>6 DEF Shape
  <2>2. pool \in Seq([peer : Index, eof : BOOLEAN, clean : {TRUE}]) /\ Len(pool) <= Conf.keep
    BY <1>1, <1>7
  <2>3. now \in 0 .. setup.maxNow
    BY <1>1, <1>7
  <2>4. \A i \in Index :
          /\ probes[i][1] >= 0 => probes[i][2] - probes[i][1] > Servers[i].failTimeout
          /\ probes[i][2] <= peers[i].checked
    BY <1>9, <1>11
  <2> QED BY <1>2, <1>8, <1>9, <1>10, <1>11, <2>1, <2>2, <2>3, <2>4 DEF Global
<1>13. Hops
  BY <1>1, <1>6 DEF Hops
<1> QED BY <1>1, <1>6, <1>12, <1>13 DEF IInv, w

\* Every step keeps the inductive invariant.
LEMMA NextKeeps ==
  ASSUME IInv, [Next]_vars
  PROVE  IInv'
<1>1. CASE \E q \in Requests : Attempt(q)
  BY <1>1, AttemptKeeps
<1>2. CASE Returned /\ \E q \in Requests : Event(q) \/ ClientGone(q)
  <2>1. PICK q \in Requests : Event(q) \/ ClientGone(q)
    BY <1>2
  <2>2. CASE Start(q)
    BY <1>2, <2>2, StartKeeps
  <2>3. CASE \E ok \in BOOLEAN : Resolved(q, ok) \/ Connected(q, ok)
    BY <1>2, <2>3, ResolvedKeeps, ConnectedKeeps
  <2>4. CASE Writable(q) \/ WriteTimeout(q)
    BY <1>2, <2>4, WritableKeeps
  <2>5. CASE ClientTimeout(q) \/ ReadHeader(q) \/ ReadTimeout(q) \/ ReadBody(q)
    BY <1>2, <2>5, ReadKeeps
  <2>6. CASE ClientStops(q) \/ ClientGone(q)
    BY <1>2, <2>6, ClientKeeps
  <2> QED BY <2>1, <2>2, <2>3, <2>4, <2>5, <2>6 DEF Event
<1>3. CASE Returned /\ \E k \in DOMAIN pool : ServerCloses(k) \/ IdleClosed(k)
  BY <1>3, IdleKeeps
<1>4. CASE Returned /\ Tick
  BY <1>4, TickKeeps
<1>5. CASE UNCHANGED vars
  <2>1. /\ req' = req /\ tries' = tries /\ peers' = peers /\ pool' = pool /\ now' = now
        /\ probes' = probes /\ setup' = setup /\ hops' = hops
    BY <1>5 DEF vars
  <2>2. /\ Servers' = Servers /\ Index' = Index /\ Conf' = Conf /\ Counts' = Counts /\ TriesInit' = TriesInit
        /\ KeyOrder' = KeyOrder /\ HopsMax' = HopsMax
    BY <2>1 DEF Servers, Index, Conf, Counts, TriesInit, KeyOrder, HopsMax
  <2> DEFINE w == World(Quiet)
  <2>3. w' = w
    BY <2>1 DEF World, Quiet
  <2>4. Global(w)
    BY DEF IInv
  <2> HIDE DEF w
  <2>5. Global(w)'
    BY <2>1, <2>2, <2>3, <2>4 DEF Global, Shape, PeersOf, Over, Group, Current, Holders
  <2>6. \A r \in Requests : (Basic(req[r], tries[r]) /\ Settled(req[r], tries[r]))'
    BY <2>1, <2>2 DEF IInv, Basic, Settled, DataOK, NoRepeat
  <2>7. Hops'
    BY <2>1, <2>2 DEF IInv, Hops
  <2>8. setup' \in Setups
    BY <2>1 DEF IInv
  <2> QED BY <2>5, <2>6, <2>7, <2>8 DEF IInv, w
<1> QED BY <1>1, <1>2, <1>3, <1>4, <1>5 DEF Next

\* What the invariant says of each property.
LEMMA IInvGives ==
  ASSUME IInv
  PROVE  Inv /\ AskedOnce /\ Quarantine
<1>1. /\ Global(World(Quiet)) /\ Hops /\ setup \in Setups
      /\ \A q \in Requests : Basic(req[q], tries[q]) /\ Settled(req[q], tries[q])
  BY DEF IInv
<1> DEFINE w == World(Quiet)
<1>2. w.req = req /\ w.pool = pool /\ w.peers = peers /\ w.now = now /\ w.probes = probes
  BY DEF World
<1> HIDE DEF w
<1>3. /\ now \in 0 .. setup.maxNow /\ peers \in PeersOf(now)
      /\ \A i \in Index : peers[i].conns = Cardinality(Holders(req, i))
      /\ \A b \in BOOLEAN : Over(Current(peers), Group(b)) = 0
      /\ pool \in Seq([peer : Index, eof : BOOLEAN, clean : {TRUE}]) /\ Len(pool) <= Conf.keep
      /\ \A i \in Index : probes[i][1] >= 0 => probes[i][2] - probes[i][1] > Servers[i].failTimeout
  BY <1>1, <1>2 DEF Global, w
<1>4. TypeOK
  <2>1. \A i \in Index : Cardinality(Holders(req, i)) \in Nat
    <3>1. \A i \in Index : IsFiniteSet(Holders(req, i))
      <4>1. \A i \in Index : Holders(req, i) \subseteq Requests
        BY DEF Holders
      <4> QED BY <1>1, <4>1, SetupIs, FS_Subset
    <3> QED BY <3>1, FS_CardinalityType
  <2>2. \A i \in Index : peers[i].effective \in 0 .. Servers[i].weight /\ peers[i].conns \in Nat
    BY <1>3, <2>1 DEF PeersOf
  <2>3. \A q \in Requests :
       /\ req[q].st \in {"new", "resolving", "connect", "connecting", "handshake", "open", "done"}
       /\ req[q].peer \in Index \union {0} /\ tries[q] \in Counts
    BY <1>1 DEF Basic, Asking
  <2> QED BY <1>3, <2>2, <2>3 DEF TypeOK
<1>5. ConnsAreHeld
  <2>1. \A q \in Requests : (Live(q) /\ req[q].st \notin {"resolving", "connect"}) <=> req[q].peer # 0
    BY <1>1 DEF Basic, Settled, Asking, Live
  <2> QED BY <1>3, <2>1 DEF ConnsAreHeld, Holders
<1>6. WeightsBalance
  BY <1>3 DEF WeightsBalance
<1>7. PooledAreClean
  <2> DEFINE S == [peer : Index, eof : BOOLEAN, clean : {TRUE}]
  <2>1. \A x \in S : x.clean = TRUE
    OBVIOUS
  <2>2. pool \in Seq(S)
    BY <1>3
  <2> HIDE DEF S
  <2>3. \A k \in DOMAIN pool : pool[k] \in S
    BY <2>2
  <2> QED BY <2>1, <2>3 DEF PooledAreClean
<1>8. HandlersReturn
  <2>1. TriesInit \in Nat /\ Conf.keep \in Nat /\ Counts = 0 .. TriesInit /\ hops \in Nat /\ Len(pool) \in Nat
    BY <1>1, <1>3, SetupIs DEF Hops
  <2>2. CASE hops = 0
    BY <2>1, <2>2 DEF HandlersReturn, HopsMax
  <2>3. CASE hops > 0
    <3>1. PICK q \in Requests : req[q].st = "connect"
      BY <1>1, <2>3 DEF Hops
    <3>2. tries[q] \in Counts /\ tries[q] > 0
      BY <1>1, <3>1 DEF Basic, Settled
    <3>3. hops + tries[q] + Len(pool) <= HopsMax + 1
      BY <1>1, <3>1 DEF Hops
    <3>4. HopsMax \in Int /\ tries[q] \in Int /\ tries[q] >= 1
      BY <2>1, <3>2 DEF HopsMax
    <3>5. ASSUME NEW h \in Nat, NEW t \in Int, NEW l \in Nat, NEW m \in Int, t >= 1, h + t + l <= m + 1 PROVE h <= m
      BY <3>5
    <3> QED BY <2>1, <3>3, <3>4, <3>5 DEF HandlersReturn
  <2> QED BY <2>1, <2>2, <2>3
<1>9. AskedOnce
  <2> SUFFICES ASSUME NEW q \in Requests, NoRepeat(req[q].kind) PROVE Cardinality(req[q].asked) <= 1
    BY DEF AskedOnce, NoRepeat
  <2>1. req[q].asked = {} \/ \E x \in Index : req[q].asked = {x}
    BY <1>1 DEF Basic
  <2>2. \A x : Cardinality({x}) = 1
    BY FS_Singleton
  <2>3. Cardinality({}) = 0
    BY FS_EmptySet
  <2>4. CASE req[q].asked = {}
    BY <2>3, <2>4
  <2>5. ASSUME NEW x \in Index, req[q].asked = {x} PROVE Cardinality(req[q].asked) <= 1
    <3>1. Cardinality({x}) = 1
      BY <2>2
    <3> QED BY <2>5, <3>1
  <2> QED BY <2>1, <2>4, <2>5
<1>10. Quarantine
  BY <1>3 DEF Quarantine
<1> QED BY <1>4, <1>5, <1>6, <1>7, <1>8, <1>9, <1>10 DEF Inv

\* For any setup and any requests: a server counts exactly the connections of those that
\* hold it (peer.free is called once for each peer.get), its weights balance, what the
\* keepalive module pools is clean and fits, and a handler that goes from server to
\* server comes back to the event loop.
THEOREM UpstreamIsSafe == Spec => []Inv
<1>1. Init => IInv
  BY InitKeeps
<1>2. IInv /\ [Next]_vars => IInv'
  BY NextKeeps
<1>3. IInv => Inv
  BY IInvGives
<1> QED BY <1>1, <1>2, <1>3, PTL DEF Spec

\* For any setup: a request that may not be repeated (a POST, or with proxy_next_upstream
\* as configured) is written to one server (ngx_http_upstream_next, u->request_sent).
THEOREM AsksOnce == Spec => []AskedOnce
<1>1. Init => IInv
  BY InitKeeps
<1>2. IInv /\ [Next]_vars => IInv'
  BY NextKeeps
<1>3. IInv => AskedOnce
  BY IInvGives
<1> QED BY <1>1, <1>2, <1>3, PTL DEF Spec

\* For any setup: a server that failed max_fails times is probed at most once in its
\* fail_timeout window, whatever the requests' order (peer->checked in peer.get).
THEOREM FailedIsSpared == Spec => []Quarantine
<1>1. Init => IInv
  BY InitKeeps
<1>2. IInv /\ [Next]_vars => IInv'
  BY NextKeeps
<1>3. IInv => Quarantine
  BY IInvGives
<1> QED BY <1>1, <1>2, <1>3, PTL DEF Spec
=============================================================================
