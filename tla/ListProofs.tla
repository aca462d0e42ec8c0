----------------------------- MODULE ListProofs -----------------------------
(***************************************************************************)
(* Facts about numbers, counts and lists that the proofs of the components  *)
(* of leapvalue rest on.                                                    *)
(***************************************************************************)
EXTENDS Lists, FiniteSetTheorems, SequenceTheorems, WellFoundedInduction, TLAPS

At(q, i) == {p \in DOMAIN q : q[p].node = i}
Pointed(q, i, r) == IF q[r].node = i THEN 1 ELSE 0

-----------------------------------------------------------------------------
(* Sets and sequences.                                                       *)
\* A set of numbers that is not empty has a least member, and a greatest if bounded.
Less == {ss \in Nat \X Nat : ss[1] < ss[2]}

\* Numbers are well ordered.
LEMMA LeastNumber ==
  ASSUME NEW T \in SUBSET Nat, T # {}
  PROVE  \E x \in T : \A y \in T : x <= y
<1>1. OpToRel(<, Nat) = Less
  BY Zenon DEF OpToRel, Less
<1>2. IsWellFoundedOn(Less, Nat)
  BY NatLessThanWellFounded, <1>1, Zenon
<1>3. PICK x \in T : \A y \in T : ~(<<y, x>> \in Less)
  BY <1>2, WFMin, Zenon
<1>4. \A y \in T : ~(y < x)
  BY <1>3 DEF Less
<1> QED BY <1>4

\* Min of a set of numbers is its least.
LEMMA MinIn ==
  ASSUME NEW T \in SUBSET Nat, T # {}
  PROVE  Min(T) \in T /\ \A y \in T : Min(T) <= y
BY LeastNumber DEF Min

\* Max of a set of numbers up to n is one of them.
LEMMA MaxIn ==
  ASSUME NEW n \in Nat, NEW T \in SUBSET (1 .. n), T # {}
  PROVE  Max(T) \in T
<1> DEFINE D == {z \in Nat : n - z \in T}
<1>1. PICK y \in T : y \in 1 .. n
  OBVIOUS
<1>2. n - y \in D
  BY <1>1
<1>3. PICK z \in D : \A y1 \in D : z <= y1
  BY <1>2, LeastNumber
<1>4. ASSUME NEW y1 \in T PROVE n - z >= y1
  <2>1. y1 \in 1 .. n /\ n - y1 \in D
    OBVIOUS
  <2>2. z <= n - y1 /\ z \in Nat
    BY <1>3, <2>1
  <2> QED BY <2>1, <2>2
<1>5. n - z \in T
  BY <1>3
<1> QED BY <1>4, <1>5 DEF Max

\* How many point to a node changes with the one that points elsewhere.
LEMMA PointsElsewhere ==
  ASSUME NEW q, NEW p, IsFiniteSet(DOMAIN q), DOMAIN p = DOMAIN q, NEW r \in DOMAIN q,
         \A s \in DOMAIN q \ {r} : p[s].node = q[s].node, NEW i
  PROVE  /\ Cardinality(At(q, i)) \in Nat /\ Cardinality(At(p, i)) \in Nat
         /\ Cardinality(At(p, i)) = Cardinality(At(q, i)) - Pointed(q, i, r) + Pointed(p, i, r)
<1>1. IsFiniteSet(At(q, i)) /\ IsFiniteSet(At(p, i))
  BY FS_Subset DEF At
<1>2. Cardinality(At(q, i)) \in Nat /\ Cardinality(At(p, i)) \in Nat
  BY <1>1, FS_CardinalityType
<1>3. At(q, i) \ {r} = At(p, i) \ {r}
  BY DEF At
<1>4. /\ Cardinality(At(q, i) \ {r}) = IF r \in At(q, i) THEN Cardinality(At(q, i)) - 1 ELSE Cardinality(At(q, i))
      /\ Cardinality(At(p, i) \ {r}) = IF r \in At(p, i) THEN Cardinality(At(p, i)) - 1 ELSE Cardinality(At(p, i))
  BY <1>1, FS_RemoveElement, Zenon
<1>5. Cardinality(At(q, i) \ {r}) = Cardinality(At(p, i) \ {r})
  BY <1>3, Zenon
<1>6. (r \in At(q, i) <=> q[r].node = i) /\ (r \in At(p, i) <=> p[r].node = i)
  BY DEF At
<1>7. CASE q[r].node = i /\ p[r].node = i
  BY <1>2, <1>4, <1>5, <1>6, <1>7 DEF Pointed
<1>8. CASE q[r].node = i /\ p[r].node # i
  BY <1>2, <1>4, <1>5, <1>6, <1>8 DEF Pointed
<1>9. CASE q[r].node # i /\ p[r].node = i
  BY <1>2, <1>4, <1>5, <1>6, <1>9 DEF Pointed
<1>10. CASE q[r].node # i /\ p[r].node # i
  BY <1>2, <1>4, <1>5, <1>6, <1>10 DEF Pointed
<1> QED BY <1>7, <1>8, <1>9, <1>10

\* Nothing is counted where no one points.
LEMMA NonePoint ==
  ASSUME NEW q, IsFiniteSet(DOMAIN q), NEW i, Cardinality(At(q, i)) = 0
  PROVE  \A r \in DOMAIN q : q[r].node # i
<1>1. IsFiniteSet(At(q, i))
  BY FS_Subset DEF At
<1> QED BY <1>1, FS_EmptySet DEF At

\* Removing an element from a list that has each once removes exactly that.
LEMMA WithoutOne ==
  ASSUME NEW S, NEW q \in Seq(S), IsInjective(q), NEW i
  PROVE  /\ Without(q, i) \in Seq(S) /\ IsInjective(Without(q, i))
         /\ Range(Without(q, i)) = Range(q) \ {i}
<1>1. CASE i \notin Range(q)
  BY <1>1 DEF Without
<1>2. CASE i \in Range(q)
  <2> DEFINE x == CHOOSE x \in DOMAIN q : q[x] = i
             v == RemoveAt(q, x)
  <2>1. x \in 1 .. Len(q) /\ q[x] = i
    BY <1>2 DEF Range
  <2> DEFINE a == SubSeq(q, 1, x - 1)
             b == SubSeq(q, x + 1, Len(q))
  <2> HIDE DEF x
  <2>a. a \in Seq(S) /\ Len(a) = x - 1 /\ \A j \in 1 .. x - 1 : a[j] = q[j]
    BY <2>1, SubSeqProperties
  <2>b. b \in Seq(S) /\ Len(b) = Len(q) - x /\ \A j \in 1 .. Len(q) - x : b[j] = q[x + j]
    BY <2>1, SubSeqProperties
  <2>c. v = a \o b
    BY DEF RemoveAt
  <2> HIDE DEF a, b, v
  <2>d. /\ v \in Seq(S) /\ Len(v) = Len(a) + Len(b)
        /\ \A j \in 1 .. Len(a) + Len(b) : v[j] = IF j <= Len(a) THEN a[j] ELSE b[j - Len(a)]
    BY <2>a, <2>b, <2>c, ConcatProperties, Zenon
  <2>2. /\ v \in Seq(S) /\ Len(v) = Len(q) - 1
        /\ \A j \in 1 .. Len(q) - 1 : v[j] = IF j < x THEN q[j] ELSE q[j + 1]
    <3>1. Len(a) + Len(b) = Len(q) - 1 /\ Len(a) = x - 1
      BY <2>1, <2>a, <2>b
    <3>2. ASSUME NEW j \in 1 .. Len(q) - 1 PROVE v[j] = IF j < x THEN q[j] ELSE q[j + 1]
      <4>1. v[j] = IF j <= x - 1 THEN a[j] ELSE b[j - (x - 1)]
        BY <2>d, <3>1
      <4>2. CASE j < x
        <5>1. j \in 1 .. x - 1
          BY <2>1, <4>2
        <5> QED BY <2>1, <4>1, <5>1, <2>a
      <4>3. CASE ~(j < x)
        <5>1. j - (x - 1) \in 1 .. Len(q) - x /\ x + (j - (x - 1)) = j + 1
          BY <2>1, <4>3
        <5> QED BY <2>1, <4>1, <4>3, <5>1, <2>b
      <4> QED BY <4>2, <4>3
    <3> QED BY <2>d, <3>1, <3>2
  <2>3. DOMAIN v = 1 .. Len(q) - 1 /\ DOMAIN q = 1 .. Len(q)
    BY <2>2
  <2>4. IsInjective(v)
    BY <2>1, <2>2, <2>3 DEF IsInjective
  <2>5. ASSUME NEW e \in Range(v) PROVE e \in Range(q) \ {i}
    BY <2>1, <2>2, <2>3 DEF Range, IsInjective
  <2>6. ASSUME NEW e \in Range(q) \ {i} PROVE e \in Range(v)
    <3>1. PICK j \in 1 .. Len(q) : q[j] = e /\ j # x
      BY <2>1, <2>3 DEF Range
    <3>2. CASE j < x
      BY <2>1, <2>2, <2>3, <3>1, <3>2 DEF Range
    <3>3. CASE j > x
      <4>1. j - 1 \in DOMAIN v /\ v[j - 1] = e
        BY <2>1, <2>2, <2>3, <3>1, <3>3
      <4> QED BY <4>1 DEF Range
    <3> QED BY <2>1, <3>1, <3>2, <3>3
  <2>7. Without(q, i) = v
    BY <1>2 DEF Without, x, v
  <2> QED BY <2>2, <2>4, <2>5, <2>6, <2>7
<1> QED BY <1>1, <1>2

\* A new element at the head of a list.
LEMMA PutFirst ==
  ASSUME NEW S, NEW q \in Seq(S), IsInjective(q), NEW i \in S, i \notin Range(q)
  PROVE  /\ <<i>> \o q \in Seq(S) /\ IsInjective(<<i>> \o q)
         /\ Range(<<i>> \o q) = Range(q) \union {i}
<1> DEFINE v == <<i>> \o q
<1>1. /\ v \in Seq(S) /\ Len(v) = Len(q) + 1 /\ v[1] = i
      /\ \A j \in 1 .. Len(q) : v[j + 1] = q[j]
  OBVIOUS
<1>2. DOMAIN v = 1 .. Len(q) + 1 /\ DOMAIN q = 1 .. Len(q)
  BY <1>1
<1>3. \A j \in 2 .. Len(q) + 1 : v[j] = q[j - 1] /\ j - 1 \in 1 .. Len(q)
  BY <1>1
<1> HIDE DEF v
<1>4. IsInjective(v)
  <2> SUFFICES ASSUME NEW x \in DOMAIN v, NEW y \in DOMAIN v, v[x] = v[y] PROVE x = y
    BY DEF IsInjective
  <2>1. ASSUME NEW z \in 2 .. Len(q) + 1 PROVE v[z] # i
    BY <1>1, <1>2, <1>3 DEF Range
  <2>2. CASE x = 1 \/ y = 1
    BY <1>1, <1>2, <2>1, <2>2
  <2>3. CASE x # 1 /\ y # 1
    BY <1>2, <1>3, <2>3 DEF IsInjective
  <2> QED BY <2>2, <2>3
<1>5. Range(v) = Range(q) \union {i}
  <2>1. ASSUME NEW e \in Range(v) PROVE e \in Range(q) \union {i}
    BY <1>1, <1>2, <1>3 DEF Range
  <2>2. ASSUME NEW e \in Range(q) \union {i} PROVE e \in Range(v)
    <3>1. CASE e = i
      BY <1>1, <1>2, <3>1 DEF Range
    <3>2. CASE e \in Range(q)
      <4>1. PICK j \in 1 .. Len(q) : q[j] = e
        BY <3>2, <1>2 DEF Range
      <4>2. j + 1 \in DOMAIN v /\ v[j + 1] = e
        BY <4>1, <1>1, <1>2
      <4> QED BY <4>2 DEF Range
    <3> QED BY <3>1, <3>2
  <2> QED BY <2>1, <2>2
<1> QED BY <1>1, <1>4, <1>5 DEF v

\* A list cut in two and joined the other way round has the same elements.
LEMMA Rotate ==
  ASSUME NEW S, NEW q \in Seq(S), IsInjective(q), NEW x \in 0 .. Len(q)
  PROVE  LET v == SubSeq(q, x + 1, Len(q)) \o SubSeq(q, 1, x)
         IN  v \in Seq(S) /\ IsInjective(v) /\ Range(v) = Range(q)
<1> DEFINE n == Len(q)
           a == SubSeq(q, x + 1, n)
           b == SubSeq(q, 1, x)
           v == a \o b
<1>0. n \in Nat /\ x \in 0 .. n /\ DOMAIN q = 1 .. n
  OBVIOUS
<1>a. a \in Seq(S) /\ Len(a) = n - x /\ \A j \in 1 .. n - x : a[j] = q[x + j]
  BY SubSeqProperties
<1>b. b \in Seq(S) /\ Len(b) = x /\ \A j \in 1 .. x : b[j] = q[j]
  BY SubSeqProperties
<1> HIDE DEF a, b, n
<1>1. /\ v \in Seq(S) /\ Len(v) = n
      /\ \A j \in 1 .. n : v[j] = IF j <= n - x THEN q[x + j] ELSE q[j - (n - x)]
  <2>1. v \in Seq(S) /\ Len(v) = Len(a) + Len(b)
    BY <1>a, <1>b, ConcatProperties
  <2>2. \A j \in 1 .. Len(a) + Len(b) : v[j] = IF j <= Len(a) THEN a[j] ELSE b[j - Len(a)]
    BY <1>a, <1>b, ConcatProperties
  <2> HIDE DEF v
  <2>3. Len(a) + Len(b) = n /\ Len(a) = n - x
    BY <1>0, <1>a, <1>b
  <2>4. ASSUME NEW j \in 1 .. n PROVE v[j] = IF j <= n - x THEN q[x + j] ELSE q[j - (n - x)]
    <3>1. v[j] = IF j <= n - x THEN a[j] ELSE b[j - (n - x)]
      BY <2>2, <2>3
    <3>2. CASE j <= n - x
      BY <1>0, <1>a, <3>1, <3>2
    <3>3. CASE ~(j <= n - x)
      <4>1. j - (n - x) \in 1 .. x
        BY <1>0, <3>3
      <4> QED BY <1>b, <3>1, <3>3, <4>1
    <3> QED BY <3>2, <3>3
  <2> QED BY <2>1, <2>3, <2>4
<1> HIDE DEF v
<1>2. DOMAIN v = 1 .. n /\ DOMAIN q = 1 .. n /\ x \in 0 .. n /\ n \in Nat
  BY <1>0, <1>1
<1> DEFINE g(j) == IF j <= n - x THEN x + j ELSE j - (n - x)
<1>g. ASSUME NEW j \in 1 .. n PROVE g(j) \in 1 .. n /\ v[j] = q[g(j)]
  BY <1>1, <1>2
<1>3. IsInjective(v)
  <2> SUFFICES ASSUME NEW j \in 1 .. n, NEW k \in 1 .. n, v[j] = v[k] PROVE j = k
    BY <1>2 DEF IsInjective
  <2>1. g(j) = g(k)
    <3> HIDE DEF g
    <3> QED BY <1>g, <1>2 DEF IsInjective
  <2> QED BY <1>2, <2>1
<1>4. ASSUME NEW e \in Range(v) PROVE e \in Range(q)
  <2>1. PICK j \in 1 .. n : v[j] = e
    BY <1>2 DEF Range
  <2> HIDE DEF g
  <2> QED BY <1>2, <2>1, <1>g DEF Range
<1>5. ASSUME NEW e \in Range(q) PROVE e \in Range(v)
  <2>1. PICK j \in 1 .. n : q[j] = e
    BY <1>2 DEF Range
  <2>2. CASE j > x
    <3>1. j - x \in DOMAIN v /\ v[j - x] = e
      BY <1>1, <1>2, <2>1, <2>2
    <3> QED BY <3>1 DEF Range
  <2>3. CASE j <= x
    <3>1. j + (n - x) \in DOMAIN v /\ v[j + (n - x)] = e
      BY <1>1, <1>2, <2>1, <2>3
    <3> QED BY <3>1 DEF Range
  <2> QED BY <1>2, <2>1, <2>2, <2>3
<1> QED BY <1>1, <1>3, <1>4, <1>5 DEF v, a, b, n

\* SetToSeq lists every member of a set once.
LEMMA SetToSeqIs ==
  ASSUME NEW S, IsFiniteSet(S)
  PROVE  LET q == SetToSeq(S) IN
         /\ Cardinality(S) \in Nat /\ q \in [1 .. Cardinality(S) -> S] /\ q \in Seq(S) /\ Len(q) = Cardinality(S)
         /\ IsInjective(q) /\ Range(q) = S
<1> DEFINE n == Cardinality(S)
           q == SetToSeq(S)
<1>1. n \in Nat /\ ExistsBijection(1 .. n, S)
  BY FS_CardinalityType
<1>2. Bijection(1 .. n, S) # {}
  BY <1>1 DEF ExistsBijection
<1>3. \E f \in [1 .. n -> S] : IsInjective(f)
  BY <1>2 DEF Bijection, Injection
<1>4. q \in [1 .. n -> S] /\ IsInjective(q)
  BY <1>3 DEF SetToSeq
<1> HIDE DEF q, n
<1>5. q \in Seq(S) /\ Len(q) = n
  BY <1>1, <1>4
<1>6. q \in Surjection(1 .. n, S)
  <2>1. q \in Injection(1 .. n, S)
    BY <1>4 DEF Injection, IsInjective
  <2>2. Cardinality(1 .. n) = Cardinality(S)
    BY <1>1, FS_Interval DEF n
  <2> QED BY ONLY IsFiniteSet(S), <2>1, <2>2, FS_Injection
<1>7. Range(q) = S
  BY <1>4, <1>6 DEF Surjection, Range
<1> QED BY <1>1, <1>4, <1>5, <1>7 DEF q, n

\* What is left of such a sequence after its first element, and with one more at its end.
LEMMA TakeFirst ==
  ASSUME NEW S, NEW q \in Seq(S), IsInjective(q), q # <<>>
  PROVE  /\ Tail(q) \in Seq(S) /\ IsInjective(Tail(q)) /\ Len(Tail(q)) = Len(q) - 1
         /\ Head(q) \in Range(q) /\ Head(q) \in S /\ Range(Tail(q)) = Range(q) \ {Head(q)}
<1> DEFINE v == Tail(q)
<1>1. /\ v \in Seq(S) /\ Len(q) \in Nat \ {0} /\ Len(v) = Len(q) - 1
      /\ \A j \in 1 .. Len(q) - 1 : v[j] = q[j + 1]
  OBVIOUS
<1>2. DOMAIN v = 1 .. Len(q) - 1 /\ DOMAIN q = 1 .. Len(q) /\ Head(q) = q[1] /\ Head(q) \in S
  BY <1>1
<1> HIDE DEF v
<1>3. IsInjective(v)
  BY <1>1, <1>2 DEF IsInjective
<1>4. Head(q) \in Range(q)
  BY <1>1, <1>2 DEF Range
<1>5. ASSUME NEW e \in Range(v) PROVE e \in Range(q) \ {Head(q)}
  <2>1. PICK j \in 1 .. Len(q) - 1 : v[j] = e
    BY <1>2 DEF Range
  <2>2. j + 1 \in DOMAIN q /\ q[j + 1] = e /\ 1 \in DOMAIN q /\ j + 1 # 1
    BY <2>1, <1>1, <1>2
  <2> QED BY <2>2, <1>2 DEF Range, IsInjective
<1>6. ASSUME NEW e \in Range(q) \ {Head(q)} PROVE e \in Range(v)
  <2>1. PICK j \in 1 .. Len(q) : q[j] = e
    BY <1>2 DEF Range
  <2>2. j # 1 /\ j - 1 \in DOMAIN v /\ v[j - 1] = e
    BY <2>1, <1>1, <1>2
  <2> QED BY <2>2 DEF Range
<1> QED BY <1>1, <1>2, <1>3, <1>4, <1>5, <1>6 DEF v

\* A new element at the end of a list.
LEMMA PutLast ==
  ASSUME NEW S, NEW q \in Seq(S), IsInjective(q), NEW i \in S, i \notin Range(q)
  PROVE  /\ Append(q, i) \in Seq(S) /\ IsInjective(Append(q, i))
         /\ Range(Append(q, i)) = Range(q) \union {i}
<1> DEFINE v == Append(q, i)
           n == Len(q)
<1>1. /\ v \in Seq(S) /\ n \in Nat /\ Len(v) = n + 1 /\ v[n + 1] = i
      /\ \A j \in 1 .. n : v[j] = q[j]
  OBVIOUS
<1>2. DOMAIN v = 1 .. n + 1 /\ DOMAIN q = 1 .. n
  BY <1>1
<1> HIDE DEF v, n
<1>3. \A z \in 1 .. n : v[z] # i
  BY <1>1, <1>2 DEF Range
<1>4. IsInjective(v)
  <2> SUFFICES ASSUME NEW x \in DOMAIN v, NEW y \in DOMAIN v, v[x] = v[y] PROVE x = y
    BY DEF IsInjective
  <2>2. CASE x = n + 1 \/ y = n + 1
    BY <1>1, <1>2, <1>3, <2>2
  <2>3. CASE x # n + 1 /\ y # n + 1
    BY <1>1, <1>2, <2>3 DEF IsInjective
  <2> QED BY <2>2, <2>3
<1>5. Range(v) = Range(q) \union {i}
  <2>1. ASSUME NEW e \in Range(v) PROVE e \in Range(q) \union {i}
    <3>1. PICK j \in 1 .. n + 1 : v[j] = e
      BY <1>2 DEF Range
    <3>2. CASE j = n + 1
      BY <3>1, <3>2, <1>1
    <3>3. CASE j # n + 1
      BY <3>1, <3>3, <1>1, <1>2 DEF Range
    <3> QED BY <3>2, <3>3
  <2>2. ASSUME NEW e \in Range(q) \union {i} PROVE e \in Range(v)
    <3>1. CASE e = i
      BY <1>1, <1>2, <3>1 DEF Range
    <3>2. CASE e \in Range(q)
      <4>1. PICK j \in 1 .. n : q[j] = e
        BY <3>2, <1>2 DEF Range
      <4>2. j \in DOMAIN v /\ v[j] = e
        BY <4>1, <1>1, <1>2
      <4> QED BY <4>2 DEF Range
    <3> QED BY <3>1, <3>2
  <2> QED BY <2>1, <2>2
<1> QED BY <1>1, <1>4, <1>5 DEF v

\* A sequence of numbers that has none twice is no longer than there are numbers.
LEMMA ShortList ==
  ASSUME NEW n \in Nat, NEW q \in Seq(1 .. n), IsInjective(q)
  PROVE  Len(q) \in Nat /\ Len(q) <= n
<1>1. Len(q) \in Nat /\ q \in [1 .. Len(q) -> 1 .. n] /\ DOMAIN q = 1 .. Len(q)
  OBVIOUS
<1>2. q \in Injection(1 .. Len(q), 1 .. n)
  BY <1>1 DEF Injection, IsInjective
<1>3. ASSUME NEW k \in Nat PROVE IsFiniteSet(1 .. k) /\ Cardinality(1 .. k) = k
  BY FS_Interval
<1>4. /\ IsFiniteSet(1 .. n) /\ Cardinality(1 .. n) = n
      /\ Cardinality(1 .. Len(q)) = Len(q)
  BY <1>1, <1>3
<1> QED BY <1>1, <1>2, <1>4, FS_Injection

-----------------------------------------------------------------------------
(* Sums.                                                                     *)
\* What the recursion of Sum defines.
Sums(s, f, n) == s = [k \in 0 .. n |-> IF k = 0 THEN 0 ELSE s[k - 1] + f[k]]

\* Sum is read off the recursion it chooses.
LEMMA SumIs ==
  ASSUME NEW f, NEW n \in Nat
  PROVE  Sum(f, n) = (CHOOSE s : Sums(s, f, n))[n]
BY Zenon DEF Sum, Sums

\* The recursion has a solution for every f and n: were there a least n without one,
\* that of n - 1 would extend to it.
LEMMA SumsExist ==
  ASSUME NEW f, NEW n \in Nat
  PROVE  \E s : Sums(s, f, n)
<1> DEFINE T == {k \in Nat : ~\E s : Sums(s, f, k)}
<1> SUFFICES ASSUME T # {} PROVE FALSE
  OBVIOUS
<1>1. PICK m \in T : \A y \in T : m <= y
  BY LeastNumber
<1>2. CASE m = 0
  <2>1. Sums([k \in 0 .. 0 |-> 0], f, 0)
    BY DEF Sums
  <2> QED BY <1>2, <2>1
<1>3. CASE m # 0
  <2>1. m - 1 \in Nat /\ m - 1 \notin T
    BY <1>1, <1>3
  <2>2. PICK s : Sums(s, f, m - 1)
    BY <2>1
  <2> DEFINE t == [k \in 0 .. m |-> IF k = m THEN s[m - 1] + f[m] ELSE s[k]]
  <2>3. \A k \in 0 .. m : t[k] = IF k = 0 THEN 0 ELSE t[k - 1] + f[k]
    <3> SUFFICES ASSUME NEW k \in 0 .. m PROVE t[k] = IF k = 0 THEN 0 ELSE t[k - 1] + f[k]
      OBVIOUS
    <3>0. \A j \in 0 .. m - 1 : s[j] = IF j = 0 THEN 0 ELSE s[j - 1] + f[j]
      BY <2>2 DEF Sums
    <3>1. CASE k = m
      BY <3>1, <1>3, <1>1
    <3>2. CASE k # m
      <4>1. k \in 0 .. m - 1 /\ t[k] = s[k]
        BY <3>2, <1>1
      <4>2. k # 0 => t[k - 1] = s[k - 1]
        BY <3>2, <1>1
      <4> QED BY <4>1, <4>2, <3>0
    <3> QED BY <3>1, <3>2
  <2>4. Sums(t, f, m)
    BY <2>3 DEF Sums
  <2> QED BY <2>4
<1> QED BY <1>2, <1>3

\* The recursion has one solution.
LEMMA SumsAgree ==
  ASSUME NEW f, NEW n \in Nat, NEW m \in Nat, n <= m, NEW s, Sums(s, f, n), NEW t, Sums(t, f, m),
         NEW k \in 0 .. n
  PROVE  s[k] = t[k]
<1> DEFINE T == {j \in 0 .. n : s[j] # t[j]}
<1> SUFFICES ASSUME T # {} PROVE FALSE
  OBVIOUS
<1>0. T \in SUBSET Nat
  OBVIOUS
<1>1. PICK j \in T : \A y \in T : j <= y
  BY <1>0, LeastNumber
<1>2. /\ s[j] = IF j = 0 THEN 0 ELSE s[j - 1] + f[j]
      /\ t[j] = IF j = 0 THEN 0 ELSE t[j - 1] + f[j]
  <2>1. j \in 0 .. n /\ j \in 0 .. m
    BY <1>1
  <2> QED BY <2>1 DEF Sums
<1>3. CASE j = 0
  BY <1>1, <1>2, <1>3
<1>4. CASE j # 0
  <2>1. j - 1 \in 0 .. n /\ j - 1 \notin T
    BY <1>1, <1>4
  <2>2. s[j - 1] = t[j - 1]
    BY <2>1
  <2> QED BY <1>1, <1>2, <1>4, <2>2
<1> QED BY <1>3, <1>4

\* The equations of Sum that the proofs use in place of its recursion.
LEMMA SumStep ==
  ASSUME NEW f, NEW n \in Nat
  PROVE  Sum(f, 0) = 0 /\ Sum(f, n + 1) = Sum(f, n) + f[n + 1]
<1>1. PICK z : z = (CHOOSE s : Sums(s, f, 0)) /\ Sums(z, f, 0)
  BY SumsExist
<1>2. PICK s : s = (CHOOSE r : Sums(r, f, n)) /\ Sums(s, f, n)
  BY SumsExist
<1>3. PICK t : t = (CHOOSE r : Sums(r, f, n + 1)) /\ Sums(t, f, n + 1)
  BY SumsExist
<1>4. Sum(f, 0) = 0
  <2>1. Sum(f, 0) = z[0]
    BY <1>1, SumIs
  <2>2. z[0] = 0
    BY <1>1 DEF Sums
  <2> QED BY <2>1, <2>2
<1>5. Sum(f, n) = s[n] /\ Sum(f, n + 1) = t[n + 1]
  BY <1>2, <1>3, SumIs
<1>6. t[n + 1] = t[n] + f[n + 1]
  BY <1>3 DEF Sums
<1>7. s[n] = t[n]
  BY <1>2, <1>3, SumsAgree
<1> QED BY <1>4, <1>5, <1>6, <1>7

-----------------------------------------------------------------------------
\* Sums of whole numbers are whole, and add up term by term: where every term of h
\* is that of f and of g together, and one of them x more.
LEMMA SumTyped ==
  ASSUME NEW n \in Nat, NEW f \in [1 .. n -> Int], NEW k \in 0 .. n
  PROVE  Sum(f, k) \in Int
<1> DEFINE T == {j \in 0 .. n : Sum(f, j) \notin Int}
<1> SUFFICES ASSUME T # {} PROVE FALSE
  OBVIOUS
<1> HIDE DEF T
<1>0. T \in SUBSET Nat
  BY DEF T
<1>1. PICK m \in T : \A y \in T : m <= y
  BY <1>0, LeastNumber
<1>2. CASE m = 0
  BY <1>2, <1>1, SumStep DEF T
<1>3. CASE m # 0
  <2>1. m - 1 \in 0 .. n /\ m - 1 \notin T /\ m \in 1 .. n
    BY <1>1, <1>3 DEF T
  <2>2. Sum(f, m - 1) \in Int /\ f[m] \in Int
    BY <2>1 DEF T
  <2>3. Sum(f, (m - 1) + 1) = Sum(f, m - 1) + f[(m - 1) + 1]
    BY <2>1, SumStep
  <2>4. (m - 1) + 1 = m
    BY <2>1
  <2> QED BY <1>1, <2>2, <2>3, <2>4 DEF T
<1> QED BY <1>2, <1>3

\* Where h is f and g together and x more in one place, its sum is theirs and x more.
LEMMA SumAdds ==
  ASSUME NEW n \in Nat, NEW f \in [1 .. n -> Int], NEW g \in [1 .. n -> Int], NEW h \in [1 .. n -> Int],
         NEW b \in 1 .. n, NEW x \in Int,
         \A i \in 1 .. n : h[i] = f[i] + g[i] + (IF i = b THEN x ELSE 0)
  PROVE  Sum(h, n) = Sum(f, n) + Sum(g, n) + x
<1> DEFINE Good(j) == Sum(h, j) = Sum(f, j) + Sum(g, j) + (IF b <= j THEN x ELSE 0)
           T == {j \in 0 .. n : ~Good(j)}
<1>a. T = {}
  <2> SUFFICES ASSUME T # {} PROVE FALSE
    OBVIOUS
  <2> HIDE DEF T
  <2>0. T \in SUBSET Nat
    BY DEF T
  <2>1. PICK m \in T : \A y \in T : m <= y
    BY <2>0, LeastNumber
  <2>2. CASE m = 0
    <3>1. Sum(h, 0) = 0 /\ Sum(f, 0) = 0 /\ Sum(g, 0) = 0
      BY SumStep
    <3>2. ~(b <= 0)
      OBVIOUS
    <3> QED BY <2>2, <2>1, <3>1, <3>2 DEF T
  <2>3. CASE m # 0
    <3>1. m - 1 \in 0 .. n /\ m - 1 \notin T /\ m \in 1 .. n
      BY <2>1, <2>3 DEF T
    <3>2. Good(m - 1)
      BY <3>1 DEF T
    <3>3. m - 1 \in Nat /\ (m - 1) + 1 = m
      BY <3>1
    <3>4. /\ Sum(h, m) = Sum(h, m - 1) + h[m] /\ Sum(f, m) = Sum(f, m - 1) + f[m]
          /\ Sum(g, m) = Sum(g, m - 1) + g[m]
      BY <3>3, SumStep
    <3>5. /\ Sum(f, m - 1) \in Int /\ Sum(g, m - 1) \in Int /\ Sum(h, m - 1) \in Int
          /\ f[m] \in Int /\ g[m] \in Int
          /\ h[m] = f[m] + g[m] + (IF m = b THEN x ELSE 0)
      BY <3>1, SumTyped
    <3>6. Good(m)
      BY <3>1, <3>2, <3>4, <3>5
    <3> QED BY <2>1, <3>6 DEF T
  <2> QED BY <2>2, <2>3
<1>b. n \in 0 .. n /\ b <= n
  OBVIOUS
<1> QED BY <1>a, <1>b

\* Nothing adds up to nothing.
LEMMA SumOfNone ==
  ASSUME NEW n \in Nat
  PROVE  Sum([i \in 1 .. n |-> 0], n) = 0
<1> DEFINE f == [i \in 1 .. n |-> 0]
           T == {j \in 0 .. n : Sum(f, j) # 0}
<1>a. T = {}
  <2> SUFFICES ASSUME T # {} PROVE FALSE
    OBVIOUS
  <2> HIDE DEF T
  <2>0. T \in SUBSET Nat
    BY DEF T
  <2>1. PICK m \in T : \A y \in T : m <= y
    BY <2>0, LeastNumber
  <2>2. CASE m = 0
    BY <2>1, <2>2, SumStep DEF T
  <2>3. CASE m # 0
    <3>1. m - 1 \in 0 .. n /\ m - 1 \notin T /\ m \in 1 .. n
      BY <2>1, <2>3 DEF T
    <3>2. Sum(f, m - 1) = 0 /\ f[m] = 0
      BY <3>1 DEF T
    <3>3. m - 1 \in Nat /\ (m - 1) + 1 = m
      BY <3>1
    <3>4. Sum(f, m) = Sum(f, m - 1) + f[m]
      BY <3>3, SumStep
    <3> QED BY <2>1, <3>2, <3>4 DEF T
  <2> QED BY <2>2, <2>3
<1> QED BY <1>a

\* A sum in which one term is another.
LEMMA SumChanges ==
  ASSUME NEW n \in Nat, NEW f \in [1 .. n -> Int], NEW g \in [1 .. n -> Int], NEW b \in 1 .. n,
         \A i \in 1 .. n : i # b => g[i] = f[i]
  PROVE  Sum(g, n) = Sum(f, n) - f[b] + g[b]
<1> DEFINE z == [i \in 1 .. n |-> 0]
           x == g[b] - f[b]
<1>1. z \in [1 .. n -> Int] /\ x \in Int
  OBVIOUS
<1>2. \A i \in 1 .. n : g[i] = f[i] + z[i] + (IF i = b THEN x ELSE 0)
  OBVIOUS
<1>3. Sum(z, n) = 0
  BY SumOfNone
<1>4. Sum(f, n) \in Int
  BY SumTyped
<1> HIDE DEF z, x
<1>5. Sum(g, n) = Sum(f, n) + Sum(z, n) + x
  BY ONLY n \in Nat, f \in [1 .. n -> Int], g \in [1 .. n -> Int], b \in 1 .. n, <1>1, <1>2, SumAdds
<1>6. f[b] \in Int /\ g[b] \in Int
  OBVIOUS
<1> QED BY <1>3, <1>4, <1>5, <1>6 DEF x
=============================================================================
