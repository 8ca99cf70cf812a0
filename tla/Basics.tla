------------------------------- MODULE Basics -------------------------------
(***************************************************************************)
(* What several proofs need: induction and recursion over numbers and over *)
(* values inside each other, stated for sets, the parts of sequences, and  *)
(* FlattenSeq.                                                             *)
(***************************************************************************)
EXTENDS Integers, SequencesExt, WellFoundedInduction, SequenceTheorems, TLAPS

\* A set of numbers has a least one.
LEMMA LeastNumber ==
  ASSUME NEW T \in SUBSET Nat, T # {}
  PROVE  \E m \in T : \A k \in T : m <= k
<1> DEFINE R == OpToRel(<, Nat)
<1>1. IsWellFoundedOn(R, Nat)
  BY NatLessThanWellFounded
<1> HIDE DEF R
<1>2. PICK m \in T : \A y \in T : ~(<<y, m>> \in R)
  BY <1>1, WFMin
<1>3. \A y \in T : ~(y < m)
  BY <1>2 DEF R, OpToRel
<1> QED
  BY <1>3

\* Induction up to n.
LEMMA UpTo ==
  ASSUME NEW n \in Nat, NEW T, 0 \in T,
         \A i \in 1..n : i - 1 \in T => i \in T
  PROVE  \A i \in 0..n : i \in T
<1> DEFINE Rest == {i \in 0..n : i \notin T}
<1>1. CASE Rest = {}
  BY <1>1
<1>2. CASE Rest # {}
  <2>1. Rest \in SUBSET Nat
    OBVIOUS
  <2>2. PICK m \in Rest : \A k \in Rest : m <= k
    <3> HIDE DEF Rest
    <3> QED
      BY <1>2, <2>1, LeastNumber
  <2>3. m \in 1..n /\ m - 1 \in 0..n /\ m - 1 \notin Rest
    BY <2>2
  <2> QED
    BY <2>2, <2>3
<1> QED
  BY <1>1, <1>2

-----------------------------------------------------------------------------
\* The values a loop of k turns goes through: a turn is a function.
Run(S, start, turn, k) ==
  {f \in [0..k -> S] : f[0] = start /\ \A i \in 1..k : f[i] = turn[i][f[i - 1]]}

\* Every loop over 1..n goes through some values.
LEMMA Recursion ==
  ASSUME NEW S, NEW start \in S, NEW n \in Nat, NEW turn \in [1..n -> [S -> S]]
  PROVE  Run(S, start, turn, n) # {}
<1> DEFINE Runs == {k \in 0..n : Run(S, start, turn, k) # {}}
<1>1. 0 \in Runs
  <2>1. [i \in 0..0 |-> start] \in Run(S, start, turn, 0)
    BY DEF Run
  <2> QED
    BY <2>1
<1>2. ASSUME NEW k \in 1..n, k - 1 \in Runs
      PROVE  k \in Runs
  <2>1. PICK g \in Run(S, start, turn, k - 1) : TRUE
    BY <1>2
  <2>2. /\ g \in [0..(k - 1) -> S] /\ g[0] = start
        /\ \A i \in 1..(k - 1) : g[i] = turn[i][g[i - 1]]
    BY <2>1 DEF Run
  <2> DEFINE f == [i \in 0..k |-> IF i = k THEN turn[k][g[k - 1]] ELSE g[i]]
  <2>3. f \in [0..k -> S]
    <3>1. g[k - 1] \in S /\ turn[k][g[k - 1]] \in S
      BY <2>2
    <3> QED
      BY <2>2, <3>1
  <2>4. f[0] = start /\ \A i \in 1..k : f[i] = turn[i][f[i - 1]]
    BY <2>2
  <2>5. f \in Run(S, start, turn, k)
    <3> HIDE DEF f
    <3> QED
      BY <2>3, <2>4 DEF Run
  <2> QED
    BY <2>5
<1>3. \A k \in 0..n : k \in Runs
  <2> HIDE DEF Runs
  <2> QED
    BY <1>1, <1>2, UpTo
<1> QED
  BY <1>3

-----------------------------------------------------------------------------
(* Parts of sequences *)

LEMMA ElementsOf ==
  ASSUME NEW S, NEW x \in Seq(S)
  PROVE  /\ Len(x) \in Nat /\ DOMAIN x = 1..Len(x)
         /\ \A i \in 1..Len(x) : x[i] \in S
         /\ x = <<>> <=> Len(x) = 0
BY EmptySeq, ElementOfSeq

LEMMA PartOf ==
  ASSUME NEW S, NEW x \in Seq(S), NEW m \in Nat \ {0}, NEW n \in Int, n <= Len(x)
  PROVE  /\ SubSeq(x, m, n) \in Seq(S)
         /\ Len(SubSeq(x, m, n)) = IF m <= n THEN n - m + 1 ELSE 0
         /\ \A i \in 1..Len(SubSeq(x, m, n)) : SubSeq(x, m, n)[i] = x[m + i - 1]
<1>1. \A i \in m..n : x[i] \in S
  BY ElementsOf
<1>2. /\ SubSeq(x, m, n) \in Seq(S)
      /\ Len(SubSeq(x, m, n)) = IF m <= n THEN n - m + 1 ELSE 0
      /\ \A i \in 1..(n - m + 1) : SubSeq(x, m, n)[i] = x[m + i - 1]
  BY <1>1, SubSeqProperties
<1> QED
  BY <1>2

LEMMA PrefixOf ==
  ASSUME NEW S, NEW x \in Seq(S), NEW y \in Seq(S)
  PROVE  IsPrefix(x, y) <=> Len(x) <= Len(y) /\ \A i \in 1..Len(x) : x[i] = y[i]
<1>1. Len(x) \in Nat /\ Len(y) \in Nat
  BY ElementsOf
<1>2. CASE ~(Len(x) <= Len(y))
  BY <1>2 DEF IsPrefix
<1>3. CASE Len(x) <= Len(y)
  <2> DEFINE a == SubSeq(x, 1, Len(x))
             b == SubSeq(y, 1, Len(x))
  <2>1. 1 \in Nat \ {0} /\ Len(x) \in Int /\ Len(x) <= Len(x)
    BY <1>1
  <2>2. /\ a \in Seq(S) /\ b \in Seq(S) /\ Len(a) = Len(x) /\ Len(b) = Len(x)
        /\ \A i \in 1..Len(x) : a[i] = x[i] /\ b[i] = y[i]
    <3>1. /\ a \in Seq(S) /\ Len(a) = IF 1 <= Len(x) THEN Len(x) - 1 + 1 ELSE 0
          /\ \A i \in 1..Len(a) : a[i] = x[1 + i - 1]
      BY <2>1, PartOf
    <3>2. /\ b \in Seq(S) /\ Len(b) = IF 1 <= Len(x) THEN Len(x) - 1 + 1 ELSE 0
          /\ \A i \in 1..Len(b) : b[i] = y[1 + i - 1]
      BY <1>3, <2>1, PartOf
    <3> QED
      BY <1>1, <3>1, <3>2
  <2> HIDE DEF a, b
  <2>3. a = b <=> \A i \in 1..Len(x) : a[i] = b[i]
    BY <2>2, SeqEqual
  <2> QED
    BY <1>3, <2>2, <2>3 DEF IsPrefix, a, b
<1> QED
  BY <1>2, <1>3

LEMMA SuffixOf ==
  ASSUME NEW S, NEW x \in Seq(S), NEW y \in Seq(S)
  PROVE  IsSuffix(x, y) <=>
           /\ Len(x) <= Len(y)
           /\ \A i \in 1..Len(x) : x[i] = y[Len(y) - Len(x) + i]
<1> DEFINE a == Reverse(x)
           b == Reverse(y)
<1>1. /\ Len(x) \in Nat /\ Len(y) \in Nat
      /\ \A i \in 1..Len(x) : x[Len(x) - i + 1] \in S
      /\ \A i \in 1..Len(y) : y[Len(y) - i + 1] \in S
  BY ElementsOf
<1>2. /\ a \in Seq(S) /\ Len(a) = Len(x) /\ \A i \in 1..Len(x) : a[i] = x[Len(x) - i + 1]
      /\ b \in Seq(S) /\ Len(b) = Len(y) /\ \A i \in 1..Len(y) : b[i] = y[Len(y) - i + 1]
  BY <1>1 DEF Reverse
<1> HIDE DEF a, b
<1>3. IsPrefix(a, b) <=> Len(a) <= Len(b) /\ \A i \in 1..Len(a) : a[i] = b[i]
  BY <1>2, PrefixOf
<1>4. ASSUME Len(x) <= Len(y)
      PROVE  (\A i \in 1..Len(x) : a[i] = b[i])
               <=> \A i \in 1..Len(x) : x[i] = y[Len(y) - Len(x) + i]
  <2>1. ASSUME \A i \in 1..Len(x) : a[i] = b[i], NEW i \in 1..Len(x)
        PROVE  x[i] = y[Len(y) - Len(x) + i]
    <3>1. /\ Len(x) - i + 1 \in 1..Len(x) /\ Len(x) - i + 1 \in 1..Len(y)
          /\ Len(x) - (Len(x) - i + 1) + 1 = i
          /\ Len(y) - (Len(x) - i + 1) + 1 = Len(y) - Len(x) + i
      BY <1>1, <1>4
    <3> DEFINE j == Len(x) - i + 1
    <3>2. j \in 1..Len(x) /\ j \in 1..Len(y) /\ Len(x) - j + 1 = i
          /\ Len(y) - j + 1 = Len(y) - Len(x) + i
      BY <3>1
    <3> HIDE DEF j
    <3>3. a[j] = x[i] /\ b[j] = y[Len(y) - Len(x) + i]
      BY <1>2, <3>2
    <3> QED
      BY <2>1, <3>2, <3>3
  <2>2. ASSUME \A i \in 1..Len(x) : x[i] = y[Len(y) - Len(x) + i], NEW i \in 1..Len(x)
        PROVE  a[i] = b[i]
    <3>1. /\ Len(x) - i + 1 \in 1..Len(x) /\ i \in 1..Len(y)
          /\ Len(y) - Len(x) + (Len(x) - i + 1) = Len(y) - i + 1
      BY <1>1, <1>4
    <3> DEFINE j == Len(x) - i + 1
    <3>2. j \in 1..Len(x) /\ Len(y) - Len(x) + j = Len(y) - i + 1
      BY <3>1
    <3>3. a[i] = x[j] /\ b[i] = y[Len(y) - i + 1]
      BY <1>2, <3>1
    <3> HIDE DEF j
    <3>4. x[j] = y[Len(y) - Len(x) + j]
      BY <2>2, <3>2
    <3> QED
      BY <3>2, <3>3, <3>4
  <2> QED
    BY <2>1, <2>2
<1> QED
  BY <1>1, <1>2, <1>3, <1>4 DEF IsSuffix, a, b

\* A sequence with a part of it replaced by z, and what that is element for
\* element.
Splice(r, i, z, j) == SubSeq(r, 1, i - 1) \o <<z>> \o SubSeq(r, j + 1, Len(r))
IsSpliced(k, r, i, z, j) ==
  /\ Len(k) = i + (Len(r) - j) /\ k[i] = z
  /\ \A m \in 1..(i - 1) : k[m] = r[m]
  /\ \A m \in 1..(Len(r) - j) : k[i + m] = r[j + m]

LEMMA SplicedAt ==
  ASSUME NEW S, NEW r \in Seq(S), NEW z \in S, NEW k \in Seq(S),
         NEW i \in 1..Len(r), NEW j \in 1..Len(r)
  PROVE  Splice(r, i, z, j) = k <=> IsSpliced(k, r, i, z, j)
<1> DEFINE a == SubSeq(r, 1, i - 1)
           b == SubSeq(r, j + 1, Len(r))
           c == a \o <<z>>
           d == c \o b
<1>1. Len(r) \in Nat /\ Len(k) \in Nat /\ i \in Nat \ {0} /\ j \in Nat
  BY ElementsOf
<1>2. a \in Seq(S) /\ Len(a) = i - 1 /\ \A m \in 1..(i - 1) : a[m] = r[m]
  <2>1. 1 \in Nat \ {0} /\ i - 1 \in Int /\ i - 1 <= Len(r)
    BY <1>1
  <2>2. /\ a \in Seq(S) /\ Len(a) = IF 1 <= i - 1 THEN i - 1 - 1 + 1 ELSE 0
        /\ \A m \in 1..Len(a) : a[m] = r[1 + m - 1]
    BY <2>1, PartOf
  <2> QED
    BY <1>1, <2>2
<1>3. b \in Seq(S) /\ Len(b) = Len(r) - j /\ \A m \in 1..(Len(r) - j) : b[m] = r[j + m]
  <2>1. j + 1 \in Nat \ {0} /\ Len(r) \in Int /\ Len(r) <= Len(r) /\ j <= Len(r)
    BY <1>1
  <2>2. /\ b \in Seq(S) /\ Len(b) = IF j + 1 <= Len(r) THEN Len(r) - (j + 1) + 1 ELSE 0
        /\ \A m \in 1..Len(b) : b[m] = r[j + 1 + m - 1]
    BY <2>1, PartOf
  <2> QED
    BY <1>1, <2>1, <2>2
<1> HIDE DEF a, b
<1>4. c \in Seq(S) /\ Len(c) = i /\ c[i] = z /\ \A m \in 1..(i - 1) : c[m] = r[m]
  <2>1. a \in Seq(S) /\ <<z>> \in Seq(S) /\ Len(<<z>>) = 1 /\ <<z>>[1] = z
    <3>1. <<z>> \in Seq(S)
      OBVIOUS
    <3>2. Len(<<z>>) = 1
      OBVIOUS
    <3>3. <<z>>[1] = z
      OBVIOUS
    <3> QED
      BY <1>2, <3>1, <3>2, <3>3
  <2>2. /\ c \in Seq(S) /\ Len(c) = Len(a) + Len(<<z>>)
        /\ \A m \in 1..(Len(a) + Len(<<z>>)) : c[m] =
              IF m <= Len(a) THEN a[m] ELSE <<z>>[m - Len(a)]
    BY <2>1, ConcatProperties
  <2> HIDE DEF c
  <2>3. c \in Seq(S) /\ Len(c) = i
    BY <1>1, <1>2, <2>1, <2>2
  <2>4. c[i] = z
    <3>1. i \in 1..(Len(a) + Len(<<z>>)) /\ ~(i <= Len(a)) /\ i - Len(a) = 1
      BY <1>1, <1>2, <2>1
    <3> QED
      BY <2>1, <2>2, <3>1
  <2>5. \A m \in 1..(i - 1) : c[m] = r[m]
    BY <1>1, <1>2, <2>1, <2>2
  <2> QED
    BY <2>3, <2>4, <2>5
<1> HIDE DEF c
<1>5. /\ d \in Seq(S) /\ Len(d) = i + (Len(r) - j) /\ \A m \in 1..i : d[m] = c[m]
      /\ \A m \in 1..(Len(r) - j) : d[i + m] = r[j + m]
  <2>1. c \in Seq(S) /\ b \in Seq(S)
    BY <1>3, <1>4
  <2>2. /\ d \in Seq(S) /\ Len(d) = Len(c) + Len(b)
        /\ \A m \in 1..(Len(c) + Len(b)) : d[m] =
              IF m <= Len(c) THEN c[m] ELSE b[m - Len(c)]
    BY <2>1, ConcatProperties
  <2> HIDE DEF d
  <2>3. d \in Seq(S) /\ Len(d) = i + (Len(r) - j) /\ \A m \in 1..i : d[m] = c[m]
    <3>1. d \in Seq(S) /\ Len(d) = i + (Len(r) - j)
      BY <1>3, <1>4, <2>2
    <3>2. \A m \in 1..i : m \in 1..(Len(c) + Len(b)) /\ m <= Len(c)
      BY <1>1, <1>3, <1>4
    <3> QED
      BY <2>2, <3>1, <3>2
  <2>4. ASSUME NEW m \in 1..(Len(r) - j)
        PROVE  d[i + m] = r[j + m]
    <3>1. i + m \in 1..(Len(c) + Len(b)) /\ ~(i + m <= Len(c)) /\ (i + m) - Len(c) = m
      BY <1>1, <1>3, <1>4
    <3> QED
      BY <1>3, <2>2, <3>1
  <2> QED
    BY <2>3, <2>4
<1> HIDE DEF d
<1>6. d = k <=> Len(d) = Len(k) /\ \A m \in 1..Len(d) : d[m] = k[m]
  BY <1>5, SeqEqual
<1>7. ASSUME Len(d) = Len(k)
      PROVE  (\A m \in 1..Len(d) : d[m] = k[m]) <=>
               /\ \A m \in 1..i : d[m] = k[m]
               /\ \A m \in 1..(Len(r) - j) : d[i + m] = k[i + m]
  <2>1. \A m \in 1..i : m \in 1..Len(d)
    BY <1>1, <1>5
  <2>2. \A m \in 1..(Len(r) - j) : i + m \in 1..Len(d)
    BY <1>1, <1>5
  <2>3. ASSUME NEW m \in 1..Len(d), ~(m \in 1..i)
        PROVE  m - i \in 1..(Len(r) - j) /\ i + (m - i) = m
    BY <1>1, <1>5, <2>3
  <2> QED
    BY <2>1, <2>2, <2>3
<1>8. (\A m \in 1..i : d[m] = k[m]) <=> k[i] = z /\ \A m \in 1..(i - 1) : k[m] = r[m]
  <2>1. \A m \in 1..i : m = i \/ m \in 1..(i - 1)
    BY <1>1
  <2>2. i \in 1..i /\ \A m \in 1..(i - 1) : m \in 1..i
    BY <1>1
  <2> QED
    BY <1>4, <1>5, <2>1, <2>2
<1> QED
  BY <1>5, <1>6, <1>7, <1>8 DEF d, c, a, b, Splice, IsSpliced
-----------------------------------------------------------------------------
(* Recursion over values inside each other *)

\* What G makes of a value depends on those of lower rank only.
LooksDown(V, S, rank, G) ==
  \A v \in V : \A f, g \in [V -> S] :
    (\A u \in V : rank[u] < rank[v] => f[u] = g[u]) => G[v][f] = G[v][g]

Solvable(V, S, G) == \E f \in [V -> S] : \A v \in V : f[v] = G[v][f]

\* A recursive definition over V, in which a value depends on those of lower
\* rank only, has a solution.
LEMMA TreeRecursion ==
  ASSUME NEW V, NEW S, S # {}, NEW rank \in [V -> Nat], NEW G \in [V -> [[V -> S] -> S]],
         LooksDown(V, S, rank, G)
  PROVE  Solvable(V, S, G)
<1> USE DEF LooksDown, Solvable
<1> DEFINE Good(n) == {f \in [V -> S] : \A v \in V : rank[v] < n => f[v] = G[v][f]}
<1>1. ASSUME NEW n \in Nat
      PROVE  Good(n) # {}
  <2> DEFINE T == {i \in 0..n : Good(i) # {}}
  <2>1. 0 \in T
    <3>1. PICK s \in S : TRUE
      OBVIOUS
    <3>2. [v \in V |-> s] \in Good(0)
      OBVIOUS
    <3> QED
      BY <3>2
  <2>2. ASSUME NEW i \in 1..n, i - 1 \in T
        PROVE  i \in T
    <3>1. PICK f \in [V -> S] : \A v \in V : rank[v] < i - 1 => f[v] = G[v][f]
      BY <2>2
    <3> DEFINE g == [v \in V |-> IF rank[v] = i - 1 THEN G[v][f] ELSE f[v]]
    <3>2. g \in [V -> S]
      OBVIOUS
    <3>3. ASSUME NEW v \in V, rank[v] < i
          PROVE  g[v] = G[v][g]
      <4>1. rank[v] \in Nat /\ rank[v] <= i - 1
        BY <3>3
      <4>2. \A u \in V : rank[u] < rank[v] => f[u] = g[u]
        BY <4>1
      <4> HIDE DEF g
      <4>3. G[v][f] = G[v][g]
        BY <3>2, <4>2
      <4>4. g[v] = G[v][f]
        <5>1. CASE rank[v] = i - 1
          BY <5>1 DEF g
        <5>2. CASE rank[v] # i - 1
          <6>1. \A a \in Nat, b \in Int : a <= b /\ a # b => a < b
            OBVIOUS
          <6>2. i - 1 \in Int
            OBVIOUS
          <6>3. rank[v] < i - 1
            BY <4>1, <5>2, <6>1, <6>2
          <6> QED
            BY <3>1, <5>2, <6>3 DEF g
        <5> QED
          BY <5>1, <5>2
      <4> QED
        BY <4>3, <4>4
    <3> HIDE DEF g
    <3>4. g \in Good(i)
      BY <3>2, <3>3
    <3> QED
      BY <3>4
  <2> HIDE DEF T
  <2>3. \A i \in 0..n : i \in T
    BY <2>1, <2>2, UpTo
  <2>4. n \in 0..n
    OBVIOUS
  <2>5. n \in T
    BY <2>3, <2>4
  <2> QED
    BY <2>5 DEF T
<1>2. ASSUME NEW n \in Nat, NEW m \in Nat, NEW f \in Good(n), NEW g \in Good(m),
             NEW v \in V, rank[v] < n, rank[v] < m
      PROVE  f[v] = g[v]
  <2> DEFINE Differ == {rank[u] : u \in {x \in V : rank[x] <= rank[v] /\ f[x] # g[x]}}
  <2>1. CASE Differ = {}
    <3>1. rank[v] <= rank[v]
      OBVIOUS
    <3>2. f[v] # g[v] => rank[v] \in Differ
      BY <3>1
    <3> QED
      BY <2>1, <3>2
  <2>2. CASE Differ # {}
    <3>1. Differ \in SUBSET Nat
      OBVIOUS
    <3>2. PICK k \in Differ : \A j \in Differ : k <= j
      <4> HIDE DEF Differ
      <4> QED
        BY <2>2, <3>1, LeastNumber
    <3>3. PICK x \in V : rank[x] = k /\ rank[x] <= rank[v] /\ f[x] # g[x]
      BY <3>2
    <3>4. ASSUME NEW u \in V, rank[u] < rank[x]
          PROVE  f[u] = g[u]
      <4>1. rank[u] \in Nat /\ rank[x] \in Nat /\ rank[v] \in Nat
        OBVIOUS
      <4>2. SUFFICES ASSUME f[u] # g[u] PROVE FALSE
        OBVIOUS
      <4>3. rank[u] <= rank[v] /\ ~(rank[x] <= rank[u])
        BY <3>3, <3>4, <4>1
      <4>4. rank[u] \in Differ
        BY <4>2, <4>3
      <4> HIDE DEF Differ
      <4> QED
        BY <3>2, <3>3, <4>3, <4>4
    <3>5. f \in [V -> S] /\ g \in [V -> S] /\ f[x] = G[x][f] /\ g[x] = G[x][g]
      <4>1. rank[x] < n /\ rank[x] < m
        BY <1>2, <3>3
      <4> QED
        BY <4>1
    <3> QED
      BY <3>3, <3>4, <3>5
  <2> QED
    BY <2>1, <2>2
<1> DEFINE at == [n \in Nat |-> CHOOSE f \in Good(n) : TRUE]
           F == [v \in V |-> at[rank[v] + 1][v]]
<1>3. \A n \in Nat : at[n] \in Good(n)
  <2> HIDE DEF Good
  <2> QED
    BY <1>1
<1>4. \A n \in Nat : at[n] \in [V -> S]
  BY <1>3
<1> HIDE DEF at
<1>5. F \in [V -> S]
  BY <1>4
<1>6. ASSUME NEW v \in V
      PROVE  F[v] = G[v][F]
  <2> DEFINE n == rank[v] + 1
  <2>1. n \in Nat /\ rank[v] \in Nat /\ at[n] \in [V -> S] /\ rank[v] < n
    BY <1>4
  <2>2. at[n][v] = G[v][at[n]]
    BY <1>3, <2>1
  <2>3. ASSUME NEW u \in V, rank[u] < rank[v]
        PROVE  F[u] = at[n][u]
    <3>1. rank[u] + 1 \in Nat /\ rank[u] < rank[u] + 1 /\ rank[u] < n
      BY <2>1, <2>3
    <3> HIDE DEF Good, n
    <3>2. at[rank[u] + 1] \in Good(rank[u] + 1) /\ at[n] \in Good(n)
      BY <1>3, <2>1, <3>1
    <3>3. at[rank[u] + 1][u] = at[n][u]
      BY <1>2, <2>1, <3>1, <3>2
    <3> QED
      BY <3>3
  <2>4. F[v] = at[n][v]
    OBVIOUS
  <2> HIDE DEF F, n
  <2>5. G[v][F] = G[v][at[n]]
    BY <1>5, <2>1, <2>3
  <2> QED
    BY <2>2, <2>4, <2>5
<1> HIDE DEF F
<1> QED
  BY <1>5, <1>6

\* What is so of a value whenever it is so of those of lower rank is so of all.
LEMMA TreeInduction ==
  ASSUME NEW V, NEW rank \in [V -> Nat], NEW T,
         \A v \in V : (\A u \in V : rank[u] < rank[v] => u \in T) => v \in T
  PROVE  V \subseteq T
<1> DEFINE Rest == {rank[v] : v \in V \ T}
<1>1. CASE Rest = {}
  BY <1>1
<1>2. CASE Rest # {}
  <2>1. Rest \in SUBSET Nat
    OBVIOUS
  <2>2. PICK k \in Rest : \A j \in Rest : k <= j
    <3> HIDE DEF Rest
    <3> QED
      BY <1>2, <2>1, LeastNumber
  <2>3. PICK v \in V \ T : rank[v] = k
    BY <2>2
  <2>4. ASSUME NEW u \in V, rank[u] < rank[v]
        PROVE  u \in T
    <3>1. rank[u] \in Nat /\ k \in Nat
      BY <2>1, <2>2
    <3>2. ~(k <= rank[u])
      BY <2>3, <2>4, <3>1
    <3>3. u \notin T => rank[u] \in Rest
      OBVIOUS
    <3> HIDE DEF Rest
    <3> QED
      BY <2>2, <3>2, <3>3
  <2> QED
    BY <2>3, <2>4
<1> QED
  BY <1>1, <1>2
-----------------------------------------------------------------------------
(* FlattenSeq *)

\* What FlattenSeq has after 0, 1, ... of the sequences.
Joining(S, s) ==
  {h \in [0..Len(s) -> Seq(S)] : h[0] = <<>> /\ \A i \in 1..Len(s) : h[i] = h[i - 1] \o s[i]}

LEMMA JoiningExists ==
  ASSUME NEW S, NEW s \in Seq(Seq(S))
  PROVE  Joining(S, s) # {}
<1> DEFINE turn == [i \in 1..Len(s) |-> [x \in Seq(S) |-> x \o s[i]]]
<1>1. Len(s) \in Nat /\ <<>> \in Seq(S)
  BY ElementsOf, EmptySeq
<1>2. ASSUME NEW i \in 1..Len(s), NEW x \in Seq(S)
      PROVE  x \o s[i] \in Seq(S)
  <2>1. s[i] \in Seq(S)
    BY ElementOfSeq
  <2> QED
    BY <2>1, ConcatProperties
<1>3. turn \in [1..Len(s) -> [Seq(S) -> Seq(S)]]
  BY <1>2
<1>4. \A i \in 1..Len(s) : \A x \in Seq(S) : turn[i][x] = x \o s[i]
  OBVIOUS
<1> HIDE DEF turn
<1>5. Run(Seq(S), <<>>, turn, Len(s)) # {}
  BY <1>1, <1>3, Recursion
<1>6. PICK h \in [0..Len(s) -> Seq(S)] :
        h[0] = <<>> /\ \A i \in 1..Len(s) : h[i] = turn[i][h[i - 1]]
  BY <1>5 DEF Run
<1>7. ASSUME NEW i \in 1..Len(s)
      PROVE  h[i] = h[i - 1] \o s[i]
  <2>1. i - 1 \in 0..Len(s)
    BY <1>1
  <2>2. h[i - 1] \in Seq(S)
    BY <1>6, <2>1
  <2> QED
    BY <1>4, <1>6, <2>2
<1> QED
  BY <1>6, <1>7 DEF Joining

LEMMA FlattenIs ==
  ASSUME NEW S, NEW s \in Seq(Seq(S)), NEW h \in Joining(S, s)
  PROVE  FlattenSeq(s) = h[Len(s)] /\ FlattenSeq(s) \in Seq(S)
<1> DEFINE n == Len(s)
           Is(f) == f = [i \in 1..n |-> IF i = 1 THEN s[i] ELSE f[i - 1] \o s[i]]
           g == CHOOSE f : Is(f)
<1>1. /\ n \in Nat /\ s = <<>> <=> n = 0
      /\ h \in [0..n -> Seq(S)] /\ h[0] = <<>> /\ \A i \in 1..n : h[i] = h[i - 1] \o s[i]
      /\ \A i \in 1..n : s[i] \in Seq(S)
  BY ElementsOf DEF Joining
<1>2. h[n] \in Seq(S)
  BY <1>1
<1>3. CASE n = 0
  BY <1>1, <1>2, <1>3 DEF FlattenSeq
<1>4. CASE n # 0
  <2>1. 1 \in 1..n /\ h[1] = s[1]
    <3>1. 1 \in 1..n /\ 1 - 1 = 0
      BY <1>1, <1>4
    <3>2. h[1] = <<>> \o s[1] /\ s[1] \in Seq(S)
      BY <1>1, <3>1
    <3> QED
      BY <3>1, <3>2, ConcatEmptySeq
  <2> DEFINE f == [i \in 1..n |-> h[i]]
  <2>2. ASSUME NEW i \in 1..n, i # 1
        PROVE  i - 1 \in 1..n /\ f[i] = f[i - 1] \o s[i]
    <3>1. i - 1 \in 1..n
      BY <1>1, <2>2
    <3> QED
      BY <1>1, <3>1
  <2>3. Is(f)
    <3>1. f[1] = s[1] /\ f = [i \in 1..n |-> f[i]]
      BY <2>1
    <3> HIDE DEF f, n
    <3> QED
      BY <2>2, <3>1
  <2> HIDE DEF f
  <2>4. Is(g)
    <3> HIDE DEF Is
    <3> QED
      BY <2>3
  <2>5. FlattenSeq(s) = g[n]
    BY <1>4 DEF FlattenSeq
  <2> HIDE DEF g
  <2> DEFINE T == {i \in 0..n : i # 0 => g[i] = h[i]}
  <2>6. 0 \in T
    BY <1>1
  <2>7. ASSUME NEW i \in 1..n, i - 1 \in T
        PROVE  i \in T
    <3>1. CASE i = 1
      BY <2>1, <2>4, <3>1
    <3>2. CASE i # 1
      <4>1. i - 1 \in 1..n /\ i - 1 # 0
        BY <1>1, <3>2
      <4>2. g[i - 1] = h[i - 1]
        BY <2>7, <4>1
      <4>3. g[i] = g[i - 1] \o s[i]
        BY <2>4, <3>2
      <4>4. h[i] = h[i - 1] \o s[i]
        BY <1>1
      <4>5. g[i] = h[i] /\ i \in 0..n
        BY <1>1, <4>2, <4>3, <4>4
      <4> QED
        BY <4>5
    <3> QED
      BY <3>1, <3>2
  <2>8. n \in T
    <3>1. n \in Nat
      BY <1>1
    <3> HIDE DEF T, n
    <3>2. \A i \in 0..n : i \in T
      BY <2>6, <2>7, <3>1, UpTo
    <3>3. n \in 0..n
      BY <3>1
    <3> QED
      BY <3>2, <3>3
  <2>9. g[n] = h[n]
    BY <1>4, <2>8
  <2> QED
    BY <1>2, <2>5, <2>9
<1> HIDE DEF n
<1> QED
  BY <1>3, <1>4 DEF n

LEMMA FlattenInSeq ==
  ASSUME NEW S, NEW s \in Seq(Seq(S))
  PROVE  FlattenSeq(s) \in Seq(S)
  BY JoiningExists, FlattenIs

LEMMA FlattenNone == FlattenSeq(<<>>) = <<>>
  BY DEF FlattenSeq

Associate(x, y, z) == (x \o y) \o z = x \o (y \o z)
LEMMA Associated ==
  ASSUME NEW S, NEW x \in Seq(S), NEW y \in Seq(S), NEW z \in Seq(S)
  PROVE  Associate(x, y, z)
  BY ConcatAssociative DEF Associate

\* The sequences of s one after the other, and then those of t.
LEMMA FlattenConcat ==
  ASSUME NEW S, NEW s \in Seq(Seq(S)), NEW t \in Seq(Seq(S))
  PROVE  FlattenSeq(s \o t) = FlattenSeq(s) \o FlattenSeq(t)
<1> DEFINE m == Len(s)
           n == Len(t)
           u == s \o t
<1>1. /\ m \in Nat /\ n \in Nat /\ u \in Seq(Seq(S)) /\ Len(u) = m + n
      /\ \A i \in 1..(m + n) : u[i] = IF i <= m THEN s[i] ELSE t[i - m]
  BY ElementsOf, ConcatProperties
<1>2. PICK a \in Joining(S, s) : TRUE
  BY JoiningExists
<1>3. PICK b \in Joining(S, t) : TRUE
  BY JoiningExists
<1>4. /\ a \in [0..m -> Seq(S)] /\ a[0] = <<>> /\ \A i \in 1..m : a[i] = a[i - 1] \o s[i]
      /\ b \in [0..n -> Seq(S)] /\ b[0] = <<>> /\ \A i \in 1..n : b[i] = b[i - 1] \o t[i]
      /\ FlattenSeq(s) = a[m] /\ FlattenSeq(t) = b[n]
  BY <1>2, <1>3, FlattenIs DEF Joining
<1>5. \A i \in 1..n : t[i] \in Seq(S)
  BY ElementOfSeq
<1> HIDE DEF m, n, u
<1> DEFINE h == [i \in 0..(m + n) |-> IF i <= m THEN a[i] ELSE a[m] \o b[i - m]]
<1>6. a[m] \in Seq(S)
  BY <1>1, <1>4
<1>7. ASSUME NEW j \in 0..n
      PROVE  m + j \in 0..(m + n) /\ h[m + j] = a[m] \o b[j] /\ h[m + j] \in Seq(S)
  <2>1. m + j \in 0..(m + n) /\ (m + j <= m <=> j = 0) /\ (m + j) - m = j
    BY <1>1
  <2>2. b[j] \in Seq(S)
    BY <1>4
  <2>3. a[m] \o <<>> = a[m]
    BY <1>6, ConcatEmptySeq
  <2>4. h[m + j] = a[m] \o b[j]
    <3>1. CASE j = 0
      <4>1. h[m + j] = a[m + j] /\ m + j = m /\ b[j] = <<>>
        BY <1>1, <1>4, <2>1, <3>1
      <4> HIDE DEF h
      <4> QED
        BY <2>3, <4>1
    <3>2. CASE j # 0
      BY <2>1, <3>2
    <3> QED
      BY <3>1, <3>2
  <2> QED
    BY <1>6, <2>1, <2>2, <2>4, ConcatProperties
<1>8. ASSUME NEW i \in 0..(m + n), ~(i <= m)
      PROVE  i - m \in 1..n /\ m + (i - m) = i /\ m + ((i - m) - 1) = i - 1
  BY <1>1, <1>8
<1>9. h \in [0..(m + n) -> Seq(S)]
  <2>1. ASSUME NEW i \in 0..(m + n)
        PROVE  h[i] \in Seq(S)
    <3>1. CASE i <= m
      <4>1. i \in 0..m /\ h[i] = a[i]
        BY <1>1, <3>1
      <4> QED
        BY <1>4, <4>1
    <3>2. CASE ~(i <= m)
      <4>1. i - m \in 0..n /\ m + (i - m) = i
        BY <1>1, <1>8, <3>2
      <4> QED
        BY <1>7, <4>1
    <3> QED
      BY <3>1, <3>2
  <2> QED
    BY <2>1
<1>10. h[0] = <<>>
  BY <1>1, <1>4
<1>11. ASSUME NEW i \in 1..(m + n)
       PROVE  h[i] = h[i - 1] \o u[i]
  <2>1. i \in 0..(m + n) /\ i - 1 \in 0..(m + n)
    BY <1>1
  <2>2. CASE i <= m
    <3>1. i \in 1..m /\ i - 1 <= m
      BY <1>1, <2>2
    <3> QED
      BY <1>1, <1>4, <2>1, <2>2, <3>1
  <2>3. CASE ~(i <= m)
    <3> DEFINE j == i - m
    <3>1. j \in 1..n /\ j - 1 \in 0..n /\ j \in 0..n /\ m + j = i /\ m + (j - 1) = i - 1
      BY <1>1, <1>8, <2>1, <2>3
    <3>2. u[i] = t[j]
      BY <1>1, <2>3
    <3> HIDE DEF j, h
    <3>3. h[i] = a[m] \o b[j] /\ h[i - 1] = a[m] \o b[j - 1] /\ b[j] = b[j - 1] \o t[j]
      BY <1>4, <1>7, <3>1
    <3>4. b[j - 1] \in Seq(S) /\ t[j] \in Seq(S)
      BY <1>4, <1>5, <3>1
    <3>5. (a[m] \o b[j - 1]) \o t[j] = a[m] \o (b[j - 1] \o t[j])
      <4>1. Associate(a[m], b[j - 1], t[j])
        BY <1>6, <3>4, Associated
      <4> QED
        BY <4>1 DEF Associate
    <3> QED
      BY <3>2, <3>3, <3>5
  <2> QED
    BY <2>2, <2>3
<1> HIDE DEF h
<1>12. h \in Joining(S, u)
  BY <1>1, <1>9, <1>10, <1>11 DEF Joining
<1>13. h[m + n] = a[m] \o b[n]
  <2>1. n \in 0..n
    BY <1>1
  <2> QED
    BY <1>7, <2>1
<1>14. FlattenSeq(u) = h[m + n]
  BY <1>1, <1>12, FlattenIs
<1> QED
  BY <1>4, <1>13, <1>14 DEF u

LEMMA FlattenOne ==
  ASSUME NEW S, NEW x \in Seq(S)
  PROVE  FlattenSeq(<<x>>) = x
<1> DEFINE s == <<x>>
           h == [i \in 0..1 |-> IF i = 0 THEN <<>> ELSE x]
<1>1. s \in Seq(Seq(S)) /\ Len(s) = 1 /\ s[1] = x
  OBVIOUS
<1>2. h \in [0..1 -> Seq(S)] /\ h[0] = <<>> /\ h[1] = x
  BY EmptySeq
<1>3. \A i \in 1..1 : i = 1 /\ i - 1 = 0
  OBVIOUS
<1>4. <<>> \o x = x
  BY ConcatEmptySeq
<1> HIDE DEF s, h
<1>5. h \in Joining(S, s)
  BY <1>1, <1>2, <1>3, <1>4 DEF Joining
<1> QED
  BY <1>1, <1>2, <1>5, FlattenIs DEF s

\* Each element of x in a sequence of its own.
LEMMA FlattenEach ==
  ASSUME NEW S, NEW x \in Seq(S)
  PROVE  FlattenSeq([i \in 1..Len(x) |-> <<x[i]>>]) = x
<1> DEFINE s == [i \in 1..Len(x) |-> <<x[i]>>]
           h == [i \in 0..Len(x) |-> SubSeq(x, 1, i)]
<1>1. Len(x) \in Nat /\ \A i \in 1..Len(x) : x[i] \in S
  BY ElementsOf
<1>2. s \in Seq(Seq(S)) /\ Len(s) = Len(x) /\ \A i \in 1..Len(x) : s[i] = <<x[i]>>
  BY <1>1
<1>3. ASSUME NEW i \in 0..Len(x)
      PROVE  SubSeq(x, 1, i) \in Seq(S)
  <2>1. 1 \in Nat \ {0} /\ i \in Int /\ i <= Len(x)
    BY <1>1
  <2> QED
    BY <2>1, PartOf
<1>4. SubSeq(x, 1, 0) = <<>>
  BY SubSeqEmpty
<1>5. ASSUME NEW i \in 1..Len(x)
      PROVE  i - 1 \in 0..Len(x) /\ SubSeq(x, 1, i) = SubSeq(x, 1, i - 1) \o <<x[i]>>
  <2>1. 1 \in 1..Len(x) /\ i \in 1..Len(x) /\ i - 1 \in 0..Len(x)
    BY <1>1
  <2> QED
    BY <2>1, SubSeqRecursiveSecond
<1>6. h \in [0..Len(x) -> Seq(S)] /\ h[0] = <<>>
      /\ \A i \in 1..Len(x) : h[i] = h[i - 1] \o s[i]
  <2>1. h \in [0..Len(x) -> Seq(S)]
    BY <1>3
  <2>2. h[0] = <<>>
    BY <1>1, <1>4
  <2>3. ASSUME NEW i \in 1..Len(x)
        PROVE  h[i] = h[i - 1] \o s[i]
    <3>1. i \in 0..Len(x) /\ i - 1 \in 0..Len(x)
      BY <1>1
    <3>2. h[i] = SubSeq(x, 1, i) /\ h[i - 1] = SubSeq(x, 1, i - 1)
      BY <3>1
    <3> HIDE DEF h
    <3> QED
      BY <1>5, <3>2
  <2> QED
    BY <2>1, <2>2, <2>3
<1>7. h[Len(x)] = x
  <2>1. Len(x) \in 0..Len(x)
    BY <1>1
  <2> QED
    BY <2>1, SubSeqFull
<1> HIDE DEF s, h
<1>8. h \in Joining(S, s)
  BY <1>2, <1>6 DEF Joining
<1> QED
  BY <1>2, <1>7, <1>8, FlattenIs DEF s
=============================================================================
