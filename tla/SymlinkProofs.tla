--------------------------- MODULE SymlinkProofs ----------------------------
(***************************************************************************)
(* Proofs about Symlink for any number of threads, any paths and disks and *)
(* any bounds.                                                             *)
(***************************************************************************)
EXTENDS Symlink, SequenceTheorems, TLAPS

-----------------------------------------------------------------------------
(* Paths *)

\* The first n names of p, and the names behind them up to the n-th.
Upto(p, n) == SubSeq(p, 1, n)
Below(p, m, n) == SubSeq(p, m + 1, n)

LEMMA UptoPath ==
  ASSUME NEW p \in Paths, NEW n \in 0..Len(p)
  PROVE  /\ Upto(p, n) \in Paths /\ Upto(p, n) \in Seq(Names)
         /\ Len(Upto(p, n)) = n /\ p \in Seq(Names)
<1>1. p \in Seq(Names) /\ Upto(p, n) \in Paths
  BY PathAssumption DEF Upto
<1>2. Upto(p, n) \in Seq(Names)
  BY <1>1, PathAssumption
<1>3. Len(Upto(p, n)) = n
  BY <1>1, SubSeqProperties, LenProperties, ElementOfSeq DEF Upto
<1> QED
  BY <1>1, <1>2, <1>3

LEMMA UptoAll ==
  ASSUME NEW p \in Paths
  PROVE  Upto(p, Len(p)) = p /\ Upto(p, 0) = <<>> /\ Len(p) \in Nat
  BY PathAssumption, SubSeqFull, SubSeqEmpty, LenProperties DEF Upto

\* Front and Last of a prefix that is not empty.
LEMMA UptoFront ==
  ASSUME NEW p \in Paths, NEW n \in 1..Len(p)
  PROVE  Front(Upto(p, n)) = Upto(p, n - 1) /\ Last(Upto(p, n)) = p[n]
<1>1. p \in Seq(Names) /\ Len(p) \in Nat /\ n \in Nat /\ n - 1 \in 0..Len(p)
  BY PathAssumption, LenProperties
<1>2. /\ Upto(p, n) \in Seq(Names) /\ Len(Upto(p, n)) = n
      /\ Upto(p, n - 1) \in Seq(Names) /\ Len(Upto(p, n - 1)) = n - 1
  <2>1. n \in 0..Len(p)
    BY <1>1
  <2> QED
    BY <1>1, <2>1, UptoPath
<1>3. \A i \in 1..n : Upto(p, n)[i] = p[i]
  BY <1>1, SubSeqProperties, ElementOfSeq DEF Upto
<1>4. \A i \in 1..(n - 1) : Upto(p, n - 1)[i] = p[i]
  BY <1>1, SubSeqProperties, ElementOfSeq DEF Upto
<1>5. /\ Front(Upto(p, n)) \in Seq(Names) /\ Len(Front(Upto(p, n))) = n - 1
      /\ \A i \in 1..(n - 1) : Front(Upto(p, n))[i] = p[i]
  BY <1>1, <1>2, <1>3, SubSeqProperties, ElementOfSeq DEF Front
<1>6. Front(Upto(p, n)) = Upto(p, n - 1)
  BY <1>2, <1>4, <1>5, SeqEqual
<1> QED
  BY <1>1, <1>2, <1>3, <1>6 DEF Last

LEMMA BelowSeq ==
  ASSUME NEW p \in Paths, NEW m \in 0..Len(p), NEW n \in m..Len(p)
  PROVE  Below(p, m, n) \in Seq(Names) /\ Below(p, m, m) = <<>>
<1>1. p \in Seq(Names) /\ Len(p) \in Nat /\ m \in Int /\ n \in Int
  BY PathAssumption, LenProperties
<1>2. Below(p, m, n) \in Seq(Names)
  BY <1>1, SubSeqProperties, ElementOfSeq DEF Below
<1> QED
  BY <1>1, <1>2, SubSeqEmpty DEF Below

\* What is behind m: the next name and what is behind that.
LEMMA BelowNext ==
  ASSUME NEW p \in Paths, NEW m \in 1..Len(p), NEW n \in m..Len(p),
         NEW c \in Seq(Names)
  PROVE  Append(c, p[m]) \o Below(p, m, n) = c \o Below(p, m - 1, n)
<1>1. p \in Seq(Names) /\ Len(p) \in Nat /\ m \in Nat /\ n \in Nat /\ p[m] \in Names
  BY PathAssumption, LenProperties, ElementOfSeq
<1>2. Below(p, m - 1, n) = << p[m] >> \o Below(p, m, n)
  BY <1>1, SubSeqRecursiveFirst DEF Below
<1>3. Below(p, m, n) \in Seq(Names) /\ << p[m] >> \in Seq(Names)
  BY <1>1, BelowSeq, m \in 0..Len(p)
<1>4. Append(c, p[m]) = c \o << p[m] >>
  BY <1>1, AppendIsConcat
<1>5. (c \o << p[m] >>) \o Below(p, m, n) = c \o (<< p[m] >> \o Below(p, m, n))
  BY <1>3, ConcatAssociative
<1> QED
  BY <1>2, <1>4, <1>5, Zenon

\* The names behind m: first those up to n, then those behind n.
LEMMA BelowSplit ==
  ASSUME NEW p \in Paths, NEW k \in 0..Len(p), NEW m \in k..Len(p), NEW n \in m..Len(p)
  PROVE  Below(p, k, m) \o Below(p, m, n) = Below(p, k, n)
<1>1. p \in Seq(Names) /\ Len(p) \in Nat /\ k + 1 \in 1..(Len(p) + 1)
      /\ m \in k..Len(p) /\ k = (k + 1) - 1
  BY PathAssumption, LenProperties
<1> QED
  BY <1>1, ConcatAdjacentSubSeq DEF Below

\* A prefix of a prefix, and what it lacks.
LEMMA UptoUpto ==
  ASSUME NEW p \in Paths, NEW m \in 0..Len(p), NEW n \in 0..m
  PROVE  Upto(Upto(p, m), n) = Upto(p, n) /\ Below(Upto(p, m), n, m) = Below(p, n, m)
<1>1. p \in Seq(Names) /\ Len(p) \in Nat /\ m \in Nat /\ n \in Nat
  BY PathAssumption, LenProperties
<1>2. Upto(p, m) \in Seq(Names) /\ Len(Upto(p, m)) = m
  BY UptoPath
<1>3. \A i \in 1..m : Upto(p, m)[i] = p[i]
  BY <1>1, SubSeqProperties, ElementOfSeq DEF Upto
<1>4. Upto(Upto(p, m), n) = Upto(p, n)
  <2>1. /\ Upto(Upto(p, m), n) \in Seq(Names) /\ Len(Upto(Upto(p, m), n)) = n
        /\ \A i \in 1..n : Upto(Upto(p, m), n)[i] = p[i]
    BY <1>1, <1>2, <1>3, SubSeqProperties, ElementOfSeq DEF Upto
  <2>2. /\ Upto(p, n) \in Seq(Names) /\ Len(Upto(p, n)) = n
        /\ \A i \in 1..n : Upto(p, n)[i] = p[i]
    BY <1>1, SubSeqProperties, ElementOfSeq DEF Upto
  <2> QED
    BY <2>1, <2>2, SeqEqual
<1>5. Below(Upto(p, m), n, m) = Below(p, n, m)
  <2>1. /\ Below(Upto(p, m), n, m) \in Seq(Names)
        /\ Len(Below(Upto(p, m), n, m)) = m - n
        /\ \A i \in 1..(m - n) : Below(Upto(p, m), n, m)[i] = p[n + i]
    BY <1>1, <1>2, <1>3, SubSeqProperties, ElementOfSeq DEF Below
  <2>2. /\ Below(p, n, m) \in Seq(Names) /\ Len(Below(p, n, m)) = m - n
        /\ \A i \in 1..(m - n) : Below(p, n, m)[i] = p[n + i]
    BY <1>1, SubSeqProperties, ElementOfSeq DEF Below
  <2> QED
    BY <2>1, <2>2, SeqEqual
<1> QED
  BY <1>4, <1>5

-----------------------------------------------------------------------------
(* The invariant *)

\* v is an answer for p when the disks in S were there; also a value of the
\* cell `real` of p, and of its cell `symlink` if p was a link.
AnswerOK(v, p, S) ==
  /\ v \in Promise!Mixed(p, S)
  /\ \A d \in Disks : S = {d} /\ d.canon[p] # Fails => v = d.canon[p]

RealOK(v, p, S) == v = Unset \/ AnswerOK(v, p, S)

LinkOK(v, p, S) ==
  \/ v = Unset
  \/ v = NoLink /\ \A d \in Disks : S = {d} /\ d.canon[p] # Fails => p \notin d.link
  \/ AnswerOK(v, p, S) /\ \A d \in Disks : S = {d} => p \in d.link

CellsOK(g, S) ==
  \A p \in Paths : RealOK(real[g][p], p, S) /\ LinkOK(link[g][p], p, S)

\* There is no link between the entry at which the loop is and the goal p; if
\* it has left the root, there is none at all.
Plain(p, a, d) ==
  \A n \in Len(a)..Len(p) : d.canon[Upto(p, n)] # Fails =>
    d.canon[a] # Fails /\ d.canon[Upto(p, n)] = d.canon[a] \o Below(p, Len(a), n)

Own(p, d) ==
  \A n \in 0..Len(p) : d.canon[Upto(p, n)] # Fails => d.canon[Upto(p, n)] = Upto(p, n)

LoopInv(t) ==
  /\ pc[t] = "finish" => found[t] \in Results /\ AnswerOK(found[t], at[t], saw[t])
  /\ \A d \in Disks : saw[t] = {d} =>
       /\ pc[t] = "canonicalize" => at[t] \in d.link
       /\ IF pc[t] = "own" THEN Own(goal[t], d) ELSE Plain(goal[t], at[t], d)

CallInv(t) ==
  /\ of[t] \in 0..gen /\ disk \in saw[t]
  /\ of[t] = gen => saw[t] = since
  /\ CellsOK(of[t], saw[t])
  /\ LoopInv(t)

\* Threads that share entries know the same disks.
Inv ==
  /\ TypeOK
  /\ disk \in since /\ CellsOK(gen, since)
  /\ \A g \in Gens, p \in Paths : g > gen => real[g][p] = Unset /\ link[g][p] = Unset
  /\ \A t \in Threads : Busy(t) => CallInv(t)
  /\ \A t, u \in Threads : Busy(t) /\ Busy(u) /\ of[t] = of[u] => saw[t] = saw[u]

USE DEF world, cells, locals, Goto

\* The entry the loop is at is the one of a prefix of the goal.
LEMMA AtPrefix ==
  ASSUME TypeOK, NEW t \in Threads
  PROVE  /\ goal[t] \in Paths /\ at[t] \in Paths /\ goal[t] \in Seq(Names)
         /\ at[t] \in Seq(Names) /\ Len(at[t]) \in 0..Len(goal[t])
         /\ at[t] = Upto(goal[t], Len(at[t]))
         /\ Len(goal[t]) \in Nat /\ Len(at[t]) \in Nat
<1>1. PICK n \in 0..Len(goal[t]) : at[t] = Upto(goal[t], n)
  BY DEF TypeOK, Upto
<1>2. goal[t] \in Paths
  BY DEF TypeOK
<1>3. Len(at[t]) = n /\ at[t] \in Paths /\ at[t] \in Seq(Names) /\ goal[t] \in Seq(Names)
  BY <1>1, <1>2, UptoPath
<1> QED
  BY <1>1, <1>2, <1>3, LenProperties

\* More disks explain more.
LEMMA MoreDisks ==
  ASSUME NEW v, NEW p, NEW S, NEW R, S # {}, S \subseteq R
  PROVE  /\ AnswerOK(v, p, S) => AnswerOK(v, p, R)
         /\ RealOK(v, p, S) => RealOK(v, p, R)
         /\ LinkOK(v, p, S) => LinkOK(v, p, R)
<1>1. \A d : R = {d} => S = {d}
  OBVIOUS
<1>2. AnswerOK(v, p, S) => AnswerOK(v, p, R)
  BY <1>1 DEF AnswerOK, Promise!Mixed
<1> QED
  BY <1>1, <1>2 DEF RealOK, LinkOK

\* A step of a thread inside its call, which changes cells of its own
\* generation only.
LEMMA RunKeeps ==
  ASSUME Inv, NEW t \in Threads, Busy(t), TypeOK',
         UNCHANGED <<disk, gen, of, goal, since, saw>>,
         \A u \in Threads \ {t} :
           pc'[u] = pc[u] /\ at'[u] = at[u] /\ found'[u] = found[u],
         \A g \in Gens \ {of[t]} : real'[g] = real[g] /\ link'[g] = link[g],
         CellsOK(of[t], saw[t])',
         Busy(t)' => LoopInv(t)'
  PROVE  Inv'
<1>1. CallInv(t) /\ of[t] \in Gens /\ gen \in Gens
  BY DEF Inv, TypeOK
<1>2. disk' \in since' /\ CellsOK(gen, since)'
  <2>1. CASE of[t] = gen
    BY <1>1, <2>1 DEF Inv, CallInv
  <2>2. CASE of[t] # gen
    BY <1>1, <2>2 DEF Inv, CellsOK
  <2> QED
    BY <2>1, <2>2 DEF Inv
<1>3. \A g \in Gens, p \in Paths : g > gen' => real'[g][p] = Unset /\ link'[g][p] = Unset
  BY <1>1 DEF Inv, CallInv, Gens
<1>4. ASSUME NEW u \in Threads, Busy(u)' PROVE CallInv(u)'
  <2>1. CASE u = t
    BY <1>1, <1>4, <2>1 DEF CallInv
  <2>2. CASE u # t
    <3>1. CallInv(u) /\ Busy(u) /\ of[u] \in Gens
      BY <1>4, <2>2 DEF Inv, TypeOK, Busy
    <3>2. LoopInv(u)'
      <4>1. /\ pc'[u] = pc[u] /\ at'[u] = at[u] /\ found'[u] = found[u]
            /\ goal'[u] = goal[u] /\ saw'[u] = saw[u] /\ LoopInv(u)
        BY <2>2, <3>1 DEF CallInv
      <4> QED
        BY <4>1 DEF LoopInv
    <3>3. CellsOK(of[u], saw[u])'
      <4>1. CASE of[u] = of[t]
        <5>1. saw[u] = saw[t]
          BY <3>1, <4>1 DEF Inv
        <5> QED
          BY <4>1, <5>1 DEF CellsOK
      <4>2. CASE of[u] # of[t]
        BY <3>1, <4>2 DEF CallInv, CellsOK
      <4> QED
        BY <4>1, <4>2
    <3> QED
      BY <3>1, <3>2, <3>3 DEF CallInv
  <2> QED
    BY <2>1, <2>2
<1>5. \A u, v \in Threads : Busy(u)' /\ Busy(v)' /\ of'[u] = of'[v] => saw'[u] = saw'[v]
  BY DEF Inv, Busy
<1> QED
  BY <1>2, <1>3, <1>4, <1>5 DEF Inv

-----------------------------------------------------------------------------
(* The loop goes up *)

\* Nothing below `at` is a link, and `at` is none: so it is above it.
LEMMA PlainUp ==
  ASSUME NEW p \in Paths, NEW m \in 1..Len(p), NEW d \in Disks,
         Plain(p, Upto(p, m), d), d.canon[Upto(p, m)] # Fails => Upto(p, m) \notin d.link
  PROVE  Plain(p, Upto(p, m - 1), d)
<1> DEFINE a == Upto(p, m)
           b == Upto(p, m - 1)
<1>1. /\ p \in Seq(Names) /\ Len(p) \in Nat /\ m \in Nat
      /\ m \in 0..Len(p) /\ m - 1 \in 0..Len(p)
  BY UptoPath, UptoAll
<1>2. /\ a \in Paths /\ b \in Paths /\ Len(a) = m /\ Len(b) = m - 1 /\ b \in Seq(Names)
      /\ a # <<>> /\ a \in Seq(Names)
  <2>1. /\ a \in Paths /\ b \in Paths /\ Len(a) = m /\ Len(b) = m - 1
        /\ b \in Seq(Names) /\ a \in Seq(Names)
    BY <1>1, UptoPath
  <2>2. m # 0 /\ Len(<<>>) = 0
    BY <1>1
  <2> QED
    BY <2>1, <2>2
<1>3. Front(a) = b /\ Last(a) = p[m]
  BY UptoFront
<1>4. ASSUME d.canon[a] # Fails
      PROVE  d.canon[b] \in Seq(Names) /\ d.canon[b] # Fails
             /\ d.canon[a] = Append(d.canon[b], p[m])
  BY <1>2, <1>3, <1>4, DiskAssumption DEF Results
<1>5. ASSUME NEW n \in Len(b)..Len(p), d.canon[Upto(p, n)] # Fails
      PROVE  d.canon[b] # Fails /\ d.canon[Upto(p, n)] = d.canon[b] \o Below(p, Len(b), n)
  <2>1. CASE n = m - 1
    <3>1. d.canon[b] \in Seq(Names) /\ Below(p, m - 1, m - 1) = <<>>
      BY <1>1, <1>2, <1>5, <2>1, BelowSeq, DiskAssumption DEF Results
    <3> QED
      BY <1>2, <1>5, <2>1, <3>1, ConcatEmptySeq
  <2>2. CASE n # m - 1
    <3>1. n \in m..Len(p)
      BY <1>1, <1>2, <2>2
    <3>2. d.canon[a] # Fails /\ d.canon[Upto(p, n)] = d.canon[a] \o Below(p, m, n)
      BY <1>2, <1>5, <3>1 DEF Plain
    <3>3. Append(d.canon[b], p[m]) \o Below(p, m, n) = d.canon[b] \o Below(p, m - 1, n)
      BY <1>4, <3>1, <3>2, BelowNext
    <3> QED
      BY <1>2, <1>4, <3>2, <3>3
  <2> QED
    BY <2>1, <2>2
<1> QED
  BY <1>5 DEF Plain

\* At the root, no link was found at all.
LEMMA PlainRoot ==
  ASSUME NEW p \in Paths, NEW d \in Disks, Plain(p, <<>>, d)
  PROVE  Own(p, d)
<1> SUFFICES ASSUME NEW n \in 0..Len(p), d.canon[Upto(p, n)] # Fails
             PROVE  d.canon[Upto(p, n)] = Upto(p, n)
  BY DEF Own
<1>1. d.canon[<<>>] = <<>> /\ Len(<<>>) = 0 /\ Upto(p, n) \in Seq(Names)
  BY DiskAssumption, UptoPath
<1>2. d.canon[Upto(p, n)] = <<>> \o Below(p, 0, n)
  BY <1>1 DEF Plain
<1>3. Below(p, 0, n) = Upto(p, n)
  BY DEF Below, Upto
<1> QED
  BY <1>1, <1>2, <1>3, ConcatEmptySeq

\* One thread's step changes what it knows and leaves the others' alone.
LEMMA OnlyOne ==
  ASSUME NEW t \in Threads, NEW f, NEW x
  PROVE  \A u \in Threads \ {t} : [f EXCEPT ![t] = x][u] = f[u]
  OBVIOUS

LEMMA AskRealKeeps ==
  ASSUME Inv, NEW t \in Threads, AskReal(t)
  PROVE  Inv'
<1> DEFINE known == real[of[t]][at[t]]
<1>1. Busy(t) /\ CallInv(t) /\ TypeOK /\ of[t] \in Gens
  BY DEF AskReal, Busy, Inv, TypeOK
<1>2. at[t] \in Paths /\ known \in Results \cup {Unset}
  BY <1>1, AtPrefix DEF TypeOK
<1>3. TypeOK'
  <2>1. \A u \in Threads : goal'[u] = goal[u] /\ at'[u] = at[u]
    BY DEF AskReal
  <2>2. CASE known # Unset
    BY <1>1, <1>2, <2>1, <2>2 DEF AskReal, Break, TypeOK
  <2>3. CASE known = Unset
    BY <1>1, <2>1, <2>3 DEF AskReal, TypeOK
  <2> QED
    BY <2>2, <2>3
<1>4. CellsOK(of[t], saw[t])'
  BY <1>1 DEF CallInv, AskReal, CellsOK
<1>5. LoopInv(t)'
  <2>1. CASE known # Unset
    <3>1. pc'[t] = "finish" /\ found'[t] = known
      BY <1>1, <2>1 DEF AskReal, Break, TypeOK
    <3>2. AnswerOK(known, at[t], saw[t]) /\ known \in Results
      BY <1>1, <1>2, <2>1 DEF CallInv, CellsOK, RealOK
    <3> QED
      BY <1>1, <3>1, <3>2 DEF AskReal, CallInv, LoopInv
  <2>2. CASE known = Unset
    <3>1. pc'[t] = "link"
      BY <1>1, <2>2 DEF AskReal, TypeOK
    <3> QED
      BY <1>1, <3>1 DEF AskReal, CallInv, LoopInv
  <2> QED
    BY <2>1, <2>2
<1> QED
  BY <1>1, <1>3, <1>4, <1>5, RunKeeps DEF AskReal, Break, TypeOK

\* The members of Mixed that are put together.
LEMMA MixedHas ==
  ASSUME NEW p \in Paths, NEW S, NEW d \in S, NEW n \in 0..Len(p),
         d.canon[Upto(p, n)] # Fails
  PROVE  Promise!Spliced(p, n, d) \in Promise!Mixed(p, S)
<1> DEFINE below(e) == {m \in 0..Len(p) : e.canon[SubSeq(p, 1, m)] # Fails}
           spliced(e) == {Promise!Spliced(p, m, e) : m \in below(e)}
<1>1. n \in below(d)
  BY DEF Upto
<1>2. Promise!Spliced(p, n, d) \in spliced(d)
  BY <1>1
<1>3. Promise!Spliced(p, n, d) \in UNION {spliced(e) : e \in S}
  BY <1>2
<1> QED
  BY <1>3 DEF Promise!Mixed

\* What is put together from paths is a path.
LEMMA MixedResults ==
  ASSUME NEW p \in Paths, NEW S \in SUBSET Disks
  PROVE  Promise!Mixed(p, S) \subseteq Results
<1>1. p \in Seq(Names) /\ Len(p) \in Nat
  BY UptoPath, UptoAll, PathAssumption
<1>2. ASSUME NEW d \in S, NEW n \in 0..Len(p), d.canon[SubSeq(p, 1, n)] # Fails
      PROVE  Promise!Spliced(p, n, d) \in Seq(Names)
  <2>1. SubSeq(p, 1, n) \in Paths
    BY UptoPath DEF Upto
  <2>2. d.canon[SubSeq(p, 1, n)] \in Seq(Names)
    BY <1>2, <2>1, DiskAssumption DEF Results
  <2>3. SubSeq(p, n + 1, Len(p)) \in Seq(Names)
    BY <1>1, BelowSeq, Len(p) \in n..Len(p) DEF Below
  <2> QED
    BY <2>2, <2>3, ConcatProperties DEF Promise!Spliced
<1> QED
  BY <1>1, <1>2 DEF Promise!Mixed, Results

\* The loop at an entry that is no link: TypeOK and the loop's invariant.
LEMMA ClimbKeeps ==
  ASSUME TypeOK, NEW t \in Threads, Climb(t), UNCHANGED <<goal, saw>>,
         \A d \in Disks : saw[t] = {d} =>
           /\ Plain(goal[t], at[t], d)
           /\ d.canon[at[t]] # Fails => at[t] \notin d.link
  PROVE  /\ LoopInv(t)'
         /\ at' \in [Threads -> Paths]
         /\ \A u \in Threads : \E n \in 0..Len(goal'[u]) : at'[u] = SubSeq(goal'[u], 1, n)
<1> DEFINE p == goal[t]
           m == Len(at[t])
<1>1. /\ p \in Paths /\ at[t] = Upto(p, m) /\ m \in 0..Len(p) /\ m \in Nat
      /\ Len(p) \in Nat /\ at[t] \in Seq(Names) /\ at \in [Threads -> Paths]
      /\ pc \in [Threads -> {"idle", "real", "link", "read_link", "canonicalize",
                             "finish", "own", "done"}]
  BY AtPrefix DEF TypeOK
<1>2. \A u \in Threads \ {t} : at'[u] = at[u] /\ goal'[u] = goal[u]
  BY <1>1 DEF Climb
<1>3. goal'[t] = p /\ saw'[t] = saw[t]
  OBVIOUS
<1>4. CASE at[t] = <<>>
  <2>1. at'[t] = p /\ pc'[t] = "own" /\ at' \in [Threads -> Paths]
    BY <1>1, <1>4 DEF Climb
  <2>2. \A d \in Disks : saw[t] = {d} => Own(p, d)
    BY <1>1, <1>4, PlainRoot
  <2>3. p = SubSeq(p, 1, Len(p)) /\ Len(p) \in 0..Len(p)
    BY <1>1, UptoAll DEF Upto
  <2>4. LoopInv(t)'
    BY <1>3, <2>1, <2>2 DEF LoopInv
  <2> QED
    BY <1>2, <1>3, <2>1, <2>3, <2>4 DEF TypeOK
<1>5. CASE at[t] # <<>>
  <2>1. m \in 1..Len(p) /\ m - 1 \in 0..Len(p)
    BY <1>1, <1>5, EmptySeq
  <2>2. Front(at[t]) = Upto(p, m - 1) /\ Upto(p, m - 1) \in Paths
    BY <1>1, <2>1, UptoFront, UptoPath
  <2>3. at'[t] = Upto(p, m - 1) /\ pc'[t] = "real" /\ at' \in [Threads -> Paths]
    BY <1>1, <1>5, <2>2 DEF Climb
  <2>4. ASSUME NEW d \in Disks, saw[t] = {d} PROVE Plain(p, Upto(p, m - 1), d)
    BY <1>1, <2>1, <2>4, PlainUp
  <2>5. LoopInv(t)'
    BY <1>3, <2>3, <2>4 DEF LoopInv
  <2> QED
    BY <1>2, <1>3, <2>1, <2>3, <2>5 DEF TypeOK, Upto
<1> QED
  BY <1>4, <1>5

LEMMA AskLinkKeeps ==
  ASSUME Inv, NEW t \in Threads, AskLink(t)
  PROVE  Inv'
<1> DEFINE known == link[of[t]][at[t]]
<1>1. /\ Busy(t) /\ CallInv(t) /\ TypeOK /\ of[t] \in Gens /\ pc[t] = "link"
      /\ saw[t] \in SUBSET Disks
  BY DEF AskLink, Busy, Inv, TypeOK
<1>2. at[t] \in Paths /\ known \in Results \cup {Unset, NoLink}
  BY <1>1, AtPrefix DEF TypeOK
<1>3. LinkOK(known, at[t], saw[t])
  BY <1>1, <1>2 DEF CallInv, CellsOK
<1>4. CellsOK(of[t], saw[t])'
  BY <1>1 DEF CallInv, AskLink, CellsOK
<1>5. \A u \in Threads \ {t} : pc'[u] = pc[u] /\ at'[u] = at[u] /\ found'[u] = found[u]
  BY <1>1 DEF AskLink, Break, Climb, TypeOK
<1>6. UNCHANGED <<disk, gen, of, goal, since, saw, real, link, changes, calls, ans>>
  BY DEF AskLink
<1>7. TypeOK' /\ LoopInv(t)'
  <2>1. CASE known \notin {Unset, NoLink} /\ Break(t, known) /\ UNCHANGED <<at, holder>>
    <3>1. pc'[t] = "finish" /\ found'[t] = known
      BY <1>1, <2>1 DEF Break, TypeOK
    <3>2. AnswerOK(known, at[t], saw[t]) /\ known \in Results
      BY <1>2, <1>3, <2>1 DEF LinkOK
    <3>3. LoopInv(t)'
      BY <1>1, <1>6, <2>1, <3>1, <3>2 DEF CallInv, LoopInv
    <3>4. \A u \in Threads : goal'[u] = goal[u] /\ at'[u] = at[u]
      BY <1>6, <2>1
    <3>5. TypeOK'
      BY <1>1, <1>2, <1>6, <2>1, <3>4 DEF Break, TypeOK
    <3> QED
      BY <3>3, <3>5
  <2>2. CASE known = NoLink /\ Climb(t) /\ UNCHANGED <<found, holder>>
    <3>1. ~AnswerOK(known, at[t], saw[t])
      BY <1>1, <1>2, <2>2, MixedResults, SentinelAssumption DEF AnswerOK
    <3>2. ASSUME NEW d \in Disks, saw[t] = {d}
          PROVE  /\ Plain(goal[t], at[t], d)
                 /\ d.canon[at[t]] # Fails => at[t] \notin d.link
      BY <1>1, <1>3, <2>2, <3>1, <3>2, SentinelAssumption DEF LinkOK, CallInv, LoopInv
    <3>3. UNCHANGED <<goal, saw>>
      BY <1>6
    <3>4. /\ LoopInv(t)'
          /\ at' \in [Threads -> Paths]
          /\ \A u \in Threads : \E n \in 0..Len(goal'[u]) : at'[u] = SubSeq(goal'[u], 1, n)
      BY <1>1, <2>2, <3>2, <3>3, ClimbKeeps
    <3>5. TypeOK'
      BY <1>1, <1>6, <2>2, <3>4 DEF Climb, TypeOK
    <3> QED
      BY <3>4, <3>5
  <2>3. CASE /\ holder' = [holder EXCEPT ![of[t]][at[t]] = t]
             /\ Goto(t, "read_link") /\ UNCHANGED <<at, found>>
    <3>1. \A u \in Threads : goal'[u] = goal[u] /\ at'[u] = at[u]
      BY <1>6, <2>3
    <3>2. TypeOK'
      BY <1>1, <1>2, <1>6, <2>3, <3>1 DEF TypeOK
    <3>3. pc'[t] = "read_link"
      BY <1>1, <2>3 DEF TypeOK
    <3>4. LoopInv(t)'
      BY <1>1, <1>6, <2>3, <3>3 DEF CallInv, LoopInv
    <3> QED
      BY <3>2, <3>4
  <2> QED
    BY <2>1, <2>2, <2>3 DEF AskLink
<1>8. \A g \in Gens \ {of[t]} : real'[g] = real[g] /\ link'[g] = link[g]
  BY <1>6
<1> QED
  BY <1>1, <1>4, <1>5, <1>6, <1>7, <1>8, RunKeeps

\* Where the loop is does not move.
LEMMA AtStays ==
  ASSUME TypeOK, UNCHANGED <<goal, at>>
  PROVE  \A u \in Threads : \E n \in 0..Len(goal'[u]) : at'[u] = SubSeq(goal'[u], 1, n)
BY DEF TypeOK

-----------------------------------------------------------------------------
(* Cells are filled *)

\* A value that is good for the cell `symlink` of the entry can be stored.
LEMMA StoreLinkKeeps ==
  ASSUME Inv, NEW t \in Threads, pc[t] \in {"read_link", "canonicalize"},
         NEW v \in Results \cup {NoLink},
         StoreLink(t, v), LinkOK(v, at[t], saw[t]),
         UNCHANGED <<world, real, calls, locals, ans, since, saw>>
  PROVE  Inv'
<1>1. CallInv(t) /\ Busy(t) /\ TypeOK /\ of[t] \in Gens /\ at[t] \in Paths
  BY AtPrefix DEF Inv, TypeOK, Busy
<1>2. pc'[t] = "link" /\ \A u \in Threads \ {t} : pc'[u] = pc[u]
  BY <1>1 DEF StoreLink, TypeOK
<1>3. TypeOK'
  <2>1. \A u \in Threads : \E n \in 0..Len(goal'[u]) : at'[u] = SubSeq(goal'[u], 1, n)
    BY <1>1, AtStays
  <2> QED
    BY <1>1, <2>1 DEF StoreLink, TypeOK
<1>4. /\ link'[of[t]][at[t]] = v
      /\ \A p \in Paths \ {at[t]} : link'[of[t]][p] = link[of[t]][p]
      /\ \A g \in Gens \ {of[t]} : link'[g] = link[g]
  BY <1>1 DEF StoreLink, TypeOK
<1>5. CellsOK(of[t], saw[t])'
  BY <1>1, <1>4 DEF CellsOK, CallInv
<1>6. LoopInv(t)'
  BY <1>1, <1>2 DEF LoopInv, CallInv
<1> QED
  BY <1>1, <1>2, <1>3, <1>4, <1>5, <1>6, RunKeeps

LEMMA ReadLinkKeeps ==
  ASSUME Inv, NEW t \in Threads, ReadLink(t)
  PROVE  Inv'
<1>1. /\ Busy(t) /\ CallInv(t) /\ TypeOK /\ of[t] \in Gens /\ pc[t] = "read_link"
      /\ disk \in saw[t]
  BY DEF ReadLink, Busy, Inv, TypeOK, CallInv
<1>2. \A d \in Disks : saw[t] = {d} => d = disk
  BY <1>1
<1>3. CASE at[t] \notin disk.link /\ StoreLink(t, NoLink)
  BY <1>1, <1>2, <1>3, StoreLinkKeeps DEF LinkOK, ReadLink
<1>4. CASE at[t] \in disk.link /\ Goto(t, "canonicalize") /\ UNCHANGED <<link, holder>>
  <2>1. UNCHANGED <<disk, changes, gen, real, link, holder, calls, of, goal, at, found,
                    ans, since, saw>>
    BY <1>4 DEF ReadLink
  <2>2. pc'[t] = "canonicalize" /\ \A u \in Threads \ {t} : pc'[u] = pc[u]
    BY <1>1, <1>4 DEF TypeOK
  <2>3. TypeOK'
    <3>1. \A u \in Threads : \E n \in 0..Len(goal'[u]) : at'[u] = SubSeq(goal'[u], 1, n)
      BY <1>1, <2>1, AtStays
    <3> QED
      BY <1>1, <1>4, <2>1, <3>1 DEF TypeOK
  <2>4. CellsOK(of[t], saw[t])'
    BY <1>1, <2>1 DEF CellsOK, CallInv
  <2>5. LoopInv(t)'
    BY <1>1, <1>2, <1>4, <2>1, <2>2 DEF LoopInv, CallInv
  <2> QED
    BY <1>1, <2>1, <2>2, <2>3, <2>4, <2>5, RunKeeps
<1> QED
  BY <1>3, <1>4 DEF ReadLink

\* What canonicalize returns is explained by the disk it saw.
LEMMA CanonicalizeKeeps ==
  ASSUME Inv, NEW t \in Threads, Canonicalize(t)
  PROVE  Inv'
<1> DEFINE p == at[t]
           path == disk.canon[p]
<1>1. /\ Busy(t) /\ CallInv(t) /\ TypeOK /\ pc[t] = "canonicalize"
      /\ disk \in saw[t] /\ disk \in Disks /\ saw[t] \in SUBSET Disks
  BY DEF Canonicalize, Busy, Inv, TypeOK, CallInv
<1>2. p \in Paths /\ path \in Results \cup {Fails}
  BY <1>1, AtPrefix, DiskAssumption
<1>3. \A d \in Disks : saw[t] = {d} => d = disk /\ p \in d.link
  BY <1>1 DEF CallInv, LoopInv
<1>4. UNCHANGED <<world, real, calls, locals, ans, since, saw>>
  BY DEF Canonicalize
<1>5. CASE path = Fails
  <2>1. StoreLink(t, NoLink) /\ LinkOK(NoLink, p, saw[t])
    BY <1>3, <1>5 DEF Canonicalize, LinkOK
  <2> QED
    BY <1>1, <1>4, <2>1, StoreLinkKeeps
<1>6. CASE path # Fails
  <2>1. StoreLink(t, path) /\ path \in Results
    BY <1>2, <1>6 DEF Canonicalize
  <2>2. path \in Promise!Mixed(p, saw[t])
    <3>1. /\ SubSeq(p, 1, Len(p)) = p /\ Len(p) \in 0..Len(p)
          /\ SubSeq(p, Len(p) + 1, Len(p)) = <<>>
      BY <1>2, UptoAll, BelowSeq DEF Upto, Below
    <3>2. Promise!Spliced(p, Len(p), disk) = path
      BY <2>1, <3>1, ConcatEmptySeq DEF Promise!Spliced, Results
    <3> QED
      BY <1>1, <1>2, <1>6, <3>1, <3>2, MixedHas DEF Upto
  <2>3. LinkOK(path, p, saw[t])
    BY <1>3, <2>2 DEF LinkOK, AnswerOK
  <2> QED
    BY <1>1, <1>4, <2>1, <2>3, StoreLinkKeeps
<1> QED
  BY <1>5, <1>6

-----------------------------------------------------------------------------
(* The call returns *)

\* What was found above, with the names below it: the answer for the goal.
LEMMA RejoinedOK ==
  ASSUME NEW p \in Paths, NEW m \in 0..Len(p), NEW S \in SUBSET Disks, NEW v,
         AnswerOK(v, Upto(p, m), S),
         \A d \in Disks : S = {d} => Plain(p, Upto(p, m), d)
  PROVE  AnswerOK(v \o Below(p, m, Len(p)), p, S)
<1> DEFINE a == Upto(p, m)
           r == v \o Below(p, m, Len(p))
<1>1. /\ a \in Paths /\ a \in Seq(Names) /\ Len(a) = m /\ p \in Seq(Names)
      /\ Len(p) \in Nat /\ m \in Nat
  BY UptoPath, UptoAll
<1>2. r \in Promise!Mixed(p, S)
  <2>1. CASE v = a
    <3>0. Below(p, 0, m) = a /\ Below(p, 0, Len(p)) = Upto(p, Len(p))
      BY DEF Upto, Below
    <3>1. Below(p, 0, m) \o Below(p, m, Len(p)) = Below(p, 0, Len(p))
      BY <1>1, BelowSplit, 0 \in 0..Len(p), m \in 0..Len(p), Len(p) \in m..Len(p)
    <3>2. r = p
      BY <2>1, <3>1, <3>0, UptoAll
    <3> QED
      BY <3>2 DEF Promise!Mixed
  <2>2. CASE v # a
    <3>1. PICK d \in S, n \in 0..m :
            d.canon[Upto(a, n)] # Fails /\ v = d.canon[Upto(a, n)] \o Below(a, n, m)
      BY <1>1, <2>2 DEF AnswerOK, Promise!Mixed, Promise!Spliced, Upto, Below
    <3>2. /\ Upto(a, n) = Upto(p, n) /\ Below(a, n, m) = Below(p, n, m)
          /\ n \in 0..Len(p) /\ m \in n..Len(p) /\ Len(p) \in m..Len(p)
          /\ n \in 0..Len(a) /\ n \in Nat
      BY <1>1, UptoUpto
    <3>3. /\ d.canon[Upto(p, n)] \in Seq(Names)
          /\ Below(p, n, m) \in Seq(Names) /\ Below(p, m, Len(p)) \in Seq(Names)
      <4>1. Upto(p, n) \in Paths
        BY <3>2, UptoPath
      <4>2. d \in Disks
        OBVIOUS
      <4> QED
        BY <3>1, <3>2, <4>1, <4>2, BelowSeq, DiskAssumption DEF Results
    <3>4. r = d.canon[Upto(p, n)] \o (Below(p, n, m) \o Below(p, m, Len(p)))
      <4>0. \A x, y, z \in Seq(Names) : (x \o y) \o z = x \o (y \o z)
        BY ConcatAssociative
      <4>1. (d.canon[Upto(p, n)] \o Below(p, n, m)) \o Below(p, m, Len(p))
              = d.canon[Upto(p, n)] \o (Below(p, n, m) \o Below(p, m, Len(p)))
        BY <3>3, <4>0
      <4> QED
        BY <3>1, <3>2, <4>1
    <3>5. Below(p, n, m) \o Below(p, m, Len(p)) = Below(p, n, Len(p))
      BY <3>2, BelowSplit
    <3>6. r = Promise!Spliced(p, n, d)
      BY <3>4, <3>5 DEF Promise!Spliced, Upto, Below
    <3> QED
      BY <3>1, <3>2, <3>6, MixedHas
  <2> QED
    BY <2>1, <2>2
<1>3. ASSUME NEW d \in Disks, S = {d}, d.canon[p] # Fails PROVE r = d.canon[p]
  <2>1. Upto(p, Len(p)) = p /\ Len(p) \in Len(a)..Len(p)
    BY <1>1, UptoAll
  <2>2. d.canon[a] # Fails /\ d.canon[p] = d.canon[a] \o Below(p, m, Len(p))
    BY <1>1, <1>3, <2>1 DEF Plain
  <2>3. v = d.canon[a]
    BY <1>3, <2>2 DEF AnswerOK
  <2> QED
    BY <2>2, <2>3
<1> QED
  BY <1>2, <1>3 DEF AnswerOK

\* A value that is good for the cell `real` of an entry can be stored.
LEMMA InitRealKeeps ==
  ASSUME Inv, NEW t \in Threads, Busy(t), NEW p \in Paths, NEW v \in Results,
         InitReal(t, p, v), AnswerOK(v, p, saw[t]), UNCHANGED <<link, of, saw>>
  PROVE  /\ real' \in [Gens -> [Paths -> Results \cup {Unset}]]
         /\ CellsOK(of[t], saw[t])'
         /\ \A g \in Gens \ {of[t]} : real'[g] = real[g] /\ link'[g] = link[g]
<1>1. CallInv(t) /\ TypeOK /\ of[t] \in Gens
  BY DEF Inv, TypeOK
<1>2. CASE real[of[t]][p] = Unset
  <2>1. /\ real' \in [Gens -> [Paths -> Results \cup {Unset}]]
        /\ real'[of[t]][p] = v
        /\ \A q \in Paths \ {p} : real'[of[t]][q] = real[of[t]][q]
        /\ \A g \in Gens \ {of[t]} : real'[g] = real[g]
    BY <1>1, <1>2 DEF InitReal, TypeOK
  <2>2. CellsOK(of[t], saw[t])'
    BY <1>1, <2>1 DEF CellsOK, CallInv, RealOK
  <2> QED
    BY <2>1, <2>2
<1>3. CASE real[of[t]][p] # Unset
  BY <1>1, <1>3 DEF InitReal, TypeOK, CellsOK, CallInv
<1> QED
  BY <1>2, <1>3

LEMMA FinishAnswer ==
  ASSUME Inv, NEW t \in Threads, pc[t] = "finish"
  PROVE  AnswerOK(Rejoined(t), goal[t], saw[t]) /\ Rejoined(t) \in Results
<1> DEFINE p == goal[t]
           m == Len(at[t])
<1>1. /\ Busy(t) /\ CallInv(t) /\ TypeOK /\ saw[t] \in SUBSET Disks
  BY DEF Busy, Inv, TypeOK
<1>2. /\ p \in Paths /\ m \in 0..Len(p) /\ at[t] = Upto(p, m)
  BY <1>1, AtPrefix
<1>3. /\ AnswerOK(found[t], Upto(p, m), saw[t])
      /\ \A d \in Disks : saw[t] = {d} => Plain(p, Upto(p, m), d)
  BY <1>1, <1>2 DEF CallInv, LoopInv
<1>4. AnswerOK(found[t] \o Below(p, m, Len(p)), p, saw[t])
  BY <1>1, <1>2, <1>3, RejoinedOK
<1>5. Rejoined(t) = found[t] \o Below(p, m, Len(p))
  BY DEF Rejoined, Below
<1> QED
  BY <1>1, <1>2, <1>4, <1>5, MixedResults DEF AnswerOK

LEMMA FinishKeeps ==
  ASSUME Inv, NEW t \in Threads, Finish(t)
  PROVE  Inv'
<1>1. Busy(t) /\ TypeOK /\ goal[t] \in Paths /\ pc[t] = "finish"
  BY DEF Finish, Busy, Inv, TypeOK
<1>2. UNCHANGED <<disk, changes, gen, link, holder, calls, of, goal, at, since, saw>>
  BY DEF Finish
<1>3. /\ real' \in [Gens -> [Paths -> Results \cup {Unset}]]
      /\ CellsOK(of[t], saw[t])'
      /\ \A g \in Gens \ {of[t]} : real'[g] = real[g] /\ link'[g] = link[g]
  BY <1>1, <1>2, FinishAnswer, InitRealKeeps DEF Finish
<1>4. pc'[t] = "done" /\ \A u \in Threads \ {t} : pc'[u] = pc[u] /\ found'[u] = found[u]
  BY <1>1 DEF Finish, Return, TypeOK
<1>5. TypeOK'
  <2>1. \A u \in Threads : \E n \in 0..Len(goal'[u]) : at'[u] = SubSeq(goal'[u], 1, n)
    BY <1>1, <1>2, AtStays
  <2> QED
    BY <1>1, <1>2, <1>3, <2>1, FinishAnswer DEF Finish, Return, TypeOK
<1>6. ~Busy(t)'
  BY <1>4 DEF Busy
<1> QED
  BY <1>1, <1>2, <1>3, <1>4, <1>5, <1>6, RunKeeps

\* Without a link above it every entry is its own real path.
LEMMA OwnAnswer ==
  ASSUME Inv, NEW t \in Threads, pc[t] = "own", NEW n \in 0..Len(goal[t])
  PROVE  AnswerOK(Upto(goal[t], n), Upto(goal[t], n), saw[t])
<1>1. Busy(t) /\ CallInv(t)
  BY DEF Busy, Inv
<1>2. \A d \in Disks : saw[t] = {d} => Own(goal[t], d)
  BY <1>1 DEF CallInv, LoopInv
<1> QED
  BY <1>2 DEF AnswerOK, Own, Promise!Mixed

LEMMA InitOwnKeeps ==
  ASSUME Inv, NEW t \in Threads, InitOwn(t)
  PROVE  Inv'
<1> DEFINE p == goal[t]
           m == Len(at[t])
<1>1. Busy(t) /\ TypeOK /\ pc[t] = "own" /\ CallInv(t)
  BY DEF InitOwn, Busy, Inv, TypeOK
<1>2. /\ p \in Paths /\ m \in 0..Len(p) /\ at[t] = Upto(p, m) /\ at[t] \in Paths
      /\ at[t] \in Seq(Names) /\ p \in Seq(Names) /\ m \in Nat /\ Len(p) \in Nat
  BY <1>1, AtPrefix
<1>3. UNCHANGED <<disk, changes, gen, link, holder, calls, of, goal, since, saw>>
  BY DEF InitOwn
<1>4. /\ real' \in [Gens -> [Paths -> Results \cup {Unset}]]
      /\ CellsOK(of[t], saw[t])'
      /\ \A g \in Gens \ {of[t]} : real'[g] = real[g] /\ link'[g] = link[g]
  BY <1>1, <1>2, <1>3, OwnAnswer, InitRealKeeps DEF InitOwn, Results
<1>5. CASE at[t] # <<>> /\ at' = [at EXCEPT ![t] = Front(@)] /\ UNCHANGED <<pc, ans, found>>
  <2>1. m \in 1..Len(p) /\ m - 1 \in 0..Len(p)
    BY <1>2, <1>5, EmptySeq
  <2>2. Front(at[t]) = Upto(p, m - 1) /\ Upto(p, m - 1) \in Paths
    BY <1>2, <2>1, UptoFront, UptoPath
  <2>3. /\ at' \in [Threads -> Paths] /\ at'[t] = Upto(p, m - 1)
        /\ \A u \in Threads \ {t} : at'[u] = at[u]
    BY <1>1, <1>5, <2>2 DEF TypeOK
  <2>4. \A u \in Threads : \E n \in 0..Len(goal'[u]) : at'[u] = SubSeq(goal'[u], 1, n)
    BY <1>1, <1>3, <2>1, <2>3 DEF TypeOK, Upto
  <2>5. TypeOK'
    BY <1>1, <1>3, <1>4, <1>5, <2>3, <2>4 DEF TypeOK
  <2>6. LoopInv(t)'
    BY <1>1, <1>3, <1>5 DEF CallInv, LoopInv
  <2> QED
    BY <1>1, <1>3, <1>4, <1>5, <2>3, <2>5, <2>6, RunKeeps
<1>6. CASE at[t] = <<>> /\ Return(t, goal[t]) /\ UNCHANGED at
  <2>1. pc'[t] = "done" /\ \A u \in Threads \ {t} : pc'[u] = pc[u] /\ found'[u] = found[u]
    BY <1>1, <1>6 DEF Return, TypeOK
  <2>2. TypeOK'
    <3>1. \A u \in Threads : \E n \in 0..Len(goal'[u]) : at'[u] = SubSeq(goal'[u], 1, n)
      BY <1>1, <1>3, <1>6, AtStays
    <3> QED
      BY <1>1, <1>2, <1>3, <1>4, <1>6, <3>1 DEF Return, TypeOK, Results
  <2>3. ~Busy(t)'
    BY <2>1 DEF Busy
  <2> QED
    BY <1>1, <1>3, <1>4, <1>6, <2>1, <2>2, <2>3, RunKeeps
<1> QED
  BY <1>5, <1>6 DEF InitOwn

-----------------------------------------------------------------------------
(* Calls begin, the disk changes, the entries are cleared *)

\* At its first entry the loop has passed none.
LEMMA PlainStart ==
  ASSUME NEW p \in Paths, NEW d \in Disks
  PROVE  Plain(p, p, d)
<1>1. Upto(p, Len(p)) = p /\ Len(p) \in Nat /\ Below(p, Len(p), Len(p)) = <<>>
  BY UptoAll, BelowSeq
<1>2. d.canon[p] # Fails => d.canon[p] \in Seq(Names)
  BY DiskAssumption DEF Results
<1> QED
  BY <1>1, <1>2, ConcatEmptySeq DEF Plain

LEMMA StartKeeps ==
  ASSUME Inv, NEW t \in Threads, Start(t)
  PROVE  Inv'
<1>1. TypeOK /\ pc[t] \in {"idle", "done"}
  BY DEF Inv, Start
<1>2. UNCHANGED <<disk, changes, gen, real, link, holder, found, ans, since>>
  BY DEF Start
<1>3. PICK p \in Goals : goal' = [goal EXCEPT ![t] = p] /\ at' = [at EXCEPT ![t] = p]
  BY DEF Start
<1>4. /\ p \in Paths /\ p = SubSeq(p, 1, Len(p)) /\ Len(p) \in 0..Len(p)
  BY PathAssumption, UptoAll DEF Upto
<1>5. /\ goal'[t] = p /\ at'[t] = p /\ pc'[t] = "real" /\ of'[t] = gen /\ saw'[t] = since
      /\ \A u \in Threads \ {t} :
           /\ pc'[u] = pc[u] /\ goal'[u] = goal[u] /\ at'[u] = at[u]
           /\ of'[u] = of[u] /\ saw'[u] = saw[u]
  BY <1>1, <1>3 DEF Start, TypeOK
<1>6. TypeOK'
  <2>1. ASSUME NEW u \in Threads
        PROVE  \E n \in 0..Len(goal'[u]) : at'[u] = SubSeq(goal'[u], 1, n)
    <3>1. CASE u = t
      BY <1>4, <1>5, <3>1
    <3>2. CASE u # t
      BY <1>1, <1>5, <3>2 DEF TypeOK
    <3> QED
      BY <3>1, <3>2
  <2>2. calls' \in [Threads -> 0..MaxCalls]
    BY <1>1, BoundAssumption DEF Start, TypeOK
  <2>3. /\ goal' \in [Threads -> Paths] /\ at' \in [Threads -> Paths]
        /\ of' \in [Threads -> Gens] /\ saw' \in [Threads -> SUBSET Disks]
        /\ pc' \in [Threads -> {"idle", "real", "link", "read_link", "canonicalize",
                                "finish", "own", "done"}]
    BY <1>1, <1>3, <1>4 DEF Start, TypeOK
  <2> QED
    BY <1>1, <1>2, <2>1, <2>2, <2>3 DEF TypeOK
<1>7. CellsOK(gen, since)'
  BY <1>2 DEF Inv, CellsOK
<1>8. ASSUME NEW u \in Threads, Busy(u)' PROVE CallInv(u)'
  <2>1. CASE u = t
    <3>1. LoopInv(t)'
      BY <1>4, <1>5, PlainStart DEF LoopInv
    <3>2. CellsOK(of[t], saw[t])'
      BY <1>2, <1>5, <1>7 DEF CellsOK
    <3>3. of'[t] \in 0..gen' /\ disk' \in saw'[t]
      BY <1>1, <1>2, <1>5 DEF Inv, TypeOK, Gens
    <3> QED
      BY <1>2, <1>5, <2>1, <3>1, <3>2, <3>3 DEF CallInv
  <2>2. CASE u # t
    <3>1. CallInv(u)
      BY <1>5, <1>8, <2>2 DEF Inv, Busy
    <3>2. LoopInv(u)'
      BY <1>2, <1>5, <2>2, <3>1 DEF CallInv, LoopInv
    <3>3. CellsOK(of[u], saw[u])'
      BY <1>2, <1>5, <2>2, <3>1 DEF CallInv, CellsOK
    <3> QED
      BY <1>2, <1>5, <2>2, <3>1, <3>2, <3>3 DEF CallInv
  <2> QED
    BY <2>1, <2>2
<1>9. ASSUME NEW u \in Threads, NEW v \in Threads,
             Busy(u)', Busy(v)', of'[u] = of'[v]
      PROVE  saw'[u] = saw'[v]
  <2>1. \A w \in Threads \ {t} : Busy(w)' => Busy(w) /\ CallInv(w)
    BY <1>5 DEF Inv, Busy
  <2>2. \A w \in Threads \ {t} : Busy(w)' /\ of'[w] = gen => saw'[w] = since
    BY <1>5, <2>1 DEF CallInv
  <2>3. CASE u # t /\ v # t
    BY <1>5, <1>9, <2>1, <2>3 DEF Inv
  <2> QED
    BY <1>5, <1>9, <2>2, <2>3
<1>10. disk' \in since'
       /\ \A g \in Gens, q \in Paths : g > gen' => real'[g][q] = Unset /\ link'[g][q] = Unset
  BY <1>2 DEF Inv
<1> QED
  BY <1>6, <1>7, <1>8, <1>9, <1>10 DEF Inv

LEMMA ChangeKeeps ==
  ASSUME Inv, Change
  PROVE  Inv'
<1>1. /\ TypeOK /\ disk \in since /\ disk' \in Disks
      /\ since' = since \cup {disk'}
      /\ \A t \in Threads : saw'[t] = saw[t] \cup {disk'}
  BY DEF Inv, Change
<1>2. UNCHANGED <<gen, real, link, holder, pc, calls, of, goal, at, found, ans>>
  BY DEF Change
<1>3. TypeOK'
  <2>1. \A u \in Threads : \E n \in 0..Len(goal'[u]) : at'[u] = SubSeq(goal'[u], 1, n)
    BY <1>1, <1>2, AtStays
  <2>2. changes' \in 0..MaxChanges
    BY <1>1, BoundAssumption DEF Change, TypeOK
  <2>3. saw' \in [Threads -> SUBSET Disks] /\ since' \subseteq Disks
    BY <1>1 DEF Change, TypeOK
  <2> QED
    BY <1>1, <1>2, <2>1, <2>2, <2>3 DEF TypeOK
<1>4. CellsOK(gen, since)'
  BY <1>1, <1>2, MoreDisks DEF Inv, CellsOK
<1>5. ASSUME NEW t \in Threads, Busy(t)' PROVE CallInv(t)'
  <2>1. CallInv(t) /\ Busy(t)
    BY <1>2, <1>5 DEF Inv, Busy
  <2>2. /\ saw[t] # {} /\ saw[t] \subseteq saw'[t] /\ disk' \in saw'[t]
        /\ \A d : saw'[t] = {d} => saw[t] = {d}
    BY <1>1, <2>1 DEF CallInv
  <2>3. CellsOK(of[t], saw[t])'
    BY <1>2, <2>1, <2>2, MoreDisks DEF CallInv, CellsOK
  <2>4. LoopInv(t)'
    BY <1>2, <2>1, <2>2, MoreDisks DEF CallInv, LoopInv
  <2>5. of[t] = gen => saw'[t] = since'
    BY <1>1, <2>1 DEF CallInv
  <2> QED
    BY <1>2, <2>1, <2>2, <2>3, <2>4, <2>5 DEF CallInv
<1>6. \A t, u \in Threads : Busy(t)' /\ Busy(u)' /\ of'[t] = of'[u] => saw'[t] = saw'[u]
  BY <1>1, <1>2 DEF Inv, Busy
<1>7. \A g \in Gens, p \in Paths : g > gen' => real'[g][p] = Unset /\ link'[g][p] = Unset
  BY <1>2 DEF Inv
<1> QED
  BY <1>1, <1>3, <1>4, <1>5, <1>6, <1>7 DEF Inv

LEMMA ClearKeeps ==
  ASSUME Inv, Clear
  PROVE  Inv'
<1>1. /\ TypeOK /\ gen' = gen + 1 /\ gen' \in Gens /\ gen \in Gens /\ since' = {disk}
      /\ gen \in Nat
  BY BoundAssumption DEF Inv, Clear, TypeOK, Gens
<1>2. UNCHANGED <<disk, changes, real, link, holder, pc, calls, of, goal, at, found,
                  ans, saw>>
  BY DEF Clear
<1>3. TypeOK'
  <2>1. \A u \in Threads : \E n \in 0..Len(goal'[u]) : at'[u] = SubSeq(goal'[u], 1, n)
    BY <1>1, <1>2, AtStays
  <2> QED
    BY <1>1, <1>2, <2>1 DEF TypeOK
<1>4. CellsOK(gen, since)'
  BY <1>1, <1>2 DEF Inv, CellsOK, RealOK, LinkOK
<1>5. ASSUME NEW t \in Threads, Busy(t)' PROVE CallInv(t)'
  <2>1. CallInv(t)
    BY <1>2, <1>5 DEF Inv, Busy
  <2>2. LoopInv(t)'
    BY <1>2, <2>1 DEF CallInv, LoopInv
  <2>3. CellsOK(of[t], saw[t])'
    BY <1>2, <2>1 DEF CallInv, CellsOK
  <2>4. of[t] \in 0..gen' /\ of[t] # gen'
    BY <1>1, <2>1 DEF CallInv
  <2> QED
    BY <1>2, <2>1, <2>2, <2>3, <2>4 DEF CallInv
<1>6. \A t, u \in Threads : Busy(t)' /\ Busy(u)' /\ of'[t] = of'[u] => saw'[t] = saw'[u]
  BY <1>2 DEF Inv, Busy
<1>7. \A g \in Gens, p \in Paths : g > gen' => real'[g][p] = Unset /\ link'[g][p] = Unset
  BY <1>1, <1>2 DEF Inv, Gens
<1> QED
  BY <1>1, <1>2, <1>3, <1>4, <1>5, <1>6, <1>7 DEF Inv

-----------------------------------------------------------------------------
(* The theorems *)

LEMMA InitInv == Init => Inv
<1> SUFFICES ASSUME Init PROVE Inv
  OBVIOUS
<1>1. 0 \in Gens /\ <<>> \in Paths /\ <<>> = SubSeq(<<>>, 1, 0) /\ 0 \in 0..Len(<<>>)
  BY BoundAssumption, PathAssumption DEF Gens
<1>2. TypeOK
  <2>1. \A u \in Threads : \E n \in 0..Len(goal[u]) : at[u] = SubSeq(goal[u], 1, n)
    BY <1>1 DEF Init
  <2> QED
    BY <1>1, <2>1, BoundAssumption DEF Init, TypeOK
<1>3. \A t \in Threads : ~Busy(t)
  BY DEF Init, Busy
<1>4. \A g \in Gens, p \in Paths : real[g][p] = Unset /\ link[g][p] = Unset
  BY DEF Init
<1> QED
  BY <1>1, <1>2, <1>3, <1>4 DEF Init, Inv, CellsOK, RealOK, LinkOK

LEMMA NextKeeps == Inv /\ [Next]_vars => Inv'
<1> SUFFICES ASSUME Inv, [Next]_vars PROVE Inv'
  OBVIOUS
<1>1. CASE UNCHANGED vars
  BY <1>1 DEF vars, Inv, TypeOK, CellsOK, CallInv, LoopInv, Busy
<1>2. CASE Next
  BY <1>2, ChangeKeeps, ClearKeeps, StartKeeps, AskRealKeeps, AskLinkKeeps, ReadLinkKeeps,
     CanonicalizeKeeps, FinishKeeps, InitOwnKeeps DEF Next, Run
<1> QED
  BY <1>1, <1>2

LEMMA InvHolds == Spec => []Inv
BY InitInv, NextKeeps, PTL DEF Spec

\* Every variable keeps its type; the loop is always at a prefix of its goal.
THEOREM TypeOKHolds == Spec => []TypeOK
<1>1. Inv => TypeOK
  BY DEF Inv
<1> QED
  BY <1>1, InvHolds, PTL

\* While the disk is the one there was at the last clear_entries, each cell has
\* the canonical path of its own entry (init_real and the initialiser of
\* `symlink`), however many requests fill the cells of the entries they share.
THEOREM CellsCanonicalHolds == Spec => []CellsCanonical
<1>1. Inv => CellsCanonical
  <2> SUFFICES ASSUME Inv, NEW d \in Disks, since = {d}, NEW p \in Paths, d.canon[p] # Fails
               PROVE  /\ real[gen][p] \in {Unset, d.canon[p]}
                      /\ link[gen][p] \in {Unset, IF p \in d.link THEN d.canon[p] ELSE NoLink}
    BY DEF CellsCanonical
  <2>1. RealOK(real[gen][p], p, since) /\ LinkOK(link[gen][p], p, since)
    BY DEF Inv, CellsOK
  <2> QED
    BY <2>1 DEF RealOK, LinkOK, AnswerOK
<1> QED
  BY <1>1, InvHolds, PTL

\* A value that is good for a path is an answer RealPath allows.
LEMMA GoodAnswer ==
  ASSUME NEW v, NEW p \in Paths, NEW S \in SUBSET Disks, AnswerOK(v, p, S)
  PROVE  v \in Promise!Answers(p, S)
BY DEF AnswerOK, Promise!Answers

\* What RealPath sees of the calls.
Asked == [t \in Threads |-> IF Busy(t) THEN goal[t] ELSE NoPath]

LEMMA StepReplies ==
  ASSUME Inv, NEW t \in Threads, Busy(t), NEW v, AnswerOK(v, goal[t], saw[t]),
         Return(t, v), UNCHANGED <<disk, since, saw, goal>>
  PROVE  Promise!Reply(t)
<1>1. TypeOK /\ goal[t] \in Paths /\ goal[t] \in Results /\ saw[t] \in SUBSET Disks
  BY PathAssumption DEF Inv, TypeOK, Results
<1>2. Asked[t] = goal[t] /\ goal[t] # NoPath
  BY <1>1, SentinelAssumption DEF Asked
<1>3. pc'[t] = "done" /\ \A u \in Threads \ {t} : pc'[u] = pc[u]
  BY <1>1 DEF Return, TypeOK
<1>4. Asked' = [Asked EXCEPT ![t] = NoPath]
  BY <1>3 DEF Asked, Busy
<1>5. v \in Promise!Answers(Asked[t], saw[t])
  BY <1>1, <1>2, GoodAnswer
<1>6. ans' = [ans EXCEPT ![t] = v]
  BY DEF Return
<1> QED
  BY <1>2, <1>4, <1>5, <1>6 DEF Promise!Reply, Asked

\* A step that begins and ends no call.
LEMMA StepHidden ==
  ASSUME UNCHANGED <<disk, since, saw, goal, ans>>,
         \A u \in Threads : Busy(u)' <=> Busy(u)
  PROVE  UNCHANGED Promise!vars
BY DEF Promise!vars

LEMMA StepPromised ==
  ASSUME Inv, [Next]_vars
  PROVE  [Promise!Next]_(Promise!vars)
<1> USE DEF Promise!Next
<1>0. TypeOK
  BY DEF Inv
<1>1. CASE UNCHANGED vars
  BY <1>1, StepHidden DEF vars, Busy
<1>2. CASE Change
  BY <1>2 DEF Change, Promise!Change, Busy
<1>3. CASE Clear
  BY <1>3 DEF Clear, Promise!Clear, Busy
<1>4. ASSUME NEW t \in Threads, Start(t) PROVE Promise!Ask(t)
  <2>1. PICK p \in Goals : goal' = [goal EXCEPT ![t] = p]
    BY <1>4 DEF Start
  <2>2. /\ pc'[t] = "real" /\ goal'[t] = p
        /\ \A u \in Threads \ {t} : pc'[u] = pc[u] /\ goal'[u] = goal[u]
    BY <1>0, <1>4, <2>1 DEF Start, TypeOK
  <2>3. ~Busy(t)
    BY <1>4 DEF Start, Busy
  <2>4. Asked' = [Asked EXCEPT ![t] = p] /\ Asked[t] = NoPath
    BY <2>2, <2>3 DEF Asked, Busy
  <2> QED
    BY <1>4, <2>4 DEF Start, Promise!Ask, Asked
<1>5. ASSUME NEW t \in Threads, AskReal(t) \/ AskLink(t) \/ ReadLink(t) \/ Canonicalize(t)
      PROVE  UNCHANGED Promise!vars
  <2>1. UNCHANGED <<disk, since, saw, goal, ans>>
    BY <1>5 DEF AskReal, AskLink, ReadLink, Canonicalize
  <2>2. Busy(t) /\ Busy(t)' /\ \A u \in Threads \ {t} : pc'[u] = pc[u]
    BY <1>0, <1>5 DEF AskReal, AskLink, ReadLink, Canonicalize, Break, Climb, StoreLink,
                      TypeOK, Busy
  <2> QED
    BY <2>1, <2>2, StepHidden DEF Busy
<1>6. ASSUME NEW t \in Threads, Finish(t) PROVE Promise!Reply(t)
  <2>1. Busy(t) /\ pc[t] = "finish"
    BY <1>6 DEF Finish, Busy
  <2> QED
    BY <1>6, <2>1, FinishAnswer, StepReplies DEF Finish
<1>7. ASSUME NEW t \in Threads, InitOwn(t) PROVE Promise!Reply(t) \/ UNCHANGED Promise!vars
  <2>1. Busy(t) /\ pc[t] = "own"
    BY <1>7 DEF InitOwn, Busy
  <2>2. CASE UNCHANGED <<pc, ans, found>>
    BY <1>7, <2>2, StepHidden DEF InitOwn, Busy
  <2>3. CASE Return(t, goal[t])
    <3>1. goal[t] \in Paths /\ Len(goal[t]) \in 0..Len(goal[t])
      BY <1>0, UptoAll DEF TypeOK
    <3>2. AnswerOK(goal[t], goal[t], saw[t])
      BY <2>1, <3>1, OwnAnswer, UptoAll
    <3> QED
      BY <1>7, <2>1, <2>3, <3>2, StepReplies DEF InitOwn
  <2> QED
    BY <1>7, <2>2, <2>3 DEF InitOwn
<1> QED
  BY <1>1, <1>2, <1>3, <1>4, <1>5, <1>6, <1>7 DEF Next, Run

\* Whatever the threads, the disks and the calls of clear_entries do in between,
\* resolve_symlink answers what RealPath allows: the canonical path if the disk
\* stayed as it was.
THEOREM AnswersCanonicalHolds == Spec => AnswersCanonical
<1>1. Init => Promise!Init
  BY DEF Init, Promise!Init, Busy
<1>2. Inv /\ [Next]_vars => [Promise!Next]_(Promise!vars)
  BY StepPromised
<1> QED
  BY <1>1, <1>2, InvHolds, PTL DEF Spec, AnswersCanonical, Promise!Safe

=============================================================================
