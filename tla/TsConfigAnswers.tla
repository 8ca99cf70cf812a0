-------------------------- MODULE TsConfigAnswers ---------------------------
(***************************************************************************)
(* Proofs about TsConfig: what the merged tsconfig says, and what a        *)
(* request is answered.                                                    *)
(***************************************************************************)
EXTENDS TsConfigProofs, Basics

USE DEF Top

-----------------------------------------------------------------------------
(* The chain of files *)

LEMMA NthFacts ==
  ASSUME w \in Worlds
  PROVE  /\ Nth[0] = w.root
         /\ \A n \in 1..MaxFrames : Nth[n] = Extended(Nth[n - 1])
<1> DEFINE S == Files \cup {NoFile}
           step == [f \in S |-> Extended(f)]
           turn == [n \in 1..MaxFrames |-> step]
           Is(f) == f = [n \in 0..MaxFrames |-> IF n = 0 THEN w.root ELSE Extended(f[n - 1])]
<1>1. w.root \in S /\ MaxFrames \in Nat
  BY WorldAssumption, FrameAssumption
<1>2. \A f \in S : Extended(f) \in S
  <2>1. Extended(NoFile) = NoFile
    BY DEF Extended
  <2>2. \A f \in Files : Extended(f) \in S
    BY ReachedFacts
  <2> QED
    BY <2>1, <2>2
<1>3. turn \in [1..MaxFrames -> [S -> S]]
  <2>1. step \in [S -> S]
    <3> HIDE DEF S
    <3> QED
      BY <1>2
  <2> HIDE DEF step, S
  <2> QED
    BY <2>1
<1>4. PICK f \in Run(S, w.root, turn, MaxFrames) : TRUE
  <2> DEFINE start == w.root
             n == MaxFrames
  <2> HIDE DEF turn, S, start, n
  <2>1. start \in S /\ n \in Nat /\ turn \in [1..n -> [S -> S]]
    BY <1>1, <1>3 DEF start, n
  <2>2. Run(S, start, turn, n) # {}
    BY <2>1, Recursion
  <2> QED
    BY <2>2 DEF start, n
<1>5. /\ f \in [0..MaxFrames -> S] /\ f[0] = w.root
      /\ \A n \in 1..MaxFrames : f[n] = Extended(f[n - 1])
  <2>1. /\ f \in [0..MaxFrames -> S] /\ f[0] = w.root
        /\ \A n \in 1..MaxFrames : f[n] = turn[n][f[n - 1]]
    BY <1>4 DEF Run
  <2>2. ASSUME NEW n \in 1..MaxFrames PROVE f[n] = Extended(f[n - 1])
    <3>1. n - 1 \in 0..MaxFrames
      BY <1>1
    <3>2. f[n - 1] \in S
      BY <2>1, <3>1
    <3> QED
      BY <2>1, <3>2
  <2> QED
    BY <2>1, <2>2
<1>6. Is(f)
  BY <1>1, <1>5
<1>7. Is(Nth)
  BY <1>6 DEF Nth
<1> QED
  BY <1>1, <1>7

-----------------------------------------------------------------------------
(* What a value says of a key *)

LEMMA AlongFacts ==
  ASSUME NEW j, NEW key, Len(key) \in {2, 3}
  PROVE  /\ Along(j, key)[0] = j
         /\ Along(j, key)[1] = Get(j, key[1])
         /\ Along(j, key)[2] = Get(Get(j, key[1]), key[2])
         /\ Len(key) = 3 => Along(j, key)[3] = Get(Get(Get(j, key[1]), key[2]), key[3])
<1> DEFINE Is(f) == f = [n \in 0..Len(key) |-> IF n = 0 THEN j ELSE Get(f[n - 1], key[n])]
           g == [n \in 0..Len(key) |->
                   IF n = 0 THEN j
                   ELSE IF n = 1 THEN Get(j, key[1])
                   ELSE IF n = 2 THEN Get(Get(j, key[1]), key[2])
                   ELSE Get(Get(Get(j, key[1]), key[2]), key[3])]
<1>1. ASSUME NEW n \in 0..Len(key)
      PROVE  g[n] = IF n = 0 THEN j ELSE Get(g[n - 1], key[n])
  <2>1. CASE n = 0
    BY <2>1
  <2>2. CASE n = 1
    BY <2>2
  <2>3. CASE n = 2
    BY <2>3
  <2>4. CASE n = 3
    BY <2>4
  <2> QED
    BY <2>1, <2>2, <2>3, <2>4
<1>2. Is(g)
  BY <1>1
<1>3. Is(Along(j, key))
  <2> HIDE DEF g
  <2> QED
    BY <1>2 DEF Along
<1> HIDE DEF g
<1>4. \A n \in 0..Len(key) : Along(j, key)[n] =
        IF n = 0 THEN j ELSE Get(Along(j, key)[n - 1], key[n])
  BY <1>3
<1>5. /\ Along(j, key)[0] = j
      /\ Along(j, key)[1] = Get(Along(j, key)[0], key[1])
      /\ Along(j, key)[2] = Get(Along(j, key)[1], key[2])
      /\ Len(key) = 3 => Along(j, key)[3] = Get(Along(j, key)[2], key[3])
  BY <1>4
<1> QED
  BY <1>5

-----------------------------------------------------------------------------
(* What a merge says *)

\* No value, or null.
Vacant(j) == j = NoField \/ j.t = "null"
BothObj(a, b) == a.t = "obj" /\ b.t = "obj"
Agree(x, y) == x = y \/ BothObj(x, y) \/ (Vacant(x) /\ Vacant(y))

\* m is what merging b into a comes to, where either may be no value.
Merged0(m, a, b) ==
  \/ BothObj(a, b) /\ m.t = "obj"
  \/ m = a /\ (b = NoField \/ (~Vacant(a) /\ ~BothObj(a, b)))
  \/ m = b /\ Vacant(a)

\* The same of the members, and of theirs.
Merged1(m, a, b) ==
  Merged0(m, a, b) /\ (BothObj(a, b) => \A k : Merged0(Get(m, k), Get(a, k), Get(b, k)))
Merged2(m, a, b) ==
  Merged0(m, a, b) /\ (BothObj(a, b) => \A k : Merged1(Get(m, k), Get(a, k), Get(b, k)))
Merged3(m, a, b) ==
  Merged0(m, a, b) /\ (BothObj(a, b) => \A k : Merged2(Get(m, k), Get(a, k), Get(b, k)))

LEMMA NotAnObject ==
  /\ NoField.t = "none" /\ Vacant(NoField) /\ Null # NoField /\ Vacant(Null) /\ Null.t = "null"
  /\ \A k : Get(NoField, k) = NoField /\ Get(Null, k) = NoField
  /\ \A f : Obj(f).t = "obj" /\ Obj(f).obj = f /\ Obj(f) # NoField /\ ~Vacant(Obj(f))
  /\ \A j : Vacant(j) => j.t # "obj"
  /\ \A j, k : j.t # "obj" => Get(j, k) = NoField
BY DEF NoField, Null, Obj, Vacant, Get

LEMMA NothingMerged ==
  ASSUME NEW x
  PROVE  /\ Merged2(x, x, NoField) /\ Merged1(x, x, NoField) /\ Merged0(x, x, NoField)
         /\ Merged2(x, NoField, x) /\ Merged1(x, NoField, x) /\ Merged0(x, NoField, x)
BY NotAnObject DEF Merged2, Merged1, Merged0, BothObj

\* MergeBy, with the merged members as a function.
Mixed(a, b, f) ==
  IF BothObj(a, b)
  THEN Obj([k \in DOMAIN a.obj \cup DOMAIN b.obj |->
              IF k \notin DOMAIN b.obj THEN a.obj[k] ELSE f[k]])
  ELSE IF a.t = "null" THEN b ELSE a

Member(a, k) == IF k \in DOMAIN a.obj THEN a.obj[k] ELSE Null

LEMMA MixedFacts ==
  ASSUME NEW a, NEW b, NEW f, a # NoField, b # NoField
  PROVE  LET m == Mixed(a, b, f)
         IN /\ Merged0(m, a, b)
            /\ BothObj(a, b) =>
                 m # NoField /\ m.t = "obj" /\ DOMAIN m.obj = DOMAIN a.obj \cup DOMAIN b.obj
            /\ ~BothObj(a, b) => m \in {a, b}
            /\ BothObj(a, b) =>
                 \A k : Get(m, k) = IF k \in DOMAIN b.obj THEN f[k] ELSE Get(a, k)
<1>1. CASE BothObj(a, b)
  <2> DEFINE g == [k \in DOMAIN a.obj \cup DOMAIN b.obj |->
                     IF k \notin DOMAIN b.obj THEN a.obj[k] ELSE f[k]]
  <2>1. Mixed(a, b, f) = Obj(g)
    BY <1>1 DEF Mixed
  <2>2. Obj(g).t = "obj" /\ Obj(g).obj = g /\ Obj(g) # NoField
        /\ DOMAIN g = DOMAIN a.obj \cup DOMAIN b.obj
    BY NotAnObject
  <2>3. ASSUME NEW k
        PROVE  Get(Obj(g), k) = IF k \in DOMAIN b.obj THEN f[k] ELSE Get(a, k)
    BY <1>1, <2>2 DEF Get, BothObj
  <2> HIDE DEF g
  <2> QED
    BY <1>1, <2>1, <2>2, <2>3 DEF Merged0
<1>2. CASE ~BothObj(a, b)
  <2>1. Mixed(a, b, f) = IF a.t = "null" THEN b ELSE a
    BY <1>2 DEF Mixed
  <2> QED
    BY <1>2, <2>1 DEF Merged0, Vacant
<1> QED
  BY <1>1, <1>2

\* A member of a merge, where R is what merging the members comes to.
LEMMA MemberOf ==
  ASSUME NEW a, NEW b, BothObj(a, b), NEW k
  PROVE  /\ k \notin DOMAIN b.obj => Get(b, k) = NoField
         /\ k \in DOMAIN b.obj => Get(b, k) = b.obj[k]
         /\ k \notin DOMAIN a.obj => Get(a, k) = NoField /\ Member(a, k) = Null
         /\ k \in DOMAIN a.obj => Get(a, k) = a.obj[k] /\ Member(a, k) = a.obj[k]
BY DEF BothObj, Get, Member

\* Values whose members, and whose members' members, are values.
Value(j) == j # NoField
Listed(j) == With(Lists, j)

LEMMA MergeListsIs ==
  ASSUME NEW a, NEW b, Value(a), Value(b)
  PROVE  Merged0(MergeLists(a, b), a, b) /\ Value(MergeLists(a, b))
<1> DEFINE f == [k \in DOMAIN b.obj |-> Member(a, k)]
<1>1. MergeLists(a, b) = Mixed(a, b, f)
  BY DEF MergeLists, MergeBy, Mixed, Member, BothObj
<1> HIDE DEF f
<1> QED
  BY <1>1, MixedFacts DEF Value

LEMMA NullGives ==
  ASSUME NEW x
  PROVE  MergeLists(Null, x) = x /\ MergePaths(Null, x) = x /\ MergeOptions(Null, x) = x
BY NotAnObject DEF MergeLists, MergePaths, MergeOptions, MergeBy

LEMMA MergePathsIs ==
  ASSUME NEW a, NEW b, Lists(a), Lists(b)
  PROVE  Merged1(MergePaths(a, b), a, b) /\ Lists(MergePaths(a, b))
<1> DEFINE f == [k \in DOMAIN b.obj |-> MergeLists(Member(a, k), b.obj[k])]
           m == MergePaths(a, b)
<1>1. MergePaths(a, b) = Mixed(a, b, f)
  BY DEF MergePaths, MergeBy, Mixed, Member, BothObj
<1>2. a # NoField /\ b # NoField
  BY DEF Lists, With, Value
<1>3. /\ Merged0(m, a, b)
      /\ BothObj(a, b) => \A k : Get(m, k) = IF k \in DOMAIN b.obj THEN f[k] ELSE Get(a, k)
  <2> HIDE DEF f
  <2> QED
    BY <1>1, <1>2, MixedFacts
<1>4. /\ BothObj(a, b) =>
           m # NoField /\ m.t = "obj" /\ DOMAIN m.obj = DOMAIN a.obj \cup DOMAIN b.obj
      /\ ~BothObj(a, b) => m \in {a, b}
  <2> HIDE DEF f
  <2> QED
    BY <1>1, <1>2, MixedFacts
<1>5. ASSUME BothObj(a, b), NEW k
      PROVE  /\ k \in DOMAIN a.obj \cup DOMAIN b.obj => Value(Get(m, k))
             /\ Merged0(Get(m, k), Get(a, k), Get(b, k))
  <2>1. CASE k \notin DOMAIN b.obj
    <3>1. Get(m, k) = Get(a, k) /\ Get(b, k) = NoField
      <4>1. Get(b, k) = NoField
        BY <1>5, <2>1, MemberOf
      <4> HIDE DEF f, m
      <4>2. Get(m, k) = Get(a, k)
        BY <1>3, <1>5, <2>1
      <4> QED
        BY <4>1, <4>2
    <3>2. k \in DOMAIN a.obj => Value(Get(a, k))
      <4>1. k \in DOMAIN a.obj => Get(a, k) = a.obj[k]
        BY <1>5, MemberOf
      <4>2. k \in DOMAIN a.obj => Value(a.obj[k])
        BY <1>5 DEF Lists, With, Value, BothObj
      <4> QED
        BY <4>1, <4>2
    <3> QED
      BY <2>1, <3>1, <3>2, NothingMerged
  <2>2. CASE k \in DOMAIN b.obj
    <3>1. Get(m, k) = MergeLists(Member(a, k), b.obj[k])
      BY <1>3, <1>5, <2>2
    <3>2. Value(b.obj[k]) /\ Get(b, k) = b.obj[k]
      BY <1>5, <2>2, MemberOf DEF Lists, With, Value, BothObj
    <3>3. CASE k \notin DOMAIN a.obj
      <4>1. Get(a, k) = NoField /\ Get(m, k) = Get(b, k)
        BY <1>5, <3>1, <3>2, <3>3, MemberOf, NullGives
      <4> QED
        BY <3>2, <4>1, NothingMerged
    <3>4. CASE k \in DOMAIN a.obj
      <4>1. Value(a.obj[k]) /\ Get(a, k) = a.obj[k] /\ Member(a, k) = a.obj[k]
        BY <1>5, <3>4, MemberOf DEF Lists, With, Value, BothObj
      <4> QED
        BY <3>1, <3>2, <4>1, MergeListsIs
    <3> QED
      BY <3>3, <3>4
  <2> QED
    BY <2>1, <2>2
<1> HIDE DEF m
<1>6. Merged1(m, a, b)
  BY <1>3, <1>5 DEF Merged1
<1>7. Lists(m)
  <2>1. CASE BothObj(a, b)
    <3>1. \A k \in DOMAIN m.obj : Value(m.obj[k])
      BY <1>4, <1>5, <2>1 DEF Get
    <3> QED
      BY <1>4, <2>1, <3>1 DEF Lists, With, Value
  <2>2. CASE ~BothObj(a, b)
    BY <1>2, <1>4, <2>2
  <2> QED
    BY <2>1, <2>2
<1> QED
  BY <1>6, <1>7 DEF m

LEMMA MergeOptionsIs ==
  ASSUME NEW a, NEW b, Listed(a), Listed(b)
  PROVE  Merged2(MergeOptions(a, b), a, b) /\ Listed(MergeOptions(a, b))
<1> DEFINE f == [k \in DOMAIN b.obj |-> MergePaths(Member(a, k), b.obj[k])]
           m == MergeOptions(a, b)
<1>1. MergeOptions(a, b) = Mixed(a, b, f)
  BY DEF MergeOptions, MergeBy, Mixed, Member, BothObj
<1>2. a # NoField /\ b # NoField
  BY DEF Listed, With
<1>3. /\ Merged0(m, a, b)
      /\ BothObj(a, b) => \A k : Get(m, k) = IF k \in DOMAIN b.obj THEN f[k] ELSE Get(a, k)
  <2> HIDE DEF f
  <2> QED
    BY <1>1, <1>2, MixedFacts
<1>4. /\ BothObj(a, b) =>
           m # NoField /\ m.t = "obj" /\ DOMAIN m.obj = DOMAIN a.obj \cup DOMAIN b.obj
      /\ ~BothObj(a, b) => m \in {a, b}
  <2> HIDE DEF f
  <2> QED
    BY <1>1, <1>2, MixedFacts
<1>5. ASSUME BothObj(a, b), NEW k
      PROVE  /\ k \in DOMAIN a.obj \cup DOMAIN b.obj => Lists(Get(m, k))
             /\ Merged1(Get(m, k), Get(a, k), Get(b, k))
  <2>1. CASE k \notin DOMAIN b.obj
    <3>1. Get(m, k) = Get(a, k) /\ Get(b, k) = NoField
      <4>1. Get(b, k) = NoField
        BY <1>5, <2>1, MemberOf
      <4> HIDE DEF f, m
      <4>2. Get(m, k) = Get(a, k)
        BY <1>3, <1>5, <2>1
      <4> QED
        BY <4>1, <4>2
    <3>2. k \in DOMAIN a.obj => Lists(Get(a, k))
      <4>1. k \in DOMAIN a.obj => Get(a, k) = a.obj[k]
        BY <1>5, MemberOf
      <4>2. k \in DOMAIN a.obj => Lists(a.obj[k])
        BY <1>5 DEF Listed, With, BothObj
      <4> QED
        BY <4>1, <4>2
    <3> QED
      BY <2>1, <3>1, <3>2, NothingMerged
  <2>2. CASE k \in DOMAIN b.obj
    <3>1. Get(m, k) = MergePaths(Member(a, k), b.obj[k])
      BY <1>3, <1>5, <2>2
    <3>2. Lists(b.obj[k]) /\ Get(b, k) = b.obj[k]
      BY <1>5, <2>2, MemberOf DEF Listed, With, BothObj
    <3>3. CASE k \notin DOMAIN a.obj
      <4>1. Get(a, k) = NoField /\ Get(m, k) = Get(b, k)
        BY <1>5, <3>1, <3>2, <3>3, MemberOf, NullGives
      <4> QED
        BY <3>2, <4>1, NothingMerged
    <3>4. CASE k \in DOMAIN a.obj
      <4>1. Lists(a.obj[k]) /\ Get(a, k) = a.obj[k] /\ Member(a, k) = a.obj[k]
        BY <1>5, <3>4, MemberOf DEF Listed, With, BothObj
      <4> QED
        BY <3>1, <3>2, <4>1, MergePathsIs
    <3> QED
      BY <3>3, <3>4
  <2> QED
    BY <2>1, <2>2
<1> HIDE DEF m
<1>6. Merged2(m, a, b)
  BY <1>3, <1>5 DEF Merged2
<1>7. Listed(m)
  <2>1. CASE BothObj(a, b)
    <3>1. \A k \in DOMAIN m.obj : Lists(m.obj[k])
      BY <1>4, <1>5, <2>1 DEF Get
    <3> QED
      BY <1>4, <2>1, <3>1 DEF Listed, With
  <2>2. CASE ~BothObj(a, b)
    BY <1>2, <1>4, <2>2
  <2> QED
    BY <2>1, <2>2
<1> QED
  BY <1>6, <1>7 DEF m

LEMMA MergeIs ==
  ASSUME NEW a, NEW b, Content(a), Content(b)
  PROVE  Merged3(Merge(a, b), a, b) /\ Content(Merge(a, b))
<1> DEFINE f == [k \in DOMAIN b.obj |-> MergeOptions(Member(a, k), b.obj[k])]
           m == Merge(a, b)
<1>1. Merge(a, b) = Mixed(a, b, f)
  BY DEF Merge, MergeBy, Mixed, Member, BothObj
<1>2. a # NoField /\ b # NoField
  BY DEF Content, With, Listed
<1>3. /\ Merged0(m, a, b)
      /\ BothObj(a, b) => \A k : Get(m, k) = IF k \in DOMAIN b.obj THEN f[k] ELSE Get(a, k)
  <2> HIDE DEF f
  <2> QED
    BY <1>1, <1>2, MixedFacts
<1>4. /\ BothObj(a, b) =>
           m # NoField /\ m.t = "obj" /\ DOMAIN m.obj = DOMAIN a.obj \cup DOMAIN b.obj
      /\ ~BothObj(a, b) => m \in {a, b}
  <2> HIDE DEF f
  <2> QED
    BY <1>1, <1>2, MixedFacts
<1>5. ASSUME BothObj(a, b), NEW k
      PROVE  /\ k \in DOMAIN a.obj \cup DOMAIN b.obj => Listed(Get(m, k))
             /\ Merged2(Get(m, k), Get(a, k), Get(b, k))
  <2>1. CASE k \notin DOMAIN b.obj
    <3>1. Get(m, k) = Get(a, k) /\ Get(b, k) = NoField
      <4>1. Get(b, k) = NoField
        BY <1>5, <2>1, MemberOf
      <4> HIDE DEF f, m
      <4>2. Get(m, k) = Get(a, k)
        BY <1>3, <1>5, <2>1
      <4> QED
        BY <4>1, <4>2
    <3>2. k \in DOMAIN a.obj => Listed(Get(a, k))
      <4>1. k \in DOMAIN a.obj => Get(a, k) = a.obj[k]
        BY <1>5, MemberOf
      <4>2. k \in DOMAIN a.obj => Listed(a.obj[k])
        BY <1>5 DEF Content, With, Listed, BothObj
      <4> QED
        BY <4>1, <4>2
    <3> QED
      BY <2>1, <3>1, <3>2, NothingMerged
  <2>2. CASE k \in DOMAIN b.obj
    <3>1. Get(m, k) = MergeOptions(Member(a, k), b.obj[k])
      BY <1>3, <1>5, <2>2
    <3>2. Listed(b.obj[k]) /\ Get(b, k) = b.obj[k]
      BY <1>5, <2>2, MemberOf DEF Content, With, Listed, BothObj
    <3>3. CASE k \notin DOMAIN a.obj
      <4>1. Get(a, k) = NoField /\ Get(m, k) = Get(b, k)
        BY <1>5, <3>1, <3>2, <3>3, MemberOf, NullGives
      <4> QED
        BY <3>2, <4>1, NothingMerged
    <3>4. CASE k \in DOMAIN a.obj
      <4>1. Listed(a.obj[k]) /\ Get(a, k) = a.obj[k] /\ Member(a, k) = a.obj[k]
        BY <1>5, <3>4, MemberOf DEF Content, With, Listed, BothObj
      <4> QED
        BY <3>1, <3>2, <4>1, MergeOptionsIs
    <3> QED
      BY <3>3, <3>4
  <2> QED
    BY <2>1, <2>2
<1> HIDE DEF m
<1>6. Merged3(m, a, b)
  BY <1>3, <1>5 DEF Merged3
<1>7. Content(m)
  <2>1. CASE BothObj(a, b)
    <3>1. \A k \in DOMAIN m.obj : Listed(m.obj[k])
      BY <1>4, <1>5, <2>1 DEF Get
    <3> QED
      BY <1>4, <2>1, <3>1 DEF Content, With, Listed
  <2>2. CASE ~BothObj(a, b)
    BY <1>2, <1>4, <2>2
  <2> QED
    BY <2>1, <2>2
<1> QED
  BY <1>6, <1>7 DEF m

\* What is known of every tsconfig.
Sound(v) == Content(v) /\ Table(Paths(v))

LEMMA MergeSound ==
  ASSUME NEW a, NEW b, Sound(a), Sound(b)
  PROVE  Sound(Merge(a, b))
<1> DEFINE m == Merge(a, b)
           OK(x) == x.t = "list" => Len(x.list) \in Nat
<1>1. Merged3(m, a, b) /\ Content(m)
  BY MergeIs DEF Sound
<1> HIDE DEF m
<1>2. CASE ~BothObj(a, b)
  <2>1. m = a \/ m = b
    BY <1>1, <1>2 DEF Merged3, Merged0
  <2> QED
    BY <2>1 DEF Sound, m
<1>3. CASE BothObj(a, b)
  <2> DEFINE mo == Options(m)
             ao == Options(a)
             bo == Options(b)
  <2>1. Merged2(mo, ao, bo)
    BY <1>1, <1>3 DEF Merged3, Options
  <2>2. CASE ~BothObj(ao, bo)
    <3>1. mo = ao \/ mo = bo
      BY <2>1, <2>2 DEF Merged2, Merged0
    <3>2. Table(Paths(m))
      BY <3>1 DEF Paths, Sound
    <3> QED
      BY <1>1, <3>2 DEF Sound, m
  <2>3. CASE BothObj(ao, bo)
    <3> DEFINE mp == Paths(m)
               ap == Paths(a)
               bp == Paths(b)
    <3>1. Merged1(mp, ap, bp)
      BY <2>1, <2>3 DEF Merged2, Paths
    <3>2. CASE ~BothObj(ap, bp)
      <4>1. mp = ap \/ mp = bp
        BY <3>1, <3>2 DEF Merged1, Merged0
      <4> QED
        BY <1>1, <4>1 DEF Sound, m
    <3>3. CASE BothObj(ap, bp)
      <4>1. ASSUME NEW k \in DOMAIN mp.obj, mp.t = "obj"
            PROVE  k \in Texts /\ OK(mp.obj[k])
        <5>1. Merged0(Get(mp, k), Get(ap, k), Get(bp, k))
          BY <3>1, <3>3 DEF Merged1
        <5>2. Get(mp, k) = mp.obj[k]
          BY <4>1 DEF Get
        <5>3. mp.obj[k] # NoField
          <6>1. Listed(Options(m)) /\ Lists(Paths(m))
            <7>1. m.t = "obj" /\ mo.t = "obj"
              BY <1>1, <1>3, <2>1, <2>3 DEF Merged3, Merged2, Merged0, BothObj
            <7>2. Paths(m) # NoField /\ Options(m) # NoField
              BY <4>1, NotAnObject DEF Paths
            <7>3. "compilerOptions" \in DOMAIN m.obj /\ Options(m) = m.obj["compilerOptions"]
              BY <7>1, <7>2 DEF Options, Get
            <7>4. "paths" \in DOMAIN mo.obj /\ Paths(m) = mo.obj["paths"]
              BY <7>1, <7>2 DEF Paths, Get
            <7>5. Listed(Options(m))
              BY <1>1, <7>1, <7>3 DEF Content, With, Listed
            <7> QED
              BY <7>1, <7>4, <7>5 DEF Listed, With
          <6> QED
            BY <4>1, <6>1 DEF Lists, With
        <5>4. \A x \in {ap, bp} : Get(x, k) # NoField => k \in Texts /\ OK(Get(x, k))
          BY DEF Sound, Table, Get
        <5> HIDE DEF mp, ap, bp
        <5>5. CASE mp.obj[k].t = "obj"
          <6>1. Get(ap, k) # NoField \/ Get(bp, k) # NoField
            BY <5>1, <5>2, <5>3 DEF Merged0, BothObj, NoField
          <6> QED
            BY <5>4, <5>5, <6>1
        <5>6. CASE mp.obj[k].t # "obj"
          <6>1. Get(mp, k) = Get(ap, k) \/ Get(mp, k) = Get(bp, k)
            BY <5>1, <5>2, <5>6 DEF Merged0
          <6> QED
            BY <5>2, <5>3, <5>4, <6>1
        <5> QED
          BY <5>5, <5>6
      <4>2. Table(mp)
        BY <4>1 DEF Table
      <4> QED
        BY <1>1, <4>2 DEF Sound, m
    <3> QED
      BY <3>2, <3>3
  <2> QED
    BY <2>2, <2>3
<1> QED
  BY <1>2, <1>3

-----------------------------------------------------------------------------
(* Which of two files wins *)

\* j says something on the way to a key of one, two or three parts.
Speaks1(j, k) == ~Vacant(j) /\ (j.t = "obj" => ~Vacant(Get(j, k)))
Speaks2(j, k, l) == ~Vacant(j) /\ (j.t = "obj" => Speaks1(Get(j, k), l))
Speaks3(j, k, l, o) == ~Vacant(j) /\ (j.t = "obj" => Speaks2(Get(j, k), l, o))

\* The first of a and b that speaks decides.
Decides(speaks, m, a, b) == IF speaks THEN Agree(m, a) ELSE Agree(m, b) /\ Vacant(a)

LEMMA Decides1 ==
  ASSUME NEW m, NEW a, NEW b, NEW k, Merged1(m, a, b)
  PROVE  Decides(Speaks1(a, k), Get(m, k), Get(a, k), Get(b, k))
<1>1. CASE BothObj(a, b)
  <2>1. Merged0(Get(m, k), Get(a, k), Get(b, k)) /\ ~Vacant(a)
    BY <1>1, NotAnObject DEF Merged1, BothObj
  <2> QED
    BY <1>1, <2>1, NotAnObject DEF Merged0, Decides, Speaks1, Agree, BothObj
<1>2. CASE m = b /\ Vacant(a)
  BY <1>2, NotAnObject DEF Decides, Speaks1, Agree
<1>3. CASE m = a /\ (b = NoField \/ (~Vacant(a) /\ ~BothObj(a, b)))
  BY <1>3, NotAnObject DEF Decides, Speaks1, Agree, BothObj
<1> QED
  BY <1>1, <1>2, <1>3 DEF Merged1, Merged0

LEMMA Decides2 ==
  ASSUME NEW m, NEW a, NEW b, NEW k, NEW l, Merged2(m, a, b)
  PROVE  Decides(Speaks2(a, k, l), Get(Get(m, k), l), Get(Get(a, k), l), Get(Get(b, k), l))
<1>1. CASE BothObj(a, b)
  <2>1. Merged1(Get(m, k), Get(a, k), Get(b, k)) /\ ~Vacant(a)
    BY <1>1, NotAnObject DEF Merged2, BothObj
  <2>2. Speaks2(a, k, l) <=> Speaks1(Get(a, k), l)
    BY <1>1, <2>1 DEF Speaks2, BothObj
  <2> QED
    BY <2>1, <2>2, Decides1 DEF Decides
<1>2. CASE m = b /\ Vacant(a)
  BY <1>2, NotAnObject DEF Decides, Speaks2, Agree
<1>3. CASE m = a /\ (b = NoField \/ (~Vacant(a) /\ ~BothObj(a, b)))
  <2>1. Agree(Get(Get(m, k), l), Get(Get(a, k), l))
    BY <1>3 DEF Agree
  <2>2. ASSUME ~Speaks2(a, k, l)
        PROVE  Vacant(Get(Get(a, k), l)) /\ Get(Get(b, k), l) = NoField
    BY <1>3, <2>2, NotAnObject DEF Speaks2, Speaks1, BothObj
  <2> QED
    BY <1>3, <2>1, <2>2, NotAnObject DEF Decides, Agree
<1> QED
  BY <1>1, <1>2, <1>3 DEF Merged2, Merged0

LEMMA Decides3 ==
  ASSUME NEW m, NEW a, NEW b, NEW k, NEW l, NEW o, Merged3(m, a, b)
  PROVE  Decides(Speaks3(a, k, l, o), Get(Get(Get(m, k), l), o), Get(Get(Get(a, k), l), o),
                 Get(Get(Get(b, k), l), o))
<1>1. CASE BothObj(a, b)
  <2>1. Merged2(Get(m, k), Get(a, k), Get(b, k)) /\ ~Vacant(a)
    BY <1>1, NotAnObject DEF Merged3, BothObj
  <2>2. Speaks3(a, k, l, o) <=> Speaks2(Get(a, k), l, o)
    BY <1>1, <2>1 DEF Speaks3, BothObj
  <2> QED
    BY <2>1, <2>2, Decides2 DEF Decides
<1>2. CASE m = b /\ Vacant(a)
  BY <1>2, NotAnObject DEF Decides, Speaks3, Agree
<1>3. CASE m = a /\ (b = NoField \/ (~Vacant(a) /\ ~BothObj(a, b)))
  <2>1. Agree(Get(Get(Get(m, k), l), o), Get(Get(Get(a, k), l), o))
    BY <1>3 DEF Agree
  <2>2. ASSUME ~Speaks3(a, k, l, o)
        PROVE  Vacant(Get(Get(Get(a, k), l), o)) /\ Get(Get(Get(b, k), l), o) = NoField
    BY <1>3, <2>2, NotAnObject DEF Speaks3, Speaks2, Speaks1, BothObj
  <2> QED
    BY <1>3, <2>1, <2>2, NotAnObject DEF Decides, Agree
<1> QED
  BY <1>1, <1>2, <1>3 DEF Merged3, Merged0

LEMMA Merged3Is2 ==
  ASSUME NEW m, NEW a, NEW b, Merged3(m, a, b)
  PROVE  Merged2(m, a, b)
BY DEF Merged3, Merged2, Merged1

LEMMA SpeaksFacts ==
  ASSUME NEW j, NEW key, Len(key) \in {2, 3}
  PROVE  /\ Len(key) = 2 => /\ Said(j, key) = Get(Get(j, key[1]), key[2])
                            /\ Speaks(j, key) <=> Speaks2(j, key[1], key[2])
         /\ Len(key) = 3 => /\ Said(j, key) = Get(Get(Get(j, key[1]), key[2]), key[3])
                            /\ Speaks(j, key) <=> Speaks3(j, key[1], key[2], key[3])
<1> DEFINE x == Get(j, key[1])
           y == Get(x, key[2])
           z == Get(y, key[3])
           Hides(v) == ~Vacant(v) /\ v.t # "obj"
<1>1. /\ Along(j, key)[0] = j /\ Along(j, key)[1] = x /\ Along(j, key)[2] = y
      /\ Len(key) = 3 => Along(j, key)[3] = z
  BY AlongFacts
<1>2. \A v : ~Vacant(v) <=> (v # NoField /\ v.t # "null")
  BY DEF Vacant
<1>3. CASE Len(key) = 2
  <2>1. Said(j, key) = y
    BY <1>1, <1>3 DEF Said
  <2>2. Speaks(j, key) <=> (Hides(j) \/ Hides(x) \/ ~Vacant(y))
    <3>1. 0..Len(key) = {0, 1, 2}
      BY <1>3
    <3> HIDE DEF x, y
    <3> QED
      BY <1>1, <1>2, <1>3, <3>1 DEF Speaks
  <2>3. Speaks2(j, key[1], key[2]) <=> (Hides(j) \/ Hides(x) \/ ~Vacant(y))
    BY NotAnObject DEF Speaks2, Speaks1
  <2> QED
    BY <1>3, <2>1, <2>2, <2>3
<1>4. CASE Len(key) = 3
  <2>1. Said(j, key) = z
    BY <1>1, <1>4 DEF Said
  <2>2. Speaks(j, key) <=> (Hides(j) \/ Hides(x) \/ Hides(y) \/ ~Vacant(z))
    <3>1. 0..Len(key) = {0, 1, 2, 3}
      BY <1>4
    <3> HIDE DEF x, y, z
    <3> QED
      BY <1>1, <1>2, <1>4, <3>1 DEF Speaks
  <2>3. Speaks3(j, key[1], key[2], key[3]) <=> (Hides(j) \/ Hides(x) \/ Hides(y) \/ ~Vacant(z))
    BY NotAnObject DEF Speaks3, Speaks2, Speaks1
  <2> QED
    BY <1>4, <2>1, <2>2, <2>3
<1> QED
  BY <1>3, <1>4

\* Of a merged file and the merge of those it extends.
LEMMA MergeDecides ==
  ASSUME NEW a, NEW b, Content(a), Content(b), NEW key, Len(key) \in {2, 3}
  PROVE  Decides(Speaks(a, key), Said(Merge(a, b), key), Said(a, key), Said(b, key))
<1> DEFINE m == Merge(a, b)
<1>1. Merged3(m, a, b) /\ Merged2(m, a, b)
  BY MergeIs, Merged3Is2
<1> HIDE DEF m
<1>2. CASE Len(key) = 2
  <2>1. Decides(Speaks2(a, key[1], key[2]), Get(Get(m, key[1]), key[2]),
                Get(Get(a, key[1]), key[2]), Get(Get(b, key[1]), key[2]))
    BY <1>1, Decides2
  <2> QED
    BY <1>2, <2>1, SpeaksFacts DEF m, Decides
<1>3. CASE Len(key) = 3
  <2>1. Decides(Speaks3(a, key[1], key[2], key[3]), Get(Get(Get(m, key[1]), key[2]), key[3]),
                Get(Get(Get(a, key[1]), key[2]), key[3]),
                Get(Get(Get(b, key[1]), key[2]), key[3]))
    BY <1>1, Decides3
  <2> QED
    BY <1>3, <2>1, SpeaksFacts DEF m, Decides
<1> QED
  BY <1>2, <1>3

LEMMA AgreeFacts ==
  ASSUME NEW x, NEW y, NEW z, Agree(x, y)
  PROVE  /\ Agree(y, z) => Agree(x, z)
         /\ Vacant(y) => Vacant(x)
<1>1. Agree(y, z) => Agree(x, z)
  <2>1. CASE x = y
    BY <2>1
  <2>2. CASE BothObj(x, y)
    BY <2>2, NotAnObject DEF Agree, BothObj, Vacant
  <2>3. CASE Vacant(x) /\ Vacant(y)
    BY <2>3, NotAnObject DEF Agree, BothObj, Vacant
  <2> QED
    BY <2>1, <2>2, <2>3 DEF Agree
<1>2. Vacant(y) => Vacant(x)
  <2>1. CASE BothObj(x, y)
    BY <2>1, NotAnObject DEF BothObj, Vacant
  <2> QED
    BY <2>1 DEF Agree
<1> QED
  BY <1>1, <1>2

-----------------------------------------------------------------------------
(* The merge of the whole chain *)

LEMMA NthStays ==
  ASSUME UNCHANGED w
  PROVE  Nth' = Nth /\ Chain' = Chain
<1>1. Nth' = Nth
  <2>1. \A f : Extended(f)' = Extended(f)
    BY DEF Extended
  <2> QED
    BY <2>1, Zenon DEF Nth
<1>2. Reached' = Reached
  BY WorldStays
<1>3. Chain' = Chain
  BY <1>1, <1>2 DEF Chain
<1> QED
  BY <1>1, <1>3

LEMMA KeysFacts ==
  ASSUME NEW key \in Keys
  PROVE  Len(key) \in {2, 3}
BY DEF Keys

\* The file at position i of the chain, and whether it says something of key.
At(i) == w.content[Chain[i]].v
SaysAt(i, key) == Speaks(At(i), key)

\* v is what the files of the chain from position n on come to.
Wins(v, n) ==
  /\ Sound(v)
  /\ \A key \in Keys :
       /\ (\A i \in n..Len(Chain) : ~SaysAt(i, key)) => Vacant(Said(v, key))
       /\ \A i \in n..Len(Chain) :
            SaysAt(i, key) /\ (\A j \in n..(i - 1) : ~SaysAt(j, key)) =>
              Agree(Said(v, key), Said(At(i), key))

LEMMA SilentIsVacant ==
  ASSUME NEW j, NEW key \in Keys, ~Speaks(j, key)
  PROVE  Vacant(Said(j, key))
<1>1. Len(key) \in {2, 3}
  BY KeysFacts
<1>2. CASE Len(key) = 2
  <2>1. Said(j, key) = Get(Get(j, key[1]), key[2]) /\ ~Speaks2(j, key[1], key[2])
    BY <1>1, <1>2, SpeaksFacts
  <2> QED
    BY <2>1, NotAnObject DEF Speaks2, Speaks1
<1>3. CASE Len(key) = 3
  <2>1. /\ Said(j, key) = Get(Get(Get(j, key[1]), key[2]), key[3])
        /\ ~Speaks3(j, key[1], key[2], key[3])
    BY <1>1, <1>3, SpeaksFacts
  <2> QED
    BY <2>1, NotAnObject DEF Speaks3, Speaks2, Speaks1
<1> QED
  BY <1>1, <1>2, <1>3

LEMMA SpeakerIsNotNull ==
  ASSUME NEW j, NEW key \in Keys, Speaks(j, key), Vacant(Said(j, key))
  PROVE  Said(j, key) = NoField
<1>1. Len(key) \in {2, 3}
  BY KeysFacts
<1>2. CASE Len(key) = 2
  <2>1. Said(j, key) = Get(Get(j, key[1]), key[2]) /\ Speaks2(j, key[1], key[2])
    BY <1>1, <1>2, SpeaksFacts
  <2> QED
    BY <2>1, NotAnObject DEF Speaks2, Speaks1
<1>3. CASE Len(key) = 3
  <2>1. /\ Said(j, key) = Get(Get(Get(j, key[1]), key[2]), key[3])
        /\ Speaks3(j, key[1], key[2], key[3])
    BY <1>1, <1>3, SpeaksFacts
  <2> QED
    BY <2>1, NotAnObject DEF Speaks3, Speaks2, Speaks1
<1> QED
  BY <1>1, <1>2, <1>3

LEMMA ChainLen ==
  ASSUME w \in Worlds
  PROVE  /\ Len(Chain) = Cardinality(Reached) /\ Len(Chain) \in Nat
         /\ \A i \in 1..Len(Chain) : Chain[i] = Nth[i - 1]
<1>1. Cardinality(Reached) \in Nat
  <2>1. IsFiniteSet(Reached)
    BY ReachedFacts, FS_Subset, FrameAssumption
  <2> QED
    BY <2>1, FS_CardinalityType
<1> QED
  BY <1>1 DEF Chain

\* The last file of the chain.
LEMMA WinsLast ==
  ASSUME w \in Worlds, Len(Chain) # 0, Sound(At(Len(Chain)))
  PROVE  Wins(At(Len(Chain)), Len(Chain))
<1> DEFINE n == Len(Chain)
<1>1. n \in Nat /\ n..n = {n}
  BY ChainLen
<1> HIDE DEF n
<1>2. ASSUME NEW key \in Keys
      PROVE  /\ (\A i \in n..n : ~SaysAt(i, key)) => Vacant(Said(At(n), key))
             /\ \A i \in n..n :
                  SaysAt(i, key) /\ (\A j \in n..(i - 1) : ~SaysAt(j, key)) =>
                    Agree(Said(At(n), key), Said(At(i), key))
  <2>1. ~SaysAt(n, key) => Vacant(Said(At(n), key))
    BY SilentIsVacant DEF SaysAt
  <2>2. Agree(Said(At(n), key), Said(At(n), key))
    BY DEF Agree
  <2> QED
    BY <1>1, <2>1, <2>2
<1> QED
  BY <1>2 DEF Wins, n

\* A file completed by those it extends.
LEMMA WinsUp ==
  ASSUME w \in Worlds, NEW n \in 1..Len(Chain), n # 1, NEW v, Wins(v, n), Sound(At(n - 1))
  PROVE  Wins(Merge(At(n - 1), v), n - 1)
<1> DEFINE a == At(n - 1)
           m == Merge(a, v)
           N == Len(Chain)
<1>1. N \in Nat /\ n \in Nat /\ n - 1 \in Nat /\ n - 1 \in (n - 1)..N
  BY ChainLen
<1>2. Sound(v) /\ Sound(m) /\ Content(v) /\ Content(a)
  BY MergeSound DEF Wins, Sound
<1>3. ASSUME NEW key \in Keys
      PROVE  /\ (\A i \in (n - 1)..N : ~SaysAt(i, key)) => Vacant(Said(m, key))
             /\ \A i \in (n - 1)..N :
                  SaysAt(i, key) /\ (\A j \in (n - 1)..(i - 1) : ~SaysAt(j, key)) =>
                    Agree(Said(m, key), Said(At(i), key))
  <2>1. Decides(Speaks(a, key), Said(m, key), Said(a, key), Said(v, key))
    BY <1>2, KeysFacts, MergeDecides
  <2> DEFINE x == Said(m, key)
             y == Said(v, key)
  <2> HIDE DEF a, m, x, y, N
  <2>2. SaysAt(n - 1, key) => Agree(x, Said(a, key))
    BY <2>1 DEF Decides, SaysAt, a, x
  <2>3. ~SaysAt(n - 1, key) => Agree(x, y)
    BY <2>1 DEF Decides, SaysAt, a, x, y
  <2>4. ASSUME \A i \in (n - 1)..N : ~SaysAt(i, key) PROVE Vacant(x)
    <3>1. \A i \in n..N : ~SaysAt(i, key)
      BY <1>1, <2>4
    <3>2. Vacant(y)
      BY <3>1 DEF Wins, N, y
    <3> QED
      BY <1>1, <2>3, <2>4, <3>2, AgreeFacts
  <2>5. ASSUME NEW i \in (n - 1)..N, SaysAt(i, key), \A j \in (n - 1)..(i - 1) : ~SaysAt(j, key)
        PROVE  Agree(x, Said(At(i), key))
    <3>1. CASE i = n - 1
      BY <2>2, <2>5, <3>1 DEF a
    <3>2. CASE i # n - 1
      <4>1. i \in n..N /\ n - 1 \in (n - 1)..(i - 1) /\ \A j \in n..(i - 1) : j \in (n - 1)..(i - 1)
        BY <1>1, <3>2
      <4>2. \A j \in n..(i - 1) : ~SaysAt(j, key)
        BY <2>5, <4>1
      <4>3. Agree(y, Said(At(i), key))
        BY <2>5, <4>1, <4>2 DEF Wins, N, y
      <4>4. Agree(x, y)
        BY <2>3, <2>5, <4>1
      <4> QED
        BY <4>3, <4>4, AgreeFacts
    <3> QED
      BY <3>1, <3>2
  <2> QED
    BY <2>4, <2>5 DEF x
<1> QED
  BY <1>2, <1>3 DEF Wins

-----------------------------------------------------------------------------
(* The files of the stack *)

\* The stack has the chain from its first file on.
LEMMA StackIsChain ==
  ASSUME Inv
  PROVE  \A i \in 1..Len(stack) : stack[i].file = Nth[i - 1]
<1>1. /\ w \in Worlds /\ IsStack(stack) /\ Len(stack) \in Nat /\ Len(stack) <= MaxFrames
      /\ MaxFrames \in Nat /\ (stack # <<>> => stack[1].file = w.root)
      /\ \A i \in 1..(Len(stack) - 1) : Extended(stack[i].file) = stack[i + 1].file
  BY StackType, FrameAssumption DEF Inv, CallsInv, TypeOK
<1>2. Nth[0] = w.root /\ \A n \in 1..MaxFrames : Nth[n] = Extended(Nth[n - 1])
  BY <1>1, NthFacts
<1> DEFINE T == {n \in 0..MaxFrames : n < Len(stack) => stack[n + 1].file = Nth[n]}
<1>3. 0 \in T
  <2>1. Len(stack) # 0 => stack # <<>>
    BY <1>1, StackType
  <2> QED
    BY <1>1, <1>2, <2>1
<1>4. ASSUME NEW n \in 1..MaxFrames, n - 1 \in T PROVE n \in T
  <2>1. ASSUME n < Len(stack) PROVE stack[n + 1].file = Nth[n]
    <3>1. n \in 1..(Len(stack) - 1) /\ (n - 1) + 1 = n /\ n - 1 < Len(stack)
      BY <1>1, <2>1
    <3>2. stack[n].file = Nth[n - 1]
      BY <1>4, <3>1
    <3> QED
      BY <1>1, <1>2, <3>1, <3>2
  <2> QED
    BY <1>1, <2>1
<1>5. \A n \in 0..MaxFrames : n \in T
  <2> HIDE DEF T
  <2> QED
    BY <1>1, <1>3, <1>4, UpTo
<1>6. ASSUME NEW i \in 1..Len(stack) PROVE stack[i].file = Nth[i - 1]
  <2>1. i - 1 \in 0..MaxFrames /\ i - 1 < Len(stack) /\ (i - 1) + 1 = i
    BY <1>1
  <2> QED
    BY <1>5, <2>1
<1> QED
  BY <1>6

\* No file is in the stack twice when the last one extends none.
LEMMA StackIsWhole ==
  ASSUME Inv, stack # <<>>, Extended(Top.file) = NoFile
  PROVE  Len(Chain) = Len(stack)
<1> DEFINE n == Len(stack)
           c == [i \in 1..n |-> stack[i].file]
<1>1. /\ w \in Worlds /\ n \in Nat /\ n \in 1..n /\ stack[1].file = w.root
      /\ \A i \in 1..n : stack[i].file \in Reached
      /\ \A i \in 1..(n - 1) : Extended(stack[i].file) = stack[i + 1].file
  BY StackType DEF Inv, CallsInv
<1>2. ~Endless
  <2>1. Top.file \in Reached
    BY TopFacts
  <2> QED
    BY <1>1, <2>1, EndFound
<1>3. c \in [1..n -> Files] /\ c \in [1..n -> Reached]
  BY <1>1, ReachedFacts
<1>4. c[1] = w.root /\ \A i \in 1..(n - 1) : Extended(c[i]) = c[i + 1]
  <2>1. \A i \in 1..(n - 1) : i \in 1..n /\ i + 1 \in 1..n
    BY <1>1
  <2> QED
    BY <1>1, <2>1
<1>5. \A a, b \in 1..n : c[a] = c[b] => a = b
  <2>1. ASSUME NEW a \in 1..n, NEW b \in 1..n, c[a] = c[b], a < b PROVE FALSE
    <3> HIDE DEF c, n
    <3> QED
      BY <1>1, <1>2, <1>3, <1>4, <2>1, MetAgain
  <2> QED
    BY <2>1
<1>6. Reached = {c[i] : i \in 1..n}
  BY StackIsAll
<1>7. c \in Bijection(1..n, Reached)
  <2> HIDE DEF c, n
  <2> QED
    BY <1>3, <1>5, <1>6 DEF Bijection, Injection, Surjection, IsInjective
<1>8. Cardinality(1..n) = n /\ IsFiniteSet(1..n)
  BY <1>1, FS_Interval
<1>9. Cardinality(Reached) = n
  <2> HIDE DEF c, n
  <2> QED
    BY <1>7, <1>8, FS_Bijection DEF ExistsBijection
<1> QED
  BY <1>1, <1>9, ChainLen

-----------------------------------------------------------------------------
(* The invariant of the merge *)

IsRead(f) == w.content[f.file].t = "json" /\ f.json = w.content[f.file].v

ReadInv ==
  /\ \A i \in 1..Len(stack) :
       i < Len(stack) \/ pc \in {"extends", "lookup", "return"} => IsRead(stack[i])
  /\ pc = "return" => Len(stack) <= Len(Chain) /\ Wins(value, Len(stack))
  /\ pc = "base" => Unwraps(value) /\ Wins(value, 1)

LEMMA ReadStays ==
  ASSUME UNCHANGED w
  PROVE  /\ Len(Chain)' = Len(Chain)
         /\ \A f : IsRead(f)' = IsRead(f)
         /\ \A i : At(i)' = At(i)
         /\ \A n : UNCHANGED value => Wins(value, n)' = Wins(value, n)
<1>1. Chain' = Chain
  BY NthStays
<1>2. \A i : At(i)' = At(i)
  BY <1>1 DEF At
<1>3. Keys' = Keys
  BY DEF Keys
<1>4. \A f : IsRead(f)' = IsRead(f)
  BY DEF IsRead
<1>5. \A n : UNCHANGED value => Wins(value, n)' = Wins(value, n)
  BY <1>1, <1>2, <1>3 DEF Wins, SaysAt
<1> QED
  BY <1>1, <1>2, <1>4, <1>5

\* Wins of a value, primed.
LEMMA WinsStays ==
  ASSUME UNCHANGED w, NEW v, NEW n, Wins(v, n), value' = v
  PROVE  Wins(value, n)'
<1>1. Chain' = Chain
  BY NthStays
<1>2. \A i : At(i)' = At(i)
  BY <1>1 DEF At
<1>3. Keys' = Keys
  BY DEF Keys
<1> QED
  BY <1>1, <1>2, <1>3 DEF Wins, SaysAt

-----------------------------------------------------------------------------
(* Every action keeps the invariant of the merge *)

LEMMA OthersStay ==
  ASSUME NEW s, IsStack(s), s # <<>>, NEW e
  PROVE  LET t == [s EXCEPT ![Len(s)] = e]
         IN /\ Len(t) = Len(s)
            /\ \A i \in 1..Len(s) : t[i] = IF i = Len(s) THEN e ELSE s[i]
<1>1. PICK S : s \in Seq(S)
  BY DEF IsStack
<1>2. Len(s) \in 1..Len(s)
  BY StackType
<1>3. s \in Seq(S \cup {e})
  <2>1. Len(s) \in Nat /\ s \in [1..Len(s) -> S]
    BY <1>1, LenProperties
  <2>2. s \in [1..Len(s) -> S \cup {e}]
    BY <2>1
  <2> QED
    BY <2>1, <2>2
<1> QED
  BY <1>2, <1>3, ExceptSeq

\* The first call that returns has read the last file of the chain.
LEMMA FirstReturn ==
  ASSUME Inv, pc \in {"extends", "lookup"}, Extended(Top.file) = NoFile
  PROVE  Len(Chain) = Len(stack) /\ Wins(Top.json, Len(stack))
<1>1. /\ stack # <<>> /\ w \in Worlds /\ w.content[Top.file].t = "json"
      /\ Top.json = w.content[Top.file].v
  BY DEF Inv, TypeOK, TopInv
<1>2. Len(Chain) = Len(stack)
  BY <1>1, StackIsWhole
<1>3. Len(stack) \in 1..Len(stack) /\ Len(stack) # 0 /\ Top.file \in Files
  BY <1>1, StackType, TopFacts DEF Inv, CallsInv
<1>4. Chain[Len(stack)] = Top.file
  <2>1. Top.file = Nth[Len(stack) - 1]
    BY <1>3, StackIsChain
  <2>2. Chain[Len(stack)] = Nth[Len(stack) - 1]
    BY <1>1, <1>2, <1>3, ChainLen
  <2> QED
    BY <2>1, <2>2
<1>5. At(Len(stack)) = Top.json
  BY <1>1, <1>4 DEF At
<1>6. Sound(Top.json)
  BY <1>1, <1>3, TextAssumption DEF Sound
<1> QED
  BY <1>1, <1>2, <1>3, <1>5, <1>6, WinsLast

\* The stack stays, and no call returns.
LEMMA ReadOn ==
  ASSUME Inv, ReadInv, UNCHANGED <<w, stack>>, pc' \notin {"extends", "lookup", "return", "base"}
  PROVE  ReadInv'
<1>1. \A f : IsRead(f)' = IsRead(f)
  BY ReadStays
<1>2. ASSUME NEW i \in 1..Len(stack), i < Len(stack)
      PROVE  IsRead(stack[i])'
  BY <1>1, <1>2 DEF ReadInv, IsRead
<1> QED
  BY <1>2 DEF ReadInv

LEMMA ReadFileReads ==
  ASSUME Inv, ReadInv, ReadFile
  PROVE  ReadInv'
<1> DEFINE c == w.content[Top.file]
<1>1. /\ pc = "read" /\ stack # <<>> /\ IsStack(stack) /\ UNCHANGED w
      /\ Len(stack) \in 1..Len(stack) /\ IsFrame(Top)
  BY TopFacts, StackType DEF Inv, ReadFile, TypeOK, CallsInv
<1>2. CASE pc' = "done" /\ UNCHANGED stack
  BY <1>1, <1>2, ReadOn
<1>3. CASE /\ c.t = "json" /\ pc' = "extends"
           /\ stack' = [stack EXCEPT ![Len(stack)].json = c.v]
  <2> DEFINE e == [Top EXCEPT !.json = c.v]
  <2>1. e.file = Top.file /\ e.json = c.v
    BY <1>1 DEF IsFrame
  <2>2. stack' = [stack EXCEPT ![Len(stack)] = e]
    BY <1>3
  <2> HIDE DEF e
  <2>3. /\ Len(stack') = Len(stack)
        /\ \A i \in 1..Len(stack) : stack'[i] = IF i = Len(stack) THEN e ELSE stack[i]
    BY <1>1, <2>2, OthersStay
  <2>4. ASSUME NEW i \in 1..Len(stack') PROVE IsRead(stack[i])'
    <3>1. CASE i = Len(stack)
      BY <1>1, <1>3, <2>1, <2>3, <3>1 DEF IsRead
    <3>2. CASE i # Len(stack)
      <4>1. i < Len(stack) /\ i \in 1..Len(stack) /\ stack'[i] = stack[i]
        BY <1>1, <2>3, <3>2
      <4>2. IsRead(stack[i])
        BY <4>1 DEF ReadInv
      <4> QED
        BY <1>1, <4>1, <4>2 DEF IsRead
    <3> QED
      BY <3>1, <3>2
  <2> QED
    BY <1>3, <2>4 DEF ReadInv
<1> QED
  BY <1>2, <1>3 DEF ReadFile, Return

\* The value of a file that extends none is returned.
LEMMA ReturnsOwn ==
  ASSUME Inv, ReadInv, UNCHANGED <<w, stack>>, pc \in {"extends", "lookup"},
         Extended(Top.file) = NoFile, pc' = "return", value' = Top.json
  PROVE  ReadInv'
<1>1. Len(Chain) = Len(stack) /\ Wins(Top.json, Len(stack)) /\ Len(stack) \in Nat
  BY FirstReturn, StackType DEF Inv, CallsInv
<1>2. Wins(value, Len(stack))'
  <2> DEFINE n == Len(stack)
             v == Top.json
  <2>1. Wins(v, n) /\ value' = v /\ n' = n
    BY <1>1
  <2> HIDE DEF v, n
  <2>2. Wins(value, n)'
    BY <2>1, WinsStays
  <2> QED
    BY <2>2 DEF n
<1>3. Len(Chain)' = Len(stack)'
  BY <1>1, ReadStays
<1>4. ASSUME NEW i \in 1..Len(stack) PROVE IsRead(stack[i])'
  BY DEF ReadInv, IsRead
<1> QED
  BY <1>1, <1>2, <1>3, <1>4 DEF ReadInv

LEMMA AskExtendsReads ==
  ASSUME Inv, ReadInv, AskExtends
  PROVE  ReadInv'
<1>1. /\ pc = "extends" /\ stack # <<>> /\ IsStack(stack) /\ UNCHANGED w
      /\ Len(stack) \in 1..Len(stack) /\ IsFrame(Top) /\ Top.json = w.content[Top.file].v
  BY TopFacts, StackType DEF Inv, AskExtends, TypeOK, CallsInv, TopInv
<1>2. CASE ~Extends(Top.json) /\ pc' = "return" /\ value' = Top.json /\ UNCHANGED stack
  <2>1. Extended(Top.file) = NoFile
    BY <1>1, <1>2 DEF Extended
  <2> QED
    BY <1>1, <1>2, <2>1, ReturnsOwn
<1>3. CASE pc' = "lookup" /\ stack' = [stack EXCEPT ![Len(stack)].prev = toContext]
  <2> DEFINE e == [Top EXCEPT !.prev = toContext]
  <2>1. e.file = Top.file /\ e.json = Top.json
    BY <1>1 DEF IsFrame
  <2>2. stack' = [stack EXCEPT ![Len(stack)] = e]
    BY <1>3
  <2> HIDE DEF e
  <2>3. /\ Len(stack') = Len(stack)
        /\ \A i \in 1..Len(stack) : stack'[i] = IF i = Len(stack) THEN e ELSE stack[i]
    BY <1>1, <2>2, OthersStay
  <2>4. ASSUME NEW i \in 1..Len(stack') PROVE IsRead(stack[i])'
    <3>1. IsRead(stack[i])
      BY <1>1, <2>3 DEF ReadInv
    <3> QED
      BY <1>1, <2>1, <2>3, <3>1 DEF IsRead
  <2> QED
    BY <1>3, <2>4 DEF ReadInv
<1> QED
  BY <1>2, <1>3 DEF AskExtends

LEMMA ExtendReads ==
  ASSUME Inv, ReadInv, Extend
  PROVE  ReadInv'
<1>1. /\ pc = "lookup" /\ stack # <<>> /\ IsStack(stack) /\ UNCHANGED w /\ w \in Worlds
      /\ Len(stack) \in 1..Len(stack) /\ Len(stack) \in Nat /\ ~toContext
  BY StackType DEF Inv, Extend, TypeOK, CallsInv, ContextKept
<1>2. CASE pc' = "done" /\ UNCHANGED stack
  BY <1>1, <1>2, ReadOn
<1>3. CASE LookedUp \in Files /\ pc' = "read"
           /\ stack' = Append(stack, [file |-> LookedUp, json |-> Null, prev |-> FALSE])
  <2> DEFINE e == [file |-> LookedUp, json |-> Null, prev |-> FALSE]
  <2>1. IsFrame(e)
    BY <1>3 DEF IsFrame
  <2>2. stack' = Append(stack, e)
    BY <1>3
  <2> HIDE DEF e
  <2>3. Len(stack') = Len(stack) + 1 /\ \A i \in 1..Len(stack) : stack'[i] = stack[i]
    BY <1>1, <2>1, <2>2, Push
  <2>4. ASSUME NEW i \in 1..Len(stack'), i < Len(stack') PROVE IsRead(stack[i])'
    <3>1. i \in 1..Len(stack)
      BY <1>1, <2>3, <2>4
    <3>2. IsRead(stack[i]) /\ stack'[i] = stack[i]
      BY <1>1, <2>3, <3>1 DEF ReadInv
    <3> QED
      BY <1>1, <3>2 DEF IsRead
  <2> QED
    BY <1>3, <2>4 DEF ReadInv
<1>4. CASE LookedUp \notin Files /\ pc' = "return" /\ value' = Top.json /\ UNCHANGED stack
  <2>1. Extended(Top.file) = NoFile
    BY <1>1, <1>4 DEF Extended, LookedUp
  <2> QED
    BY <1>1, <1>4, <2>1, ReturnsOwn
<1> QED
  BY <1>2, <1>3, <1>4, SentinelAssumption DEF Extend, Return

LEMMA MergeUpReads ==
  ASSUME Inv, ReadInv, MergeUp
  PROVE  ReadInv'
<1> DEFINE n == Len(stack)
           f == stack[n - 1]
<1>1. /\ pc = "return" /\ pc' = "return" /\ n > 1 /\ IsStack(stack) /\ n \in Nat
      /\ stack' = Front(stack) /\ UNCHANGED w /\ w \in Worlds
      /\ value' = Merge(f.json, value)
  BY StackType DEF Inv, MergeUp, CallsInv
<1>2. Len(stack') = n - 1 /\ \A i \in 1..(n - 1) : stack'[i] = stack[i]
  BY <1>1, Pop
<1>3. /\ n - 1 \in 1..n /\ IsRead(f) /\ Len(Chain) \in Nat /\ n <= Len(Chain)
      /\ Wins(value, n)
  BY <1>1, ChainLen DEF ReadInv
<1>4. f.file = Chain[n - 1] /\ f.file \in Files
  <2>1. f.file = Nth[(n - 1) - 1]
    BY <1>3, StackIsChain
  <2>2. n - 1 \in 1..Len(Chain)
    BY <1>1, <1>3
  <2>3. Chain[n - 1] = Nth[(n - 1) - 1]
    BY <1>1, <2>2, ChainLen
  <2>4. f.file \in Files
    BY <1>3 DEF Inv, TypeOK
  <2> QED
    BY <2>1, <2>3, <2>4
<1>5. f.json = At(n - 1) /\ Sound(At(n - 1))
  BY <1>1, <1>3, <1>4, TextAssumption DEF IsRead, At, Sound
<1> HIDE DEF f
<1>6. Wins(Merge(At(n - 1), value), n - 1)
  <2> HIDE DEF n
  <2>1. n \in 1..Len(Chain) /\ n # 1
    BY <1>1, <1>3
  <2> QED
    BY <1>1, <1>3, <1>5, <2>1, WinsUp
<1>7. Wins(value, Len(stack))'
  <2> DEFINE v == Merge(At(n - 1), value)
             l == Len(stack')
  <2>1. Wins(v, l) /\ value' = v
    BY <1>1, <1>2, <1>5, <1>6
  <2> HIDE DEF v, l
  <2>2. \A k : Wins(v, k) => Wins(value, k)'
    BY <1>1, <2>1, WinsStays
  <2> QED
    BY <2>1, <2>2 DEF l
<1>8. ASSUME NEW i \in 1..Len(stack') PROVE IsRead(stack[i])'
  <2>1. i \in 1..n /\ stack'[i] = stack[i]
    BY <1>1, <1>2
  <2>2. IsRead(stack[i])
    BY <1>1, <2>1 DEF ReadInv
  <2> QED
    BY <1>1, <2>1, <2>2 DEF IsRead
<1>9. Len(stack') <= Len(Chain')
  BY <1>1, <1>2, <1>3, ReadStays
<1> QED
  BY <1>1, <1>7, <1>8, <1>9 DEF ReadInv

LEMMA ParseTsFileReads ==
  ASSUME Inv, ReadInv, ParseTsFile
  PROVE  ReadInv'
<1>1. pc = "return" /\ Len(stack) = 1 /\ UNCHANGED <<w, value>>
  BY DEF ParseTsFile
<1>2. CASE pc' = "done" /\ UNCHANGED stack
  BY <1>1, <1>2, ReadOn
<1>3. CASE pc' = "base" /\ stack' = <<>> /\ Unwraps(value)
  <2>1. Wins(value, 1)
    BY <1>1 DEF ReadInv
  <2>2. Wins(value, 1)'
    <3> DEFINE v == value
               n == 1
    <3>1. Wins(v, n) /\ value' = v
      BY <1>1, <2>1
    <3> HIDE DEF v, n
    <3>2. Wins(value, n)'
      BY <1>1, <3>1, WinsStays
    <3> QED
      BY <3>2 DEF n
  <2>3. Unwraps(value)' = Unwraps(value)
    BY <1>1 DEF Unwraps, BaseUrl, Paths, Options, Get, StringList, NoField
  <2>4. Len(stack') = 0
    BY <1>3, NoFrames
  <2> QED
    BY <1>3, <2>2, <2>3, <2>4 DEF ReadInv
<1> QED
  BY <1>2, <1>3 DEF ParseTsFile, Return

LEMMA InitRead == Init => ReadInv
<1> SUFFICES ASSUME Init PROVE ReadInv
  OBVIOUS
<1>1. pc = "read" /\ Len(stack) = 1
  BY DEF Init
<1> QED
  BY <1>1 DEF ReadInv

LEMMA StutterReads ==
  ASSUME Inv, ReadInv, UNCHANGED vars
  PROVE  ReadInv'
<1>1. UNCHANGED <<w, pc, stack, value>>
  BY DEF vars
<1>2. /\ \A f : IsRead(f)' = IsRead(f)
      /\ Len(Chain)' = Len(Chain)
      /\ \A n : Wins(value, n)' = Wins(value, n)
  BY <1>1, ReadStays
<1>3. Unwraps(value)' = Unwraps(value)
  BY <1>1 DEF Unwraps, BaseUrl, Paths, Options, Get, StringList, NoField
<1>4. ASSUME NEW i \in 1..Len(stack), IsRead(stack[i]) PROVE IsRead(stack[i])'
  BY <1>1, <1>4 DEF IsRead
<1>5. ASSUME pc = "return" PROVE Len(stack') <= Len(Chain') /\ Wins(value, Len(stack))'
  <2> DEFINE n == Len(stack)
  <2>1. Wins(value, n) /\ n <= Len(Chain) /\ n' = n
    BY <1>1, <1>5 DEF ReadInv
  <2> HIDE DEF n
  <2>2. Wins(value, n)'
    BY <1>1, <2>1, WinsStays
  <2> QED
    BY <1>1, <1>2, <2>1, <2>2 DEF n
<1>6. ASSUME pc = "base" PROVE Unwraps(value)' /\ Wins(value, 1)'
  BY <1>1, <1>3, <1>6, WinsStays DEF ReadInv
<1> QED
  BY <1>1, <1>4, <1>5, <1>6 DEF ReadInv

LEMMA ReadHolds == Spec => []ReadInv
<1>1. ASSUME Inv, ReadInv, [Next]_vars PROVE ReadInv'
  <2>1. CASE TryBaseUrl \/ NextEntry \/ TryPath \/ Plain
    <3>1. UNCHANGED <<w, stack>> /\ pc' \in {"paths", "done"}
      BY <2>1 DEF TryBaseUrl, NextEntry, TryPath, Plain, Return
    <3> QED
      BY <1>1, <3>1, ReadOn
  <2> QED
    BY <1>1, <2>1, ReadFileReads, AskExtendsReads, ExtendReads, MergeUpReads,
       ParseTsFileReads, StutterReads DEF Next
<1> QED
  BY <1>1, InitRead, InvHolds, PTL DEF Spec

-----------------------------------------------------------------------------
\* A value that unwraps has no null where a tsconfig is looked at.
LEMMA NoNull ==
  ASSUME NEW v, Unwraps(v), NEW key \in Keys, Vacant(Said(v, key))
  PROVE  Said(v, key) = NoField
<1>1. CASE key = <<"compilerOptions", "baseUrl">>
  <2>1. Len(key) = 2 /\ key[1] = "compilerOptions" /\ key[2] = "baseUrl"
    BY <1>1
  <2>2. Said(v, key) = BaseUrl(v)
    BY <2>1, SpeaksFacts DEF BaseUrl, Options
  <2> QED
    BY <2>2 DEF Unwraps, Vacant
<1>2. CASE key = <<"compilerOptions", "paths">>
  <2>1. Len(key) = 2 /\ key[1] = "compilerOptions" /\ key[2] = "paths"
    BY <1>2
  <2>2. Said(v, key) = Paths(v)
    BY <2>1, SpeaksFacts DEF Paths, Options
  <2> QED
    BY <2>2 DEF Unwraps, Vacant
<1>3. ASSUME NEW k, key = <<"compilerOptions", "paths", k>>
      PROVE  Said(v, key) = NoField
  <2>1. Len(key) = 3 /\ key[1] = "compilerOptions" /\ key[2] = "paths" /\ key[3] = k
    BY <1>3
  <2>2. Said(v, key) = Get(Paths(v), k)
    BY <2>1, SpeaksFacts DEF Paths, Options
  <2>3. CASE Paths(v) = NoField
    BY <2>2, <2>3, NotAnObject
  <2>4. CASE Paths(v) # NoField
    BY <2>2, <2>4 DEF Unwraps, StringList, Vacant, Get
  <2> QED
    BY <2>3, <2>4
<1> QED
  BY <1>1, <1>2, <1>3 DEF Keys

LEMMA WinsIsNearest ==
  ASSUME w \in Worlds, pc = "base", Unwraps(value), Wins(value, 1)
  PROVE  NearestWins
<1> SUFFICES ASSUME NEW key \in Keys
             PROVE  LET speakers == {n \in 1..Len(Chain) : Speaks(w.content[Chain[n]].v, key)}
                        said == Said(value, key)
                    IN IF speakers = {} THEN said = NoField
                       ELSE LET first == Said(w.content[Chain[Min(speakers)]].v, key)
                            IN said = first \/ (said.t = "obj" /\ first.t = "obj")
  BY DEF NearestWins
<1> DEFINE speakers == {n \in 1..Len(Chain) : SaysAt(n, key)}
           said == Said(value, key)
           i == Min(speakers)
           first == Said(At(i), key)
<1>1. Vacant(said) => said = NoField
  BY NoNull
<1>2. CASE speakers = {}
  <2>1. \A n \in 1..Len(Chain) : ~SaysAt(n, key)
    BY <1>2
  <2>2. Vacant(said)
    BY <2>1 DEF Wins
  <2> QED
    BY <1>1, <1>2, <2>2 DEF SaysAt, At
<1>3. CASE speakers # {}
  <2>1. i \in speakers /\ \A n \in speakers : i <= n
    <3>1. speakers \in SUBSET Nat
      OBVIOUS
    <3> HIDE DEF speakers
    <3>2. \E m \in speakers : \A n \in speakers : m <= n
      BY <1>3, <3>1, LeastNumber
    <3> QED
      BY <3>2 DEF Min
  <2>2. /\ i \in 1..Len(Chain) /\ SaysAt(i, key) /\ Len(Chain) \in Nat
        /\ \A n \in 1..(i - 1) : ~SaysAt(n, key)
    <3>1. i \in 1..Len(Chain) /\ SaysAt(i, key) /\ Len(Chain) \in Nat
      BY <2>1, ChainLen
    <3>2. ASSUME NEW n \in 1..(i - 1), SaysAt(n, key) PROVE FALSE
      <4> HIDE DEF i
      <4>1. n \in 1..Len(Chain) /\ n < i
        BY <3>1
      <4>2. n \in speakers
        BY <3>2, <4>1
      <4> QED
        BY <2>1, <4>1, <4>2
    <3> QED
      BY <3>1, <3>2
  <2> HIDE DEF i
  <2>3. Agree(said, first)
    BY <2>2 DEF Wins
  <2>4. Vacant(first) => first = NoField
    BY <2>2, SpeakerIsNotNull DEF SaysAt
  <2>5. said = first \/ (said.t = "obj" /\ first.t = "obj")
    BY <1>1, <2>3, <2>4 DEF Agree, BothObj
  <2> QED
    BY <1>3, <2>5 DEF i, SaysAt, At
<1> QED
  BY <1>2, <1>3

\* tsconfig.rs merges the files of a chain from its end on, and a key of the
\* result is what the first of them says that says anything of it, for any
\* chain of any files.
THEOREM NearestWinsHolds == Spec => []NearestWins
<1>1. Inv /\ ReadInv => NearestWins
  <2>1. pc # "base" => NearestWins
    BY DEF NearestWins
  <2> QED
    BY <2>1, WinsIsNearest DEF ReadInv, Inv
<1> QED
  BY <1>1, InvHolds, ReadHolds, PTL

-----------------------------------------------------------------------------
(* match_star *)

LEMMA FirstStar ==
  ASSUME NEW k \in Texts, NEW stars, stars = {i \in 1..Len(k) : k[i] = "*"}, stars # {}
  PROVE  /\ Min(stars) \in 1..Len(k) /\ k[Min(stars)] = "*"
         /\ \A m \in 1..(Min(stars) - 1) : k[m] # "*"
<1> DEFINE i == Min(stars)
<1>1. Len(k) \in Nat
  BY ElementsOf DEF Texts
<1>2. i \in stars /\ \A n \in stars : i <= n
  <2>1. stars \in SUBSET Nat
    OBVIOUS
  <2>2. \E m \in stars : \A n \in stars : m <= n
    BY <2>1, LeastNumber
  <2> QED
    BY <2>2 DEF Min
<1>3. i \in 1..Len(k) /\ k[i] = "*"
  BY <1>2
<1>4. ASSUME NEW m \in 1..(i - 1), k[m] = "*" PROVE FALSE
  <2> HIDE DEF i
  <2>1. m \in 1..Len(k) /\ m < i
    BY <1>1, <1>3
  <2>2. m \in stars
    BY <1>4, <2>1
  <2> QED
    BY <1>2, <2>1, <2>2
<1> QED
  BY <1>3, <1>4

\* The first star of k stands for what t has from i to j: as Stars says it, and
\* element for element.
StarIs(k, t, i, j) ==
  /\ "*" \notin Range(SubSeq(t, 1, i - 1))
  /\ SubSeq(t, 1, i - 1) \o <<"*">> \o SubSeq(t, j + 1, Len(t)) = k
Fits(k, t, i, j) ==
  /\ Len(k) = i + (Len(t) - j) /\ k[i] = "*"
  /\ \A m \in 1..(i - 1) : k[m] = t[m] /\ t[m] # "*"
  /\ \A m \in 1..(Len(t) - j) : k[i + m] = t[j + m]

LEMMA FitsAt ==
  ASSUME NEW k \in Texts, NEW t \in Texts, NEW i \in 1..Len(t), NEW j \in 1..Len(t)
  PROVE  StarIs(k, t, i, j) <=> Fits(k, t, i, j)
<1> DEFINE S == Chars \cup {"*"}
           z == "*"
           a == SubSeq(t, 1, i - 1)
<1>1. Len(t) \in Nat /\ i \in Nat /\ 1 \in Nat \ {0} /\ i - 1 \in Int /\ i - 1 <= Len(t)
  BY ElementsOf DEF Texts
<1>2. z \in S /\ t \in Seq(S) /\ k \in Seq(S)
  BY DEF Texts
<1>3. Splice(t, i, z, j) = k <=> IsSpliced(k, t, i, z, j)
  <2> HIDE DEF S, z
  <2> QED
    BY <1>2, SplicedAt
<1>4. DOMAIN a = 1..(i - 1) /\ \A m \in 1..(i - 1) : a[m] = t[m]
  <2>1. /\ a \in Seq(S)
        /\ Len(a) = IF 1 <= i - 1 THEN i - 1 - 1 + 1 ELSE 0
        /\ \A m \in 1..Len(a) : a[m] = t[1 + m - 1]
    <3> HIDE DEF S
    <3> QED
      BY <1>1, <1>2, PartOf
  <2> HIDE DEF a, S
  <2>2. DOMAIN a = 1..Len(a)
    BY <2>1, ElementsOf
  <2> QED
    BY <1>1, <2>1, <2>2
<1>5. z \notin Range(a) <=> \A m \in 1..(i - 1) : t[m] # z
  <2> HIDE DEF a, z
  <2> QED
    BY <1>4 DEF Range
<1> HIDE DEF a
<1>6. (z \notin Range(a) /\ Splice(t, i, z, j) = k) <=>
        (/\ Len(k) = i + (Len(t) - j) /\ k[i] = z
         /\ \A m \in 1..(i - 1) : k[m] = t[m] /\ t[m] # z
         /\ \A m \in 1..(Len(t) - j) : k[i + m] = t[j + m])
  BY <1>3, <1>5 DEF IsSpliced
<1> QED
  BY <1>6 DEF z, a, Splice, StarIs, Fits

Star(k, t) == IF k = t THEN <<>> ELSE MatchStar(k, t)

\* match_star finds the only text that the star of a pattern stands for.
LEMMA StarsIs ==
  ASSUME NEW k \in Texts, NEW t \in Texts
  PROVE  Stars(k, t) = IF Star(k, t) = NoText THEN {} ELSE {Star(k, t)}
<1> DEFINE n == Len(t)
           l == Len(k)
           stars == {i \in 1..Len(k) : k[i] = "*"}
<1>1. n \in Nat /\ l \in Nat
  BY ElementsOf DEF Texts
<1>2. CASE k = t
  <2>1. <<>> \in Texts
    BY DEF Texts
  <2> QED
    BY <1>2, <2>1, TextAssumption DEF Star, Stars
<1>3. CASE k # t
  <2> DEFINE T == {SubSeq(t, q[1], q[2]) : q \in
                  {r \in (1..n) \X (1..n) : r[1] <= r[2] /\ Fits(k, t, r[1], r[2])}}
  <2>1. Stars(k, t) = T
    <3>1. \A r \in (1..n) \X (1..n) : StarIs(k, t, r[1], r[2]) <=> Fits(k, t, r[1], r[2])
      <4>1. \A r \in (1..n) \X (1..n) : r[1] \in 1..Len(t) /\ r[2] \in 1..Len(t)
        OBVIOUS
      <4> QED
        BY <4>1, FitsAt
    <3>2. Stars(k, t) = {SubSeq(t, q[1], q[2]) : q \in
                           {r \in (1..n) \X (1..n) : r[1] <= r[2] /\ StarIs(k, t, r[1], r[2])}}
      BY <1>3 DEF Stars, StarIs
    <3> QED
      BY <3>1, <3>2
  <2>2. Star(k, t) = MatchStar(k, t)
    BY <1>3 DEF Star
  <2>3. CASE n < l \/ stars = {}
    <3>1. MatchStar(k, t) = NoText
      BY <2>3 DEF MatchStar
    <3>2. ASSUME NEW i \in 1..n, NEW j \in 1..n, i <= j, Fits(k, t, i, j) PROVE FALSE
      <4>1. l <= n /\ i \in 1..l
        BY <1>1, <3>2 DEF Fits
      <4>2. i \in stars
        BY <3>2, <4>1 DEF Fits
      <4> QED
        BY <1>1, <2>3, <4>1, <4>2
    <3>3. T = {}
      BY <3>2
    <3> QED
      BY <2>1, <2>2, <3>1, <3>3
  <2>4. CASE ~(n < l) /\ stars # {}
    <3> DEFINE i == Min(stars)
               j == n - (l - i)
               before == SubSeq(k, 1, i - 1)
               after == SubSeq(k, i + 1, l)
    <3>1. i \in 1..l /\ k[i] = "*" /\ \A m \in 1..(i - 1) : k[m] # "*"
      BY <2>4, FirstStar
    <3> HIDE DEF stars
    <3>2. MatchStar(k, t) = IF IsPrefix(before, t) /\ IsSuffix(after, t)
                            THEN SubSeq(t, i, n - Len(after)) ELSE NoText
      BY <2>4 DEF MatchStar, stars
    <3> HIDE DEF i
    <3>3. j \in 1..n /\ i \in 1..n /\ i <= j /\ i \in Nat /\ j \in Nat
      BY <1>1, <2>4, <3>1
    <3>4. /\ before \in Texts /\ Len(before) = i - 1
          /\ \A m \in 1..(i - 1) : before[m] = k[m]
      <4>1. 1 \in Nat \ {0} /\ i - 1 \in Int /\ i - 1 <= Len(k) /\ k \in Seq(Chars)
        BY <1>1, <3>1 DEF Texts
      <4>2. /\ before \in Seq(Chars)
            /\ Len(before) = IF 1 <= i - 1 THEN i - 1 - 1 + 1 ELSE 0
            /\ \A m \in 1..Len(before) : before[m] = k[1 + m - 1]
        BY <4>1, PartOf
      <4> HIDE DEF before
      <4> QED
        BY <3>3, <4>2 DEF Texts
    <3>5. /\ after \in Texts /\ Len(after) = l - i
          /\ \A m \in 1..(l - i) : after[m] = k[i + m]
      <4>1. i + 1 \in Nat \ {0} /\ l \in Int /\ l <= Len(k) /\ k \in Seq(Chars)
        BY <1>1, <3>3 DEF Texts
      <4>2. /\ after \in Seq(Chars)
            /\ Len(after) = IF i + 1 <= l THEN l - (i + 1) + 1 ELSE 0
            /\ \A m \in 1..Len(after) : after[m] = k[(i + 1) + m - 1]
        BY <4>1, PartOf
      <4> HIDE DEF after
      <4>3. Len(after) = l - i
        BY <1>1, <3>1, <4>2
      <4>4. \A m \in 1..(l - i) : (i + 1) + m - 1 = i + m
        BY <3>3
      <4> QED
        BY <4>2, <4>3, <4>4 DEF Texts
    <3> HIDE DEF before, after
    <3>6. IsPrefix(before, t) <=> \A m \in 1..(i - 1) : k[m] = t[m]
      <4>1. IsPrefix(before, t) <=>
              Len(before) <= Len(t) /\ \A m \in 1..Len(before) : before[m] = t[m]
        BY <3>4, PrefixOf DEF Texts
      <4> QED
        BY <1>1, <3>3, <3>4, <4>1
    <3>7. IsSuffix(after, t) <=> \A m \in 1..(n - j) : k[i + m] = t[j + m]
      <4>1. IsSuffix(after, t) <=>
              /\ Len(after) <= Len(t)
              /\ \A m \in 1..Len(after) : after[m] = t[Len(t) - Len(after) + m]
        BY <3>5, SuffixOf DEF Texts
      <4>2. n - j = l - i /\ l - i <= n
        BY <1>1, <2>4, <3>3
      <4> QED
        BY <3>5, <4>1, <4>2
    <3>8. IsPrefix(before, t) /\ IsSuffix(after, t) <=> Fits(k, t, i, j)
      <4>1. l = i + (n - j)
        BY <1>1, <3>3
      <4> QED
        BY <3>1, <3>6, <3>7, <4>1 DEF Fits
    <3>9. ASSUME NEW a \in 1..n, NEW b \in 1..n, Fits(k, t, a, b) PROVE a = i /\ b = j
      <4>1. ~(a < i)
        <5>1. ASSUME a < i PROVE FALSE
          <6>1. a \in 1..(i - 1)
            BY <1>1, <3>3, <5>1
          <6> QED
            BY <3>1, <3>9, <6>1 DEF Fits
        <5> QED
          BY <5>1
      <4>2. ~(i < a)
        <5>1. ASSUME i < a PROVE FALSE
          <6>1. i \in 1..(a - 1)
            BY <1>1, <3>3, <5>1
          <6> QED
            BY <3>1, <3>9, <6>1 DEF Fits
        <5> QED
          BY <5>1
      <4>3. a = i
        BY <3>3, <4>1, <4>2
      <4>4. l = a + (n - b)
        BY <3>9 DEF Fits
      <4> QED
        BY <1>1, <3>3, <4>3, <4>4
    <3>10. n - Len(after) = j
      BY <1>1, <3>3, <3>5
    <3>11. SubSeq(t, i, j) \in Texts
      <4>1. i \in Nat \ {0} /\ j \in Int /\ j <= Len(t) /\ t \in Seq(Chars)
        BY <3>3 DEF Texts
      <4> QED
        BY <4>1, PartOf DEF Texts
    <3> HIDE DEF j, n
    <3>12. CASE Fits(k, t, i, j)
      <4>1. MatchStar(k, t) = SubSeq(t, i, j) /\ MatchStar(k, t) # NoText
        BY <3>2, <3>8, <3>10, <3>11, <3>12, TextAssumption
      <4>2. T = {SubSeq(t, i, j)}
        <5>1. <<i, j>> \in {r \in (1..n) \X (1..n) : r[1] <= r[2] /\ Fits(k, t, r[1], r[2])}
          BY <3>3, <3>12
        <5>2. ASSUME NEW r \in (1..n) \X (1..n), Fits(k, t, r[1], r[2])
              PROVE  SubSeq(t, r[1], r[2]) = SubSeq(t, i, j)
          <6>1. r[1] \in 1..n /\ r[2] \in 1..n
            OBVIOUS
          <6>2. r[1] = i /\ r[2] = j
            BY <3>9, <5>2, <6>1
          <6> QED
            BY <6>2
        <5> QED
          BY <5>1, <5>2
      <4> QED
        BY <2>1, <2>2, <4>1, <4>2
    <3>13. CASE ~Fits(k, t, i, j)
      <4>1. MatchStar(k, t) = NoText
        BY <3>2, <3>8, <3>13
      <4>2. T = {}
        BY <3>9, <3>13
      <4> QED
        BY <2>1, <2>2, <4>1, <4>2
    <3> QED
      BY <3>12, <3>13
  <2> QED
    BY <2>3, <2>4
<1> QED
  BY <1>2, <1>3

-----------------------------------------------------------------------------
(* The table of paths *)

\* Nothing is there.
Missing(list) == \A i \in 1..Len(list) : Lookup(list[i]) = Failed

\* An entry was tried to its end.
Tried(k) == \A s \in Stars(k, w.target) : Missing(Candidates(k, s))

\* The candidates from position j + 1 on.
After(k, s, j) == [i \in 1..(Len(conf.paths[k]) - j) |-> Candidates(k, s)[i + j]]

\* The paths before those of q are not there.
Rest(k, q) ==
  \E s \in Stars(k, w.target), j \in 0..(Len(conf.paths[k]) - 1) :
    /\ Stars(k, w.target) = {s}
    /\ q = After(k, s, j)
    /\ \A i \in 1..j : Lookup(Candidates(k, s)[i]) = Failed

\* A request that does not start with a dot is looked for below baseUrl.
BaseAsked == conf.base # NoText /\ (w.target = <<>> \/ Head(w.target) # ".")
BasePath == Join(AbsoluteBaseUrl, w.target)

\* The table goes from texts to lists.
ConfOK == \A k \in DOMAIN conf.paths : k \in Texts /\ Len(conf.paths[k]) \in Nat

\* Of the entries that were taken from the table each is tried to its end, or
\* is the one the queue belongs to.
PathsInv ==
  /\ pc \notin {"paths", "done"} => queue = <<>>
  /\ pc = "base" => ConfOK /\ todo = DOMAIN conf.paths
  /\ pc = "paths" =>
       /\ ConfOK
       /\ BaseAsked => Lookup(BasePath) = Failed
       /\ \A k \in DOMAIN conf.paths \ todo : Tried(k) \/ Rest(k, queue)
       /\ queue # <<>> => \E k \in DOMAIN conf.paths \ todo : Rest(k, queue)
  /\ AnswerAllowed

\* The table, what is there and what is allowed stay what they are.
LEMMA ConfStays ==
  ASSUME UNCHANGED <<w, conf>>
  PROVE  /\ ConfOK' = ConfOK /\ BaseAsked' = BaseAsked /\ Allowed' = Allowed
         /\ Lookup(BasePath)' = Lookup(BasePath)
         /\ \A k : Tried(k)' = Tried(k)
         /\ \A k : Rest(k, queue)' = Rest(k, queue')
<1>1. ConfOK' = ConfOK /\ BaseAsked' = BaseAsked
  BY DEF ConfOK, BaseAsked
<1>2. \A x : Lookup(x)' = Lookup(x)
  BY DEF Lookup
<1>3. AbsoluteBaseUrl' = AbsoluteBaseUrl
  BY DEF AbsoluteBaseUrl
<1>4. \A k, s : Candidates(k, s)' = Candidates(k, s)
  BY <1>3 DEF Candidates
<1>5. BasePath' = BasePath
  BY <1>3 DEF BasePath
<1>6. \A k : Tried(k)' = Tried(k)
  BY <1>2, <1>4 DEF Tried, Missing
<1>7. \A k : Rest(k, queue)' = Rest(k, queue')
  <2>1. \A k, s, j : After(k, s, j)' = After(k, s, j)
    <3> SUFFICES ASSUME NEW k, NEW s, NEW j PROVE After(k, s, j)' = After(k, s, j)
      OBVIOUS
    <3>1. \A i : Candidates(k, s)'[i + j] = Candidates(k, s)[i + j]
      BY <1>4
    <3> QED
      BY <3>1 DEF After
  <2> QED
    BY <1>2, <1>4, <2>1 DEF Rest
<1>8. \A list : FirstHits(list)' = FirstHits(list)
  <2> SUFFICES ASSUME NEW list PROVE FirstHits(list)' = FirstHits(list)
    OBVIOUS
  <2>1. {i \in 1..Len(list) : Lookup(list[i]) # Failed}'
          = {i \in 1..Len(list) : Lookup(list[i]) # Failed}
    BY <1>2
  <2>2. \A m : Lookup(list[m])' = Lookup(list[m])
    BY <1>2
  <2> QED
    BY <2>1, <2>2 DEF FirstHits
<1>9. Allowed' = Allowed
  <2> DEFINE H(k) == UNION {FirstHits(Candidates(k, s)) : s \in Stars(k, w.target)}
             hits == UNION {H(k) : k \in DOMAIN conf.paths}
             base == IF conf.base = NoText \/ (w.target # <<>> /\ Head(w.target) = ".") THEN <<>>
                     ELSE << Join(AbsoluteBaseUrl, w.target) >>
  <2>1. \A k, s : FirstHits(Candidates(k, s))' = FirstHits(Candidates(k, s))
    BY <1>4, <1>8
  <2>2. \A k : H(k)' = H(k)
    BY <2>1
  <2>3. hits' = hits
    <3> HIDE DEF H
    <3> QED
      BY <2>2
  <2>4. FirstHits(base)' = FirstHits(base)
    BY <1>3, <1>8
  <2> QED
    BY <2>3, <2>4 DEF Allowed
<1> QED
  BY <1>1, <1>2, <1>5, <1>6, <1>7, <1>9

\* An entry has one candidate for each path it lists.
LEMMA CandidatesAre ==
  ASSUME ConfOK, NEW k \in DOMAIN conf.paths, NEW s
  PROVE  /\ Len(conf.paths[k]) \in Nat /\ Len(Candidates(k, s)) = Len(conf.paths[k])
         /\ Len(conf.paths[k]) = 0 => Candidates(k, s) = <<>>
BY DEF ConfOK, Candidates

\* The first path that is there.
LEMMA FirstHit ==
  ASSUME NEW list, Len(list) \in Nat
  PROVE  /\ Missing(list) => FirstHits(list) = {}
         /\ \A n \in 1..Len(list) :
              Lookup(list[n]) # Failed /\ (\A i \in 1..(n - 1) : Lookup(list[i]) = Failed) =>
                FirstHits(list) = {Lookup(list[n])}
<1> DEFINE hits == {i \in 1..Len(list) : Lookup(list[i]) # Failed}
<1>1. Missing(list) => hits = {}
  BY DEF Missing
<1>2. ASSUME NEW n \in 1..Len(list), Lookup(list[n]) # Failed,
             \A i \in 1..(n - 1) : Lookup(list[i]) = Failed
      PROVE  hits # {} /\ Min(hits) = n
  <2>1. n \in hits /\ \A i \in hits : n <= i
    BY <1>2
  <2>2. \A m \in hits : (\A i \in hits : m <= i) => m = n
    BY <2>1
  <2> HIDE DEF hits
  <2> QED
    BY <2>1, <2>2 DEF Min
<1>3. FirstHits(list) = IF hits = {} THEN {} ELSE {Lookup(list[Min(hits)])}
  BY DEF FirstHits
<1> HIDE DEF hits
<1> QED
  BY <1>1, <1>2, <1>3

\* The queue goes on to the next path of an entry, or to its end.
LEMMA RestGoesOn ==
  ASSUME ConfOK, NEW k \in DOMAIN conf.paths, NEW q, Rest(k, q)
  PROVE  /\ q # <<>>
         /\ Lookup(Head(q)) = Failed => Rest(k, Tail(q)) \/ (Tail(q) = <<>> /\ Tried(k))
         /\ Lookup(Head(q)) # Failed =>
              \E s \in Stars(k, w.target) : FirstHits(Candidates(k, s)) = {Lookup(Head(q))}
<1> DEFINE n == Len(conf.paths[k])
<1>1. PICK s \in Stars(k, w.target), j \in 0..(n - 1) :
        /\ Stars(k, w.target) = {s}
        /\ q = [i \in 1..(n - j) |-> Candidates(k, s)[i + j]]
        /\ \A i \in 1..j : Lookup(Candidates(k, s)[i]) = Failed
  BY DEF Rest, After
<1> DEFINE c == Candidates(k, s)
<1>2. n \in Nat /\ Len(c) = n /\ j \in Nat /\ n - j \in Nat /\ n - j # 0 /\ 1 \in 1..(n - j)
      /\ 1 + j = j + 1 /\ j + 1 \in 1..n /\ (j + 1) - 1 = j
  BY CandidatesAre
<1> HIDE DEF n, c
<1>3. q = [i \in 1..(n - j) |-> c[i + j]]
  BY <1>1 DEF c
<1>4. Len(q) = n - j /\ q # <<>> /\ Head(q) = c[j + 1]
  BY <1>2, <1>3
<1>5. ASSUME Lookup(c[j + 1]) = Failed, j + 1 # n
      PROVE  Rest(k, Tail(q))
  <2>1. Tail(q) = [i \in 1..(n - (j + 1)) |-> c[i + (j + 1)]]
    <3>1. Tail(q) = [i \in 1..(Len(q) - 1) |-> q[i + 1]]
      BY <1>2, <1>3, <1>4
    <3>2. \A i \in 1..(n - (j + 1)) : i + 1 \in 1..(n - j) /\ (i + 1) + j = i + (j + 1)
      BY <1>2
    <3>3. \A i \in 1..(n - (j + 1)) : q[i + 1] = c[i + (j + 1)]
      BY <1>3, <3>2
    <3>4. Len(q) - 1 = n - (j + 1)
      BY <1>2, <1>4
    <3> QED
      BY <3>1, <3>3, <3>4
  <2>2. j + 1 \in 0..(n - 1)
    BY <1>2, <1>5
  <2>3. \A i \in 1..(j + 1) : Lookup(c[i]) = Failed
    <3>1. \A i \in 1..(j + 1) : i \in 1..j \/ i = j + 1
      BY <1>2
    <3> QED
      BY <1>1, <1>5, <3>1 DEF c
  <2> QED
    BY <1>1, <2>1, <2>2, <2>3 DEF Rest, After, n, c
<1>6. ASSUME Lookup(c[j + 1]) = Failed, j + 1 = n
      PROVE  Tail(q) = <<>> /\ Tried(k)
  <2>1. Tail(q) = <<>>
    <3> DEFINE S == {c[i] : i \in 1..n}
    <3>1. \A i \in 1..(n - j) : i + j \in 1..n
      BY <1>2
    <3>2. \A i \in 1..(n - j) : c[i + j] \in S
      BY <3>1
    <3>3. q \in Seq(S)
      <4> HIDE DEF S
      <4> QED
        BY <1>2, <1>3, <3>2
    <3> HIDE DEF S
    <3>4. Tail(q) \in Seq(S) /\ Len(Tail(q)) = Len(q) - 1
      BY <1>4, <3>3, HeadTailProperties
    <3>5. Len(q) - 1 = 0
      BY <1>2, <1>4, <1>6
    <3>6. Len(Tail(q)) = 0
      BY <3>4, <3>5
    <3>7. \A x \in Seq(S) : Len(x) = 0 => x = <<>>
      BY EmptySeq
    <3> QED
      BY <3>4, <3>6, <3>7, Zenon
  <2>2. \A i \in 1..n : Lookup(c[i]) = Failed
    <3>1. \A i \in 1..n : i \in 1..j \/ i = j + 1
      BY <1>2, <1>6
    <3> QED
      BY <1>1, <1>6, <3>1 DEF c
  <2>3. Missing(c)
    BY <1>2, <2>2 DEF Missing
  <2> QED
    BY <1>1, <2>1, <2>3 DEF Tried, c
<1>7. ASSUME Lookup(c[j + 1]) # Failed
      PROVE  FirstHits(c) = {Lookup(c[j + 1])}
  <2>1. \A i \in 1..((j + 1) - 1) : Lookup(c[i]) = Failed
    BY <1>1, <1>2 DEF c
  <2> QED
    BY <1>2, <1>7, <2>1, FirstHit
<1> QED
  BY <1>1, <1>4, <1>5, <1>6, <1>7 DEF c

\* What is allowed when baseUrl has no answer.
LEMMA AllowedBelow ==
  ASSUME BaseAsked => Lookup(BasePath) = Failed
  PROVE  LET hits == UNION {UNION {FirstHits(Candidates(k, s)) : s \in Stars(k, w.target)}
                              : k \in DOMAIN conf.paths}
         IN Allowed = IF hits # {} THEN hits ELSE {w.plain}
<1> DEFINE base == IF conf.base = NoText \/ (w.target # <<>> /\ Head(w.target) = ".") THEN <<>>
                   ELSE << Join(AbsoluteBaseUrl, w.target) >>
<1>1. FirstHits(base) = {}
  <2>1. CASE BaseAsked
    <3>1. base = <<BasePath>> /\ Len(<<BasePath>>) = 1 /\ <<BasePath>>[1] = BasePath
      BY <2>1 DEF BaseAsked, BasePath
    <3>2. Missing(<<BasePath>>)
      BY <2>1, <3>1 DEF Missing
    <3> HIDE DEF base
    <3> QED
      BY <3>1, <3>2, FirstHit
  <2>2. CASE ~BaseAsked
    <3>1. base = <<>> /\ Len(<<>>) = 0
      BY <2>2 DEF BaseAsked
    <3>2. Missing(<<>>)
      BY <3>1 DEF Missing
    <3> HIDE DEF base
    <3> QED
      BY <3>1, <3>2, FirstHit
  <2> QED
    BY <2>1, <2>2
<1> QED
  BY <1>1 DEF Allowed

\* A finished answer below baseUrl is allowed.
LEMMA AllowedBase ==
  ASSUME BaseAsked, Lookup(BasePath) # Failed
  PROVE  Lookup(BasePath) \in Allowed
<1> DEFINE base == IF conf.base = NoText \/ (w.target # <<>> /\ Head(w.target) = ".") THEN <<>>
                   ELSE << Join(AbsoluteBaseUrl, w.target) >>
<1>1. base = <<BasePath>> /\ Len(<<BasePath>>) = 1 /\ <<BasePath>>[1] = BasePath
  BY DEF BaseAsked, BasePath
<1>2. FirstHits(base) = {Lookup(BasePath)}
  <2>1. 1 \in 1..1 /\ \A i \in 1..(1 - 1) : FALSE
    OBVIOUS
  <2> HIDE DEF base
  <2> QED
    BY <1>1, <2>1, FirstHit
<1>3. FirstHits(base) # {} => Allowed = FirstHits(base)
  BY DEF Allowed
<1> HIDE DEF base
<1> QED
  BY <1>2, <1>3

-----------------------------------------------------------------------------
(* Every action keeps the invariant of the paths *)

\* A call that fails while the tsconfig is read leaves the stack as it is.
LEMMA BeforePaths ==
  ASSUME Inv, PathsInv, UNCHANGED queue, pc \in {"read", "extends", "lookup", "return"},
         pc' \notin {"base", "paths"}, pc' = "done" => stack' # <<>>
  PROVE  PathsInv'
<1>1. queue' = <<>>
  BY DEF PathsInv
<1> QED
  BY <1>1 DEF PathsInv, AnswerAllowed

\* What is read is a table from texts to lists.
LEMMA ParsedIsOK ==
  ASSUME Sound(value), Unwraps(value), NEW paths,
         paths = IF Paths(value) = NoField THEN <<>>
                 ELSE [k \in DOMAIN Paths(value).obj |-> Strings(Paths(value).obj[k])]
  PROVE  \A k \in DOMAIN paths : k \in Texts /\ Len(paths[k]) \in Nat
<1> DEFINE p == Paths(value)
<1>1. CASE p = NoField
  <2>1. DOMAIN paths = 1..0
    BY <1>1
  <2> QED
    BY <2>1
<1>2. CASE p # NoField
  <2> SUFFICES ASSUME NEW k \in DOMAIN p.obj
               PROVE  k \in Texts /\ Len(Strings(p.obj[k])) \in Nat
    BY <1>2
  <2>1. p.t = "obj" /\ p.obj[k].t = "list"
    BY <1>2 DEF Unwraps, StringList
  <2>2. k \in Texts /\ Len(p.obj[k].list) \in Nat
    BY <2>1 DEF Sound, Table
  <2> HIDE DEF p
  <2>3. Len(Strings(p.obj[k])) = Len(p.obj[k].list)
    BY <2>2 DEF Strings
  <2> QED
    BY <2>2, <2>3
<1> QED
  BY <1>1, <1>2

LEMMA ParseTsFilePaths ==
  ASSUME Inv, ReadInv, PathsInv, ParseTsFile
  PROVE  PathsInv'
<1>1. pc = "return" /\ Len(stack) = 1 /\ UNCHANGED <<w, value, queue>> /\ queue = <<>>
  BY DEF ParseTsFile, PathsInv
<1>2. CASE pc' = "done" /\ UNCHANGED stack
  BY <1>1, <1>2, NoFrames, BeforePaths
<1>3. CASE ~(pc' = "done" /\ UNCHANGED stack)
  <2>1. /\ Unwraps(value) /\ pc' = "base" /\ todo' = DOMAIN conf'.paths
        /\ conf'.paths = IF Paths(value) = NoField THEN <<>>
                         ELSE [k \in DOMAIN Paths(value).obj |-> Strings(Paths(value).obj[k])]
    BY <1>3 DEF ParseTsFile, Return
  <2>2. Sound(value)
    BY <1>1 DEF ReadInv, Wins
  <2>3. ConfOK'
    BY <2>1, <2>2, ParsedIsOK DEF ConfOK
  <2> QED
    BY <1>1, <2>1, <2>3 DEF PathsInv, AnswerAllowed
<1> QED
  BY <1>2, <1>3

LEMMA TryBaseUrlPaths ==
  ASSUME Inv, PathsInv, TryBaseUrl
  PROVE  PathsInv'
<1>1. /\ pc = "base" /\ UNCHANGED <<w, stack, value, toContext, conf, todo, queue>>
      /\ ConfOK /\ todo = DOMAIN conf.paths /\ queue = <<>>
  BY DEF TryBaseUrl, PathsInv
<1>2. ConfOK' = ConfOK /\ BaseAsked' = BaseAsked /\ Allowed' = Allowed
      /\ Lookup(BasePath)' = Lookup(BasePath)
  BY <1>1, ConfStays
<1>3. CASE BaseAsked /\ Lookup(BasePath) # Failed /\ Return(Lookup(BasePath))
  <2>1. answer' \in Allowed
    BY <1>3, AllowedBase DEF Return
  <2> QED
    BY <1>2, <1>3, <2>1 DEF PathsInv, AnswerAllowed, Return
<1>4. CASE (BaseAsked => Lookup(BasePath) = Failed) /\ pc' = "paths"
  <2>1. DOMAIN conf'.paths \ todo' = {} /\ queue' = <<>>
    BY <1>1
  <2> QED
    BY <1>1, <1>2, <1>4, <2>1 DEF PathsInv, AnswerAllowed
<1> QED
  BY <1>3, <1>4 DEF TryBaseUrl, IsFinished, BaseAsked, BasePath

\* An empty queue is not what is left of an entry.
LEMMA NothingLeft ==
  ASSUME PathsInv, pc = "paths", queue = <<>>
  PROVE  \A k \in DOMAIN conf.paths \ todo : Tried(k)
<1>1. \A k \in DOMAIN conf.paths : ~Rest(k, queue)
  BY RestGoesOn DEF PathsInv
<1> QED
  BY <1>1 DEF PathsInv

LEMMA NextEntryPaths ==
  ASSUME Inv, PathsInv, NextEntry
  PROVE  PathsInv'
<1>1. /\ pc = "paths" /\ queue = <<>> /\ UNCHANGED <<w, pc, stack, value, toContext, conf, answer>>
      /\ ConfOK /\ (BaseAsked => Lookup(BasePath) = Failed) /\ w.target \in Texts
      /\ todo \subseteq DOMAIN conf.paths
  BY TextAssumption DEF NextEntry, PathsInv, Inv, TypeOK
<1>2. PICK k \in todo :
        /\ todo' = todo \ {k}
        /\ queue' = IF Star(k, w.target) = NoText THEN <<>> ELSE Candidates(k, Star(k, w.target))
  BY DEF NextEntry, Star
<1> DEFINE s == Star(k, w.target)
           n == Len(conf.paths[k])
<1>3. k \in DOMAIN conf.paths /\ k \in Texts /\ n \in Nat
  BY <1>1, <1>2 DEF ConfOK
<1>4. Stars(k, w.target) = IF s = NoText THEN {} ELSE {s}
  BY <1>1, <1>3, StarsIs
<1> HIDE DEF s
<1>5. (queue' = <<>> /\ Tried(k)) \/ (Rest(k, queue'))
  <2>1. CASE s = NoText
    BY <1>2, <1>4, <2>1 DEF Tried, s
  <2>2. CASE s # NoText /\ n = 0
    <3>1. queue' = <<>> /\ Len(Candidates(k, s)) = 0
      BY <1>1, <1>2, <1>3, <2>2, CandidatesAre DEF s
    <3>2. Missing(Candidates(k, s))
      BY <3>1 DEF Missing
    <3> QED
      BY <1>4, <2>2, <3>1, <3>2 DEF Tried
  <2>3. CASE s # NoText /\ n # 0
    <3>1. queue' = Candidates(k, s)
      BY <1>2, <2>3 DEF s
    <3>2. 0 \in 0..(n - 1) /\ \A i \in 1..0 : FALSE
      BY <1>3, <2>3
    <3>3. Candidates(k, s) = After(k, s, 0)
      <4>1. n - 0 = n /\ \A i \in 1..n : i + 0 = i
        BY <1>3
      <4>2. Candidates(k, s) = [i \in 1..n |-> Candidates(k, s)[i]]
        BY DEF Candidates
      <4> HIDE DEF n
      <4>3. After(k, s, 0) = [i \in 1..n |-> Candidates(k, s)[i]]
        BY <4>1 DEF After, n
      <4> QED
        BY <4>2, <4>3
    <3> QED
      BY <1>4, <2>3, <3>1, <3>2, <3>3 DEF Rest
  <2> QED
    BY <2>1, <2>2, <2>3
<1>6. \A m \in DOMAIN conf.paths \ todo : Tried(m)
  BY <1>1, NothingLeft
<1>7. \A m \in DOMAIN conf.paths \ todo' : m \in DOMAIN conf.paths \ todo \/ m = k
  BY <1>2
<1>8. k \in DOMAIN conf.paths \ todo'
  BY <1>2, <1>3
<1>9. /\ \A m : Tried(m)' = Tried(m)
      /\ \A m : Rest(m, queue)' = Rest(m, queue')
      /\ ConfOK' /\ (BaseAsked => Lookup(BasePath) = Failed)'
  BY <1>1, ConfStays
<1>10. DOMAIN conf'.paths = DOMAIN conf.paths
  BY <1>1
<1>11. pc' = "paths" /\ AnswerAllowed'
  BY <1>1 DEF AnswerAllowed
<1> QED
  BY <1>5, <1>6, <1>7, <1>8, <1>9, <1>10, <1>11 DEF PathsInv

LEMMA TryPathPaths ==
  ASSUME Inv, PathsInv, TryPath
  PROVE  PathsInv'
<1>1. /\ pc = "paths" /\ queue # <<>> /\ UNCHANGED <<w, stack, value, toContext, conf, todo>>
      /\ ConfOK /\ (BaseAsked => Lookup(BasePath) = Failed) /\ queue' = Tail(queue)
  BY DEF TryPath, PathsInv
<1>2. PICK k \in DOMAIN conf.paths \ todo : Rest(k, queue)
  BY <1>1 DEF PathsInv
<1>3. CASE Lookup(Head(queue)) # Failed
  <2>1. pc' = "done" /\ answer' = Lookup(Head(queue))
    BY <1>3 DEF TryPath, IsFinished, Return
  <2>2. PICK s \in Stars(k, w.target) : FirstHits(Candidates(k, s)) = {Lookup(Head(queue))}
    BY <1>1, <1>2, <1>3, RestGoesOn
  <2>3. Lookup(Head(queue)) \in Allowed
    <3> DEFINE H(m) == UNION {FirstHits(Candidates(m, t)) : t \in Stars(m, w.target)}
               hits == UNION {H(m) : m \in DOMAIN conf.paths}
    <3>1. Allowed = IF hits # {} THEN hits ELSE {w.plain}
      BY <1>1, AllowedBelow
    <3>2. Lookup(Head(queue)) \in H(k)
      BY <2>2
    <3>3. Lookup(Head(queue)) \in hits
      <4> HIDE DEF H
      <4> QED
        BY <1>2, <3>2
    <3> HIDE DEF hits
    <3> QED
      BY <3>1, <3>3
  <2>4. Allowed' = Allowed
    BY <1>1, ConfStays
  <2> QED
    BY <2>1, <2>3, <2>4 DEF PathsInv, AnswerAllowed
<1>4. CASE Lookup(Head(queue)) = Failed
  <2>1. pc' = "paths" /\ AnswerAllowed'
    BY <1>1, <1>4 DEF TryPath, IsFinished, AnswerAllowed
  <2>2. \A m \in DOMAIN conf.paths : Rest(m, queue) =>
          Rest(m, Tail(queue)) \/ (Tail(queue) = <<>> /\ Tried(m))
    BY <1>1, <1>4, RestGoesOn
  <2>3. \A m \in DOMAIN conf.paths \ todo : Tried(m) \/ Rest(m, queue)
    BY <1>1 DEF PathsInv
  <2>4. /\ \A m : Tried(m)' = Tried(m)
        /\ \A m : Rest(m, queue)' = Rest(m, queue')
        /\ ConfOK' /\ (BaseAsked => Lookup(BasePath) = Failed)'
    BY <1>1, ConfStays
  <2>5. DOMAIN conf'.paths \ todo' = DOMAIN conf.paths \ todo
    BY <1>1
  <2>6. \A m \in DOMAIN conf.paths \ todo : Tried(m) \/ Rest(m, queue')
    BY <1>1, <2>2, <2>3
  <2>7. queue' # <<>> => \E m \in DOMAIN conf.paths \ todo : Rest(m, queue')
    BY <1>1, <1>2, <2>2
  <2> QED
    BY <2>1, <2>4, <2>5, <2>6, <2>7 DEF PathsInv
<1> QED
  BY <1>3, <1>4

LEMMA PlainPaths ==
  ASSUME Inv, PathsInv, Plain
  PROVE  PathsInv'
<1>1. /\ pc = "paths" /\ queue = <<>> /\ todo = {} /\ UNCHANGED <<w, stack, conf>>
      /\ pc' = "done" /\ answer' = w.plain
      /\ ConfOK /\ (BaseAsked => Lookup(BasePath) = Failed)
  BY DEF Plain, Return, PathsInv
<1> DEFINE H(m) == UNION {FirstHits(Candidates(m, t)) : t \in Stars(m, w.target)}
           hits == UNION {H(m) : m \in DOMAIN conf.paths}
<1>2. Allowed = IF hits # {} THEN hits ELSE {w.plain}
  BY <1>1, AllowedBelow
<1>3. \A m \in DOMAIN conf.paths : H(m) = {}
  <2> SUFFICES ASSUME NEW m \in DOMAIN conf.paths, NEW s \in Stars(m, w.target)
               PROVE  FirstHits(Candidates(m, s)) = {}
    OBVIOUS
  <2>1. Tried(m)
    BY <1>1, NothingLeft
  <2>2. Missing(Candidates(m, s))
    BY <2>1 DEF Tried
  <2>3. Len(Candidates(m, s)) \in Nat
    BY <1>1, CandidatesAre
  <2> QED
    BY <2>2, <2>3, FirstHit
<1>4. hits = {}
  <2> HIDE DEF H
  <2> QED
    BY <1>3
<1> HIDE DEF hits
<1>5. answer' \in Allowed
  BY <1>1, <1>2, <1>4
<1>6. Allowed' = Allowed
  BY <1>1, ConfStays
<1> QED
  BY <1>1, <1>5, <1>6 DEF PathsInv, AnswerAllowed

LEMMA StutterPaths ==
  ASSUME Inv, PathsInv, UNCHANGED vars
  PROVE  PathsInv'
<1>1. UNCHANGED <<w, pc, stack, conf, todo, queue, answer>>
  BY DEF vars
<1>2. /\ ConfOK' = ConfOK /\ BaseAsked' = BaseAsked /\ Allowed' = Allowed
      /\ Lookup(BasePath)' = Lookup(BasePath)
      /\ \A k : Tried(k)' = Tried(k)
      /\ \A k : Rest(k, queue)' = Rest(k, queue')
  BY <1>1, ConfStays
<1> QED
  BY <1>1, <1>2 DEF PathsInv, AnswerAllowed

LEMMA PathsHold == Spec => []PathsInv
<1>1. Init => PathsInv
  BY DEF Init, PathsInv, AnswerAllowed
<1>2. ASSUME Inv, ReadInv, PathsInv, [Next]_vars PROVE PathsInv'
  <2>1. CASE ReadFile \/ AskExtends \/ Extend \/ MergeUp
    <3>1. /\ pc \in {"read", "extends", "lookup", "return"} /\ UNCHANGED queue
          /\ pc' \notin {"base", "paths"} /\ (pc' = "done" => stack' = stack)
      BY <2>1 DEF ReadFile, AskExtends, Extend, MergeUp, Return
    <3>2. pc # "done" /\ pc \notin {"base", "paths"}
      BY <3>1
    <3>3. stack # <<>>
      BY <1>2, <3>2 DEF Inv, TypeOK
    <3> QED
      BY <1>2, <3>1, <3>3, BeforePaths
  <2> QED
    BY <1>2, <2>1, ParseTsFilePaths, TryBaseUrlPaths, NextEntryPaths, TryPathPaths, PlainPaths,
       StutterPaths DEF Next
<1> QED
  BY <1>1, <1>2, InvHolds, ReadHolds, PTL DEF Spec

\* TsConfig: baseUrl answers before paths, of a pattern the first path that is
\* there, and the request as it came only if no pattern has one; the order of
\* the hash map decides only between two patterns that match.
THEOREM AnswerAllowedHolds == Spec => []AnswerAllowed
<1>1. PathsInv => AnswerAllowed
  BY DEF PathsInv
<1> QED
  BY <1>1, PathsHold, PTL
=============================================================================
