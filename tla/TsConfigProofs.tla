--------------------------- MODULE TsConfigProofs ---------------------------
(***************************************************************************)
(* Proofs about TsConfig for any files, worlds and size of the stack.      *)
(***************************************************************************)
EXTENDS TsConfig, SequenceTheorems, FiniteSetTheorems, TLAPS

-----------------------------------------------------------------------------
(* The stack *)

IsFrame(f) ==
  /\ f = [file |-> f.file, json |-> f.json, prev |-> f.prev]
  /\ f.file \in Files /\ f.prev \in BOOLEAN

IsStack(s) == \E S : s \in Seq(S) /\ \A f \in S : IsFrame(f)

LEMMA StackType ==
  ASSUME NEW s, IsStack(s)
  PROVE  /\ Len(s) \in Nat /\ \A i \in 1..Len(s) : IsFrame(s[i])
         /\ s # <<>> => Len(s) \in 1..Len(s) /\ Len(s) # 0
         /\ s = <<>> => Len(s) = 0
<1>1. PICK S : s \in Seq(S) /\ \A f \in S : IsFrame(f)
  BY DEF IsStack
<1> QED
  BY <1>1, LenProperties, ElementOfSeq, EmptySeq

LEMMA NoFrames == IsStack(<<>>) /\ Len(<<>>) = 0
<1> DEFINE e == <<>>
<1>1. e \in Seq({}) /\ Len(e) = 0
  OBVIOUS
<1>2. \A f \in {} : IsFrame(f)
  OBVIOUS
<1> HIDE DEF e
<1>3. IsStack(e)
  BY <1>1, <1>2 DEF IsStack
<1> QED
  BY <1>1, <1>3 DEF e

\* The top frame is changed.
LEMMA SetTop ==
  ASSUME NEW s, IsStack(s), s # <<>>, NEW e, IsFrame(e), e.file = s[Len(s)].file
  PROVE  LET t == [s EXCEPT ![Len(s)] = e]
         IN /\ IsStack(t) /\ Len(t) = Len(s) /\ t # <<>>
            /\ \A i \in 1..Len(s) : t[i].file = s[i].file
            /\ t[Len(t)] = e
<1> DEFINE t == [s EXCEPT ![Len(s)] = e]
<1>1. PICK S : s \in Seq(S) /\ \A f \in S : IsFrame(f)
  BY DEF IsStack
<1>2. s \in Seq(S \cup {e}) /\ Len(s) \in 1..Len(s) /\ Len(s) # 0
  <2>1. Len(s) \in Nat /\ s \in [1..Len(s) -> S]
    BY <1>1, LenProperties
  <2>2. s \in [1..Len(s) -> S \cup {e}]
    BY <2>1
  <2> QED
    BY <2>1, <2>2, StackType
<1>3. /\ t \in Seq(S \cup {e}) /\ Len(t) = Len(s)
      /\ \A i \in 1..Len(s) : t[i] = IF i = Len(s) THEN e ELSE s[i]
  BY <1>2, ExceptSeq
<1>4. t # <<>>
  BY <1>2, <1>3
<1> QED
  BY <1>1, <1>2, <1>3, <1>4 DEF IsStack

\* A frame is pushed.
LEMMA Push ==
  ASSUME NEW s, IsStack(s), NEW e, IsFrame(e)
  PROVE  /\ IsStack(Append(s, e)) /\ Len(Append(s, e)) = Len(s) + 1
         /\ Append(s, e) # <<>>
         /\ \A i \in 1..Len(s) : Append(s, e)[i] = s[i]
         /\ Append(s, e)[Len(s) + 1] = e
<1>1. PICK S : s \in Seq(S) /\ \A f \in S : IsFrame(f)
  BY DEF IsStack
<1>2. s \in Seq(S \cup {e})
  <2>1. Len(s) \in Nat /\ s \in [1..Len(s) -> S]
    BY <1>1, LenProperties
  <2>2. s \in [1..Len(s) -> S \cup {e}]
    BY <2>1
  <2> QED
    BY <2>1, <2>2, StackType
<1> QED
  BY <1>1, <1>2, AppendProperties DEF IsStack

\* A frame is popped.
LEMMA Pop ==
  ASSUME NEW s, IsStack(s), Len(s) > 1
  PROVE  /\ IsStack(Front(s)) /\ Len(Front(s)) = Len(s) - 1 /\ Front(s) # <<>>
         /\ \A i \in 1..(Len(s) - 1) : Front(s)[i] = s[i]
<1>1. PICK S : s \in Seq(S) /\ \A f \in S : IsFrame(f)
  BY DEF IsStack
<1>2. Len(s) \in Nat
  BY StackType
<1>3. /\ Front(s) \in Seq(S) /\ Len(Front(s)) = Len(s) - 1
      /\ \A i \in 1..(Len(s) - 1) : Front(s)[i] = s[i]
  BY <1>1, <1>2, SubSeqProperties, ElementOfSeq DEF Front
<1>4. Front(s) # <<>>
  BY <1>2, <1>3
<1> QED
  BY <1>1, <1>3, <1>4 DEF IsStack

-----------------------------------------------------------------------------
(* The invariant *)

\* Each file of the stack is the one that the file below it extends.
CallsInv ==
  /\ IsStack(stack)
  /\ stack # <<>> => stack[1].file = w.root
  /\ \A i \in 1..Len(stack) : stack[i].file \in Reached
  /\ \A i \in 1..(Len(stack) - 1) : Extended(stack[i].file) = stack[i + 1].file

\* What was read of the file on top.
TopInv ==
  /\ pc \in {"extends", "lookup"} =>
       w.content[Top.file].t = "json" /\ Top.json = w.content[Top.file].v
  /\ pc = "lookup" => Extends(Top.json) /\ Top.prev = w.toContext

\* All files were read, and the last one extends none.
AllRead ==
  /\ ~Endless
  /\ \A f \in Reached : w.content[f].t = "json"
                        /\ (Extends(w.content[f].v) => w.lookup[f] # Ignored)

Inv ==
  /\ w \in Worlds /\ TypeOK /\ ContextKept
  /\ CallsInv /\ TopInv
  /\ pc \in {"return", "base", "paths"} => AllRead
  /\ CrashIsCycle /\ FailuresExplained

USE DEF Top

-----------------------------------------------------------------------------
(* The files of a world *)

LEMMA ReachedFacts ==
  ASSUME w \in Worlds
  PROVE  /\ w.root \in Reached /\ Reached \subseteq Files
         /\ \A f \in Reached : Extended(f) \in Reached \cup {NoFile}
         /\ \A fs \in SUBSET Files : Closed(fs) => Reached \subseteq fs
         /\ \A f \in Files : Extended(f) \in Files \cup {NoFile}
<1>1. w.root \in Files /\ w.lookup \in [Files -> Files \cup {Ignored, Failed, Error}]
  BY WorldAssumption
<1>2. w.root \in Reached
  BY <1>1 DEF Reached, Closed
<1>3. \A f \in Files : Extended(f) \in Files \cup {NoFile}
  BY <1>1 DEF Extended
<1>4. ASSUME NEW f \in Reached, Extended(f) # NoFile PROVE Extended(f) \in Reached
  <2>1. f \in Files /\ Extended(f) \in Files
    BY <1>3, <1>4 DEF Reached
  <2>2. ASSUME NEW fs \in SUBSET Files, Closed(fs) PROVE Extended(f) \in fs
    BY <1>4, <2>2 DEF Reached, Closed
  <2> QED
    BY <2>1, <2>2 DEF Reached
<1> QED
  BY <1>2, <1>3, <1>4 DEF Reached

\* A call that ends without a crash has found the end of the files.
LEMMA EndFound ==
  ASSUME w \in Worlds, NEW f \in Reached, Extended(f) = NoFile
  PROVE  ~Endless
BY ReachedFacts DEF Endless

\* A file that is met again: the files go round in a cycle.
LEMMA MetAgain ==
  ASSUME w \in Worlds, NEW n \in Nat, NEW c \in [1..n -> Files],
         c[1] = w.root, \A i \in 1..(n - 1) : Extended(c[i]) = c[i + 1],
         NEW a \in 1..n, NEW b \in 1..n, a < b, c[a] = c[b]
  PROVE  Endless
<1> DEFINE fs == {c[k] : k \in 1..(b - 1)}
<1>1. fs \in SUBSET Files /\ w.root \in fs
  OBVIOUS
<1>2. ASSUME NEW f \in fs PROVE Extended(f) \in fs
  <2>1. PICK k \in 1..(b - 1) : f = c[k]
    OBVIOUS
  <2>2. Extended(f) = c[k + 1]
    BY <2>1
  <2>3. CASE k + 1 \in 1..(b - 1)
    BY <2>2, <2>3
  <2>4. CASE k + 1 = b
    BY <2>2, <2>4
  <2> QED
    BY <2>3, <2>4
<1>3. NoFile \notin fs
  BY <1>1, SentinelAssumption
<1> QED
  BY <1>1, <1>2, <1>3 DEF Endless, Closed

\* More calls than files: one is met again.
LEMMA CycleFound ==
  ASSUME w \in Worlds, NEW n \in Nat, n > Cardinality(Files), NEW c \in [1..n -> Files],
         c[1] = w.root, \A i \in 1..(n - 1) : Extended(c[i]) = c[i + 1]
  PROVE  Endless
<1>1. Cardinality(1..n) = n /\ IsFiniteSet(1..n)
  BY FS_Interval
<1>2. PICK i, j \in 1..n : i # j /\ c[i] = c[j]
  BY <1>1, FS_PigeonHole, FrameAssumption
<1>3. PICK a, b \in 1..n : a < b /\ c[a] = c[b]
  BY <1>2
<1> QED
  BY <1>3, MetAgain

\* The world stays, and what is defined from it.
LEMMA WorldStays ==
  ASSUME UNCHANGED w
  PROVE  /\ Reached' = Reached /\ Endless' = Endless /\ AllRead' = AllRead
         /\ \A f : Extended(f)' = Extended(f)
<1>1. \A f : Extended(f)' = Extended(f)
  BY DEF Extended
<1>2. \A fs : Closed(fs)' = Closed(fs)
  BY <1>1 DEF Closed
<1>3. Reached' = Reached
  BY <1>2 DEF Reached
<1>4. Endless' = Endless
  BY <1>1, <1>2 DEF Endless
<1> QED
  BY <1>1, <1>3, <1>4 DEF AllRead

\* The files of the stack are all there are when the last one extends none.
LEMMA StackIsAll ==
  ASSUME Inv, stack # <<>>, Extended(Top.file) = NoFile
  PROVE  Reached = {stack[i].file : i \in 1..Len(stack)}
<1> DEFINE n == Len(stack)
           fs == {stack[i].file : i \in 1..n}
<1>1. /\ n \in Nat /\ n \in 1..n /\ 1 \in 1..n /\ stack[1].file = w.root /\ w \in Worlds
      /\ \A i \in 1..n : stack[i].file \in Reached
      /\ \A i \in 1..(n - 1) : Extended(stack[i].file) = stack[i + 1].file
  BY StackType DEF Inv, CallsInv
<1>2. Closed(fs) /\ fs \in SUBSET Files
  <2>1. w.root \in fs /\ fs \subseteq Files
    BY <1>1, ReachedFacts
  <2>2. ASSUME NEW i \in 1..n PROVE Extended(stack[i].file) \in fs \cup {NoFile}
    <3>1. CASE i = n
      BY <3>1
    <3>2. CASE i # n
      <4>1. i \in 1..(n - 1) /\ i + 1 \in 1..n
        BY <1>1, <3>2
      <4> QED
        BY <1>1, <4>1
    <3> QED
      BY <3>1, <3>2
  <2> QED
    BY <2>1, <2>2 DEF Closed
<1>3. Reached \subseteq fs
  BY <1>1, <1>2, ReachedFacts
<1> QED
  BY <1>1, <1>3

\* They were all read.
LEMMA ChainEnds ==
  ASSUME Inv, stack # <<>>, Extended(Top.file) = NoFile,
         w.content[Top.file].t = "json",
         Extends(w.content[Top.file].v) => w.lookup[Top.file] # Ignored
  PROVE  AllRead
<1> DEFINE n == Len(stack)
<1>1. /\ n \in Nat /\ n \in 1..n /\ w \in Worlds
      /\ \A i \in 1..n : stack[i].file \in Reached
      /\ \A i \in 1..(n - 1) : Extended(stack[i].file) = stack[i + 1].file
  BY StackType DEF Inv, CallsInv
<1>2. Reached = {stack[i].file : i \in 1..n}
  BY StackIsAll
<1>3. ASSUME NEW i \in 1..n
      PROVE  /\ w.content[stack[i].file].t = "json"
             /\ Extends(w.content[stack[i].file].v) => w.lookup[stack[i].file] # Ignored
  <2>1. CASE i = n
    BY <2>1
  <2>2. CASE i # n
    <3>1. i \in 1..(n - 1) /\ i + 1 \in 1..n
      BY <1>1, <2>2
    <3>2. Extended(stack[i].file) \in Files
      BY <1>1, <3>1, ReachedFacts
    <3> QED
      BY <3>2, SentinelAssumption DEF Extended
  <2> QED
    BY <2>1, <2>2
<1>4. ~Endless
  BY <1>1, EndFound
<1> QED
  BY <1>2, <1>3, <1>4 DEF AllRead

-----------------------------------------------------------------------------
(* Every action keeps the invariant *)

LEMMA InitInv == Init => Inv
<1> SUFFICES ASSUME Init PROVE Inv
  OBVIOUS
<1> DEFINE e == [file |-> w.root, json |-> Null, prev |-> FALSE]
<1>1. w \in Worlds /\ w.root \in Files /\ w.toContext \in BOOLEAN
  BY WorldAssumption DEF Init
<1>2. IsFrame(e) /\ e.file = w.root
  BY <1>1 DEF IsFrame
<1>3. stack = <<e>> /\ stack \in Seq({e}) /\ Len(stack) = 1 /\ stack[1] = e
  BY DEF Init
<1>4. IsStack(stack)
  <2> HIDE DEF e
  <2>1. \A f \in {e} : IsFrame(f)
    BY <1>2
  <2>2. stack \in Seq({e})
    BY <1>3
  <2> QED
    BY <2>1, <2>2 DEF IsStack
<1>5. CallsInv
  BY <1>1, <1>2, <1>3, <1>4, ReachedFacts DEF CallsInv
<1>6. MaxFrames \in Nat \ {0}
  <2>1. Cardinality(Files) # 0
    BY <1>1, FS_EmptySet, FrameAssumption
  <2>2. Cardinality(Files) \in Nat
    BY FS_CardinalityType, FrameAssumption
  <2> QED
    BY <2>1, <2>2, FrameAssumption
<1>7. TypeOK
  BY <1>1, <1>2, <1>3, <1>6 DEF Init, TypeOK
<1>8. ContextKept /\ TopInv /\ CrashIsCycle /\ FailuresExplained
  BY <1>1 DEF Init, ContextKept, TopInv, CrashIsCycle, FailuresExplained
<1> QED
  BY <1>1, <1>5, <1>7, <1>8 DEF Init, Inv

\* The stack is not touched.
LEMMA CallsStay ==
  ASSUME Inv, UNCHANGED <<w, stack>>
  PROVE  CallsInv'
<1>1. Reached' = Reached /\ \A f : Extended(f)' = Extended(f)
  BY WorldStays
<1>2. CallsInv
  BY DEF Inv
<1>3. IsStack(stack)' /\ (stack # <<>> => stack[1].file = w.root)'
  BY <1>2 DEF CallsInv
<1>4. \A i \in 1..Len(stack') : stack'[i].file \in Reached'
  BY <1>1, <1>2 DEF CallsInv
<1>5. (\A i \in 1..(Len(stack) - 1) : Extended(stack[i].file) = stack[i + 1].file)'
  BY <1>2 DEF CallsInv, Extended
<1> QED
  BY <1>3, <1>4, <1>5 DEF CallsInv

\* Only the top frame changes, and in it not the file.
LEMMA CallsSetTop ==
  ASSUME Inv, UNCHANGED w, stack # <<>>, NEW e, IsFrame(e), e.file = Top.file,
         stack' = [stack EXCEPT ![Len(stack)] = e]
  PROVE  /\ CallsInv' /\ Len(stack') = Len(stack) /\ stack' # <<>> /\ Top' = e
         /\ \A i \in 1..Len(stack') : stack'[i].file \in Files
<1>1. Reached' = Reached /\ \A f : Extended(f)' = Extended(f)
  BY WorldStays
<1>2. CallsInv /\ IsStack(stack) /\ Len(stack) \in 1..Len(stack) /\ Len(stack) \in Nat
      /\ w \in Worlds
  BY StackType DEF Inv, CallsInv
<1>3. /\ IsStack(stack') /\ Len(stack') = Len(stack) /\ stack' # <<>>
      /\ \A i \in 1..Len(stack) : stack'[i].file = stack[i].file
      /\ stack'[Len(stack')] = e
  <2> DEFINE t == [stack EXCEPT ![Len(stack)] = e]
  <2>1. e.file = stack[Len(stack)].file /\ stack' = t
    OBVIOUS
  <2>2. /\ IsStack(t) /\ Len(t) = Len(stack) /\ t # <<>>
        /\ \A i \in 1..Len(stack) : t[i].file = stack[i].file
        /\ t[Len(t)] = e
    BY <1>2, <2>1, SetTop
  <2> HIDE DEF t
  <2> QED
    BY <2>1, <2>2
<1>4. \A i \in 1..Len(stack') : stack'[i].file \in Reached
  BY <1>2, <1>3 DEF CallsInv
<1>5. ASSUME NEW i \in 1..(Len(stack') - 1)
      PROVE  Extended(stack'[i].file) = stack'[i + 1].file
  <2>0. Len(stack') = Len(stack) /\ Len(stack) \in Nat
    BY <1>2, <1>3
  <2>1. i \in 1..Len(stack) /\ i + 1 \in 1..Len(stack) /\ i \in 1..(Len(stack) - 1)
    BY <2>0
  <2> QED
    BY <1>2, <1>3, <2>1 DEF CallsInv
<1>6. stack'[1].file = w'.root
  <2>1. 1 \in 1..Len(stack)
    BY <1>2
  <2> QED
    BY <1>2, <1>3, <2>1 DEF CallsInv
<1>7. (\A i \in 1..(Len(stack) - 1) : Extended(stack[i].file) = stack[i + 1].file)'
  BY <1>5 DEF Extended
<1>8. CallsInv'
  BY <1>1, <1>3, <1>4, <1>6, <1>7 DEF CallsInv
<1> QED
  BY <1>2, <1>3, <1>4, <1>8, ReachedFacts

\* A call ends before the tsconfig is parsed.
LEMMA Fails ==
  ASSUME Inv, pc \notin {"done", "base", "paths"}, pc' = "done", answer' \in {Error, Panic},
         UNCHANGED <<w, stack, conf, todo>>, toContext' = w.toContext,
         ~Endless, FailuresExplained'
  PROVE  Inv'
<1>1. CallsInv' /\ TopInv'
  BY CallsStay DEF TopInv
<1>2. TypeOK' /\ w' \in Worlds
  BY SentinelAssumption, WorldAssumption DEF Inv, TypeOK
<1>3. ContextKept' /\ CrashIsCycle'
  BY WorldStays, WorldAssumption, SentinelAssumption DEF ContextKept, CrashIsCycle, Inv
<1> QED
  BY <1>1, <1>2, <1>3 DEF Inv

\* A step inside the call.
LEMMA GoesOn ==
  ASSUME Inv, pc \notin {"done", "lookup"}, UNCHANGED <<w, toContext, answer>>,
         pc' \in {"extends", "return", "paths"}, CallsInv', TopInv', TypeOK',
         pc' \in {"return", "paths"} => AllRead
  PROVE  Inv'
<1>1. ContextKept' /\ CrashIsCycle'
  BY DEF Inv, ContextKept, CrashIsCycle
<1>2. FailuresExplained'
  BY DEF FailuresExplained
<1>3. pc' \in {"return", "base", "paths"} => AllRead'
  BY WorldStays
<1> QED
  BY <1>1, <1>2, <1>3 DEF Inv

LEMMA TopFacts ==
  ASSUME Inv, stack # <<>>
  PROVE  /\ IsFrame(Top) /\ Top.file \in Reached /\ Top.file \in Files
         /\ w.content[Top.file].t \in {"absent", "empty", "malformed", "json"}
         /\ w \in Worlds /\ Len(stack) \in Nat /\ Len(stack) # 0
<1>1. Len(stack) \in 1..Len(stack) /\ CallsInv /\ w \in Worlds
  BY StackType DEF Inv, CallsInv
<1>2. IsFrame(Top) /\ Top.file \in Reached /\ Len(stack) \in Nat /\ Len(stack) # 0
  BY <1>1, StackType DEF CallsInv
<1>3. \A f \in Files : w.content[f].t \in {"absent", "empty", "malformed", "json"}
  BY <1>1, WorldAssumption
<1> QED
  BY <1>1, <1>2, <1>3 DEF IsFrame

LEMMA ReadFileKeeps ==
  ASSUME Inv, ReadFile
  PROVE  Inv'
<1> DEFINE c == w.content[Top.file]
<1>1. pc = "read" /\ stack # <<>> /\ TypeOK /\ toContext = w.toContext
  BY WorldAssumption DEF Inv, ReadFile, TypeOK, ContextKept
<1>2. UNCHANGED <<w, value, toContext, conf, todo, queue>>
  BY DEF ReadFile
<1>3. CASE c.t # "json"
  <2>1. pc' = "done" /\ UNCHANGED stack /\ answer' = IF c.t = "empty" THEN Panic ELSE Error
    BY <1>3, <1>1, TopFacts DEF ReadFile, Return
  <2>2. ~Endless
    BY <1>1, <1>3, TopFacts, EndFound DEF Extended
  <2>3. FailuresExplained'
    <3>1. Reached' = Reached
      BY <1>2, WorldStays
    <3> QED
      BY <1>1, <1>2, <1>3, <2>1, <3>1, TopFacts, SentinelAssumption DEF FailuresExplained
  <2> QED
    BY <1>1, <1>2, <2>1, <2>2, <2>3, Fails
<1>4. CASE c.t = "json"
  <2> DEFINE e == [file |-> Top.file, json |-> c.v, prev |-> Top.prev]
  <2>1. pc' = "extends" /\ stack' = [stack EXCEPT ![Len(stack)].json = c.v] /\ answer' = answer
    BY <1>4, <1>1 DEF ReadFile
  <2>2. [Top EXCEPT !.json = c.v] = e /\ IsFrame(e)
    BY <1>1, TopFacts DEF IsFrame
  <2>3. stack' = [stack EXCEPT ![Len(stack)] = e] /\ e.file = Top.file /\ e.json = c.v
    BY <2>1, <2>2
  <2> HIDE DEF e
  <2>4. /\ CallsInv' /\ Len(stack') = Len(stack) /\ stack' # <<>> /\ Top' = e
        /\ \A i \in 1..Len(stack') : stack'[i].file \in Files
    BY <1>1, <1>2, <2>2, <2>3, CallsSetTop
  <2>5. TypeOK'
    BY <1>1, <1>2, <2>1, <2>4 DEF TypeOK
  <2>6. TopInv'
    BY <1>2, <1>4, <2>1, <2>3, <2>4 DEF TopInv
  <2> QED
    BY <1>1, <1>2, <2>1, <2>4, <2>5, <2>6, GoesOn
<1> QED
  BY <1>3, <1>4

LEMMA AskExtendsKeeps ==
  ASSUME Inv, AskExtends
  PROVE  Inv'
<1>1. /\ pc = "extends" /\ stack # <<>> /\ TypeOK /\ toContext = w.toContext
      /\ w.content[Top.file].t = "json" /\ Top.json = w.content[Top.file].v
  BY WorldAssumption DEF Inv, AskExtends, TypeOK, ContextKept, TopInv
<1>2. UNCHANGED <<w, conf, todo, queue, answer>>
  BY DEF AskExtends
<1>3. CASE ~Extends(Top.json) /\ pc' = "return" /\ value' = Top.json
           /\ UNCHANGED <<stack, toContext>>
  <2>1. Extended(Top.file) = NoFile /\ ~Extends(w.content[Top.file].v)
    BY <1>1, <1>3 DEF Extended
  <2>2. AllRead
    BY <1>1, <2>1, ChainEnds
  <2>3. CallsInv' /\ TopInv' /\ TypeOK'
    BY <1>1, <1>2, <1>3, CallsStay DEF TopInv, TypeOK
  <2> QED
    BY <1>1, <1>2, <1>3, <2>2, <2>3, GoesOn
<1>4. CASE /\ Extends(Top.json) /\ pc' = "lookup"
           /\ stack' = [stack EXCEPT ![Len(stack)].prev = toContext]
           /\ toContext' = FALSE /\ UNCHANGED value
  <2> DEFINE e == [file |-> Top.file, json |-> Top.json, prev |-> toContext]
  <2>1. [Top EXCEPT !.prev = toContext] = e /\ IsFrame(e)
    BY <1>1, TopFacts DEF IsFrame, TypeOK
  <2>2. /\ stack' = [stack EXCEPT ![Len(stack)] = e] /\ e.file = Top.file
        /\ e.json = Top.json /\ e.prev = toContext
    BY <1>4, <2>1
  <2> HIDE DEF e
  <2>3. /\ CallsInv' /\ Len(stack') = Len(stack) /\ stack' # <<>> /\ Top' = e
        /\ \A i \in 1..Len(stack') : stack'[i].file \in Files
    BY <1>1, <1>2, <2>1, <2>2, CallsSetTop
  <2>4. TypeOK' /\ w' \in Worlds
    BY <1>1, <1>2, <1>4, <2>3 DEF TypeOK, Inv
  <2>5. TopInv'
    BY <1>1, <1>2, <1>4, <2>2, <2>3 DEF TopInv
  <2>6. ContextKept' /\ CrashIsCycle' /\ FailuresExplained'
    BY <1>4 DEF ContextKept, CrashIsCycle, FailuresExplained
  <2> QED
    BY <1>4, <2>3, <2>4, <2>5, <2>6 DEF Inv
<1> QED
  BY <1>3, <1>4 DEF AskExtends

LEMMA ExtendKeeps ==
  ASSUME Inv, Extend
  PROVE  Inv'
<1>1. /\ pc = "lookup" /\ stack # <<>> /\ TypeOK /\ ~toContext
      /\ w.content[Top.file].t = "json" /\ Top.json = w.content[Top.file].v
      /\ Extends(w.content[Top.file].v) /\ Top.prev = w.toContext
  BY DEF Inv, Extend, TypeOK, ContextKept, TopInv
<1>2. /\ w \in Worlds /\ w.toContext \in BOOLEAN /\ Top.file \in Files /\ Top.file \in Reached
      /\ w.lookup[Top.file] \in Files \cup {Ignored, Failed, Error}
  BY <1>1, TopFacts, WorldAssumption
<1>3. UNCHANGED <<w, conf, todo, queue>> /\ toContext' = w.toContext
  BY <1>1, <1>2 DEF Extend, PutBack, TypeOK
<1>4. LookedUp = w.lookup[Top.file]
  BY <1>1 DEF LookedUp
<1>5. CASE LookedUp \in Files
  <2>1. Extended(Top.file) = LookedUp
    BY <1>1, <1>2, <1>4, <1>5, SentinelAssumption DEF Extended
  <2>2. LookedUp \in Reached
    BY <1>2, <1>5, <2>1, ReachedFacts, SentinelAssumption
  <2>3. LookedUp \notin {Ignored, Failed, Error}
    BY <1>5, SentinelAssumption
  <2>4. CASE Len(stack) = MaxFrames
    <3>1. Return(Crash) /\ UNCHANGED stack /\ UNCHANGED value
      BY <1>5, <2>3, <2>4 DEF Extend
    <3>2. Endless
      <4> DEFINE n == MaxFrames + 1
                 c == [k \in 1..n |-> IF k = n THEN LookedUp ELSE stack[k].file]
      <4>1. n \in Nat /\ n > Cardinality(Files) /\ Len(stack) \in 1..Len(stack)
        <5>1. Cardinality(Files) \in Nat
          BY FS_CardinalityType, FrameAssumption
        <5> QED
          BY <5>1, <1>1, StackType, FrameAssumption DEF Inv, CallsInv
      <4>2. c \in [1..n -> Files] /\ c[1] = w.root
        <5>1. \A k \in 1..n : k # n => stack[k].file \in Files
          BY <1>1, <2>4, <4>1 DEF TypeOK
        <5>2. c \in [1..n -> Files]
          BY <1>5, <5>1
        <5>3. c[1] = stack[1].file
          BY <2>4, <4>1
        <5> QED
          BY <5>2, <5>3, <1>1 DEF Inv, CallsInv
      <4>3. ASSUME NEW k \in 1..(n - 1) PROVE Extended(c[k]) = c[k + 1]
        <5>1. k \in 1..n /\ k + 1 \in 1..n /\ k # n /\ k \in Nat
          BY <4>1
        <5>2. CASE k = n - 1
          <6>1. c[k] = Top.file /\ c[k + 1] = LookedUp
            BY <2>4, <4>1, <5>1, <5>2
          <6> QED
            BY <6>1, <2>1
        <5>3. CASE k # n - 1
          <6>1. c[k] = stack[k].file /\ c[k + 1] = stack[k + 1].file /\ k \in 1..(Len(stack) - 1)
            BY <2>4, <4>1, <5>1, <5>3
          <6> QED
            BY <6>1 DEF Inv, CallsInv
        <5> QED
          BY <5>2, <5>3
      <4> HIDE DEF n, c
      <4>4. \A k \in 1..(n - 1) : Extended(c[k]) = c[k + 1]
        BY <4>3
      <4> QED
        BY <1>2, <4>1, <4>2, <4>4, CycleFound
    <3>3. CallsInv' /\ TopInv' /\ TypeOK'
      BY <1>1, <1>2, <1>3, <3>1, CallsStay, SentinelAssumption DEF Return, TopInv, TypeOK
    <3>4. ContextKept' /\ CrashIsCycle' /\ FailuresExplained'
      BY <1>2, <1>3, <3>1, <3>2, WorldStays, SentinelAssumption
      DEF Return, ContextKept, CrashIsCycle, FailuresExplained
    <3> QED
      BY <1>2, <1>3, <3>1, <3>3, <3>4 DEF Inv, Return
  <2>5. CASE Len(stack) # MaxFrames
    <3> DEFINE e == [file |-> LookedUp, json |-> Null, prev |-> FALSE]
    <3>1. stack' = Append(stack, e) /\ pc' = "read" /\ UNCHANGED <<answer, value>>
      BY <1>5, <2>3, <2>5 DEF Extend
    <3>2. IsFrame(e) /\ e.file = LookedUp
      BY <1>5 DEF IsFrame
    <3> HIDE DEF e
    <3>3. IsStack(stack) /\ Len(stack) \in 1..Len(stack) /\ Len(stack) \in Nat
      BY <1>1, StackType DEF Inv, CallsInv
    <3>4. /\ IsStack(stack') /\ Len(stack') = Len(stack) + 1 /\ stack' # <<>>
          /\ \A i \in 1..Len(stack) : stack'[i] = stack[i]
          /\ stack'[Len(stack) + 1] = e
      BY <3>1, <3>2, <3>3, Push
    <3>5. stack'[1].file = w.root
      <4>1. 1 \in 1..Len(stack)
        BY <3>3
      <4> QED
        BY <1>1, <3>4, <4>1 DEF Inv, CallsInv
    <3>6. \A i \in 1..Len(stack') : stack'[i].file \in Reached
      <4>1. \A i \in 1..Len(stack') : i \in 1..Len(stack) \/ i = Len(stack) + 1
        BY <3>3, <3>4
      <4> QED
        BY <2>2, <3>2, <3>4, <4>1 DEF Inv, CallsInv
    <3>7. ASSUME NEW i \in 1..(Len(stack') - 1)
          PROVE  Extended(stack'[i].file) = stack'[i + 1].file
      <4>1. CASE i = Len(stack)
        BY <2>1, <3>2, <3>3, <3>4, <4>1
      <4>2. CASE i # Len(stack)
        <5>1. i \in 1..(Len(stack) - 1) /\ i \in 1..Len(stack) /\ i + 1 \in 1..Len(stack)
          BY <3>3, <3>4, <4>2
        <5> QED
          BY <3>4, <5>1 DEF Inv, CallsInv
      <4> QED
        BY <4>1, <4>2
    <3>8. CallsInv'
      <4>1. Reached' = Reached
        BY <1>3, WorldStays
      <4>2. (\A i \in 1..(Len(stack) - 1) : Extended(stack[i].file) = stack[i + 1].file)'
        BY <1>3, <3>7 DEF Extended
      <4> QED
        BY <1>3, <3>4, <3>5, <3>6, <4>1, <4>2 DEF CallsInv
    <3>9. \A i \in 1..Len(stack') : stack'[i].file \in Files
      BY <1>2, <3>6, ReachedFacts
    <3>10. TypeOK'
      <4>1. Len(stack') \in 0..MaxFrames
        BY <1>1, <2>5, <3>3, <3>4, FrameAssumption DEF TypeOK
      <4> QED
        BY <1>1, <1>2, <1>3, <3>1, <3>4, <3>9, <4>1 DEF TypeOK
    <3>11. TopInv' /\ ContextKept' /\ CrashIsCycle' /\ FailuresExplained'
      BY <1>2, <1>3, <3>1 DEF TopInv, ContextKept, CrashIsCycle, FailuresExplained
    <3> QED
      BY <1>2, <1>3, <3>1, <3>8, <3>10, <3>11 DEF Inv
  <2> QED
    BY <2>4, <2>5
<1>6. CASE LookedUp \notin Files
  <2>1. Extended(Top.file) = NoFile
    BY <1>4, <1>6 DEF Extended
  <2>2. ~Endless
    BY <1>2, <2>1, EndFound
  <2>3. CASE LookedUp = Ignored
    <3>1. Return(Error) /\ UNCHANGED <<stack, value>>
      BY <1>6, <2>3, SentinelAssumption DEF Extend
    <3>2. FailuresExplained'
      <4>1. Reached' = Reached
        BY <1>3, WorldStays
      <4>2. /\ w.content[Top.file].t = "json" /\ Extends(w.content[Top.file].v)
            /\ w.lookup[Top.file] = Ignored
        BY <1>1, <1>4, <2>3
      <4> QED
        BY <1>2, <1>3, <3>1, <4>1, <4>2, SentinelAssumption DEF Return, FailuresExplained
    <3> QED
      BY <1>1, <1>3, <2>2, <3>1, <3>2, Fails DEF Return
  <2>4. CASE LookedUp # Ignored
    <3>1. pc' = "return" /\ value' = Top.json /\ UNCHANGED <<stack, answer>>
      BY <1>6, <2>4 DEF Extend
    <3>2. AllRead
      BY <1>1, <1>4, <2>1, <2>4, ChainEnds
    <3>3. CallsInv' /\ TopInv' /\ TypeOK'
      BY <1>1, <1>2, <1>3, <3>1, CallsStay DEF TopInv, TypeOK
    <3>4. ContextKept' /\ CrashIsCycle' /\ FailuresExplained'
      BY <1>2, <1>3, <3>1 DEF ContextKept, CrashIsCycle, FailuresExplained
    <3>5. AllRead'
      BY <1>3, <3>2, WorldStays
    <3> QED
      BY <1>2, <1>3, <3>3, <3>4, <3>5 DEF Inv
  <2> QED
    BY <2>3, <2>4
<1> QED
  BY <1>5, <1>6

LEMMA MergeUpKeeps ==
  ASSUME Inv, MergeUp
  PROVE  Inv'
<1>1. /\ pc = "return" /\ Len(stack) > 1 /\ TypeOK /\ AllRead /\ IsStack(stack)
      /\ Len(stack) \in Nat /\ stack' = Front(stack)
      /\ UNCHANGED <<w, pc, toContext, conf, todo, queue, answer>>
  BY StackType DEF Inv, MergeUp, CallsInv
<1>2. /\ IsStack(stack') /\ Len(stack') = Len(stack) - 1 /\ stack' # <<>>
      /\ \A i \in 1..(Len(stack) - 1) : stack'[i] = stack[i]
  BY <1>1, Pop
<1>3. CallsInv'
  <2>1. Reached' = Reached
    BY <1>1, WorldStays
  <2>2. stack # <<>> /\ 1 \in 1..(Len(stack) - 1)
    BY <1>1, StackType
  <2>3. ASSUME NEW i \in 1..(Len(stack') - 1)
        PROVE  Extended(stack'[i].file) = stack'[i + 1].file
    <3>1. i \in 1..(Len(stack) - 1) /\ i + 1 \in 1..(Len(stack) - 1)
      BY <1>1, <1>2
    <3> QED
      BY <1>2, <3>1 DEF Inv, CallsInv
  <2>4. (\A i \in 1..(Len(stack) - 1) : Extended(stack[i].file) = stack[i + 1].file)'
    BY <1>1, <2>3 DEF Extended
  <2>5. \A i \in 1..Len(stack') : i \in 1..Len(stack) /\ i \in 1..(Len(stack) - 1)
    BY <1>1, <1>2
  <2> QED
    BY <1>1, <1>2, <2>1, <2>2, <2>4, <2>5 DEF Inv, CallsInv
<1>4. TypeOK' /\ TopInv'
  <2>1. Len(stack') \in 0..MaxFrames /\ \A i \in 1..Len(stack') : i \in 1..Len(stack) /\ i \in 1..(Len(stack) - 1)
    BY <1>1, <1>2, FrameAssumption DEF TypeOK
  <2> QED
    BY <1>1, <1>2, <2>1 DEF TypeOK, TopInv
<1> QED
  BY <1>1, <1>3, <1>4, GoesOn

LEMMA ParseTsFileKeeps ==
  ASSUME Inv, ParseTsFile
  PROVE  Inv'
<1>1. /\ pc = "return" /\ TypeOK /\ AllRead /\ stack # <<>> /\ toContext = w.toContext
      /\ w \in Worlds
  BY WorldAssumption DEF Inv, ParseTsFile, TypeOK, ContextKept
<1>2. UNCHANGED <<w, value, toContext, queue>>
  BY DEF ParseTsFile
<1>3. CASE ~Unwraps(value)
  <2>1. Return(Panic) /\ UNCHANGED <<stack, conf, todo>>
    BY <1>3 DEF ParseTsFile
  <2>2. Unwraps(value)' = Unwraps(value)
    BY <1>2 DEF Unwraps, BaseUrl, Paths, Options, Get, StringList
  <2>3. FailuresExplained'
    BY <1>3, <2>1, <2>2, SentinelAssumption DEF Return, FailuresExplained
  <2> QED
    BY <1>1, <1>2, <2>1, <2>3, Fails DEF Return, AllRead
<1>4. CASE Unwraps(value)
  <2>1. /\ pc' = "base" /\ stack' = <<>> /\ todo' = DOMAIN conf'.paths /\ UNCHANGED answer
    BY <1>4 DEF ParseTsFile
  <2>2. Len(stack') = 0 /\ IsStack(stack')
    BY <2>1, NoFrames
  <2>3. CallsInv'
    BY <2>1, <2>2 DEF CallsInv
  <2>4. TypeOK' /\ TopInv'
    BY <1>1, <1>2, <2>1, <2>2, FrameAssumption DEF TypeOK, TopInv
  <2>5. ContextKept' /\ CrashIsCycle'
    BY <1>1, <1>2, <2>1, WorldAssumption DEF ContextKept, CrashIsCycle
  <2>6. AllRead' /\ Reached' = Reached /\ Endless' = Endless
    BY <1>1, <1>2, WorldStays
  <2>7. FailuresExplained'
    BY <1>1, <1>2, <2>1, <2>6 DEF FailuresExplained, AllRead
  <2> QED
    BY <1>1, <1>2, <2>1, <2>3, <2>4, <2>5, <2>6, <2>7 DEF Inv
<1> QED
  BY <1>3, <1>4

-----------------------------------------------------------------------------
(* After the tsconfig is parsed *)

\* The call returns what _resolve said of a path or of the request.
LEMMA Answers ==
  ASSUME Inv, pc \in {"base", "paths"}, pc' = "done", UNCHANGED <<w, stack, toContext, conf, todo>>,
         answer' \in {Ignored, Failed, Error} \cup w.found
  PROVE  Inv'
<1>1. TypeOK /\ AllRead /\ stack = <<>> /\ w \in Worlds /\ toContext = w.toContext
  BY WorldAssumption DEF Inv, TypeOK, ContextKept
<1>2. answer' \notin {Crash, Panic, NoFile}
  BY <1>1, WorldAssumption, SentinelAssumption
<1>3. CallsInv' /\ TopInv' /\ TypeOK'
  BY <1>1, <1>2, CallsStay DEF TopInv, TypeOK
<1>4. ContextKept' /\ CrashIsCycle' /\ FailuresExplained'
  <2>1. Endless' = Endless
    BY WorldStays
  <2> QED
    BY <1>1, <1>2, <2>1, WorldAssumption DEF ContextKept, CrashIsCycle, FailuresExplained, AllRead
<1> QED
  BY <1>1, <1>3, <1>4 DEF Inv

LEMMA LookupType == \A x : Lookup(x) \in {Ignored, Error, Failed} \cup w.found
BY DEF Lookup

LEMMA ResolveKeeps ==
  ASSUME Inv, TryBaseUrl \/ NextEntry \/ TryPath \/ Plain
  PROVE  Inv'
<1>1. TypeOK /\ w \in Worlds
  BY DEF Inv
<1>2. CASE TryBaseUrl
  <2>1. pc = "base" /\ UNCHANGED <<w, stack, value, toContext, conf, todo, queue>>
    BY <1>2 DEF TryBaseUrl
  <2>2. CASE \E x : Return(Lookup(x))
    BY <2>1, <2>2, LookupType, Answers DEF Return
  <2>3. CASE pc' = "paths" /\ UNCHANGED answer
    <3>1. CallsInv' /\ TopInv' /\ TypeOK' /\ AllRead
      BY <1>1, <2>1, <2>3, CallsStay DEF TopInv, TypeOK, Inv
    <3> QED
      BY <2>1, <2>3, <3>1, GoesOn
  <2> QED
    BY <1>2, <2>2, <2>3 DEF TryBaseUrl
<1>3. CASE NextEntry \/ (TryPath /\ UNCHANGED <<pc, answer>>)
  <2>1. /\ pc = "paths" /\ todo' \subseteq todo
        /\ UNCHANGED <<w, pc, stack, value, toContext, conf, answer>>
    BY <1>3 DEF NextEntry, TryPath
  <2>2. CallsInv' /\ TopInv' /\ TypeOK' /\ AllRead
    BY <1>1, <2>1, CallsStay DEF TopInv, TypeOK, Inv
  <2> QED
    BY <2>1, <2>2, GoesOn
<1>4. CASE TryPath /\ Return(Lookup(Head(queue)))
  BY <1>4, LookupType, Answers DEF TryPath, Return
<1>5. CASE Plain
  BY <1>1, <1>5, WorldAssumption, Answers DEF Plain, Return
<1> QED
  BY <1>2, <1>3, <1>4, <1>5 DEF TryPath

LEMMA StutterKeeps ==
  ASSUME Inv, UNCHANGED vars
  PROVE  Inv'
<1>1. UNCHANGED <<w, pc, stack, value, toContext, conf, todo, answer>>
  BY DEF vars
<1>2. CallsInv' /\ TopInv' /\ TypeOK'
  BY <1>1, CallsStay DEF Inv, TopInv, TypeOK
<1>3. Reached' = Reached /\ Endless' = Endless /\ AllRead' = AllRead
  BY <1>1, WorldStays
<1>4. ContextKept' /\ CrashIsCycle' /\ FailuresExplained'
  <2>1. Unwraps(value)' = Unwraps(value)
    BY <1>1 DEF Unwraps, BaseUrl, Paths, Options, Get, StringList
  <2> QED
    BY <1>1, <1>3, <2>1 DEF Inv, ContextKept, CrashIsCycle, FailuresExplained
<1> QED
  BY <1>1, <1>2, <1>3, <1>4 DEF Inv

LEMMA InvHolds == Spec => []Inv
<1>1. ASSUME Inv, [Next]_vars PROVE Inv'
  BY <1>1, ReadFileKeeps, AskExtendsKeeps, ExtendKeeps, MergeUpKeeps, ParseTsFileKeeps,
     ResolveKeeps, StutterKeeps DEF Next
<1> QED
  BY <1>1, InitInv, PTL DEF Spec

-----------------------------------------------------------------------------
\* Every variable has its type in every state: the stack of a tsconfig never
\* has more frames than fit, and has none exactly when the tsconfig is parsed.
THEOREM TypeOKHolds == Spec => []TypeOK
<1>1. Inv => TypeOK
  BY DEF Inv
<1> QED
  BY <1>1, InvHolds, PTL

\* tsconfig.rs puts resolve_to_context back after every file it looked for,
\* whatever the lookup found.
THEOREM ContextKeptHolds == Spec => []ContextKept
<1>1. Inv => ContextKept
  BY DEF Inv
<1> QED
  BY <1>1, InvHolds, PTL

\* For any number of files and any size of the stack that has room for each of
\* them: the call of parse_file_to_value overflows the stack if and only if
\* the files go round in a cycle.
THEOREM CrashIsCycleHolds == Spec => []CrashIsCycle
<1>1. Inv => CrashIsCycle
  BY DEF Inv
<1> QED
  BY <1>1, InvHolds, PTL

\* A configuration is used only when every file of the chain was read, and an
\* error or a panic of the tsconfig is one that a file of the chain explains.
THEOREM FailuresExplainedHolds == Spec => []FailuresExplained
<1>1. Inv => FailuresExplained
  BY DEF Inv
<1> QED
  BY <1>1, InvHolds, PTL

=============================================================================
