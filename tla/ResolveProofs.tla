---------------------------- MODULE ResolveProofs ----------------------------
(***************************************************************************)
(* Proofs about Resolve for every world and every MaxDepth.  The first     *)
(* part keeps the invariants of the chain; the second, from Ends on, shows *)
(* that the chain finds what ResolvePromise promises.                      *)
(***************************************************************************)
EXTENDS ResolvePromise, Basics, SequenceTheorems, FiniteSetTheorems, TLAPS

\* No step of the chain changes a state that is an error: every link either
\* starts with State::then or asks is_finished first.
LEMMA ErrorStep == [Next]_vars => (state.tag = "Error" => state' = state)
<1>1. SUFFICES ASSUME [Next]_vars, state.tag = "Error"
               PROVE  state' = state
  OBVIOUS
<1>2. IsFinished(state) /\ \A step : ~Then(step)
  BY <1>1 DEF IsFinished, Then
<1>3. ~Plugins
  BY <1>2 DEF Plugins, ParsePlugin, AliasPlugin, PreferRelativePlugin,
       PackageScope, ImportsFieldPlugin, BrowserFieldPlugin,
       ExportsFieldPlugin, MainFieldPlugin, MainFilePlugin,
       ExtensionAliasPlugin
<1>4. CASE Methods
  <2>1. ~(\/ Enter \/ Dispatch \/ ResolveAsContext
          \/ ResolveAsFullySpecified \/ ResolveAsFile \/ LoadFile
          \/ ResolveAsDir \/ FindUp \/ InModules \/ ResolveSelf
          \/ ResolveNodeModules)
    BY <1>2 DEF Enter, Dispatch, ResolveAsContext, ResolveAsFullySpecified,
         ResolveAsFile, LoadFile, ResolveAsDir, FindUp, InModules,
         ResolveSelf, ResolveNodeModules
  <2>2. CASE Leave
    BY <2>2 DEF Leave
  <2>3. CASE ResolveAsModules
    BY <1>2, <2>3 DEF ResolveAsModules, Return, Goto
  <2>4. CASE UnlessFile
    BY <1>2, <2>4 DEF UnlessFile, Return, Goto
  <2>5. CASE UnlessFailed \/ Fallback \/ Symlink \/ MakeResource
    BY <1>1, <2>5 DEF UnlessFailed, Fallback, Symlink, MakeResource, Return,
         Goto
  <2> QED
    BY <1>4, <2>1, <2>2, <2>3, <2>4, <2>5 DEF Methods
<1>5. CASE Skip
  BY <1>5 DEF Skip, Return, Goto
<1>6. CASE NextAttempt
  BY <1>2, <1>6 DEF NextAttempt, Return, Goto
<1>7. CASE RestoreFully
  BY <1>7 DEF RestoreFully
<1>8. CASE UNCHANGED vars
  BY <1>8 DEF vars
<1> QED
  BY <1>1, <1>3, <1>4, <1>5, <1>6, <1>7, <1>8 DEF Next

\* State::Error ends the call: whatever loop or plugin runs next, the error
\* is what resolve returns.
THEOREM ErrorIsFinalHolds == Spec => ErrorIsFinal
<1>1. [Next]_vars => [state.tag = "Error" => state' = state]_vars
  BY ErrorStep
<1> QED
  BY <1>1, PTL DEF Spec, ErrorIsFinal

-----------------------------------------------------------------------------
(* Depth *)

DepthInv == depth \in Int /\ OverflowIsFinal

LEMMA DepthInit == Init => DepthInv
  BY DepthAssumption, SMT DEF Init, DepthInv, OverflowIsFinal

\* Only Enter and Leave change depth.
LEMMA DepthKept == Next => Enter \/ Leave \/ depth' = depth
  BY DEF Next, Plugins, Methods, ParsePlugin, AliasPlugin,
    PreferRelativePlugin, PackageScope, ImportsFieldPlugin,
    BrowserFieldPlugin, ExportsFieldPlugin, MainFieldPlugin, MainFilePlugin,
    ExtensionAliasPlugin, Dispatch, ResolveAsContext,
    ResolveAsFullySpecified, ResolveAsFile, LoadFile, ResolveAsDir,
    ResolveAsModules, FindUp, InModules, ResolveSelf, ResolveNodeModules,
    UnlessFile, UnlessFailed, Fallback, Symlink, MakeResource, Skip,
    NextAttempt, RestoreFully, Return, Goto, Nested

LEMMA DepthNext == DepthInv /\ [Next]_vars => DepthInv'
<1> SUFFICES ASSUME DepthInv, [Next]_vars PROVE DepthInv'
  OBVIOUS
<1> USE DepthAssumption DEF DepthInv, OverflowIsFinal
<1>1. CASE Enter
  <2>1. depth < MaxDepth
    BY <1>1 DEF Enter, Then, Error
  <2> QED
    BY <1>1, <2>1 DEF Enter
<1>2. CASE Leave
  BY <1>2 DEF Leave
<1>3. CASE depth' = depth
  <2>1. depth = MaxDepth => state' = state
    BY ErrorStep DEF Error
  <2> QED
    BY <1>3, <2>1
<1>4. CASE UNCHANGED vars
  BY <1>4 DEF vars
<1> QED
  BY <1>1, <1>2, <1>3, <1>4, DepthKept

\* _resolve is never deeper than MaxDepth, and at that depth the state is
\* and stays Error::Overflow, for any file system and any options.
THEOREM OverflowIsFinalHolds == Spec => []OverflowIsFinal
<1>1. DepthInv => OverflowIsFinal
  BY DEF DepthInv
<1> QED
  BY <1>1, DepthInit, DepthNext, PTL DEF Spec
-----------------------------------------------------------------------------
(* The chain of links, and what its restore links will restore *)

IsInfo(i) == i = [path |-> i.path, req |-> i.req]

\* What a loop of a plugin tries, and what it ends in.
AlternativeOK(r) ==
  /\ r.tag \in {"Resolving", "Ignored", "Error"} /\ r # Error("Overflow")
  /\ r.tag = "Resolving" => IsInfo(r.info)
ListOK(list) == \A k \in DOMAIN list : AlternativeOK(list[k])
LastOK(r) == r.tag \in {"Resolving", "Failed"} /\ IsInfo(r.info)

LinkOK(l) ==
  /\ l.step \in Steps
  /\ l.step = "attempt" =>
       l.mode \in {"off", "on", "keep"} /\ ListOK(l.list) /\ LastOK(l.last)
  /\ l.step = "restore" => l.fully \in BOOLEAN
  /\ l.step \in {"modules", "unlessFile"} => IsInfo(l.info)

\* A chain of links that restore nothing, leave no call of _resolve and do
\* not close the call of resolve.
GoodLink(l) == LinkOK(l) /\ l.step \notin {"restore", "leave", "symlink", "resource"}
Neutral(c) == IsSeq(c) /\ \A k \in DOMAIN c : GoodLink(c[k])

\* FullyRestored, of a chain c, for the value `now` of fully_specified and
\* the value `first` that it has in the options.
RestoredIn(c, now, first) ==
  LET pending == {k \in DOMAIN c : c[k].step = "restore"}
  IN /\ pending = {} => now = first
     /\ \A k \in pending :
          (\A j \in pending : j <= k) => c[k].fully = first

\* The calls of _resolve that a chain has still to leave.
Opened(c) == {k \in DOMAIN c : c[k].step = "leave"}

ChainOK(c) == IsSeq(c) /\ \A k \in DOMAIN c : LinkOK(c[k])

\* A chain ends with the two links that close the call of resolve.
Closing(c) ==
  /\ IsSeq(c)
  /\ \A k \in DOMAIN c : /\ c[k].step = "resource" <=> k = Len(c)
                         /\ c[k].step = "symlink" <=> k = Len(c) - 1

LEMMA SeqIsSeq ==
  ASSUME NEW S, NEW s \in Seq(S)
  PROVE  IsSeq(s)
<1>1. Len(s) \in Nat /\ DOMAIN s = 1..Len(s) /\ s = [k \in 1..Len(s) |-> s[k]]
  BY LenProperties
<1>2. s \in [1..Len(s) -> {s[k] : k \in DOMAIN s}]
  BY <1>1
<1>3. IsSeq(s)
  BY <1>1, <1>2, SeqDef, SMTT(20) DEF IsSeq
<1> QED
  BY <1>3

\* A function on 1..n is a sequence.
LEMMA ListIs ==
  ASSUME NEW n \in Nat, NEW f, f = [k \in 1..n |-> f[k]]
  PROVE  IsSeq(f) /\ Len(f) = n /\ DOMAIN f = 1..n
<1> DEFINE S == {f[k] : k \in 1..n}
<1>1. f \in [1..n -> S]
  OBVIOUS
<1>2. f \in Seq(S)
  <2> HIDE DEF S
  <2> QED
    BY <1>1, SeqDef
<1>3. Len(f) = n /\ DOMAIN f = 1..n
  BY <1>1, <1>2, LenProperties
<1> QED
  BY <1>2, <1>3, SeqIsSeq

\* Concatenation and Tail, index by index.
LEMMA Concatenated ==
  ASSUME NEW c, NEW d, IsSeq(c), IsSeq(d)
  PROVE  /\ IsSeq(c \o d)
         /\ Len(c) \in Nat /\ Len(d) \in Nat
         /\ DOMAIN c = 1..Len(c) /\ DOMAIN d = 1..Len(d)
         /\ DOMAIN (c \o d) = 1..(Len(c) + Len(d))
         /\ \A k \in 1..Len(c) : (c \o d)[k] = c[k]
         /\ \A k \in 1..Len(d) : (c \o d)[Len(c) + k] = d[k]
<1> DEFINE S == {c[k] : k \in DOMAIN c} \cup {d[k] : k \in DOMAIN d}
<1>1. c \in Seq(S) /\ d \in Seq(S)
  BY DEF IsSeq
<1> HIDE DEF S
<1>2. c \o d \in Seq(S) /\ Len(c \o d) = Len(c) + Len(d)
  BY <1>1
<1>3. IsSeq(c \o d)
  BY <1>2, SeqIsSeq
<1> QED
  BY <1>1, <1>2, <1>3

Begins(c, e) == \A k \in 1..Len(c) : e[k] = c[k]
LEMMA BeginsJoined ==
  ASSUME NEW c, NEW d, IsSeq(c), IsSeq(d)
  PROVE  Begins(c, c \o d)
BY Concatenated DEF Begins

LEMMA Tailed ==
  ASSUME NEW c, IsSeq(c), c # <<>>
  PROVE  /\ IsSeq(Tail(c))
         /\ Len(c) \in Nat \ {0} /\ DOMAIN c = 1..Len(c)
         /\ DOMAIN Tail(c) = 1..(Len(c) - 1)
         /\ \A k \in 1..(Len(c) - 1) : Tail(c)[k] = c[k + 1]
         /\ Head(c) = c[1]
<1> DEFINE S == {c[k] : k \in DOMAIN c}
<1>1. c \in Seq(S)
  BY DEF IsSeq
<1> HIDE DEF S
<1>2. Tail(c) \in Seq(S)
  BY <1>1
<1>3. IsSeq(Tail(c))
  BY <1>2, SeqIsSeq
<1> QED
  BY <1>1, <1>2, <1>3

\* Links that restore nothing may be put in front of a chain.
LEMMA PrependNeutral ==
  ASSUME NEW c, ChainOK(c), NEW d, Neutral(d), NEW now, NEW first,
         RestoredIn(c, now, first)
  PROVE  ChainOK(d \o c) /\ RestoredIn(d \o c, now, first)
<1>1. IsSeq(c) /\ IsSeq(d)
  BY DEF ChainOK, Neutral
<1> DEFINE n == Len(d)
           e == d \o c
<1>2. /\ IsSeq(e) /\ n \in Nat /\ Len(c) \in Nat
      /\ DOMAIN d = 1..n /\ DOMAIN c = 1..Len(c) /\ DOMAIN e = 1..(n + Len(c))
      /\ \A k \in 1..n : e[k] = d[k]
      /\ \A k \in 1..Len(c) : e[n + k] = c[k]
  BY <1>1, Concatenated
<1> HIDE DEF n, e
<1>3. \A k \in DOMAIN e : \/ k \in DOMAIN d /\ e[k] = d[k]
                          \/ /\ k - n \in DOMAIN c /\ e[k] = c[k - n]
  BY <1>2
<1>4. \A k \in DOMAIN c : n + k \in DOMAIN e /\ e[n + k] = c[k]
  BY <1>2
<1>5. ChainOK(e)
  BY <1>2, <1>3 DEF ChainOK, Neutral, GoodLink
<1>6. \A k \in DOMAIN e : e[k].step = "restore" =>
        k - n \in DOMAIN c /\ e[k] = c[k - n]
  BY <1>3 DEF Neutral, GoodLink
<1>7. RestoredIn(e, now, first)
  <2>1. ASSUME \A k \in DOMAIN e : e[k].step # "restore"
        PROVE  now = first
    BY <1>4, <2>1 DEF RestoredIn
  <2>2. ASSUME NEW k \in DOMAIN e, e[k].step = "restore",
               \A j \in DOMAIN e : e[j].step = "restore" => j <= k
        PROVE  e[k].fully = first
    <3>1. k - n \in DOMAIN c /\ e[k] = c[k - n]
      BY <1>6, <2>2
    <3>2. \A j \in DOMAIN c : c[j].step = "restore" => j <= k - n
      BY <1>2, <1>4, <2>2
    <3> QED
      BY <3>1, <3>2, <2>2 DEF RestoredIn
  <2> QED
    BY <2>1, <2>2 DEF RestoredIn
<1> QED
  BY <1>5, <1>7 DEF e

\* A link that restores what fully_specified is now allows any new value.
LEMMA PrependRestore ==
  ASSUME NEW c, ChainOK(c), NEW now \in BOOLEAN, NEW first,
         RestoredIn(c, now, first),
         NEW l, l.step = "restore", l.fully = now, LinkOK(l), NEW later
  PROVE  ChainOK(<<l>> \o c) /\ RestoredIn(<<l>> \o c, later, first)
<1> DEFINE e == <<l>> \o c
<1>1. IsSeq(<<l>>) /\ IsSeq(c) /\ Len(<<l>>) = 1 /\ <<l>>[1] = l
  BY DEF ChainOK, IsSeq
<1>2. /\ IsSeq(e) /\ Len(c) \in Nat /\ DOMAIN c = 1..Len(c)
      /\ DOMAIN e = 1..(1 + Len(c)) /\ e[1] = l
      /\ \A k \in 1..Len(c) : e[1 + k] = c[k]
  BY <1>1, Concatenated
<1> HIDE DEF e
<1>3. \A k \in DOMAIN e : k = 1 \/ (k - 1 \in DOMAIN c /\ e[k] = c[k - 1])
  BY <1>2
<1>4. ChainOK(e)
  BY <1>2, <1>3 DEF ChainOK
<1>5. RestoredIn(e, later, first)
  <2>1. 1 \in DOMAIN e /\ e[1].step = "restore"
    BY <1>2
  <2>2. ASSUME NEW k \in DOMAIN e, e[k].step = "restore",
               \A j \in DOMAIN e : e[j].step = "restore" => j <= k
        PROVE  e[k].fully = first
    <3>1. CASE k = 1
      <4>1. \A j \in DOMAIN c : c[j].step # "restore"
        BY <1>2, <2>2, <3>1
      <4> QED
        BY <1>2, <3>1, <4>1 DEF RestoredIn
    <3>2. CASE k - 1 \in DOMAIN c /\ e[k] = c[k - 1]
      <4>1. ASSUME NEW j \in DOMAIN c, c[j].step = "restore"
            PROVE  j <= k - 1
        <5>1. j + 1 \in DOMAIN e /\ e[j + 1] = c[j]
          BY <1>2
        <5>2. j + 1 <= k
          BY <2>2, <4>1, <5>1
        <5>3. j \in Int /\ k \in Int
          BY <1>2
        <5> QED
          BY <5>2, <5>3
      <4> QED
        BY <2>2, <3>2, <4>1 DEF RestoredIn
    <3> QED
      BY <1>3, <3>1, <3>2
  <2> QED
    BY <2>1, <2>2 DEF RestoredIn
<1> QED
  BY <1>4, <1>5 DEF e

\* A link that restores nothing, in front of a chain.
LEMMA PrependLeave ==
  ASSUME NEW c, ChainOK(c), NEW now, NEW first, RestoredIn(c, now, first),
         NEW l, l.step = "leave", LinkOK(l)
  PROVE  ChainOK(<<l>> \o c) /\ RestoredIn(<<l>> \o c, now, first)
<1> DEFINE e == <<l>> \o c
<1>1. IsSeq(<<l>>) /\ IsSeq(c) /\ Len(<<l>>) = 1 /\ <<l>>[1] = l
  BY DEF ChainOK, IsSeq
<1>2. /\ IsSeq(e) /\ Len(c) \in Nat /\ DOMAIN c = 1..Len(c)
      /\ DOMAIN e = 1..(1 + Len(c)) /\ e[1] = l
      /\ \A k \in 1..Len(c) : e[1 + k] = c[k]
  BY <1>1, Concatenated
<1> HIDE DEF e
<1>3. \A k \in DOMAIN e : k = 1 \/ (k - 1 \in DOMAIN c /\ e[k] = c[k - 1])
  BY <1>2
<1>4. \A k \in DOMAIN c : k + 1 \in DOMAIN e /\ e[k + 1] = c[k]
  BY <1>2
<1>5. ChainOK(e)
  BY <1>2, <1>3 DEF ChainOK
<1>6. RestoredIn(e, now, first)
  <2>1. ASSUME \A k \in DOMAIN e : e[k].step # "restore"
        PROVE  now = first
    BY <1>4, <2>1 DEF RestoredIn
  <2>2. ASSUME NEW k \in DOMAIN e, e[k].step = "restore",
               \A j \in DOMAIN e : e[j].step = "restore" => j <= k
        PROVE  e[k].fully = first
    <3>1. k - 1 \in DOMAIN c /\ e[k] = c[k - 1]
      BY <1>2, <1>3, <2>2
    <3>2. \A j \in DOMAIN c : c[j].step = "restore" => j <= k - 1
      BY <1>2, <1>4, <2>2
    <3> QED
      BY <2>2, <3>1, <3>2 DEF RestoredIn
  <2> QED
    BY <2>1, <2>2 DEF RestoredIn
<1> QED
  BY <1>5, <1>6 DEF e

\* Taking the first link off the chain.
LEMMA DropHead ==
  ASSUME NEW c, ChainOK(c), c # <<>>, NEW now, NEW first,
         RestoredIn(c, now, first), NEW later,
         IF Head(c).step = "restore" THEN later = Head(c).fully
         ELSE later = now
  PROVE  ChainOK(Tail(c)) /\ RestoredIn(Tail(c), later, first)
<1> DEFINE e == Tail(c)
<1>1. /\ IsSeq(e) /\ Len(c) \in Nat \ {0} /\ DOMAIN c = 1..Len(c)
      /\ DOMAIN e = 1..(Len(c) - 1) /\ Head(c) = c[1]
      /\ \A k \in 1..(Len(c) - 1) : e[k] = c[k + 1]
  BY Tailed DEF ChainOK
<1> HIDE DEF e
<1>2. \A k \in DOMAIN e : k + 1 \in DOMAIN c /\ e[k] = c[k + 1]
  BY <1>1
<1>3. \A k \in DOMAIN c : k = 1 \/ (k - 1 \in DOMAIN e /\ c[k] = e[k - 1])
  BY <1>1
<1>4. ChainOK(e)
  BY <1>1, <1>2 DEF ChainOK
<1>5. RestoredIn(e, later, first)
  <2>1. ASSUME \A k \in DOMAIN e : e[k].step # "restore"
        PROVE  later = first
    <3>1. CASE Head(c).step = "restore"
      <4>1. \A j \in DOMAIN c : c[j].step = "restore" => j <= 1
        BY <1>1, <1>3, <2>1
      <4> QED
        BY <1>1, <3>1, <4>1 DEF RestoredIn
    <3>2. CASE Head(c).step # "restore"
      BY <1>1, <1>3, <2>1, <3>2 DEF RestoredIn
    <3> QED
      BY <3>1, <3>2
  <2>2. ASSUME NEW k \in DOMAIN e, e[k].step = "restore",
               \A j \in DOMAIN e : e[j].step = "restore" => j <= k
        PROVE  e[k].fully = first
    <3>1. \A j \in DOMAIN c : c[j].step = "restore" => j <= k + 1
      BY <1>1, <1>3, <2>2
    <3> QED
      BY <1>2, <2>2, <3>1 DEF RestoredIn
  <2> QED
    BY <2>1, <2>2 DEF RestoredIn
<1> QED
  BY <1>4, <1>5 DEF e

-----------------------------------------------------------------------------
(* Counting the calls that are open *)

\* Links that do not close the call may be put in front of those that do.
LEMMA ClosingBehind ==
  ASSUME NEW c, Closing(c), Len(c) > 1, NEW d, IsSeq(d),
         \A k \in DOMAIN d : d[k].step \notin {"symlink", "resource"}
  PROVE  Closing(d \o c) /\ Len(d \o c) > 1
<1> DEFINE n == Len(d)
           m == Len(c)
           e == d \o c
<1>1. /\ IsSeq(e) /\ n \in Nat /\ m \in Nat /\ Len(e) = n + m
      /\ DOMAIN d = 1..n /\ DOMAIN c = 1..m /\ DOMAIN e = 1..(n + m)
      /\ \A k \in 1..n : e[k] = d[k]
      /\ \A k \in 1..m : e[n + k] = c[k]
  <2>1. IsSeq(c)
    BY DEF Closing
  <2> QED
    BY <2>1, Concatenated
<1>2. m > 1
  OBVIOUS
<1> HIDE DEF n, m, e
<1>3. ASSUME NEW k \in 1..(n + m)
      PROVE  /\ e[k].step = "resource" <=> k = n + m
             /\ e[k].step = "symlink" <=> k = n + m - 1
  <2>1. CASE k <= n
    <3>1. k \in 1..n /\ k # n + m /\ k # n + m - 1
      BY <1>1, <1>2, <2>1
    <3> QED
      BY <1>1, <3>1
  <2>2. CASE ~(k <= n)
    <3> DEFINE j == k - n
    <3>1. j \in 1..m /\ n + j = k
      BY <1>1, <2>2
    <3>2. (j = m <=> k = n + m) /\ (j = m - 1 <=> k = n + m - 1)
      BY <1>1, <3>1
    <3>3. /\ c[j].step = "resource" <=> j = m
          /\ c[j].step = "symlink" <=> j = m - 1
      <4> HIDE DEF j
      <4> QED
        BY <1>1, <3>1 DEF Closing, m
    <3>4. e[k] = c[j]
      <4> HIDE DEF j
      <4> QED
        BY <1>1, <3>1
    <3> HIDE DEF j
    <3> QED
      BY <3>2, <3>3, <3>4
  <2> QED
    BY <2>1, <2>2
<1>4. Closing(e)
  BY <1>1, <1>3 DEF Closing
<1>5. Len(e) > 1
  BY <1>1, <1>2
<1> QED
  BY <1>4, <1>5 DEF e

\* The links that close the call stay where they are until it is their turn.
LEMMA ClosingTail ==
  ASSUME NEW c, Closing(c), c # <<>>
  PROVE  /\ Closing(Tail(c)) /\ Len(c) \in Nat /\ Len(Tail(c)) = Len(c) - 1
         /\ Head(c).step \notin {"symlink", "resource"} => Len(Tail(c)) > 1
         /\ Head(c).step = "resource" => Len(Tail(c)) = 0
         /\ Head(c).step = "symlink" => Len(Tail(c)) = 1
<1> DEFINE e == Tail(c)
           n == Len(c)
<1>1. /\ IsSeq(e) /\ n \in Nat \ {0} /\ DOMAIN c = 1..n
      /\ DOMAIN e = 1..(n - 1) /\ Head(c) = c[1]
      /\ \A k \in 1..(n - 1) : e[k] = c[k + 1]
  BY Tailed DEF Closing
<1>2. Len(e) = n - 1
  <2>1. Len(e) \in Nat /\ DOMAIN e = 1..Len(e)
    <3> DEFINE S == {e[k] : k \in DOMAIN e}
    <3>1. e \in Seq(S)
      BY <1>1 DEF IsSeq
    <3> HIDE DEF S, e
    <3> QED
      BY <3>1
  <2> HIDE DEF e, n
  <2> QED
    BY <1>1, <2>1
<1>3. \A k \in 1..n : /\ c[k].step = "resource" <=> k = n
                      /\ c[k].step = "symlink" <=> k = n - 1
  BY <1>1 DEF Closing
<1> HIDE DEF e, n
<1>4. ASSUME NEW k \in 1..(n - 1)
      PROVE  /\ e[k].step = "resource" <=> k = n - 1
             /\ e[k].step = "symlink" <=> k = n - 1 - 1
  <2>1. k + 1 \in 1..n /\ (k + 1 = n <=> k = n - 1) /\ (k + 1 = n - 1 <=> k = n - 1 - 1)
    BY <1>1
  <2> QED
    BY <1>1, <1>3, <2>1
<1>5. Closing(e)
  BY <1>1, <1>2, <1>4 DEF Closing
<1>6. 1 \in 1..n
  BY <1>1
<1>7. /\ c[1].step = "resource" <=> 1 = n
      /\ c[1].step = "symlink" <=> 1 = n - 1
  BY <1>3, <1>6
<1> QED
  BY <1>1, <1>2, <1>5, <1>7 DEF e

LEMMA OpenedFinite ==
  ASSUME NEW c, IsSeq(c)
  PROVE  IsFiniteSet(Opened(c)) /\ Cardinality(Opened(c)) \in Nat
<1>1. Len(c) \in Nat /\ DOMAIN c = 1..Len(c)
  BY Concatenated
<1>2. Opened(c) \subseteq 1..Len(c)
  BY <1>1 DEF Opened
<1>3. IsFiniteSet(1..Len(c))
  BY <1>1, FS_Interval
<1> QED
  BY <1>2, <1>3, FS_Subset, FS_CardinalityType

LEMMA OpenedConcat ==
  ASSUME NEW c, NEW d, IsSeq(c), IsSeq(d)
  PROVE  Cardinality(Opened(c \o d)) = Cardinality(Opened(c)) + Cardinality(Opened(d))
<1> DEFINE e == c \o d
           n == Len(c)
           T == {n + k : k \in Opened(d)}
           f == [k \in Opened(d) |-> n + k]
<1>1. /\ n \in Nat /\ Len(d) \in Nat
      /\ DOMAIN c = 1..n /\ DOMAIN d = 1..Len(d) /\ DOMAIN e = 1..(n + Len(d))
      /\ \A k \in 1..n : e[k] = c[k]
      /\ \A k \in 1..Len(d) : e[n + k] = d[k]
  BY Concatenated
<1> HIDE DEF e, n
<1>2. \A k \in DOMAIN e : \/ k \in DOMAIN c /\ e[k] = c[k]
                          \/ k - n \in DOMAIN d /\ e[k] = d[k - n] /\ k = n + (k - n)
  BY <1>1
<1>3. Opened(e) = Opened(c) \cup T
  <2>1. \A k \in Opened(c) : k \in Opened(e)
    BY <1>1 DEF Opened
  <2>2. \A k \in Opened(d) : n + k \in Opened(e)
    BY <1>1 DEF Opened
  <2>3. \A k \in Opened(e) : k \in Opened(c) \/ k \in T
    BY <1>2 DEF Opened
  <2> QED
    BY <2>1, <2>2, <2>3
<1>4. IsFiniteSet(Opened(c)) /\ IsFiniteSet(Opened(d))
      /\ Cardinality(Opened(c)) \in Nat /\ Cardinality(Opened(d)) \in Nat
  BY OpenedFinite
<1>5. IsFiniteSet(T) /\ Cardinality(T) = Cardinality(Opened(d))
  <2>1. Opened(d) \subseteq 1..Len(d)
    BY <1>1 DEF Opened
  <2>2. f \in [Opened(d) -> T] /\ \A t \in T : \E k \in Opened(d) : f[k] = t
    OBVIOUS
  <2>3. \A j, k \in Opened(d) : f[j] = f[k] => j = k
    BY <1>1, <2>1
  <2>4. f \in Bijection(Opened(d), T)
    <3> HIDE DEF T, f
    <3> QED
      BY <2>2, <2>3 DEF Bijection, Injection, Surjection, IsInjective
  <2> HIDE DEF T, f
  <2> QED
    BY <1>4, <2>4, FS_Bijection DEF ExistsBijection
<1>6. Opened(c) \cap T = {}
  BY <1>1 DEF Opened
<1>7. Cardinality(Opened(e)) = Cardinality(Opened(c)) + Cardinality(T) - Cardinality({})
  <2> HIDE DEF T
  <2>1. Cardinality(Opened(c) \cup T)
          = Cardinality(Opened(c)) + Cardinality(T) - Cardinality(Opened(c) \cap T)
    BY <1>4, <1>5, FS_Union
  <2> QED
    BY <1>3, <1>6, <2>1
<1>8. Cardinality({}) = 0
  BY FS_EmptySet
<1> QED
  BY <1>4, <1>5, <1>7, <1>8 DEF e

LEMMA OpenedNone ==
  ASSUME NEW c, \A k \in DOMAIN c : c[k].step # "leave"
  PROVE  Cardinality(Opened(c)) = 0
<1>1. Opened(c) = {}
  BY DEF Opened
<1> QED
  BY <1>1, FS_EmptySet

\* A link in front of a chain.
LEMMA OpenedLink ==
  ASSUME NEW l, NEW c, IsSeq(c)
  PROVE  Cardinality(Opened(<<l>> \o c)) =
           Cardinality(Opened(c)) + IF l.step = "leave" THEN 1 ELSE 0
<1>1. IsSeq(<<l>>) /\ DOMAIN <<l>> = {1} /\ <<l>>[1] = l
  BY DEF IsSeq
<1>2. Opened(<<l>>) = IF l.step = "leave" THEN {1} ELSE {}
  BY <1>1 DEF Opened
<1>3. Cardinality({1}) = 1 /\ Cardinality({}) = 0
  BY FS_EmptySet, FS_Singleton
<1>4. Cardinality(Opened(c)) \in Nat
  BY OpenedFinite
<1>5. Cardinality(Opened(<<l>> \o c)) = Cardinality(Opened(<<l>>)) + Cardinality(Opened(c))
  BY <1>1, OpenedConcat
<1> QED
  BY <1>2, <1>3, <1>4, <1>5

LEMMA OpenedTail ==
  ASSUME NEW c, IsSeq(c), c # <<>>
  PROVE  Cardinality(Opened(Tail(c))) =
           Cardinality(Opened(c)) - IF Head(c).step = "leave" THEN 1 ELSE 0
<1> DEFINE l == Head(c)
           t == Tail(c)
<1>1. IsSeq(t) /\ c = <<l>> \o t
  <2> DEFINE S == {c[k] : k \in DOMAIN c}
  <2>1. c \in Seq(S)
    BY DEF IsSeq
  <2> HIDE DEF S
  <2>2. c = <<Head(c)>> \o Tail(c)
    BY <2>1
  <2> QED
    BY <2>2, Tailed
<1> HIDE DEF l, t
<1>2. Cardinality(Opened(t)) \in Nat
  BY <1>1, OpenedFinite
<1>3. Cardinality(Opened(c)) = Cardinality(Opened(t)) + IF l.step = "leave" THEN 1 ELSE 0
  BY <1>1, OpenedLink
<1> QED
  BY <1>2, <1>3 DEF l, t

-----------------------------------------------------------------------------
(* The chains that the actions push *)

\* Links of these steps have nothing that an invariant is about.
Bare == ThenSteps \cup {"module", "fallback", "unlessFailed"}

LEMMA BareLink ==
  ASSUME NEW l, l.step \in Bare
  PROVE  GoodLink(l)
  BY DEF Bare, ThenSteps, Steps, GoodLink, LinkOK

LEMMA NeutralMap ==
  ASSUME NEW n \in Nat, NEW c, DOMAIN c = 1..n, c = [k \in 1..n |-> c[k]],
         \A k \in 1..n : GoodLink(c[k])
  PROVE  Neutral(c)
<1> DEFINE S == {c[k] : k \in DOMAIN c}
<1>1. c \in [1..n -> S]
  OBVIOUS
<1>2. c \in Seq(S)
  <2> HIDE DEF S
  <2> QED
    BY <1>1, SeqDef
<1>3. IsSeq(c)
  BY <1>2 DEF IsSeq
<1> QED
  BY <1>3 DEF Neutral

LEMMA NeutralThens ==
  ASSUME NEW s, Len(s) \in Nat, \A k \in 1..Len(s) : s[k] \in Bare
  PROVE  Neutral(Thens(s))
<1> DEFINE c == Thens(s)
<1>1. c = [k \in 1..Len(s) |-> [step |-> s[k]]]
  BY DEF Thens, Map
<1> HIDE DEF c
<1>2. \A k \in 1..Len(s) : GoodLink(c[k])
  BY <1>1, BareLink
<1>3. Neutral(c)
  BY <1>1, <1>2, NeutralMap
<1> QED
  BY <1>3 DEF c

LEMMA NeutralOne ==
  ASSUME NEW l, GoodLink(l)
  PROVE  Neutral(<<l>>)
  BY DEF Neutral, IsSeq

LEMMA NeutralTwo ==
  ASSUME NEW l, GoodLink(l), NEW m, GoodLink(m)
  PROVE  Neutral(<<l, m>>)
  BY DEF Neutral, IsSeq

LEMMA NeutralThree ==
  ASSUME NEW l, GoodLink(l), NEW m, GoodLink(m), NEW n, GoodLink(n)
  PROVE  Neutral(<<l, m, n>>)
  BY DEF Neutral, IsSeq

LEMMA NeutralAttempt ==
  ASSUME NEW list, ListOK(list), NEW mode \in {"off", "on", "keep"}, NEW last, LastOK(last)
  PROVE  \A k : Neutral(AttemptFrom(list, k, mode, last))
<1> SUFFICES ASSUME NEW k PROVE Neutral(AttemptFrom(list, k, mode, last))
  OBVIOUS
<1> DEFINE l == [step |-> "attempt", list |-> list, next |-> k, mode |-> mode, last |-> last]
<1>1. GoodLink(l)
  BY DEF GoodLink, LinkOK, Steps
<1>2. AttemptFrom(list, k, mode, last) = <<l>>
  BY DEF AttemptFrom
<1> HIDE DEF l
<1> QED
  BY <1>1, <1>2, NeutralOne

LEMMA NeutralEmpty == Neutral(<<>>)
  BY DEF Neutral, IsSeq

LEMMA NeutralConcat ==
  ASSUME NEW c, NEW d, Neutral(c), Neutral(d)
  PROVE  Neutral(c \o d)
<1>1. IsSeq(c) /\ IsSeq(d)
  BY DEF Neutral
<1>2. \A k \in DOMAIN (c \o d) :
        \/ k \in DOMAIN c /\ (c \o d)[k] = c[k]
        \/ k - Len(c) \in DOMAIN d /\ (c \o d)[k] = d[k - Len(c)]
  <2> SUFFICES ASSUME NEW k \in DOMAIN (c \o d)
               PROVE  \/ k \in DOMAIN c /\ (c \o d)[k] = c[k]
                      \/ /\ k - Len(c) \in DOMAIN d
                         /\ (c \o d)[k] = d[k - Len(c)]
    OBVIOUS
  <2>1. /\ Len(c) \in Nat /\ Len(d) \in Nat /\ k \in 1..(Len(c) + Len(d))
        /\ DOMAIN c = 1..Len(c) /\ DOMAIN d = 1..Len(d)
        /\ \A j \in 1..Len(c) : (c \o d)[j] = c[j]
        /\ \A j \in 1..Len(d) : (c \o d)[Len(c) + j] = d[j]
    BY <1>1, Concatenated
  <2>2. CASE k <= Len(c)
    BY <2>1, <2>2
  <2>3. CASE k > Len(c)
    <3>1. k - Len(c) \in 1..Len(d) /\ Len(c) + (k - Len(c)) = k
      BY <2>1, <2>3
    <3>2. (c \o d)[Len(c) + (k - Len(c))] = d[k - Len(c)]
      BY <2>1, <3>1
    <3> QED
      BY <2>1, <3>1, <3>2
  <2> QED
    BY <2>1, <2>2, <2>3
<1>3. IsSeq(c \o d)
  BY <1>1, Concatenated
<1> QED
  BY <1>2, <1>3 DEF Neutral

-----------------------------------------------------------------------------
(* The invariant of a call *)

\* What the State on its way through the chain may be.
StateOK(x, s) ==
  /\ s.tag \in Tags
  /\ s.tag \in {"Resolving", "Failed", "Success"} => IsInfo(s.info)
  /\ s.tag = "Success" =>
       /\ s.info.req.names = <<>>
       /\ s.info.path \in x.files \/ (x.toContext /\ s.info.path \in x.dirs)

Late(s) == IF s = Error("Overflow") THEN 1 ELSE 0

CallInv ==
  /\ w \in Worlds /\ fully \in BOOLEAN
  /\ StateOK(w, state)
  /\ ChainOK(control) /\ RestoredIn(control, fully, w.fully) /\ Closing(control)
  /\ depth = Cardinality(Opened(control)) + Late(state)

\* The states a link may go on with: an overflow is none of its own.
StateNext(s) == StateOK(w, s) /\ (s = Error("Overflow") => state = s)

LEMMA InfoOf ==
  \A i, t, p : IsInfo(i) =>
    /\ IsInfo(WithPath(i, p)) /\ WithPath(i, p).path = p /\ WithPath(i, p).req = i.req
    /\ IsInfo(WithTarget(i, t))
    /\ IsInfo(At(p, t))
    /\ IsInfo([i EXCEPT !.req = t])
  BY DEF IsInfo, WithPath, WithTarget, At

LEMMA UseOf ==
  ASSUME NEW i, IsInfo(i), NEW p
  PROVE  IsInfo(Use(i, p)) /\ Use(i, p).path = p /\ Use(i, p).req.names = <<>>
<1> DEFINE t == [Req("relative", <<>>) EXCEPT !.query = i.req.query, !.frag = i.req.frag]
           j == [i EXCEPT !.req = t]
<1>1. t.names = <<>>
  BY DEF Req
<1>2. IsInfo(j) /\ j.req = t
  <2> HIDE DEF t
  <2> QED
    BY DEF IsInfo
<1>3. Use(i, p) = [j EXCEPT !.path = p]
  BY DEF Use, WithPath, WithTarget
<1> HIDE DEF t, j
<1> QED
  BY <1>1, <1>2, <1>3 DEF IsInfo

LEMMA StatesOK ==
  ASSUME CallInv
  PROVE  /\ StateNext(state)
         /\ \A why : why # "Overflow" => StateNext(Error(why))
         /\ StateNext(Ignored) /\ StateNext([tag |-> "Panic"])
         /\ \A i : IsInfo(i) => StateNext(Resolving(i)) /\ StateNext(Failed(i))
         /\ \A i, p : IsInfo(i) /\ IsFile(p) => StateNext(Found(i, p))
         /\ \A r : AlternativeOK(r) => StateNext(r)
         /\ \A r : LastOK(r) => StateNext(r)
         /\ state.tag \in {"Resolving", "Failed", "Success"} => IsInfo(Info)
<1> USE DEF StateNext, StateOK, Tags, Error
<1>1. StateNext(state) /\ (state.tag \in {"Resolving", "Failed", "Success"} => IsInfo(Info))
  BY DEF CallInv, Info
<1>2. /\ \A why : why # "Overflow" => StateNext(Error(why))
      /\ StateNext(Ignored) /\ StateNext([tag |-> "Panic"])
  BY DEF Ignored
<1>3. \A i : IsInfo(i) => StateNext(Resolving(i)) /\ StateNext(Failed(i))
  BY DEF Resolving, Failed
<1>4. ASSUME NEW i, NEW p, IsInfo(i), IsFile(p) PROVE StateNext(Found(i, p))
  <2> DEFINE j == Use(i, p)
  <2>1. IsInfo(j) /\ j.path = p /\ j.req.names = <<>>
    BY <1>4, UseOf
  <2>2. Found(i, p) = Success(j)
    BY DEF Found
  <2> HIDE DEF j
  <2> QED
    BY <1>4, <2>1, <2>2 DEF Success, IsFile
<1>5. \A r : AlternativeOK(r) => StateNext(r)
  BY DEF AlternativeOK
<1>6. \A r : LastOK(r) => StateNext(r)
  BY DEF LastOK
<1> QED
  BY <1>1, <1>2, <1>3, <1>4, <1>5, <1>6

LEMMA HeadLink ==
  ASSUME CallInv, control # <<>>
  PROVE  LinkOK(Item) /\ IsSeq(control) /\ IsSeq(Tail(control))
<1>1. IsSeq(control)
  BY DEF CallInv, ChainOK
<1>2. IsSeq(Tail(control)) /\ 1 \in DOMAIN control /\ Item = control[1]
  BY <1>1, Tailed DEF Item
<1> QED
  BY <1>1, <1>2 DEF CallInv, ChainOK

\* The depth after a step that opens and leaves no call.
LEMMA LateKept ==
  ASSUME [Next]_vars, StateNext(state')
  PROVE  Late(state') = Late(state)
<1>1. state = Error("Overflow") => state' = state
  BY ErrorStep DEF Error
<1> QED
  BY <1>1 DEF Late, StateNext

LEMMA NothingBefore ==
  ASSUME NEW t, IsSeq(t)
  PROVE  <<>> \o t = t
<1> DEFINE S == {t[k] : k \in DOMAIN t}
<1>1. t \in Seq(S)
  BY DEF IsSeq
<1> HIDE DEF S
<1> QED
  BY <1>1, ConcatEmptySeq

LEMMA GotoKeeps ==
  ASSUME CallInv, [Next]_vars, control # <<>>, Item.step \notin {"restore", "leave"},
         NEW s, StateNext(s), NEW next, Neutral(next), Goto(s, next),
         Item.step \in {"symlink", "resource"} => next = <<>>
  PROVE  CallInv'
<1>1. /\ ChainOK(Tail(control)) /\ RestoredIn(Tail(control), fully, w.fully)
      /\ Cardinality(Opened(Tail(control))) = Cardinality(Opened(control)) - 0
  BY DropHead, HeadLink, OpenedTail DEF CallInv, Item
<1>2. /\ ChainOK(next \o Tail(control)) /\ IsSeq(next) /\ IsSeq(Tail(control))
      /\ RestoredIn(next \o Tail(control), fully, w.fully)
  BY <1>1, PrependNeutral DEF ChainOK, Neutral
<1>3. Cardinality(Opened(next)) = 0
  BY OpenedNone DEF Neutral, GoodLink
<1>4. Cardinality(Opened(control)) \in Nat
  BY OpenedFinite DEF CallInv, ChainOK
<1>5. Cardinality(Opened(next \o Tail(control))) = Cardinality(Opened(control))
  BY <1>1, <1>2, <1>3, <1>4, OpenedConcat
<1>6. state' = s /\ control' = next \o Tail(control) /\ UNCHANGED <<w, depth, fully>>
  BY DEF Goto
<1>7. Late(state') = Late(state) /\ StateOK(w, state')
  BY <1>6, LateKept DEF StateNext
<1>8. ChainOK(control') /\ RestoredIn(control', fully', w'.fully)
  BY <1>2, <1>6
<1>9. depth' = Cardinality(Opened(control')) + Late(state')
  BY <1>5, <1>6, <1>7 DEF CallInv
<1>10. Closing(control')
  <2>1. /\ Closing(Tail(control))
        /\ Item.step \notin {"symlink", "resource"} => Len(Tail(control)) > 1
    BY ClosingTail DEF CallInv, Item
  <2>2. CASE Item.step \notin {"symlink", "resource"}
    BY <1>6, <2>1, <2>2, ClosingBehind DEF Neutral, GoodLink
  <2>3. CASE Item.step \in {"symlink", "resource"}
    <3>1. control' = Tail(control)
      BY <1>2, <1>6, <2>3, NothingBefore
    <3> QED
      BY <2>1, <3>1
  <2> QED
    BY <2>2, <2>3
<1> QED
  BY <1>6, <1>7, <1>8, <1>9, <1>10 DEF CallInv

LEMMA ReturnKeeps ==
  ASSUME CallInv, [Next]_vars, control # <<>>, Item.step \notin {"restore", "leave"},
         NEW s, StateNext(s), Return(s)
  PROVE  CallInv'
  BY GotoKeeps, NeutralEmpty DEF Return

LEMMA Reassociated ==
  ASSUME NEW a, NEW b, NEW c, IsSeq(a), IsSeq(b), IsSeq(c)
  PROVE  (a \o b) \o c = a \o (b \o c)
<1> DEFINE S(x) == {x[k] : k \in DOMAIN x}
           U == S(a) \cup S(b) \cup S(c)
<1>1. a \in Seq(U) /\ b \in Seq(U) /\ c \in Seq(U)
  BY SeqMonotonic DEF IsSeq
<1> HIDE DEF U
<1> QED
  BY <1>1, ConcatAssociative

\* A nested call puts the link that restores its own mode under itself.
LEMMA NestedKeeps ==
  ASSUME CallInv, [Next]_vars, control # <<>>,
         Item.step \notin {"restore", "leave", "symlink", "resource"},
         NEW i, IsInfo(i), NEW mode \in {"off", "on", "keep"}, NEW next, Neutral(next),
         Nested(i, mode, next)
  PROVE  CallInv'
<1> DEFINE enter == Thens(<<"enter">>)
           rest == next \o Tail(control)
<1>1. ChainOK(Tail(control)) /\ RestoredIn(Tail(control), fully, w.fully)
  BY DropHead, HeadLink DEF CallInv, Item
<1>2. ChainOK(rest) /\ RestoredIn(rest, fully, w.fully)
  BY <1>1, PrependNeutral
<1>3. Neutral(enter)
  BY NeutralThens DEF Bare, ThenSteps
<1>4. IsSeq(Restore(mode))
  <2> DEFINE l == [step |-> "restore", fully |-> fully]
  <2>1. Restore(mode) = <<l>> \/ Restore(mode) = <<>>
    BY DEF Restore
  <2> HIDE DEF l
  <2>2. IsSeq(<<l>>) /\ IsSeq(<<>>)
    BY DEF IsSeq
  <2> QED
    BY <2>1, <2>2
<1>5. control' = enter \o (Restore(mode) \o rest)
  <2>1. IsSeq(enter) /\ IsSeq(next) /\ IsSeq(Tail(control))
    BY <1>1, <1>3 DEF ChainOK, Neutral
  <2> HIDE DEF enter
  <2> DEFINE r == Restore(mode)
             t == Tail(control)
  <2>2. IsSeq(r) /\ IsSeq(t)
    BY <1>4, <2>1
  <2> HIDE DEF r, t
  <2>3. IsSeq(enter \o r)
    BY <2>1, <2>2, Concatenated
  <2>4. (enter \o r) \o (next \o t) = ((enter \o r) \o next) \o t
    <3> DEFINE x == enter \o r
    <3>1. IsSeq(x)
      BY <2>3
    <3> HIDE DEF x
    <3>2. IsSeq(x) /\ IsSeq(next) /\ IsSeq(t)
      BY <2>1, <2>2, <3>1
    <3>3. (x \o next) \o t = x \o (next \o t)
      BY <3>2, Reassociated
    <3> QED
      BY <3>3 DEF x
  <2>5. IsSeq(next \o t)
    BY <2>1, <2>2, Concatenated
  <2>6. (enter \o r) \o (next \o t) = enter \o (r \o (next \o t))
    <3> DEFINE x == next \o t
    <3>1. IsSeq(x) /\ IsSeq(enter) /\ IsSeq(r)
      BY <2>1, <2>2, <2>5
    <3> HIDE DEF x
    <3>2. (enter \o r) \o x = enter \o (r \o x)
      BY <3>1, Reassociated, SMTT(20)
    <3> QED
      BY <3>2 DEF x
  <2>7. control' = ((enter \o r) \o next) \o t
    BY DEF Nested, enter, r, t
  <2> QED
    BY <2>4, <2>6, <2>7 DEF r, t
<1>6. w' = w /\ fully' \in BOOLEAN
  BY DEF Nested, FullyIn, CallInv
<1> HIDE DEF enter, rest
<1>7. ChainOK(Restore(mode) \o rest)
      /\ RestoredIn(Restore(mode) \o rest, fully', w.fully)
  <2>1. CASE mode = "on" \/ (mode = "off" /\ fully)
    <3> DEFINE l == [step |-> "restore", fully |-> fully]
    <3>1. Restore(mode) = <<l>> /\ l.step = "restore" /\ l.fully = fully /\ LinkOK(l)
      BY <2>1 DEF Restore, LinkOK, Steps, CallInv
    <3> HIDE DEF l
    <3> QED
      BY <1>2, <3>1, PrependRestore DEF CallInv
  <2>2. CASE ~(mode = "on" \/ (mode = "off" /\ fully))
    <3>1. Restore(mode) = <<>> /\ fully' = fully
      BY <2>2 DEF Restore, Nested, FullyIn, CallInv
    <3> QED
      BY <1>2, <3>1, NeutralEmpty, PrependNeutral
  <2> QED
    BY <2>1, <2>2
<1>8. ChainOK(control') /\ RestoredIn(control', fully', w'.fully)
  BY <1>3, <1>5, <1>6, <1>7, PrependNeutral
<1>9. Cardinality(Opened(control')) = Cardinality(Opened(control))
  <2> DEFINE r == Restore(mode)
             t == Tail(control)
  <2>1. IsSeq(r) /\ IsSeq(t) /\ IsSeq(next) /\ IsSeq(enter) /\ rest = next \o t
    BY <1>1, <1>3, <1>4 DEF ChainOK, Neutral, rest
  <2>2. Cardinality(Opened(t)) = Cardinality(Opened(control)) - 0
    BY HeadLink, OpenedTail DEF Item
  <2>3. Cardinality(Opened(control)) \in Nat
    BY OpenedFinite, HeadLink
  <2>4. Cardinality(Opened(enter)) = 0 /\ Cardinality(Opened(next)) = 0
    BY <1>3, OpenedNone DEF Neutral, GoodLink
  <2>5. Cardinality(Opened(r)) = 0
    <3> DEFINE l == [step |-> "restore", fully |-> fully]
    <3>1. r = <<l>> \/ r = <<>>
      BY DEF Restore
    <3>2. l.step # "leave"
      OBVIOUS
    <3> HIDE DEF l, r
    <3>3. \A k \in DOMAIN r : r[k].step # "leave"
      BY <3>1, <3>2
    <3> QED
      BY <3>3, OpenedNone
  <2> HIDE DEF r, t
  <2>6. IsSeq(rest) /\ Cardinality(Opened(rest)) = Cardinality(Opened(control))
    BY <2>1, <2>2, <2>3, <2>4, OpenedConcat, Concatenated
  <2>7. IsSeq(r \o rest) /\ Cardinality(Opened(r \o rest)) = Cardinality(Opened(control))
    BY <2>1, <2>3, <2>5, <2>6, OpenedConcat, Concatenated
  <2>8. Cardinality(Opened(enter \o (r \o rest))) = Cardinality(Opened(control))
    BY <2>1, <2>3, <2>4, <2>7, OpenedConcat
  <2> QED
    BY <1>5, <2>8 DEF r
<1>10. StateOK(w, state') /\ Late(state') = Late(state) /\ depth' = depth
  <2>1. StateNext(state') /\ depth' = depth
    BY StatesOK DEF Nested
  <2> QED
    BY <2>1, LateKept DEF StateNext
<1>11. Closing(control')
  <2> DEFINE r == Restore(mode)
             t == Tail(control)
  <2>1. Closing(t) /\ Len(t) > 1 /\ rest = next \o t
    BY ClosingTail DEF CallInv, Item, rest
  <2>2. Closing(rest) /\ Len(rest) > 1
    BY <2>1, ClosingBehind DEF Neutral, GoodLink
  <2>3. \A k \in DOMAIN r : r[k].step \notin {"symlink", "resource"}
    <3> DEFINE l == [step |-> "restore", fully |-> fully]
    <3>1. r = <<l>> \/ r = <<>>
      BY DEF Restore
    <3>2. l.step \notin {"symlink", "resource"}
      OBVIOUS
    <3> HIDE DEF l, r
    <3> QED
      BY <3>1, <3>2
  <2>4. IsSeq(r)
    BY <1>4
  <2> HIDE DEF r, t
  <2>5. Closing(r \o rest) /\ Len(r \o rest) > 1
    BY <2>2, <2>3, <2>4, ClosingBehind
  <2>6. Closing(enter \o (r \o rest))
    BY <1>3, <2>5, ClosingBehind DEF Neutral, GoodLink
  <2> QED
    BY <1>5, <2>6 DEF r
<1> QED
  BY <1>6, <1>8, <1>9, <1>10, <1>11 DEF CallInv

LEMMA CallInit == Init => CallInv
<1> SUFFICES ASSUME Init PROVE CallInv
  OBVIOUS
<1>1. w \in Worlds /\ fully \in BOOLEAN /\ fully = w.fully /\ depth = 0
  BY WorldAssumption DEF Init
<1> DEFINE s == <<"enter", "fallback", "symlink", "resource">>
<1>2. /\ IsSeq(control) /\ Len(control) = 4 /\ DOMAIN control = 1..4
      /\ control[1].step = "enter" /\ control[2].step = "fallback"
      /\ control[3].step = "symlink" /\ control[4].step = "resource"
  <2>1. control = [k \in 1..Len(s) |-> [step |-> s[k]]]
    BY DEF Init, Thens, Map
  <2>2. Len(s) = 4 /\ s[1] = "enter" /\ s[2] = "fallback" /\ s[3] = "symlink" /\ s[4] = "resource"
    OBVIOUS
  <2> HIDE DEF s
  <2>3. control = [k \in 1..4 |-> control[k]] /\ \A k \in 1..4 : control[k] = [step |-> s[k]]
    BY <2>1, <2>2
  <2>4. IsSeq(control) /\ Len(control) = 4 /\ DOMAIN control = 1..4
    BY <2>3, ListIs
  <2> QED
    BY <2>2, <2>3, <2>4
<1> HIDE DEF s
<1>3. /\ \A k \in DOMAIN control : LinkOK(control[k]) /\ control[k].step \notin {"restore", "leave"}
      /\ Closing(control)
  <2>1. \A k \in 1..4 : k \in {1, 2, 3, 4}
    OBVIOUS
  <2> QED
    BY <1>2, <2>1 DEF LinkOK, Steps, ThenSteps, Closing
<1>4. /\ ChainOK(control) /\ RestoredIn(control, fully, w.fully)
      /\ Cardinality(Opened(control)) = 0
  BY <1>1, <1>2, <1>3, OpenedNone DEF ChainOK, RestoredIn
<1>5. StateOK(w, state) /\ Late(state) = 0
  <2>1. \A p, r : IsInfo(At(p, r))
    BY DEF IsInfo, At
  <2> QED
    BY <2>1 DEF Init, StateOK, Late, Resolving, Error, Tags
<1> QED
  BY <1>1, <1>3, <1>4, <1>5 DEF CallInv

\* The loop of the alternatives.
LEMMA AttemptKeeps ==
  ASSUME CallInv, [Next]_vars, NextAttempt
  PROVE  CallInv'
<1>1. control # <<>> /\ Item.step \notin {"restore", "leave", "symlink", "resource"}
      /\ Item.step = "attempt"
  BY DEF NextAttempt, Doing
<1>2. Item.mode \in {"off", "on", "keep"} /\ ListOK(Item.list) /\ LastOK(Item.last)
  BY <1>1, HeadLink DEF LinkOK
<1>3. CASE Return(state)
  BY <1>1, <1>3, ReturnKeeps, StatesOK
<1>4. CASE Return(Item.last)
  BY <1>1, <1>2, <1>4, ReturnKeeps, StatesOK
<1>5. CASE HasNext /\ Return(Alternative)
  <2>1. AlternativeOK(Alternative)
    BY <1>2, <1>5 DEF HasNext, Alternative, ListOK
  <2> QED
    BY <1>1, <1>5, <2>1, ReturnKeeps, StatesOK
<1>6. CASE /\ HasNext /\ Alternative.tag = "Resolving"
           /\ Nested(Alternative.info, Item.mode,
                     AttemptFrom(Item.list, Item.next + 1, Item.mode, Item.last))
  <2>1. IsInfo(Alternative.info)
    BY <1>2, <1>6 DEF HasNext, Alternative, ListOK, AlternativeOK
  <2>2. Neutral(AttemptFrom(Item.list, Item.next + 1, Item.mode, Item.last))
    BY <1>2, NeutralAttempt
  <2> QED
    BY <1>1, <1>2, <1>6, <2>1, <2>2, NestedKeeps
<1> QED
  BY <1>3, <1>4, <1>5, <1>6 DEF NextAttempt

-----------------------------------------------------------------------------
(* Every action keeps the invariant *)

\* What a link of the chain may do that neither restores, leaves nor closes.
LEMMA LinkKeeps ==
  ASSUME CallInv, [Next]_vars, NEW step, Doing(step),
         step \notin {"restore", "leave", "symlink", "resource"}
  PROVE  /\ \A s : StateNext(s) /\ Return(s) => CallInv'
         /\ \A s, next : StateNext(s) /\ Neutral(next) /\ Goto(s, next) => CallInv'
         /\ \A s, list, last : \A mode \in {"off", "on", "keep"} :
              StateNext(s) /\ ListOK(list) /\ LastOK(last)
                /\ Goto(s, Attempt(list, mode, last)) => CallInv'
         /\ \A i : IsInfo(i) /\ Nested(i, "off", <<>>) => CallInv'
<1>1. control # <<>> /\ Item.step = step
  BY DEF Doing
<1>2. \A list, last : \A mode \in {"off", "on", "keep"} :
        ListOK(list) /\ LastOK(last) => Neutral(Attempt(list, mode, last))
  BY NeutralAttempt DEF Attempt
<1> QED
  BY <1>1, <1>2, ReturnKeeps, GotoKeeps, NestedKeeps, NeutralEmpty

\* The alternatives of the plugins.
LEMMA Alternatives ==
  /\ \A i : IsInfo(i) => AlternativeOK(Resolving(i)) /\ LastOK(Resolving(i)) /\ LastOK(Failed(i))
  /\ AlternativeOK(Ignored) /\ AlternativeOK(Error("Exports"))
  /\ \A r : AlternativeOK(r) => ListOK(<<r>>)
  /\ ListOK(<<>>)
  BY DEF AlternativeOK, LastOK, ListOK, Resolving, Failed, Ignored, Error

\* A closure has a request to go on with.
LEMMA ThenInfo ==
  ASSUME CallInv, NEW step, Then(step)
  PROVE  Doing(step) /\ IsInfo(Info) /\ LastOK(state) /\ StateNext(state)
  BY StatesOK DEF Then, LastOK, Info

LEMMA AliasList ==
  ASSUME NEW table, NEW i, IsInfo(i)
  PROVE  ListOK(AliasTargets(table, i))
<1> DEFINE hit(e) == /\ e.from.kind = i.req.kind
                     /\ IF e.exact THEN e.from.names = i.req.names
                        ELSE IsPrefix(e.from.names, i.req.names)
           used == Selected(table, LAMBDA e :
                     hit(e) /\ (e.to = Ignored \/ ~StartsWith(i.req, e.to)))
           tail(e) == SubSeq(i.req.names, Len(e.from.names) + 1, Len(i.req.names))
           req(e) == [e.to EXCEPT !.names = @ \o tail(e),
                                  !.slash = @ /\ tail(e) = <<>>,
                                  !.query = IF @ = "" THEN i.req.query ELSE @,
                                  !.frag = IF @ = "" THEN i.req.frag ELSE @]
           alternative(e) == IF e.to = Ignored THEN Ignored
                             ELSE Resolving([i EXCEPT !.req = req(e)])
<1>1. AliasTargets(table, i) = [k \in 1..Len(used) |-> alternative(used[k])]
  BY DEF AliasTargets, Map
<1> HIDE DEF used, req
<1>2. \A e : AlternativeOK(alternative(e))
  BY InfoOf, Alternatives
<1> HIDE DEF alternative
<1> QED
  BY <1>1, <1>2 DEF ListOK

LEMMA PluginsKeep ==
  ASSUME CallInv, Plugins
  PROVE  CallInv'
<1>0. [Next]_vars
  BY DEF Next
<1>1. CASE ParsePlugin
  <2>1. Doing("parse") /\ IsInfo(Info) /\ LastOK(state) /\ StateNext(state)
    BY <1>1, ThenInfo DEF ParsePlugin
  <2>2. \A r : ListOK(<< Resolving(At(Info.path, r)) >>) /\ ListOK(<<>>)
    BY Alternatives DEF IsInfo, At
  <2> QED
    BY <1>0, <1>1, <2>1, <2>2, LinkKeeps DEF ParsePlugin
<1>2. CASE AliasPlugin
  <2>1. Doing("alias") /\ IsInfo(Info) /\ LastOK(state) /\ StateNext(state)
    BY <1>2, ThenInfo DEF AliasPlugin
  <2> QED
    BY <1>0, <1>2, <2>1, AliasList, LinkKeeps DEF AliasPlugin
<1>3. CASE PreferRelativePlugin
  <2>1. Doing("preferRelative") /\ IsInfo(Info) /\ LastOK(state) /\ StateNext(state)
    BY <1>3, ThenInfo DEF PreferRelativePlugin
  <2>2. \A t : ListOK(<< Resolving(WithTarget(Info, t)) >>) /\ ListOK(<<>>)
    BY <2>1, InfoOf, Alternatives
  <2> QED
    BY <1>0, <1>3, <2>1, <2>2, LinkKeeps DEF PreferRelativePlugin
<1>4. CASE PackageScope
  <2>1. Doing("scope") /\ IsInfo(Info) /\ StateNext(state) /\ StateNext(Error("Json"))
    BY <1>4, ThenInfo, StatesOK DEF PackageScope
  <2>2. \A dir : Neutral(<< [step |-> "imports", dir |-> dir],
                           [step |-> "browser", dir |-> dir, self |-> FALSE] >>)
    BY NeutralTwo, BareLink DEF Bare, ThenSteps
  <2> QED
    BY <1>0, <1>4, <2>1, <2>2, LinkKeeps DEF PackageScope
<1>5. CASE ImportsFieldPlugin
  <2>1. Doing("imports") /\ IsInfo(Info) /\ StateNext(state) /\ StateNext(Error("Imports"))
    BY <1>5, ThenInfo, StatesOK DEF ImportsFieldPlugin
  <2>2. \A p, r : IsInfo(At(p, r)) /\ StateNext(Resolving(At(p, r)))
    BY StatesOK DEF IsInfo, At
  <2> QED
    BY <1>0, <1>5, <2>1, <2>2, LinkKeeps DEF ImportsFieldPlugin
<1>6. CASE BrowserFieldPlugin
  <2>1. Doing("browser") /\ IsInfo(Info) /\ LastOK(state) /\ StateNext(state)
    BY <1>6, ThenInfo DEF BrowserFieldPlugin
  <2> DEFINE alternative(e) ==
               IF e.to = Ignored THEN Ignored
               ELSE Resolving(WithPath(WithTarget(Info, e.to), Item.dir))
  <2>2. \A e : AlternativeOK(alternative(e))
    BY <2>1, InfoOf, Alternatives
  <2>3. \A s : ListOK([k \in 1..Len(s) |-> alternative(s[k])])
    <3> HIDE DEF alternative
    <3> QED
      BY <2>2 DEF ListOK
  <2>4. Return(state) \/ \E s : Goto(state, Attempt([k \in 1..Len(s) |-> alternative(s[k])],
                                                     "off", state))
    BY <1>6 DEF BrowserFieldPlugin, Map
  <2> HIDE DEF alternative
  <2> QED
    BY <1>0, <2>1, <2>3, <2>4, LinkKeeps
<1>7. CASE ExportsFieldPlugin
  <2>1. /\ Doing("exports") /\ IsInfo(Info) /\ StateNext(state)
        /\ StateNext(Error("Exports")) /\ StateNext(Failed(Info)) /\ LastOK(Failed(Info))
    BY <1>7, ThenInfo, StatesOK, Alternatives DEF ExportsFieldPlugin
  <2> DEFINE alternative(t) == IF t.kind = "relative" /\ ~LeadsOut(t.names)
                               THEN Resolving(At(Item.dir, t)) ELSE Error("Exports")
  <2>2. \A t : AlternativeOK(alternative(t))
    BY Alternatives DEF IsInfo, At
  <2>3. \A s : ListOK([k \in 1..Len(s) |-> alternative(s[k])])
    <3> HIDE DEF alternative
    <3> QED
      BY <2>2 DEF ListOK
  <2>4. \/ Return(state) \/ Return(Error("Exports")) \/ Return(Failed(Info))
        \/ \E s : Goto(state, Attempt([k \in 1..Len(s) |-> alternative(s[k])],
                                      "keep", Failed(Info)))
    BY <1>7 DEF ExportsFieldPlugin, Map
  <2> HIDE DEF alternative
  <2> QED
    BY <1>0, <2>1, <2>3, <2>4, LinkKeeps
<1>8. CASE MainFieldPlugin
  <2>1. Doing("mainField") /\ IsInfo(Info) /\ LastOK(state) /\ StateNext(state)
    BY <1>8, ThenInfo DEF MainFieldPlugin
  <2> DEFINE main(t) == Resolving(WithPath(WithTarget(Info, t), Resolved(Info)))
  <2>2. \A t : AlternativeOK(main(t))
    BY <2>1, InfoOf, Alternatives
  <2>3. \A s : ListOK([k \in 1..Len(s) |-> main(s[k])])
    <3> HIDE DEF main
    <3> QED
      BY <2>2 DEF ListOK
  <2>4. Return(state) \/ \E s : Goto(state, Attempt([k \in 1..Len(s) |-> main(s[k])],
                                                     "off", state))
    BY <1>8 DEF MainFieldPlugin, Map
  <2> HIDE DEF main
  <2> QED
    BY <1>0, <2>1, <2>3, <2>4, LinkKeeps
<1>9. CASE MainFilePlugin
  <2>1. Doing("mainFile") /\ IsInfo(Info) /\ LastOK(state) /\ StateNext(state)
    BY <1>9, ThenInfo DEF MainFilePlugin
  <2> DEFINE main(f) == Resolving(WithPath(WithTarget(Info, Req("relative", <<f>>)),
                                           Resolved(Info)))
  <2>2. \A f : AlternativeOK(main(f))
    BY <2>1, InfoOf, Alternatives
  <2>3. \A s : ListOK([k \in 1..Len(s) |-> main(s[k])])
    <3> HIDE DEF main
    <3> QED
      BY <2>2 DEF ListOK
  <2>4. \E s : Goto(state, Attempt([k \in 1..Len(s) |-> main(s[k])], "keep", state))
    BY <1>9 DEF MainFilePlugin, Map
  <2> HIDE DEF main
  <2> QED
    BY <1>0, <2>1, <2>3, <2>4, LinkKeeps
<1>10. CASE ExtensionAliasPlugin
  <2>1. /\ Doing("extensionAlias") /\ IsInfo(Info) /\ StateNext(state)
        /\ LastOK(Failed(Info))
    BY <1>10, ThenInfo, Alternatives DEF ExtensionAliasPlugin
  <2> DEFINE names == Info.req.names
             next(ext) == [names EXCEPT ![Len(names)] = Append(Front(@), ext)]
             file(ext) == Resolving(Use(Info, Resolved(WithTarget(Info,
                                      [Info.req EXCEPT !.names = next(ext)]))))
  <2>2. \A ext : AlternativeOK(file(ext))
    BY <2>1, UseOf, Alternatives
  <2>3. \A s : ListOK([k \in 1..Len(s) |-> file(s[k])])
    <3> HIDE DEF file
    <3> QED
      BY <2>2 DEF ListOK
  <2>4. Return(state) \/ \E s : Goto(state, Attempt([k \in 1..Len(s) |-> file(s[k])],
                                                     "on", Failed(Info)))
    BY <1>10 DEF ExtensionAliasPlugin, Map
  <2> HIDE DEF file
  <2> QED
    BY <1>0, <2>1, <2>3, <2>4, LinkKeeps
<1> QED
  BY <1>1, <1>2, <1>3, <1>4, <1>5, <1>6, <1>7, <1>8, <1>9, <1>10 DEF Plugins

\* Enter puts the links of one call on the chain, with the one that leaves it.
LEMMA EnterKeeps ==
  ASSUME CallInv, [Next]_vars, Enter
  PROVE  CallInv'
<1> DEFINE links == Thens(<<"parse", "alias", "preferRelative", "scope", "dispatch">>)
           leave == [step |-> "leave"]
           t == Tail(control)
           n == Cardinality(Opened(control))
<1>1. /\ Doing("enter") /\ StateNext(state) /\ state.tag = "Resolving"
      /\ UNCHANGED <<w, fully>> /\ depth' = depth + 1
  BY ThenInfo DEF Enter, Then
<1>2. /\ ChainOK(t) /\ IsSeq(t) /\ RestoredIn(t, fully, w.fully) /\ control # <<>>
      /\ Closing(t) /\ Len(t) > 1
  BY <1>1, DropHead, HeadLink, ClosingTail DEF CallInv, Item, Doing
<1>3. n \in Nat /\ Cardinality(Opened(t)) = n
  <2>1. n \in Nat
    BY <1>2, HeadLink, OpenedFinite
  <2>2. Cardinality(Opened(t)) = n - 0
    BY <1>1, <1>2, HeadLink, OpenedTail DEF Doing, Item
  <2> QED
    BY <2>1, <2>2
<1>4. depth = n
  BY <1>1, <1>3 DEF CallInv, Late, Error
<1> HIDE DEF t, n
<1>5. CASE state' = Error("Overflow") /\ control' = t
  <2>1. StateOK(w, state') /\ Late(state') = 1
    BY <1>5 DEF StateOK, Late, Error, Tags
  <2>2. ChainOK(control') /\ RestoredIn(control', fully', w'.fully) /\ Closing(control')
    BY <1>1, <1>2, <1>5
  <2>3. depth' = Cardinality(Opened(control')) + Late(state')
    BY <1>1, <1>3, <1>4, <1>5, <2>1
  <2> QED
    BY <1>1, <2>1, <2>2, <2>3 DEF CallInv
<1>6. CASE state' = state /\ control' = links \o (<<leave>> \o t)
  <2>1. Neutral(links)
    BY NeutralThens DEF Bare, ThenSteps
  <2>2. LinkOK(leave) /\ IsSeq(<<leave>>) /\ leave.step = "leave"
    BY DEF LinkOK, Steps, IsSeq
  <2>3. ChainOK(<<leave>> \o t) /\ RestoredIn(<<leave>> \o t, fully, w.fully)
    BY <1>2, <2>2, PrependLeave DEF leave
  <2>4. Cardinality(Opened(<<leave>> \o t)) = n + 1
    BY <1>2, <1>3, <2>2, OpenedLink
  <2> HIDE DEF links, leave
  <2>5. ChainOK(control') /\ RestoredIn(control', fully', w'.fully)
    BY <1>1, <1>6, <2>1, <2>3, PrependNeutral
  <2>6. Cardinality(Opened(control')) = n + 1
    <3>1. Cardinality(Opened(links)) = 0
      BY <2>1, OpenedNone DEF Neutral, GoodLink
    <3>2. IsSeq(links) /\ IsSeq(<<leave>> \o t)
      BY <2>1, <2>3 DEF Neutral, ChainOK
    <3> QED
      BY <1>3, <1>6, <2>4, <3>1, <3>2, OpenedConcat
  <2>7. StateOK(w, state') /\ Late(state') = 0
    BY <1>1, <1>6 DEF StateNext, Late, Error
  <2>8. depth' = Cardinality(Opened(control')) + Late(state')
    BY <1>1, <1>3, <1>4, <2>6, <2>7
  <2>9. Closing(control')
    <3>1. \A k \in DOMAIN <<leave>> : <<leave>>[k].step \notin {"symlink", "resource"}
      BY <2>2
    <3>2. Closing(<<leave>> \o t) /\ Len(<<leave>> \o t) > 1
      BY <1>2, <2>2, <3>1, ClosingBehind
    <3> QED
      BY <1>6, <2>1, <3>2, ClosingBehind DEF Neutral, GoodLink
  <2> QED
    BY <1>1, <2>5, <2>7, <2>8, <2>9 DEF CallInv
<1> DEFINE six == Thens(<<"parse", "alias", "preferRelative", "scope", "dispatch", "leave">>)
<1>7. six \o t = links \o (<<leave>> \o t)
  <2>1. six = links \o <<leave>>
    BY DEF Thens, Map
  <2>2. IsSeq(links) /\ IsSeq(<<leave>>)
    <3>1. Neutral(links)
      BY NeutralThens DEF Bare, ThenSteps
    <3> QED
      BY <3>1 DEF Neutral, IsSeq
  <2> HIDE DEF links, leave, six
  <2>3. (links \o <<leave>>) \o t = links \o (<<leave>> \o t)
    BY <1>2, <2>2, Reassociated
  <2> QED
    BY <2>1, <2>3
<1> QED
  BY <1>5, <1>6, <1>7 DEF Enter, t

LEMMA LeaveKeeps ==
  ASSUME CallInv, Leave
  PROVE  CallInv'
<1> DEFINE t == Tail(control)
<1>1. /\ control # <<>> /\ Item.step = "leave" /\ control' = t
      /\ UNCHANGED <<w, state, fully>> /\ depth' = depth - 1
  BY DEF Leave, Doing
<1>2. ChainOK(t) /\ RestoredIn(t, fully, w.fully) /\ Closing(t)
  BY <1>1, DropHead, HeadLink, ClosingTail DEF CallInv, Item
<1>3. Cardinality(Opened(t)) = Cardinality(Opened(control)) - 1
  BY <1>1, HeadLink, OpenedTail DEF Item
<1>4. Cardinality(Opened(control)) \in Nat /\ Late(state) \in Nat
  BY <1>1, HeadLink, OpenedFinite DEF Late
<1> HIDE DEF t
<1>5. depth' = Cardinality(Opened(control')) + Late(state')
  BY <1>1, <1>3, <1>4 DEF CallInv
<1>6. ChainOK(control') /\ RestoredIn(control', fully', w'.fully) /\ Closing(control')
  BY <1>1, <1>2
<1> QED
  BY <1>1, <1>5, <1>6 DEF CallInv

\* LoadFile finds a file.
LEMMA LoadFinds ==
  ASSUME CallInv, LoadFile
  PROVE  Return(state) \/ \E p : IsFile(p) /\ Return(Found(Info, p))
<1> DEFINE tried == IF w.enforceExtension THEN w.extensions ELSE <<"">> \o w.extensions
           hits == {k \in 1..Len(tried) : IsFile(Extend(Resolved(Info), tried[k]))}
<1>1. Len(tried) \in Nat
  <2>1. w.extensions \in Seq(Range(w.extensions))
    BY WorldAssumption DEF CallInv, IsSeq, Range
  <2> DEFINE e == w.extensions
             S == Range(e) \cup {""}
  <2>2. e \in Seq(Range(e)) /\ Range(e) \subseteq S
    BY <2>1
  <2>3. e \in Seq(S)
    <3> HIDE DEF e, S
    <3> QED
      BY <2>2, SeqMonotonic
  <2>4. <<"">> \in Seq(S) /\ Len(<<"">>) = 1
    OBVIOUS
  <2> HIDE DEF e, S
  <2>5. Len(e) \in Nat /\ Len(<<"">> \o e) \in Nat
    <3> DEFINE d == <<"">>
    <3>1. d \in Seq(S) /\ e \in Seq(S)
      BY <2>3, <2>4
    <3> HIDE DEF d
    <3>2. Len(e) \in Nat /\ Len(d \o e) \in Nat
      BY <3>1, LenProperties, ConcatProperties
    <3> QED
      BY <3>2 DEF d
  <2> QED
    BY <2>5 DEF e
<1>2. Return(state) \/ (hits # {} /\ Return(Found(Info, Extend(Resolved(Info), tried[Min(hits)]))))
  BY DEF LoadFile
<1> HIDE DEF tried
<1>3. hits # {} => Min(hits) \in hits
  <2>1. hits \in SUBSET Nat
    BY <1>1
  <2> HIDE DEF hits
  <2> SUFFICES ASSUME hits # {} PROVE Min(hits) \in hits
    OBVIOUS
  <2>2. \E k \in hits : \A j \in hits : k <= j
    BY <2>1, LeastNumber
  <2> QED
    BY <2>2 DEF Min
<1>4. \A k \in hits : IsFile(Extend(Resolved(Info), tried[k]))
  OBVIOUS
<1> HIDE DEF hits
<1> QED
  BY <1>2, <1>3, <1>4

LEMMA MethodsKeep ==
  ASSUME CallInv, Methods
  PROVE  CallInv'
<1>0. [Next]_vars
  BY DEF Next
<1>1. CASE Enter
  BY <1>0, <1>1, EnterKeeps
<1>2. CASE Leave
  BY <1>2, LeaveKeeps
<1>3. CASE Dispatch
  <2>1. Doing("dispatch") /\ IsInfo(Info) /\ StateNext(state)
    BY <1>3, ThenInfo DEF Dispatch
  <2>2. Neutral(Thens(<<"context", "fullySpecified", "file", "dir">>))
    BY NeutralThens DEF Bare, ThenSteps
  <2>3. \A rest, i : IsInfo(i) => Neutral(<< [step |-> "modules", rest |-> rest, info |-> i] >>)
    BY NeutralOne DEF GoodLink, LinkOK, Steps
  <2> QED
    BY <1>0, <1>3, <2>1, <2>2, <2>3, LinkKeeps DEF Dispatch
<1>4. CASE ResolveAsContext
  <2>1. Doing("context") /\ IsInfo(Info) /\ StateNext(state) /\ StateNext(Failed(Info))
    BY <1>4, ThenInfo, StatesOK DEF ResolveAsContext
  <2>2. w.toContext /\ IsDir(Resolved(Info)) =>
          StateNext(Success(At(Resolved(Info), Req("relative", <<>>))))
    BY DEF StateNext, StateOK, Success, Tags, IsInfo, At, Req, IsDir, Error
  <2> QED
    BY <1>0, <1>4, <2>1, <2>2, LinkKeeps DEF ResolveAsContext
<1>5. CASE ResolveAsFullySpecified
  <2> DEFINE p == Resolved(Info)
             package == WithPath(WithTarget(Info, Req("relative", <<Dot>>)), p)
  <2>1. /\ Doing("fullySpecified") /\ IsInfo(Info) /\ StateNext(state)
        /\ StateNext(Failed(Info)) /\ (IsFile(p) => StateNext(Found(Info, p)))
    BY <1>5, ThenInfo, StatesOK DEF ResolveAsFullySpecified
  <2>2. ListOK(<<Resolving(package)>>) /\ LastOK(Failed(package))
    BY <2>1, InfoOf, Alternatives
  <2>3. \/ Return(state) \/ Return(Failed(Info)) \/ (IsFile(p) /\ Return(Found(Info, p)))
        \/ Goto(state, Attempt(<<Resolving(package)>>, "off", Failed(package)))
    BY <1>5 DEF ResolveAsFullySpecified
  <2> HIDE DEF p, package
  <2> QED
    BY <1>0, <2>1, <2>2, <2>3, LinkKeeps
<1>6. CASE ResolveAsFile
  <2> DEFINE rows == Map(LAMBDA r : [step |-> "extensionAlias", row |-> r],
                         w.extensionAlias)
             n == Len(w.extensionAlias)
  <2>1. n \in Nat
    BY WorldAssumption DEF CallInv
  <2>2. rows = [k \in 1..n |-> [step |-> "extensionAlias",
                                row |-> w.extensionAlias[k]]]
    BY DEF Map
  <2>3. /\ Doing("file") /\ StateNext(state)
        /\ Return(state) \/ Goto(state, rows \o Thens(<<"load">>))
    BY <1>6, ThenInfo DEF ResolveAsFile
  <2> HIDE DEF rows, n
  <2>4. \A k \in 1..n : GoodLink(rows[k])
    BY <2>2, BareLink DEF Bare, ThenSteps
  <2>5. Neutral(rows)
    BY <2>1, <2>2, <2>4, NeutralMap
  <2>6. Neutral(Thens(<<"load">>))
    BY NeutralThens DEF Bare, ThenSteps
  <2>7. Neutral(rows \o Thens(<<"load">>))
    BY <2>5, <2>6, NeutralConcat
  <2> QED
    BY <1>0, <2>3, <2>7, LinkKeeps
<1>7. CASE LoadFile
  <2>1. Doing("load") /\ IsInfo(Info) /\ StateNext(state)
    BY <1>7, ThenInfo DEF LoadFile
  <2> QED
    BY <1>0, <1>7, <2>1, LoadFinds, StatesOK, LinkKeeps
<1>8. CASE ResolveAsDir
  <2>1. /\ Doing("dir") /\ StateNext(state) /\ StateNext(Failed(Info))
        /\ StateNext(Error("Json"))
    BY <1>8, ThenInfo, StatesOK DEF ResolveAsDir
  <2>2. Neutral(Thens(<<"mainFile">>)) /\ Neutral(<<>>)
    BY NeutralThens, NeutralEmpty DEF Bare, ThenSteps
  <2>3. \A dir : Neutral(<< [step |-> "mainField", dir |-> dir] >>)
    BY NeutralOne, BareLink DEF Bare, ThenSteps
  <2>4. /\ Neutral(<<>> \o Thens(<<"mainFile">>))
        /\ \A dir : Neutral(<< [step |-> "mainField", dir |-> dir] >> \o Thens(<<"mainFile">>))
    BY <2>2, <2>3, NeutralConcat
  <2> QED
    BY <1>0, <1>8, <2>1, <2>4, LinkKeeps DEF ResolveAsDir
<1>9. CASE ResolveAsModules
  <2>1. Doing("modules") /\ IsInfo(Item.info)
    BY <1>9, HeadLink DEF ResolveAsModules, Doing, LinkOK
  <2>2. StateNext(state) /\ StateNext(Failed(Item.info)) /\ StateNext(Resolving(Item.info))
    BY <2>1, StatesOK
  <2>3. \A x, y : /\ Neutral(<< [step |-> "inModules", from |-> x, folder |-> y] >>)
                  /\ Neutral(<< [step |-> "findUp", to |-> x] >>)
    BY NeutralOne, BareLink DEF Bare, ThenSteps
  <2>4. \A x, i : IsInfo(i) => Neutral(<< [step |-> "modules", rest |-> x, info |-> i] >>)
    BY NeutralOne DEF GoodLink, LinkOK, Steps
  <2> DEFINE first(x, y) == << [step |-> "inModules", from |-> x, folder |-> y] >>
             up(x) == << [step |-> "findUp", to |-> x] >>
             more(x) == << [step |-> "modules", rest |-> x, info |-> Item.info] >>
  <2>5. \/ Return(state) \/ Return(Failed(Item.info))
        \/ \E x, y, z : \/ Goto(Resolving(Item.info), first(x, y) \o <<>> \o more(z))
                        \/ \E u : Goto(Resolving(Item.info), first(x, y) \o up(u) \o more(z))
    BY <1>9 DEF ResolveAsModules
  <2>6. \A x, y, z, u : Neutral(first(x, y)) /\ Neutral(up(u)) /\ Neutral(more(z))
    BY <2>1, <2>3, <2>4
  <2> HIDE DEF first, up, more
  <2>7. \A x, y, z, u : /\ Neutral(first(x, y) \o <<>> \o more(z))
                        /\ Neutral(first(x, y) \o up(u) \o more(z))
    BY <2>6, NeutralConcat, NeutralEmpty
  <2> QED
    BY <1>0, <2>1, <2>2, <2>5, <2>7, LinkKeeps
<1>10. CASE FindUp
  <2>1. Doing("findUp") /\ \A p : StateNext(Resolving(WithPath(Info, p)))
    BY <1>10, ThenInfo, StatesOK, InfoOf DEF FindUp
  <2>2. Neutral(Thens(<<"enter">>))
    BY NeutralThens DEF Bare, ThenSteps
  <2> QED
    BY <1>0, <1>10, <2>1, <2>2, LinkKeeps DEF FindUp
<1>11. CASE InModules
  <2>1. Doing("inModules") /\ StateNext(state) /\ StateNext(Error("Json"))
    BY <1>11, ThenInfo, StatesOK DEF InModules
  <2> DEFINE module(x, y) == << [step |-> "module", from |-> x, folder |-> y] >>
             self(x) == << [step |-> "self", dir |-> x] >>
  <2>2. \A x, y : Neutral(module(x, y)) /\ Neutral(self(x))
    BY NeutralOne, BareLink DEF Bare, ThenSteps
  <2>3. \/ Return(state) \/ Return(Error("Json"))
        \/ \E x, y : Goto(state, module(x, y) \o <<>>)
        \/ \E x, y, z : Goto(state, module(x, y) \o self(z))
        \/ Goto(state, <<>>) \/ \E z : Goto(state, self(z))
    BY <1>11 DEF InModules
  <2> HIDE DEF module, self
  <2>4. \A x, y, z : /\ Neutral(module(x, y) \o <<>>) /\ Neutral(module(x, y) \o self(z))
                     /\ Neutral(<<>>)
    BY <2>2, NeutralEmpty, NeutralConcat
  <2> QED
    BY <1>0, <2>1, <2>2, <2>3, <2>4, LinkKeeps
<1>12. CASE ResolveSelf
  <2>1. Doing("self") /\ StateNext(state)
    BY <1>12, ThenInfo DEF ResolveSelf
  <2>2. \A dir : Neutral(<< [step |-> "exports", dir |-> dir] >>)
    BY NeutralOne, BareLink DEF Bare, ThenSteps
  <2> QED
    BY <1>0, <1>12, <2>1, <2>2, LinkKeeps DEF ResolveSelf
<1>13. CASE ResolveNodeModules
  <2> DEFINE own(dir) == << [step |-> "exports", dir |-> dir] >>
             fields(dir) == << [step |-> "imports", dir |-> dir],
                               [step |-> "mainField", dir |-> dir],
                               [step |-> "browser", dir |-> dir, self |-> TRUE] >>
             rest == Thens(<<"context", "fullySpecified", "file", "dir",
                             "unlessFailed">>)
             unless(i) == << [step |-> "unlessFile", info |-> i] >>
             inFolder == Resolving(WithPath(Info, Item.folder))
  <2>1. /\ Doing("module") /\ IsInfo(Info) /\ StateNext(Error("Json"))
        /\ StateNext(inFolder)
    BY <1>13, ThenInfo, StatesOK, InfoOf DEF ResolveNodeModules
  <2>2. \A dir : Neutral(own(dir)) /\ Neutral(fields(dir))
    BY NeutralOne, NeutralThree, BareLink DEF Bare, ThenSteps
  <2>3. Neutral(unless(Info))
    BY <2>1, NeutralOne DEF GoodLink, LinkOK, Steps
  <2>4. Neutral(rest) /\ Neutral(Thens(<<"file">>)) /\ Neutral(<<>>)
    BY NeutralThens, NeutralEmpty DEF Bare, ThenSteps
  <2>5. \/ Return(Error("Json"))
        \/ Goto(inFolder, Thens(<<"file">>) \o unless(Info))
        \/ \E dir : \/ Goto(inFolder, (own(dir) \o fields(dir)) \o rest)
                    \/ Goto(inFolder, (<<>> \o fields(dir)) \o rest)
        \/ Goto(inFolder, <<>> \o rest)
    BY <1>13 DEF ResolveNodeModules
  <2> HIDE DEF own, fields, rest, unless, inFolder
  <2>6. \A dir : /\ Neutral((own(dir) \o fields(dir)) \o rest)
                 /\ Neutral((<<>> \o fields(dir)) \o rest)
                 /\ Neutral(<<>> \o rest)
    BY <2>2, <2>4, NeutralConcat
  <2>7. Neutral(Thens(<<"file">>) \o unless(Info))
    BY <2>3, <2>4, NeutralConcat
  <2> QED
    BY <1>0, <2>1, <2>5, <2>6, <2>7, LinkKeeps
<1>14. CASE UnlessFile
  <2>1. Doing("unlessFile") /\ IsInfo(Item.info)
    BY <1>14, HeadLink DEF UnlessFile, Doing, LinkOK
  <2>2. StateNext(state) /\ StateNext(Resolving(Item.info))
    BY <2>1, StatesOK
  <2> QED
    BY <1>0, <1>14, <2>1, <2>2, LinkKeeps DEF UnlessFile
<1>15. CASE UnlessFailed
  <2>1. StateNext(state) /\ (state.tag = "Failed" => StateNext(Resolving(Info)))
    BY StatesOK
  <2> QED
    BY <1>0, <1>15, <2>1, LinkKeeps DEF UnlessFailed
<1>16. CASE Fallback
  <2>1. Doing("fallback") /\ StateNext(state)
    BY <1>16, StatesOK DEF Fallback
  <2>2. state.tag = "Failed" =>
          /\ StateNext(Resolving(Info)) /\ LastOK(Resolving(Info))
          /\ ListOK(AliasTargets(w.fallback, Info))
    BY StatesOK, Alternatives, AliasList
  <2> QED
    BY <1>0, <1>16, <2>1, <2>2, LinkKeeps DEF Fallback
<1>17. CASE Symlink
  <2>1. Doing("symlink") /\ StateNext(state)
    BY <1>17, StatesOK DEF Symlink
  <2>2. ASSUME state.tag = "Success", Info.path \in DOMAIN w.real
        PROVE  StateNext(Success(WithPath(Info, w.real[Info.path])))
    <3> DEFINE i == WithPath(Info, w.real[Info.path])
    <3>0. IsInfo(Info)
      BY <2>2, StatesOK
    <3>1. IsInfo(i) /\ i.path = w.real[Info.path] /\ i.req = Info.req
      BY <3>0 DEF IsInfo, WithPath
    <3>2. /\ Info.path \in w.files => i.path \in w.files
          /\ Info.path \in w.dirs => i.path \in w.dirs
      <4>1. w \in Worlds
        BY DEF CallInv
      <4>2. \A p \in DOMAIN w.real :
              (p \in w.files => w.real[p] \in w.files) /\ (p \in w.dirs => w.real[p] \in w.dirs)
        BY <4>1, WorldAssumption
      <4>3. i.path = w.real[Info.path] /\ Info.path \in DOMAIN w.real
        BY <2>2, <3>1
      <4> HIDE DEF i
      <4> QED
        BY <4>2, <4>3
    <3>3. /\ Info.req.names = <<>>
          /\ Info.path \in w.files \/ (w.toContext /\ Info.path \in w.dirs)
      BY <2>2 DEF CallInv, StateOK, Info
    <3> HIDE DEF i
    <3>4. StateNext(Success(i))
      BY <3>1, <3>2, <3>3 DEF StateNext, StateOK, Success, Tags, Error
    <3> QED
      BY <3>4 DEF i
  <2> QED
    BY <1>0, <1>17, <2>1, <2>2, ReturnKeeps DEF Symlink, Doing
<1>18. CASE MakeResource
  <2>1. Doing("resource") /\ StateNext(state) /\ StateNext([tag |-> "Panic"])
    BY <1>18, StatesOK DEF MakeResource
  <2> QED
    BY <1>0, <1>18, <2>1, ReturnKeeps DEF MakeResource, Doing
<1> QED
  BY <1>1, <1>2, <1>3, <1>4, <1>5, <1>6, <1>7, <1>8, <1>9, <1>10, <1>11,
     <1>12, <1>13, <1>14, <1>15, <1>16, <1>17, <1>18 DEF Methods

LEMMA CallNext == CallInv /\ [Next]_vars => CallInv'
<1> SUFFICES ASSUME CallInv, [Next]_vars PROVE CallInv'
  OBVIOUS
<1>1. CASE Plugins
  BY <1>1, PluginsKeep
<1>2. CASE Methods
  BY <1>2, MethodsKeep
<1>3. CASE Skip
  <2>1. control # <<>> /\ Item.step \notin {"restore", "leave"} /\ Return(state)
    BY <1>3 DEF Skip, ThenSteps
  <2> QED
    BY <2>1, StatesOK, ReturnKeeps
<1>4. CASE NextAttempt
  BY <1>4, AttemptKeeps
<1>5. CASE RestoreFully
  <2>1. /\ control # <<>> /\ Item.step = "restore" /\ control' = Tail(control)
        /\ UNCHANGED <<w, state, depth>> /\ fully' = Item.fully
    BY <1>5 DEF RestoreFully, Doing
  <2>2. ChainOK(control') /\ RestoredIn(control', fully', w'.fully) /\ Closing(control')
    BY <2>1, DropHead, ClosingTail DEF CallInv, Item
  <2>3. fully' \in BOOLEAN
    BY <2>1, HeadLink DEF LinkOK
  <2>4. Cardinality(Opened(control')) = Cardinality(Opened(control))
    <3>1. Cardinality(Opened(Tail(control))) = Cardinality(Opened(control)) - 0
      BY <2>1, HeadLink, OpenedTail DEF Item
    <3>2. Cardinality(Opened(control)) \in Nat
      BY <2>1, HeadLink, OpenedFinite
    <3> QED
      BY <2>1, <3>1, <3>2
  <2> QED
    BY <2>1, <2>2, <2>3, <2>4 DEF CallInv
<1>6. CASE UNCHANGED vars
  BY <1>6 DEF vars, CallInv
<1> QED
  BY <1>1, <1>2, <1>3, <1>4, <1>5, <1>6 DEF Next

LEMMA CallHolds == Spec => [](CallInv /\ DepthInv)
  BY CallInit, CallNext, DepthInit, DepthNext, PTL DEF Spec

-----------------------------------------------------------------------------
\* Every state is a State and every link one of the chain's, whatever aliases,
\* fields and options say; depth is a number of calls that there may be.
THEOREM TypeOKHolds == Spec => []TypeOK
<1>1. CallInv /\ DepthInv => TypeOK
  <2> SUFFICES ASSUME CallInv, DepthInv PROVE TypeOK
    OBVIOUS
  <2>1. /\ IsSeq(control) /\ DOMAIN control = 1..Len(control)
        /\ Cardinality(Opened(control)) \in Nat
    BY OpenedFinite, Concatenated DEF CallInv, ChainOK
  <2>2. depth \in 0..MaxDepth
    BY <2>1, DepthAssumption DEF CallInv, DepthInv, OverflowIsFinal, Late
  <2> QED
    BY <2>1, <2>2 DEF CallInv, ChainOK, LinkOK, StateOK, TypeOK
<1> QED
  BY <1>1, CallHolds, PTL

\* However the plugins nest, fully_specified is what the options say when
\* the last of them has returned.
THEOREM FullyRestoredHolds == Spec => []FullyRestored
<1>1. CallInv => FullyRestored
  BY DEF CallInv, RestoredIn, FullyRestored
<1> QED
  BY <1>1, CallHolds, PTL

\* Context::depth is the number of calls of _resolve that are open, one more
\* after an overflow: what is entered is left, on every way back.
THEOREM DepthMatchesHolds == Spec => []DepthMatches
<1>1. CallInv => DepthMatches
  <2> SUFFICES ASSUME CallInv PROVE DepthMatches
    OBVIOUS
  <2>1. Cardinality(Opened(control)) \in Nat
    BY OpenedFinite DEF CallInv, ChainOK
  <2> QED
    BY <2>1 DEF CallInv, DepthMatches, Opened, Late
<1> QED
  BY <1>1, CallHolds, PTL

\* Unless a context is asked for, every success of every call is a file, if the
\* real path of a file is one (WorldAssumption).
THEOREM ResultIsFileHolds == Spec => []ResultIsFile
<1>1. CallInv => ResultIsFile
  BY DEF CallInv, StateOK, ResultIsFile, IsFile, Info
<1> QED
  BY <1>1, CallHolds, PTL

\* symlink.rs never gets a success with a target, in any call.
THEOREM TargetUsedUpHolds == Spec => []TargetUsedUp
<1>1. CallInv => TargetUsedUp
  BY DEF CallInv, StateOK, TargetUsedUp, Info
<1> QED
  BY <1>1, CallHolds, PTL
-----------------------------------------------------------------------------
(* From the request to its description *)

\* The links between the beginning of _resolve and PackageScope.
Way == <<"parse", "alias", "preferRelative", "scope">>
OnWay(c, k) ==
  Len(c) >= 5 - k /\ \A j \in k..4 : c[j - k + 1].step = Way[j]

\* A loop without alternatives.
Empty(l, last) ==
  l.step = "attempt" /\ l.next = 1 /\ DOMAIN l.list = {} /\ l.last = last

\* Nothing turns a request aside that no option rewrites.
Straight ==
  /\ state = Resolving(At(w.from, w.request))
  /\ control # <<>>
  /\ \/ Item.step = "enter"
     \/ \E k \in 1..4 : OnWay(control, k)
     \/ Empty(Item, state) /\ \E k \in 2..4 : OnWay(Tail(control), k)

BrokenInv == Broken => state.tag = "Error" \/ Straight

LEMMA WayHead ==
  ASSUME NEW c, IsSeq(c), NEW k \in 1..4, OnWay(c, k)
  PROVE  /\ c # <<>> /\ Head(c).step = Way[k]
         /\ k < 4 => OnWay(Tail(c), k + 1)
<1>1. Len(c) \in Nat /\ Len(c) >= 5 - k /\ c[1].step = Way[k]
  <2>1. Len(c) \in Nat
    BY Concatenated
  <2>2. k \in k..4 /\ k - k + 1 = 1
    OBVIOUS
  <2> QED
    BY <2>1, <2>2 DEF OnWay
<1>2. c # <<>>
  BY <1>1
<1>3. /\ IsSeq(Tail(c)) /\ DOMAIN Tail(c) = 1..(Len(c) - 1)
      /\ \A j \in 1..(Len(c) - 1) : Tail(c)[j] = c[j + 1]
      /\ Head(c) = c[1]
  BY <1>2, Tailed
<1>4. Len(Tail(c)) = Len(c) - 1
  <2>1. Len(Tail(c)) \in Nat /\ DOMAIN Tail(c) = 1..Len(Tail(c))
    BY <1>3, Concatenated
  <2> QED
    BY <1>1, <1>3, <2>1
<1>5. ASSUME k < 4, NEW j \in (k + 1)..4
      PROVE  Tail(c)[j - (k + 1) + 1].step = Way[j]
  <2>1. /\ j - (k + 1) + 1 \in 1..(Len(c) - 1) /\ j \in k..4
        /\ j - (k + 1) + 1 + 1 = j - k + 1
    BY <1>1, <1>5
  <2> QED
    BY <1>3, <2>1 DEF OnWay
<1>6. ASSUME k < 4
      PROVE  OnWay(Tail(c), k + 1)
  <2>1. Len(Tail(c)) >= 5 - (k + 1)
    BY <1>1, <1>4
  <2> QED
    BY <1>5, <1>6, <2>1 DEF OnWay
<1>7. Head(c).step = Way[k]
  BY <1>1, <1>3
<1> QED
  BY <1>2, <1>6, <1>7

\* Only its own action handles one of these links.
LEMMA WayActions ==
  ASSUME Next, control # <<>>, state.tag = "Resolving"
  PROVE  /\ Item.step = "enter" => Enter
         /\ Item.step = "parse" => ParsePlugin
         /\ Item.step = "alias" => AliasPlugin
         /\ Item.step = "preferRelative" => PreferRelativePlugin
         /\ Item.step = "scope" => PackageScope
         /\ Item.step = "attempt" => NextAttempt
<1> DEFINE early == {"enter", "parse", "alias", "preferRelative", "scope", "attempt"}
<1>1. ~Skip
  BY DEF Skip
<1>2. Plugins /\ Item.step \in early =>
        ParsePlugin \/ AliasPlugin \/ PreferRelativePlugin \/ PackageScope
  BY DEF Plugins, ImportsFieldPlugin, BrowserFieldPlugin, ExportsFieldPlugin,
     MainFieldPlugin, MainFilePlugin, ExtensionAliasPlugin, Then, Doing
<1>3. Methods /\ Item.step \in early => Enter
  BY DEF Methods, Leave, Dispatch, ResolveAsContext, ResolveAsFullySpecified,
     ResolveAsFile, LoadFile, ResolveAsDir, ResolveAsModules, FindUp, InModules,
     ResolveSelf, ResolveNodeModules, UnlessFile, UnlessFailed, Fallback, Symlink,
     MakeResource, Then, Doing
<1>4. RestoreFully => Item.step \notin early
  BY DEF RestoreFully, Doing
<1> QED
  BY <1>1, <1>2, <1>3, <1>4 DEF Next, Enter, ParsePlugin, AliasPlugin,
     PreferRelativePlugin, PackageScope, NextAttempt, Then, Doing

\* A table without entries has no alternatives.
LEMMA NoTargets ==
  ASSUME NEW i
  PROVE  DOMAIN AliasTargets(<<>>, i) = {}
<1>1. ASSUME NEW F(_)
      PROVE  Map(F, <<>>) = <<>>
  BY DEF Map
<1> QED
  BY DEF AliasTargets, Selected, Map, FlattenSeq

\* A link of the way that has nothing to try hands the request on.
LEMMA OnToNext ==
  ASSUME CallInv, BrokenInv, Straight, NEW k \in 1..3, OnWay(control, k),
         NEW list, DOMAIN list = {}, NEW mode, Goto(state, Attempt(list, mode, state))
  PROVE  Straight'
<1>1. IsSeq(control)
  BY DEF CallInv, ChainOK
<1>2. OnWay(Tail(control), k + 1) /\ k + 1 \in 2..4 /\ IsSeq(Tail(control))
  BY <1>1, WayHead, Tailed
<1> DEFINE l == [step |-> "attempt", list |-> list, next |-> 1, mode |-> mode, last |-> state]
           t == Tail(control)
<1>3. control' = <<l>> \o t /\ state' = state /\ w' = w
  BY DEF Goto, Attempt, AttemptFrom
<1>4. Empty(l, state)
  BY DEF Empty
<1> DEFINE c == control'
<1> HIDE DEF l, t
<1>5. c # <<>> /\ Head(c) = l /\ Tail(c) = t
  <2>1. IsSeq(<<l>>) /\ Len(<<l>>) = 1
    BY DEF IsSeq
  <2>2. IsSeq(t)
    BY <1>2 DEF t
  <2> QED
    BY <1>3, <2>1, <2>2 DEF IsSeq
<1>6. Empty(Head(c), state) /\ OnWay(Tail(c), k + 1)
  BY <1>2, <1>4, <1>5 DEF t
<1> QED
  BY <1>2, <1>3, <1>5, <1>6 DEF Straight, Item

LEMMA WorldStays == [Next]_vars => w' = w
  BY DEF Next, vars, Plugins, Methods, ParsePlugin, AliasPlugin,
    PreferRelativePlugin, PackageScope,
    ImportsFieldPlugin, BrowserFieldPlugin, ExportsFieldPlugin, MainFieldPlugin,
    MainFilePlugin, ExtensionAliasPlugin, Enter, Leave, Dispatch,
    ResolveAsContext, ResolveAsFullySpecified, ResolveAsFile, LoadFile,
    ResolveAsDir, ResolveAsModules, FindUp, InModules, ResolveSelf,
    ResolveNodeModules, UnlessFile, UnlessFailed, Fallback, Symlink,
    MakeResource, Skip, NextAttempt, RestoreFully, Return, Goto, Nested

\* A description that does not parse stays one.
LEMMA BrokenStays ==
  ASSUME w' = w
  PROVE  Broken' = Broken
<1>1. \A p : PkgDirs(p)' = PkgDirs(p)
  BY DEF PkgDirs
<1>2. \A p : HasPkg(p)' = HasPkg(p) /\ PkgDir(p)' = PkgDir(p)
  BY <1>1 DEF HasPkg, PkgDir
<1>3. \A p : PkgFails(p)' = PkgFails(p)
  BY <1>2 DEF PkgFails
<1> DEFINE p == Resolved(At(w.from, w.request))
<1>4. p' = p
  BY DEF Resolved, At
<1> HIDE DEF p
<1> QED
  BY <1>3, <1>4 DEF Broken, p

LEMMA BrokenNext ==
  ASSUME CallInv, BrokenInv, [Next]_vars
  PROVE  BrokenInv'
<1>1. w' = w
  BY WorldStays
<1>2. SUFFICES ASSUME Broken PROVE (state.tag = "Error")' \/ Straight'
  BY <1>1, BrokenStays DEF BrokenInv
<1>3. CASE state.tag = "Error"
  BY <1>3, ErrorStep
<1>4. CASE UNCHANGED vars
  BY <1>2, <1>4 DEF vars, BrokenInv, Straight, Item
<1>5. ASSUME Straight, Next
      PROVE  (state.tag = "Error")' \/ Straight'
  <2> DEFINE i == At(w.from, w.request)
  <2>1. /\ control # <<>> /\ state = Resolving(i) /\ state.tag = "Resolving" /\ Info = i
        /\ i.path = w.from /\ i.req = w.request /\ IsSeq(control)
    BY <1>5 DEF Straight, Resolving, At, Info, CallInv, ChainOK
  <2>2. CASE Item.step = "enter"
    <3>1. Enter
      BY <1>5, <2>1, <2>2, WayActions
    <3>2. CASE depth + 1 >= MaxDepth
      BY <3>1, <3>2 DEF Enter, Error
    <3>3. CASE ~(depth + 1 >= MaxDepth)
      <4> DEFINE new == Thens(<<"parse", "alias", "preferRelative", "scope", "dispatch", "leave">>)
                 t == Tail(control)
      <4>1. state' = state /\ control' = new \o t
        BY <3>1, <3>3 DEF Enter
      <4>2. IsSeq(new) /\ Len(new) = 6 /\ \A j \in 1..4 : new[j].step = Way[j]
        BY DEF Thens, Map, IsSeq, Way
      <4>3. IsSeq(t)
        BY <2>1, Tailed
      <4> DEFINE c == control'
      <4> HIDE DEF new, t
      <4>4. IsSeq(c) /\ Len(c) >= 6 /\ \A j \in 1..4 : c[j].step = Way[j]
        <5>1. /\ IsSeq(c) /\ Len(c) = 6 + Len(t) /\ Len(t) \in Nat
              /\ \A j \in 1..6 : c[j] = new[j]
          <6>1. IsSeq(new) /\ IsSeq(t) /\ Len(new) = 6
            BY <4>2, <4>3
          <6>2. /\ IsSeq(new \o t) /\ Len(t) \in Nat
                /\ DOMAIN (new \o t) = 1..(6 + Len(t))
                /\ \A j \in 1..6 : (new \o t)[j] = new[j]
            <7>1. /\ IsSeq(new \o t) /\ Len(t) \in Nat
                  /\ DOMAIN (new \o t) = 1..(Len(new) + Len(t))
              BY <6>1, Concatenated
            <7>2. Begins(new, new \o t)
              BY <6>1, BeginsJoined
            <7> QED
              BY <6>1, <7>1, <7>2 DEF Begins
          <6>3. Len(new \o t) \in Nat /\ DOMAIN (new \o t) = 1..Len(new \o t)
            BY <6>2, Concatenated
          <6>4. Len(new \o t) = 6 + Len(t)
            BY <6>2, <6>3
          <6> QED
            BY <4>1, <6>2, <6>4 DEF c
        <5> QED
          BY <4>2, <5>1
      <4> HIDE DEF c
      <4>5. OnWay(c, 1) /\ c # <<>>
        <5>1. \A j \in 1..4 : j - 1 + 1 = j
          OBVIOUS
        <5> QED
          BY <4>4, <5>1 DEF OnWay
      <4> QED
        BY <1>1, <2>1, <4>1, <4>5 DEF Straight, c
    <3> QED
      BY <3>2, <3>3
  <2>3. ASSUME NEW k \in 1..4, OnWay(control, k)
        PROVE  (state.tag = "Error")' \/ Straight'
    <3>1. Item.step = Way[k]
      BY <2>1, <2>3, WayHead DEF Item
    <3>2. CASE k = 1
      <4>1. ParsePlugin
        BY <1>5, <2>1, <3>1, <3>2, WayActions DEF Way
      <4> DEFINE none == <<>>
      <4>2. Goto(state, Attempt(none, "keep", state))
        BY <1>2, <2>1, <4>1 DEF ParsePlugin, Broken
      <4>3. DOMAIN none = {}
        OBVIOUS
      <4> QED
        BY <1>5, <2>3, <3>2, <4>2, <4>3, OnToNext
    <3>3. CASE k = 2
      <4>1. AliasPlugin
        BY <1>5, <2>1, <3>1, <3>3, WayActions DEF Way
      <4> DEFINE list == AliasTargets(w.alias, Info)
      <4>2. Goto(state, Attempt(list, "off", state))
        BY <4>1 DEF AliasPlugin
      <4>3. DOMAIN list = {}
        BY <1>2, NoTargets DEF Broken
      <4> QED
        BY <1>5, <2>3, <3>3, <4>2, <4>3, OnToNext
    <3>4. CASE k = 3
      <4>1. PreferRelativePlugin
        BY <1>5, <2>1, <3>1, <3>4, WayActions DEF Way
      <4> DEFINE none == <<>>
      <4>2. Goto(state, Attempt(none, "keep", state))
        BY <1>2, <4>1 DEF PreferRelativePlugin, Broken
      <4>3. DOMAIN none = {}
        OBVIOUS
      <4> QED
        BY <1>5, <2>3, <3>4, <4>2, <4>3, OnToNext
    <3>5. CASE k = 4
      <4>1. PackageScope
        BY <1>5, <2>1, <3>1, <3>5, WayActions DEF Way
      <4>2. PkgFails(Resolved(Info))
        BY <1>2, <2>1 DEF Broken
      <4>3. state' = Error("Json")
        BY <4>1, <4>2 DEF PackageScope, Return, Goto
      <4> QED
        BY <4>3 DEF Error
    <3> QED
      BY <3>2, <3>3, <3>4, <3>5
  <2>4. ASSUME Empty(Item, state), NEW k \in 2..4, OnWay(Tail(control), k)
        PROVE  Straight'
    <3>1. NextAttempt /\ ~HasNext /\ Item.last = state
      BY <1>5, <2>1, <2>4, WayActions DEF Empty, HasNext
    <3>2. state' = state /\ control' = <<>> \o Tail(control) /\ w' = w
      BY <1>1, <2>1, <3>1 DEF NextAttempt, IsFinished, Return, Goto
    <3>3. control' = Tail(control) /\ control' # <<>>
      <4>1. IsSeq(Tail(control)) /\ Tail(control) # <<>>
        <5>1. IsSeq(Tail(control)) /\ k \in 1..4
          BY <2>1, Tailed
        <5> QED
          BY <2>4, <5>1, WayHead
      <4> QED
        BY <3>2, <4>1 DEF IsSeq
    <3> QED
      BY <2>1, <2>4, <3>2, <3>3 DEF Straight
  <2> QED
    BY <1>5, <2>2, <2>3, <2>4 DEF Straight
<1> QED
  BY <1>2, <1>3, <1>4, <1>5 DEF BrokenInv

LEMMA BrokenInit == Init => BrokenInv
  BY DEF Init, BrokenInv, Straight, Item, Thens, Map

\* A description of the requested path that does not parse is the answer,
\* whatever else the options would find.
THEOREM BrokenIsErrorHolds == Spec => []BrokenIsError
<1>1. CallInv /\ BrokenInv => BrokenIsError
  BY DEF BrokenInv, BrokenIsError, Straight, Done
<1> QED
  BY <1>1, CallHolds, BrokenInit, BrokenNext, CallInit, CallNext, PTL DEF Spec

-----------------------------------------------------------------------------
\* The answer of a search: what the first of its tries that ends it says.
\* A list of tries may be taken apart: Ends of a concatenation is Ends of its
\* first part, with Ends of the rest for what comes after.

\* The end of a search: the first try of A that ends it, or what comes after.
Hits(A) == {k \in 1..Len(A) : IsHit(A[k])}
Ends(A, x) == IF Hits(A) = {} THEN x ELSE A[Min(Hits(A))]

\* First is Ends with nothing after it.
LEMMA FirstEnds == \A A : First(A) = Ends(A, Nothing)
  BY DEF First, Ends, Hits

\* Without a try there is only what comes after.
LEMMA EndsNone == \A x : Ends(<<>>, x) = x
  BY DEF Ends, Hits

\* The least member of a set of numbers.
LEMMA MinOf ==
  ASSUME NEW H \in SUBSET Nat, H # {}
  PROVE  Min(H) \in H /\ \A k \in H : Min(H) <= k
<1>1. \E m \in H : \A k \in H : m <= k
  BY LeastNumber
<1> QED
  BY <1>1 DEF Min

LEMMA MinIs ==
  ASSUME NEW H \in SUBSET Nat, NEW m \in H, \A k \in H : m <= k
  PROVE  Min(H) = m
<1>1. Min(H) \in H /\ Min(H) <= m /\ m <= Min(H)
  BY MinOf
<1>2. \A a \in Nat, b \in Nat : a <= b /\ b <= a => a = b
  OBVIOUS
<1> QED
  BY <1>1, <1>2

\* A list that begins with B, without an end in it, goes on with what follows.
EndsThen(A, B, x) == Ends(A \o B, x) = Ends(A, Ends(B, x))
LEMMA EndsJoined ==
  ASSUME NEW A, NEW B, IsSeq(A), IsSeq(B), NEW x
  PROVE  EndsThen(A, B, x)
<1> DEFINE C == A \o B
           n == Len(A)
           m == Len(B)
<1>1. /\ n \in Nat /\ m \in Nat
      /\ DOMAIN C = 1..(n + m)
      /\ \A k \in 1..n : C[k] = A[k]
      /\ \A k \in 1..m : C[n + k] = B[k]
      /\ IsSeq(C)
  <2>1. IsSeq(C) /\ n \in Nat /\ m \in Nat /\ DOMAIN C = 1..(n + m)
    BY Concatenated
  <2>2. Begins(A, C)
    BY BeginsJoined
  <2>3. \A k \in 1..m : C[n + k] = B[k]
    BY Concatenated
  <2> QED
    BY <2>1, <2>2, <2>3 DEF Begins
<1>2. Len(C) = n + m
  <2>1. Len(C) \in Nat /\ DOMAIN C = 1..Len(C)
    BY <1>1, Concatenated
  <2> QED
    BY <1>1, <2>1
<1> HIDE DEF C, n, m
<1>3. Hits(A) \in SUBSET (1..n) /\ Hits(B) \in SUBSET (1..m) /\ Hits(C) \in SUBSET (1..(n + m))
  BY <1>2 DEF Hits, n, m
<1>4. \A k \in 1..n : k \in Hits(C) <=> k \in Hits(A)
  BY <1>1, <1>2 DEF Hits, n
<1>5. \A k \in 1..m : n + k \in Hits(C) <=> k \in Hits(B)
  <2>1. \A k \in 1..m : n + k \in 1..(n + m)
    BY <1>1
  <2> QED
    BY <1>1, <1>2, <2>1 DEF Hits, m
<1>6. \A k \in 1..(n + m) : k \in 1..n \/ (k - n \in 1..m /\ n + (k - n) = k)
  BY <1>1
<1>7. CASE Hits(A) # {}
  <2>1. Hits(A) \in SUBSET Nat /\ Hits(C) \in SUBSET Nat
    BY <1>1, <1>3
  <2> DEFINE a == Min(Hits(A))
  <2>2. a \in Hits(A) /\ \A k \in Hits(A) : a <= k
    BY <1>7, <2>1, MinOf
  <2> HIDE DEF a
  <2>3. a \in Hits(C) /\ a \in 1..n
    BY <1>3, <1>4, <2>2
  <2>4. \A k \in Hits(C) : a <= k
    <3>1. \A k \in Hits(C) : k \in Hits(A) \/ k > n
      BY <1>1, <1>3, <1>4
    <3> QED
      BY <1>1, <1>3, <2>2, <2>3, <3>1
  <2>5. Min(Hits(C)) = a
    BY <2>1, <2>3, <2>4, MinIs
  <2> QED
    BY <1>1, <1>7, <2>3, <2>5 DEF Ends, EndsThen, C, a
<1>8. CASE Hits(A) = {} /\ Hits(B) # {}
  <2>1. Hits(B) \in SUBSET Nat /\ Hits(C) \in SUBSET Nat
    BY <1>1, <1>3
  <2> DEFINE b == Min(Hits(B))
  <2>2. b \in Hits(B) /\ \A k \in Hits(B) : b <= k
    BY <1>8, <2>1, MinOf
  <2> HIDE DEF b
  <2>3. n + b \in Hits(C) /\ b \in 1..m
    BY <1>3, <1>5, <2>2
  <2>4. \A k \in Hits(C) : n + b <= k
    <3>1. \A k \in Hits(C) : k - n \in Hits(B)
      BY <1>3, <1>4, <1>5, <1>6, <1>8
    <3>2. \A k \in Hits(C) : b <= k - n
      BY <2>2, <3>1
    <3> QED
      BY <1>1, <1>3, <2>3, <3>2
  <2>5. Min(Hits(C)) = n + b
    BY <2>1, <2>3, <2>4, MinIs
  <2> QED
    BY <1>1, <1>8, <2>3, <2>5 DEF Ends, EndsThen, C, b
<1>9. CASE Hits(A) = {} /\ Hits(B) = {}
  <2>1. Hits(C) = {}
    BY <1>3, <1>4, <1>5, <1>6, <1>9
  <2> QED
    BY <1>9, <2>1 DEF Ends, EndsThen, C
<1> QED
  BY <1>7, <1>8, <1>9

\* A list of lists, one after the other.
Lists(ss) == IsSeq(ss) /\ \A k \in DOMAIN ss : IsSeq(ss[k])

LEMMA Flattened ==
  ASSUME NEW ss, Lists(ss)
  PROVE  /\ IsSeq(FlattenSeq(ss))
         /\ ss # <<>> => FlattenSeq(ss) = ss[1] \o FlattenSeq(Tail(ss))
<1> DEFINE R(s) == {s[k] : k \in DOMAIN s}
           S == UNION {R(ss[k]) : k \in DOMAIN ss}
<1>1. \A k \in DOMAIN ss : ss[k] \in Seq(R(ss[k])) /\ R(ss[k]) \subseteq S
  BY DEF Lists, IsSeq
<1> HIDE DEF R, S
<1>2. \A k \in DOMAIN ss : ss[k] \in Seq(S)
  <2>1. ASSUME NEW k \in DOMAIN ss
        PROVE  ss[k] \in Seq(S)
    BY <1>1, SeqMonotonic
  <2> QED
    BY <2>1
<1>3. ss \in Seq(Seq(S))
  <2> DEFINE T == {ss[k] : k \in DOMAIN ss}
  <2>1. ss \in Seq(T)
    BY DEF Lists, IsSeq
  <2>2. T \subseteq Seq(S)
    BY <1>2
  <2> HIDE DEF T
  <2> QED
    BY <2>1, <2>2, SeqMonotonic
<1>4. FlattenSeq(ss) \in Seq(S)
  BY <1>3, FlattenInSeq
<1>5. ASSUME ss # <<>>
      PROVE  FlattenSeq(ss) = ss[1] \o FlattenSeq(Tail(ss))
  <2>1. ss[1] \in Seq(S) /\ Tail(ss) \in Seq(Seq(S)) /\ ss = <<ss[1]>> \o Tail(ss)
    <3>1. Head(ss) = ss[1] /\ Head(ss) \in Seq(S) /\ Tail(ss) \in Seq(Seq(S))
      BY <1>3, <1>5
    <3>2. <<Head(ss)>> \o Tail(ss) = ss
      <4> DEFINE h == Head(ss)
                 t == Tail(ss)
                 d == <<h>> \o t
      <4>1. /\ Len(ss) \in Nat \ {0} /\ Len(t) = Len(ss) - 1 /\ h = ss[1]
            /\ \A k \in 1..(Len(ss) - 1) : t[k] = ss[k + 1]
        BY <1>3, <1>5
      <4>2. <<h>> \in Seq(Seq(S)) /\ t \in Seq(Seq(S)) /\ Len(<<h>>) = 1 /\ <<h>>[1] = h
        BY <3>1
      <4> DEFINE one == <<h>>
      <4> HIDE DEF one, t, h
      <4>3. /\ d \in Seq(Seq(S)) /\ Len(d) = 1 + Len(t)
            /\ \A k \in 1..(1 + Len(t)) : d[k] = IF k <= 1 THEN one[k] ELSE t[k - 1]
        BY <4>2, ConcatProperties DEF one
      <4> HIDE DEF d
      <4>4. \A k \in 1..Len(ss) : d[k] = ss[k]
        <5>1. \A k \in 1..Len(ss) : k = 1 \/ (k > 1 /\ k - 1 \in 1..(Len(ss) - 1) /\ k - 1 + 1 = k)
          BY <4>1
        <5>2. d[1] = ss[1]
          BY <4>1, <4>2, <4>3 DEF one
        <5>3. ASSUME NEW k \in 1..Len(ss), k > 1
              PROVE  d[k] = ss[k]
          <6>1. k \in 1..(1 + Len(t)) /\ ~(k <= 1) /\ k - 1 \in 1..(Len(ss) - 1)
            BY <4>1, <5>3
          <6>2. d[k] = t[k - 1] /\ t[k - 1] = ss[k - 1 + 1] /\ k - 1 + 1 = k
            BY <4>1, <4>3, <6>1
          <6> QED
            BY <6>2
        <5> QED
          BY <5>1, <5>2, <5>3
      <4> QED
        BY <1>3, <4>1, <4>3, <4>4, SeqEqual DEF d, h, t
    <3> QED
      BY <3>1, <3>2
  <2> DEFINE a == ss[1]
             b == Tail(ss)
  <2> HIDE DEF a, b
  <2>2. <<a>> \in Seq(Seq(S)) /\ b \in Seq(Seq(S))
    BY <2>1 DEF a, b
  <2>3. FlattenSeq(<<a>> \o b) = FlattenSeq(<<a>>) \o FlattenSeq(b)
    BY <2>2, FlattenConcat
  <2>4. FlattenSeq(<<a>>) = a
    BY <2>1, FlattenOne DEF a
  <2> QED
    BY <2>1, <2>3, <2>4 DEF a, b
<1> QED
  BY <1>4, <1>5, SeqIsSeq

-----------------------------------------------------------------------------
\* The tries of ResolvePromise as sequences: files, main fields, main files.

LEMMA SeqDomain ==
  ASSUME NEW s, IsSeq(s)
  PROVE  Len(s) \in Nat /\ DOMAIN s = 1..Len(s)
<1> DEFINE S == {s[k] : k \in DOMAIN s}
<1>1. s \in Seq(S)
  BY DEF IsSeq
<1> HIDE DEF S
<1> QED
  BY <1>1

\* What is put behind the name of a file.
Extensions == (IF w.enforceExtension THEN <<>> ELSE <<"">>) \o w.extensions

LEMMA ExtensionsIs ==
  ASSUME w \in Worlds
  PROVE  /\ IsSeq(Extensions)
         /\ Extensions = IF w.enforceExtension THEN w.extensions ELSE <<"">> \o w.extensions
<1>1. IsSeq(w.extensions)
  BY WorldAssumption
<1>2. IsSeq(<<"">>) /\ IsSeq(<<>>)
  <2>1. <<"">> \in Seq({""}) /\ <<>> \in Seq({""})
    OBVIOUS
  <2> QED
    BY <2>1, SeqIsSeq
<1>3. IsSeq(Extensions)
  BY <1>1, <1>2, Concatenated DEF Extensions
<1>4. <<>> \o w.extensions = w.extensions
  <2> DEFINE e == w.extensions
             S == {e[k] : k \in DOMAIN e}
  <2>1. e \in Seq(S)
    BY <1>1 DEF IsSeq
  <2> HIDE DEF e, S
  <2>2. <<>> \o e = e
    BY <2>1, ConcatEmptySeq
  <2> QED
    BY <2>2 DEF e
<1> QED
  BY <1>3, <1>4 DEF Extensions

\* The files of a name, one for each extension.
LEMMA FileTriesIs ==
  ASSUME w \in Worlds, NEW p
  PROVE  /\ IsSeq(FileTries(p)) /\ Len(FileTries(p)) = Len(Extensions)
         /\ FileTries(p) = [k \in 1..Len(Extensions) |-> File(Extend(p, Extensions[k]))]
<1>1. FileTries(p) = [k \in 1..Len(Extensions) |-> File(Extend(p, Extensions[k]))]
  BY DEF FileTries, Map, Extensions
<1>2. Len(Extensions) \in Nat
  BY ExtensionsIs, SeqDomain
<1> DEFINE f == FileTries(p)
           n == Len(Extensions)
<1>3. f = [k \in 1..n |-> f[k]] /\ n \in Nat
  BY <1>1, <1>2
<1> HIDE DEF f, n
<1>4. IsSeq(f) /\ Len(f) = n
  BY <1>3, ListIs
<1> QED
  BY <1>1, <1>4 DEF f, n

\* The main fields that are tried.
MainList(p) == Before(w.pkg[p].main, LAMBDA t : t.names = <<>>)

\* A sequence of targets up to the first that names nothing.
Stops(s) == {k \in 1..Len(s) : s[k].names = <<>>}
Cut(s) == SubSeq(s, 1, IF Stops(s) = {} THEN Len(s) ELSE Min(Stops(s)) - 1)

LEMMA CutIs ==
  ASSUME NEW s, IsSeq(s)
  PROVE  IsSeq(Cut(s)) /\ \A k \in DOMAIN Cut(s) : k \in DOMAIN s /\ Cut(s)[k] = s[k]
<1> DEFINE S == {s[k] : k \in DOMAIN s}
           n == IF Stops(s) = {} THEN Len(s) ELSE Min(Stops(s)) - 1
           b == SubSeq(s, 1, n)
<1>1. s \in Seq(S) /\ Len(s) \in Nat /\ DOMAIN s = 1..Len(s)
  BY SeqDomain DEF IsSeq
<1>2. Stops(s) # {} => Min(Stops(s)) \in 1..Len(s)
  <2>1. Stops(s) \in SUBSET Nat /\ Stops(s) \subseteq 1..Len(s)
    BY <1>1 DEF Stops
  <2> QED
    BY <2>1, MinOf
<1>3. n \in Int /\ n <= Len(s) /\ n >= 0
  BY <1>1, <1>2
<1> HIDE DEF n, S
<1>4. /\ b \in Seq(S) /\ Len(b) = IF 1 <= n THEN n - 1 + 1 ELSE 0
      /\ \A i \in 1..Len(b) : b[i] = s[1 + i - 1]
  <2>1. 1 \in Nat \ {0}
    OBVIOUS
  <2> QED
    BY <1>1, <1>3, <2>1, PartOf
<1> HIDE DEF b
<1>5. IsSeq(b) /\ DOMAIN b = 1..Len(b) /\ Len(b) = n
  <2>1. IsSeq(b)
    BY <1>4, SeqIsSeq
  <2>2. Len(b) = n
    BY <1>3, <1>4
  <2> QED
    BY <2>1, <2>2, SeqDomain
<1>6. \A k \in 1..n : 1 + k - 1 = k /\ k \in 1..Len(s)
  BY <1>1, <1>3
<1> QED
  BY <1>1, <1>4, <1>5, <1>6 DEF Cut, b, n

LEMMA MainListIs ==
  ASSUME w \in Worlds, Plain, NEW p \in DOMAIN w.pkg
  PROVE  /\ IsSeq(MainList(p))
         /\ \A k \in DOMAIN MainList(p) :
              /\ MainList(p)[k].kind = "relative"
              /\ DOMAIN MainList(p)[k] = {"kind", "names", "slash", "query", "frag"}
<1> DEFINE s == w.pkg[p].main
<1>1. IsSeq(s) /\ \A k \in DOMAIN s :
        s[k].kind = "relative" /\ DOMAIN s[k] = {"kind", "names", "slash", "query", "frag"}
  <2>1. w.pkg[p] # BadJson
    BY DEF Plain
  <2> QED
    BY <2>1, WorldAssumption
<1>2. MainList(p) = Cut(s)
  BY DEF MainList, Before, Cut, Stops
<1> HIDE DEF s
<1>3. IsSeq(Cut(s)) /\ \A k \in DOMAIN Cut(s) : k \in DOMAIN s /\ Cut(s)[k] = s[k]
  BY <1>1, CutIs
<1> QED
  BY <1>1, <1>2, <1>3

\* The places of a description's main fields.
LEMMA MainsIs ==
  ASSUME w \in Worlds, Plain, NEW p
  PROVE  /\ IsSeq(Mains(p))
         /\ p \notin DOMAIN w.pkg => Mains(p) = <<>>
         /\ p \in DOMAIN w.pkg =>
              /\ Len(Mains(p)) = Len(MainList(p))
              /\ Mains(p) = [k \in 1..Len(MainList(p)) |->
                               Place(Walk(p, MainList(p)[k].names), MainList(p)[k].slash)]
<1>1. CASE p \notin DOMAIN w.pkg
  BY <1>1 DEF Mains, IsSeq
<1>2. CASE p \in DOMAIN w.pkg
  <2>1. Mains(p) = [k \in 1..Len(MainList(p)) |->
                      Place(Walk(p, MainList(p)[k].names), MainList(p)[k].slash)]
    BY <1>2 DEF Mains, MainList, Map
  <2> DEFINE f == Mains(p)
             n == Len(MainList(p))
  <2>2. n \in Nat /\ f = [k \in 1..n |-> f[k]]
    BY <1>2, <2>1, MainListIs, SeqDomain
  <2> HIDE DEF f, n
  <2>3. IsSeq(f) /\ Len(f) = n
    BY <2>2, ListIs
  <2> QED
    BY <1>2, <2>1, <2>3 DEF f, n
<1> QED
  BY <1>1, <1>2

\* The places of the main files.
LEMMA IndexesIs ==
  ASSUME w \in Worlds, NEW p
  PROVE  /\ IsSeq(Indexes(p)) /\ Len(Indexes(p)) = Len(w.mainFiles)
         /\ Indexes(p) = [k \in 1..Len(w.mainFiles) |-> Place(Walk(p, <<w.mainFiles[k]>>), FALSE)]
<1>1. Indexes(p) = [k \in 1..Len(w.mainFiles) |-> Place(Walk(p, <<w.mainFiles[k]>>), FALSE)]
  BY DEF Indexes, Map
<1> DEFINE f == Indexes(p)
           n == Len(w.mainFiles)
<1>2. n \in Nat /\ f = [k \in 1..n |-> f[k]]
  BY <1>1, WorldAssumption, SeqDomain
<1> HIDE DEF f, n
<1>3. IsSeq(f) /\ Len(f) = n
  BY <1>2, ListIs
<1> QED
  BY <1>1, <1>3 DEF f, n

-----------------------------------------------------------------------------
\* Inside is defined by recursion on the calls that are left. Its equation
\* holds: the choice that a recursive function is has a function to choose.

\* Where a directory leads: by its main fields, then by its main files.
PlacesIn(p) == Mains(p) \o Indexes(p)

LEMMA PlacesInIs ==
  ASSUME w \in Worlds, Plain, NEW p
  PROVE  IsSeq(PlacesIn(p)) /\ Len(PlacesIn(p)) \in Nat
<1>1. IsSeq(Mains(p)) /\ IsSeq(Indexes(p))
  BY MainsIs, IndexesIs
<1>2. IsSeq(PlacesIn(p))
  BY <1>1, Concatenated DEF PlacesIn
<1> QED
  BY <1>2, SeqDomain

\* What one place of a directory, and a directory, may lead to.
FilesOf(p) == {FileTries(p)[k] : k \in DOMAIN FileTries(p)}
Reached ==
  {TooDeep} \cup
  UNION {FilesOf(PlacesIn(q[1])[q[2]].path) :
           q \in {q \in w.dirs \X Nat : q[2] \in 1..Len(PlacesIn(q[1]))}}
Held == [w.dirs -> Seq(Reached)]

\* What a directory holds, of the answers h for a call less.
Holds(h) ==
  [p \in w.dirs |->
     FlattenSeq([k \in 1..Len(PlacesIn(p)) |-> PlaceTries(PlacesIn(p)[k], h)])]
Deepest ==
  [p \in w.dirs |-> FlattenSeq([k \in 1..Len(PlacesIn(p)) |-> <<TooDeep>>])]

\* A place leads to files and directories that are counted in Reached.
LEMMA ReachedHolds ==
  ASSUME w \in Worlds, Plain, NEW p \in w.dirs, NEW k \in 1..Len(PlacesIn(p)), NEW h \in Held
  PROVE  PlaceTries(PlacesIn(p)[k], h) \in Seq(Reached) /\ <<TooDeep>> \in Seq(Reached)
<1> DEFINE l == PlacesIn(p)[k]
           F == FilesOf(l.path)
           a == IF l.slash THEN <<>> ELSE FileTries(l.path)
           b == IF IsDir(l.path) THEN h[l.path] ELSE <<>>
<1>1. F \subseteq Reached
  <2>1. <<p, k>> \in w.dirs \X Nat /\ <<p, k>>[1] = p /\ <<p, k>>[2] = k
    BY PlacesInIs
  <2> QED
    BY <2>1 DEF Reached
<1>2. a \in Seq(Reached)
  <2>1. FileTries(l.path) \in Seq(F)
    BY FileTriesIs DEF IsSeq, FilesOf
  <2> DEFINE f == FileTries(l.path)
  <2>2. f \in Seq(Reached)
    <3> HIDE DEF f, F
    <3> QED
      BY <1>1, <2>1, SeqMonotonic DEF f
  <2>3. <<>> \in Seq(Reached)
    BY EmptySeq
  <2> HIDE DEF F
  <2> QED
    BY <2>2, <2>3
<1>3. b \in Seq(Reached)
  <2> HIDE DEF l
  <2> QED
    BY EmptySeq DEF Held, IsDir
<1>4. PlaceTries(l, h) = a \o b
  BY DEF PlaceTries
<1>5. TooDeep \in Reached
  BY DEF Reached
<1>6. <<TooDeep>> \in Seq(Reached)
  <2> DEFINE x == TooDeep
  <2> HIDE DEF x
  <2> QED
    BY <1>5 DEF x
<1>7. a \o b \in Seq(Reached)
  <2> HIDE DEF a, b
  <2> QED
    BY <1>2, <1>3, ConcatProperties
<1> QED
  BY <1>4, <1>6, <1>7

LEMMA HoldsType ==
  ASSUME w \in Worlds, Plain, NEW h \in Held
  PROVE  Holds(h) \in Held
<1>1. ASSUME NEW p \in w.dirs
      PROVE  FlattenSeq([k \in 1..Len(PlacesIn(p)) |-> PlaceTries(PlacesIn(p)[k], h)]) \in Seq(Reached)
  <2> DEFINE n == Len(PlacesIn(p))
             ss == [k \in 1..n |-> PlaceTries(PlacesIn(p)[k], h)]
  <2>1. n \in Nat
    BY PlacesInIs
  <2>2. ss \in [1..n -> Seq(Reached)]
    BY ReachedHolds
  <2> HIDE DEF n, ss
  <2>3. ss \in Seq(Seq(Reached))
    BY <2>1, <2>2, SeqDef
  <2>4. FlattenSeq(ss) \in Seq(Reached)
    BY <2>3, FlattenInSeq
  <2> QED
    BY <2>4 DEF n, ss
<1> QED
  BY <1>1 DEF Holds, Held

LEMMA DeepestType ==
  ASSUME w \in Worlds, Plain
  PROVE  Deepest \in Held
<1>1. ASSUME NEW p \in w.dirs
      PROVE  FlattenSeq([k \in 1..Len(PlacesIn(p)) |-> <<TooDeep>>]) \in Seq(Reached)
  <2> DEFINE n == Len(PlacesIn(p))
             ss == [k \in 1..n |-> <<TooDeep>>]
  <2>1. n \in Nat
    BY PlacesInIs
  <2>2. ss \in [1..n -> Seq(Reached)]
    <3>1. TooDeep \in Reached
      BY DEF Reached
    <3> DEFINE x == TooDeep
    <3>2. <<x>> \in Seq(Reached)
      <4> HIDE DEF x
      <4> QED
        BY <3>1 DEF x
    <3> QED
      BY <3>2
  <2> HIDE DEF n, ss
  <2>3. ss \in Seq(Seq(Reached))
    BY <2>1, <2>2, SeqDef
  <2>4. FlattenSeq(ss) \in Seq(Reached)
    BY <2>3, FlattenInSeq
  <2> QED
    BY <2>4 DEF n, ss
<1> QED
  BY <1>1 DEF Deepest, Held

\* Inside satisfies its equation.
LEMMA InsideSolved ==
  ASSUME w \in Worlds, Plain
  PROVE  /\ \A n \in 0..MaxDepth : Inside[n] \in Held
         /\ Inside[0] = Deepest
         /\ \A n \in 1..MaxDepth : Inside[n] = Holds(Inside[n - 1])
<1> DEFINE Is(f) ==
      f = [n \in 0..MaxDepth |->
             [p \in w.dirs |->
                Each(Mains(p) \o Indexes(p), LAMBDA l :
                       IF n = 0 THEN <<TooDeep>> ELSE PlaceTries(l, f[n - 1]))]]
           Solves(f) ==
             /\ DOMAIN f = 0..MaxDepth /\ f[0] = Deepest
             /\ \A n \in 1..MaxDepth : f[n] = Holds(f[n - 1])
<1>0. MaxDepth \in Nat /\ \A n \in 1..MaxDepth : n \in 0..MaxDepth /\ n # 0
  BY DepthAssumption
<1>1. \A f : Is(f) => Solves(f)
  <2> TAKE f
  <2> SUFFICES ASSUME Is(f) PROVE Solves(f)
    OBVIOUS
  <2>1. f[0] = Deepest
    BY <1>0 DEF Deepest, Each, PlacesIn
  <2>2. ASSUME NEW n \in 1..MaxDepth
        PROVE  f[n] = Holds(f[n - 1])
    <3>1. n \in 0..MaxDepth /\ n # 0
      BY <1>0
    <3>2. f[n] = [p \in w.dirs |-> Each(PlacesIn(p), LAMBDA l : PlaceTries(l, f[n - 1]))]
      BY <3>1 DEF PlacesIn, Each
    <3> HIDE DEF Is
    <3> QED
      BY <3>2 DEF Holds, Each
  <2> QED
    BY <2>1, <2>2
<1>2. \E f : Is(f)
  <2> DEFINE turn == [i \in 1..MaxDepth |-> [h \in Held |-> Holds(h)]]
  <2>1. Deepest \in Held /\ turn \in [1..MaxDepth -> [Held -> Held]]
    BY HoldsType, DeepestType
  <2> DEFINE start == Deepest
  <2>2. Run(Held, start, turn, MaxDepth) # {}
    <3> HIDE DEF turn, start
    <3> QED
      BY <1>0, <2>1, Recursion DEF start
  <2>3. PICK f \in [0..MaxDepth -> Held] :
          f[0] = Deepest /\ \A i \in 1..MaxDepth : f[i] = turn[i][f[i - 1]]
    BY <2>2 DEF Run
  <2>4. \A i \in 1..MaxDepth : f[i] = Holds(f[i - 1])
    <3> TAKE i \in 1..MaxDepth
    <3>1. i - 1 \in 0..MaxDepth
      BY <1>0
    <3>2. f[i - 1] \in Held
      BY <2>3, <3>1
    <3> QED
      BY <2>3, <3>2
  <2>5. ASSUME NEW n \in 0..MaxDepth
        PROVE  f[n] = [p \in w.dirs |->
                Each(Mains(p) \o Indexes(p), LAMBDA l :
                       IF n = 0 THEN <<TooDeep>> ELSE PlaceTries(l, f[n - 1]))]
    <3>1. CASE n = 0
      BY <2>3, <3>1 DEF Deepest, Each, PlacesIn
    <3>2. CASE n # 0
      <4>1. n \in 1..MaxDepth
        BY <1>0, <3>2
      <4>2. f[n] = [p \in w.dirs |-> Each(PlacesIn(p), LAMBDA l : PlaceTries(l, f[n - 1]))]
        BY <2>4, <4>1 DEF Holds, Each
      <4> QED
        BY <3>2, <4>2 DEF PlacesIn, Each
    <3> QED
      BY <3>1, <3>2
  <2>6. Is(f)
    BY <2>3, <2>5
  <2> QED
    BY <2>6
<1>3. Is(Inside)
  <2>1. Inside = CHOOSE f : Is(f)
    BY DEF Inside
  <2> HIDE DEF Is
  <2> QED
    BY <1>2, <2>1
<1>4. Solves(Inside)
  BY <1>1, <1>3
<1>5. \A n \in 0..MaxDepth : n \in {i \in 0..MaxDepth : Inside[i] \in Held}
  <2> DEFINE T == {i \in 0..MaxDepth : Inside[i] \in Held}
  <2>1. 0 \in T
    BY <1>0, <1>4, DeepestType
  <2>2. \A i \in 1..MaxDepth : i - 1 \in T => i \in T
    BY <1>0, <1>4, HoldsType
  <2> HIDE DEF T
  <2>3. \A n \in 0..MaxDepth : n \in T
    BY <1>0, <2>1, <2>2, UpTo
  <2> QED
    BY <2>3 DEF T
<1> QED
  BY <1>4, <1>5

-----------------------------------------------------------------------------
\* The same for Search, which goes up the directories one by one.

\* What calls for the places of a list try.
CallLists(n, s) == [k \in 1..Len(s) |-> CallTries(n, s[k])]

LEMMA PlaceTriesSeq ==
  ASSUME w \in Worlds, Plain, NEW n \in 0..MaxDepth, NEW l
  PROVE  IsSeq(PlaceTries(l, Inside[n]))
<1> DEFINE a == IF l.slash THEN <<>> ELSE FileTries(l.path)
           b == IF IsDir(l.path) THEN Inside[n][l.path] ELSE <<>>
<1>1. IsSeq(<<>>)
  BY DEF IsSeq
<1>2. IsSeq(a)
  BY <1>1, FileTriesIs
<1>3. IsSeq(b)
  <2>1. Inside[n] \in Held
    BY InsideSolved
  <2>2. \A p \in w.dirs : IsSeq(Inside[n][p])
    <3>1. \A p \in w.dirs : Inside[n][p] \in Seq(Reached)
      BY <2>1 DEF Held
    <3> QED
      BY <3>1, SeqIsSeq
  <2> QED
    BY <1>1, <2>2 DEF IsDir
<1>4. PlaceTries(l, Inside[n]) = a \o b
  BY DEF PlaceTries
<1> HIDE DEF a, b
<1> QED
  BY <1>2, <1>3, <1>4, Concatenated

LEMMA OneSeq == \A x : IsSeq(<<x>>) /\ Len(<<x>>) = 1 /\ <<x>>[1] = x
<1> TAKE x
<1>1. <<x>> \in Seq({x})
  OBVIOUS
<1>2. IsSeq(<<x>>)
  BY <1>1, SeqIsSeq
<1> QED
  BY <1>2

LEMMA CallTriesSeq ==
  ASSUME w \in Worlds, Plain, NEW n \in 0..MaxDepth, NEW l
  PROVE  IsSeq(CallTries(n, l))
<1>1. n # 0 => n - 1 \in 0..MaxDepth
  BY DepthAssumption
<1> QED
  BY <1>1, OneSeq, PlaceTriesSeq DEF CallTries

LEMMA CallListsOK ==
  ASSUME w \in Worlds, Plain, NEW n \in 0..MaxDepth, NEW s, IsSeq(s)
  PROVE  /\ Lists(CallLists(n, s)) /\ Len(CallLists(n, s)) = Len(s)
         /\ IsSeq(FlattenSeq(CallLists(n, s)))
<1> DEFINE ss == CallLists(n, s)
           m == Len(s)
<1>1. m \in Nat /\ ss = [k \in 1..m |-> ss[k]] /\ \A k \in 1..m : IsSeq(ss[k])
  BY CallTriesSeq, SeqDomain DEF CallLists
<1> HIDE DEF ss, m
<1>2. IsSeq(ss) /\ Len(ss) = m /\ DOMAIN ss = 1..m
  BY <1>1, ListIs
<1>3. Lists(ss)
  BY <1>1, <1>2 DEF Lists
<1> QED
  BY <1>2, <1>3, Flattened DEF ss, m

\* What a directory holds is what the calls for its places try.
LEMMA InsideIs ==
  ASSUME w \in Worlds, Plain, NEW n \in 0..MaxDepth, NEW p \in w.dirs
  PROVE  Inside[n][p] = FlattenSeq(CallLists(n, PlacesIn(p)))
<1>1. CASE n = 0
  <2>1. Inside[n][p] = FlattenSeq([k \in 1..Len(PlacesIn(p)) |-> <<TooDeep>>])
    BY <1>1, InsideSolved DEF Deepest
  <2> QED
    BY <1>1, <2>1 DEF CallLists, CallTries
<1>2. CASE n # 0
  <2>1. n \in 1..MaxDepth
    BY <1>2, DepthAssumption
  <2>2. Inside[n] = Holds(Inside[n - 1])
    BY <2>1, InsideSolved
  <2>3. Inside[n][p] = FlattenSeq([k \in 1..Len(PlacesIn(p)) |-> PlaceTries(PlacesIn(p)[k], Inside[n - 1])])
    BY <2>2 DEF Holds
  <2> QED
    BY <1>2, <2>3 DEF CallLists, CallTries
<1> QED
  BY <1>1, <1>2

-----------------------------------------------------------------------------
LEMMA ModuleTriesSeq ==
  ASSUME w \in Worlds, Plain, NEW n \in 0..MaxDepth, NEW folder
  PROVE  IsSeq(ModuleTries(n, folder))
<1> DEFINE names == w.request.names
           package == Walk(folder, ModuleName(names))
           l == Place(Walk(folder, names), w.request.slash)
           files == IF l.slash THEN <<>> ELSE FileTries(l.path)
           own == IF HasPkg(package) /\ PkgDir(package) = l.path
                  THEN FlattenSeq(CallLists(n, Mains(l.path))) ELSE <<>>
<1>1. IsSeq(<<>>) /\ IsSeq(FileTries(l.path))
  BY FileTriesIs DEF IsSeq
<1>2. IsSeq(own)
  BY <1>1, MainsIs, CallListsOK
<1>3. IsSeq(PlaceTries(l, Inside[n]))
  BY PlaceTriesSeq
<1>4. ModuleTries(n, folder) = IF ~IsDir(folder) THEN <<>>
                               ELSE IF ~IsDir(package) THEN files
                               ELSE own \o PlaceTries(l, Inside[n])
  BY DEF ModuleTries, Each, CallLists
<1> DEFINE x == PlaceTries(l, Inside[n])
<1>5. IsSeq(own \o x)
  <2> HIDE DEF own, x
  <2>1. IsSeq(x)
    BY <1>3 DEF x
  <2> QED
    BY <1>2, <2>1, Concatenated
<1> HIDE DEF own, package, l
<1> QED
  BY <1>1, <1>4, <1>5

\* The folder m of the first k directories on the way to w.from.
Folder(k, m) == IF m.absolute THEN m.names ELSE SubSeq(w.from, 1, k) \o m.names
\* What the folder m is good for, and the directories above, if they answer h.
FolderTriesOf(n, k, m, h) ==
  IF m.absolute THEN ModuleTries(n, m.names)
  ELSE ModuleTries(n, SubSeq(w.from, 1, k) \o m.names)
       \o (IF k = 0 THEN <<>> ELSE h[k - 1])
FolderTries(n, k, m) == FolderTriesOf(n, k, m, Search[n])
FolderLists(n, k, rest) == [j \in 1..Len(rest) |-> FolderTries(n, k, rest[j])]

ModulesOf(n, folder) == {ModuleTries(n, folder)[j] : j \in DOMAIN ModuleTries(n, folder)}
\* What any folder of modules may lead to.
Searchable ==
  {TooDeep} \cup
  UNION {ModulesOf(q[1], Folder(q[2], w.modules[q[3]])) :
           q \in (0..MaxDepth) \X (0..Len(w.from)) \X (1..Len(w.modules))}
Searched == [0..Len(w.from) -> Seq(Searchable)]
Searches(n, h) ==
  [k \in 0..Len(w.from) |->
     FlattenSeq([j \in 1..Len(w.modules) |-> FolderTriesOf(n, k, w.modules[j], h)])]
NoSearch == [k \in 0..Len(w.from) |-> <<TooDeep>>]

LEMMA FolderType ==
  ASSUME w \in Worlds, Plain, NEW n \in 0..MaxDepth, NEW k \in 0..Len(w.from),
         NEW j \in 1..Len(w.modules), NEW h \in Searched
  PROVE  FolderTriesOf(n, k, w.modules[j], h) \in Seq(Searchable)
<1> DEFINE m == w.modules[j]
           f == ModuleTries(n, Folder(k, m))
           M == ModulesOf(n, Folder(k, m))
           b == IF k = 0 THEN <<>> ELSE h[k - 1]
<1>0. Len(w.from) \in Nat
  BY WorldAssumption, SeqDomain
<1>1. M \subseteq Searchable
  <2> DEFINE q == <<n, k, j>>
  <2>1. q \in (0..MaxDepth) \X (0..Len(w.from)) \X (1..Len(w.modules))
        /\ q[1] = n /\ q[2] = k /\ q[3] = j
    OBVIOUS
  <2> HIDE DEF q
  <2> QED
    BY <2>1 DEF Searchable
<1>2. f \in Seq(Searchable)
  <2>1. f \in Seq(M)
    BY ModuleTriesSeq DEF IsSeq, ModulesOf
  <2> HIDE DEF f, M
  <2> QED
    BY <1>1, <2>1, SeqMonotonic
<1>3. b \in Seq(Searchable)
  BY <1>0, EmptySeq DEF Searched
<1>4. f \o b \in Seq(Searchable)
  <2> HIDE DEF f, b
  <2> QED
    BY <1>2, <1>3, ConcatProperties
<1>5. FolderTriesOf(n, k, m, h) = IF m.absolute THEN f ELSE f \o b
  BY DEF FolderTriesOf, Folder
<1> HIDE DEF m, f, b
<1> QED
  BY <1>2, <1>4, <1>5 DEF m

LEMMA SearchesType ==
  ASSUME w \in Worlds, Plain, NEW n \in 0..MaxDepth, NEW h \in Searched
  PROVE  Searches(n, h) \in Searched
<1>1. ASSUME NEW k \in 0..Len(w.from)
      PROVE  FlattenSeq([j \in 1..Len(w.modules) |-> FolderTriesOf(n, k, w.modules[j], h)])
               \in Seq(Searchable)
  <2> DEFINE m == Len(w.modules)
             ss == [j \in 1..m |-> FolderTriesOf(n, k, w.modules[j], h)]
  <2>1. m \in Nat
    BY WorldAssumption, SeqDomain
  <2>2. ss \in [1..m -> Seq(Searchable)]
    BY FolderType
  <2> HIDE DEF m, ss
  <2>3. ss \in Seq(Seq(Searchable))
    BY <2>1, <2>2, SeqDef
  <2>4. FlattenSeq(ss) \in Seq(Searchable)
    BY <2>3, FlattenInSeq
  <2> QED
    BY <2>4 DEF m, ss
<1> QED
  BY <1>1 DEF Searches, Searched

\* Search satisfies its equation.
LEMMA SearchSolved ==
  ASSUME w \in Worlds, Plain
  PROVE  /\ \A n \in 0..MaxDepth : Search[n] \in Searched
         /\ Search[0] = NoSearch
         /\ \A n \in 1..MaxDepth : Search[n] = Searches(n - 1, Search[n - 1])
<1> DEFINE Turn(n, f) ==
      [k \in 0..Len(w.from) |->
         IF n = 0 THEN <<TooDeep>>
         ELSE Each(w.modules, LAMBDA m :
                IF m.absolute THEN ModuleTries(n - 1, m.names)
                ELSE ModuleTries(n - 1, SubSeq(w.from, 1, k) \o m.names)
                     \o (IF k = 0 THEN <<>> ELSE f[n - 1][k - 1]))]
           Is(f) == f = [n \in 0..MaxDepth |-> Turn(n, f)]
           Solves(f) ==
             /\ DOMAIN f = 0..MaxDepth /\ f[0] = NoSearch
             /\ \A n \in 1..MaxDepth : f[n] = Searches(n - 1, f[n - 1])
<1>0. /\ MaxDepth \in Nat /\ 0 \in 0..MaxDepth
      /\ \A n \in 1..MaxDepth : n \in 0..MaxDepth /\ n # 0 /\ n - 1 \in 0..MaxDepth
  BY DepthAssumption
<1>1. \A f : Is(f) => Solves(f)
  <2> TAKE f
  <2> SUFFICES ASSUME Is(f) PROVE Solves(f)
    OBVIOUS
  <2>1. f[0] = NoSearch
    <3>1. Turn(0, f) = NoSearch
      <4> HIDE DEF Is
      <4> QED
        BY DEF NoSearch
    <3> HIDE DEF Turn
    <3> QED
      BY <1>0, <3>1
  <2>2. ASSUME NEW n \in 1..MaxDepth
        PROVE  f[n] = Searches(n - 1, f[n - 1])
    <3>1. n \in 0..MaxDepth /\ n # 0
      BY <1>0
    <3>2. f[n] = [k \in 0..Len(w.from) |->
                Each(w.modules, LAMBDA m : FolderTriesOf(n - 1, k, m, f[n - 1]))]
      BY <3>1 DEF FolderTriesOf, Each
    <3> HIDE DEF Is
    <3> QED
      BY <3>2 DEF Searches, Each
  <2> QED
    BY <2>1, <2>2
<1>2. \E f : Is(f)
  <2> DEFINE turn == [i \in 1..MaxDepth |-> [h \in Searched |-> Searches(i - 1, h)]]
  <2>1. NoSearch \in Searched
    <3> DEFINE x == TooDeep
    <3>1. x \in Searchable
      BY DEF Searchable
    <3>2. <<x>> \in Seq(Searchable)
      <4> HIDE DEF x
      <4> QED
        BY <3>1
    <3> QED
      BY <3>2 DEF NoSearch, Searched
  <2>2. turn \in [1..MaxDepth -> [Searched -> Searched]]
    BY <1>0, SearchesType
  <2> DEFINE start == NoSearch
  <2>3. Run(Searched, start, turn, MaxDepth) # {}
    <3> HIDE DEF turn, start
    <3> QED
      BY <1>0, <2>1, <2>2, Recursion DEF start
  <2>4. PICK f \in [0..MaxDepth -> Searched] :
          f[0] = NoSearch /\ \A i \in 1..MaxDepth : f[i] = turn[i][f[i - 1]]
    BY <2>3 DEF Run
  <2>5. \A i \in 1..MaxDepth : f[i] = Searches(i - 1, f[i - 1])
    <3> TAKE i \in 1..MaxDepth
    <3>1. i - 1 \in 0..MaxDepth
      BY <1>0
    <3>2. f[i - 1] \in Searched
      BY <2>4, <3>1
    <3> QED
      BY <2>4, <3>2
  <2>6. ASSUME NEW n \in 0..MaxDepth
        PROVE  f[n] = Turn(n, f)
    <3>1. CASE n = 0
      BY <2>4, <3>1 DEF NoSearch
    <3>2. CASE n # 0
      <4>1. n \in 1..MaxDepth
        BY <1>0, <3>2
      <4>2. f[n] = [k \in 0..Len(w.from) |->
                Each(w.modules, LAMBDA m : FolderTriesOf(n - 1, k, m, f[n - 1]))]
        BY <2>5, <4>1 DEF Searches, Each
      <4> QED
        BY <3>2, <4>2 DEF FolderTriesOf, Each
    <3> QED
      BY <3>1, <3>2
  <2>7. Is(f)
    BY <2>4, <2>6
  <2> QED
    BY <2>7
<1>3. Is(Search)
  <2>1. Search = CHOOSE f : Is(f)
    BY DEF Search
  <2> HIDE DEF Is
  <2> QED
    BY <1>2, <2>1
<1>4. Solves(Search)
  BY <1>1, <1>3
<1>5. \A n \in 0..MaxDepth : n \in {i \in 0..MaxDepth : Search[i] \in Searched}
  <2> DEFINE T == {i \in 0..MaxDepth : Search[i] \in Searched}
  <2> HIDE DEF Is
  <2>1. 0 \in T
    <3> DEFINE x == TooDeep
    <3>1. x \in Searchable
      BY DEF Searchable
    <3>2. <<x>> \in Seq(Searchable)
      <4> HIDE DEF x
      <4> QED
        BY <3>1
    <3>3. NoSearch \in Searched
      BY <3>2 DEF NoSearch, Searched
    <3> QED
      BY <1>0, <1>4, <3>3
  <2>2. \A i \in 1..MaxDepth : i - 1 \in T => i \in T
    BY <1>0, <1>4, SearchesType
  <2> HIDE DEF T
  <2>3. \A n \in 0..MaxDepth : n \in T
    BY <1>0, <2>1, <2>2, UpTo
  <2> QED
    BY <2>3 DEF T
<1> QED
  BY <1>4, <1>5

LEMMA SearchSeq ==
  ASSUME w \in Worlds, Plain, NEW n \in 0..MaxDepth, NEW k \in 0..Len(w.from)
  PROVE  IsSeq(Search[n][k])
<1>1. Search[n][k] \in Seq(Searchable)
  BY SearchSolved DEF Searched
<1> QED
  BY <1>1, SeqIsSeq

\* A call in a directory tries the folders of modules there in their order.
LEMMA SearchIs ==
  ASSUME w \in Worlds, Plain, NEW n \in 1..MaxDepth, NEW k \in 0..Len(w.from)
  PROVE  Search[n][k] = FlattenSeq(FolderLists(n - 1, k, w.modules))
  BY SearchSolved DEF Searches, FolderLists, FolderTries

LEMMA FolderListsOK ==
  ASSUME w \in Worlds, Plain, NEW n \in 0..MaxDepth, NEW k \in 0..Len(w.from), NEW rest, IsSeq(rest)
  PROVE  /\ Lists(FolderLists(n, k, rest)) /\ Len(FolderLists(n, k, rest)) = Len(rest)
         /\ IsSeq(FlattenSeq(FolderLists(n, k, rest)))
<1> DEFINE ss == FolderLists(n, k, rest)
           c == Len(rest)
<1>1. \A m : IsSeq(FolderTries(n, k, m))
  <2> TAKE m
  <2>1. \A f : IsSeq(ModuleTries(n, f))
    BY ModuleTriesSeq
  <2> DEFINE b == IF k = 0 THEN <<>> ELSE Search[n][k - 1]
             a == ModuleTries(n, SubSeq(w.from, 1, k) \o m.names)
  <2>2. IsSeq(b)
    <3>1. Len(w.from) \in Nat
      BY WorldAssumption, SeqDomain
    <3>2. k # 0 => k - 1 \in 0..Len(w.from)
      BY <3>1
    <3>3. IsSeq(<<>>)
      BY DEF IsSeq
    <3>4. k # 0 => IsSeq(Search[n][k - 1])
      BY <3>2, SearchSeq
    <3> QED
      BY <3>3, <3>4
  <2>3. IsSeq(a)
    BY <2>1
  <2>4. FolderTries(n, k, m) = IF m.absolute THEN ModuleTries(n, m.names) ELSE a \o b
    BY DEF FolderTries, FolderTriesOf
  <2> HIDE DEF a, b
  <2> QED
    BY <2>1, <2>2, <2>3, <2>4, Concatenated
<1>2. c \in Nat /\ ss = [j \in 1..c |-> ss[j]] /\ \A j \in 1..c : IsSeq(ss[j])
  BY <1>1, SeqDomain DEF FolderLists
<1> HIDE DEF ss, c
<1>3. IsSeq(ss) /\ Len(ss) = c /\ DOMAIN ss = 1..c
  BY <1>2, ListIs
<1>4. Lists(ss)
  BY <1>2, <1>3 DEF Lists
<1> QED
  BY <1>3, <1>4, Flattened DEF ss, c

-----------------------------------------------------------------------------
\* The description of a directory: the nearest one, and it is its own when it
\* lies in that directory.

\* A finite set of sequences has a longest one.
LEMMA Longest ==
  ASSUME NEW D, IsFiniteSet(D), D # {}, \A d \in D : Len(d) \in Nat
  PROVE  \E d \in D : \A e \in D : Len(e) <= Len(d)
<1>0. PICK n \in Nat : ExistsBijection(1..n, D)
  BY FS_NatBijection
<1>1. PICK f \in [1..n -> D] : \A d \in D : \E k \in 1..n : f[k] = d
  BY <1>0 DEF ExistsBijection, Bijection, Injection, Surjection
<1> DEFINE T == {i \in 0..n : \E b \in Nat : \A k \in 1..i : Len(f[k]) <= b}
<1>2. 0 \in T
  <2>1. \A k \in 1..0 : Len(f[k]) <= 0
    OBVIOUS
  <2> QED
    BY <2>1
<1>3. ASSUME NEW i \in 1..n, i - 1 \in T
      PROVE  i \in T
  <2>1. PICK b \in Nat : \A k \in 1..(i - 1) : Len(f[k]) <= b
    BY <1>3
  <2> DEFINE c == IF Len(f[i]) <= b THEN b ELSE Len(f[i])
  <2>2. Len(f[i]) \in Nat
    OBVIOUS
  <2>3. c \in Nat /\ Len(f[i]) <= c /\ b <= c
    BY <2>2
  <2>4. \A k \in 1..i : Len(f[k]) <= c
    <3> TAKE k \in 1..i
    <3>1. Len(f[k]) \in Nat /\ (k = i \/ k \in 1..(i - 1))
      OBVIOUS
    <3> HIDE DEF c
    <3>2. CASE k = i
      BY <2>3, <3>2
    <3>3. CASE k \in 1..(i - 1)
      <4>1. Len(f[k]) <= b
        BY <2>1, <3>3
      <4> QED
        BY <2>3, <3>1, <4>1
    <3> QED
      BY <3>1, <3>2, <3>3
  <2> HIDE DEF c
  <2> QED
    BY <1>3, <2>3, <2>4
<1>4. \A i \in 0..n : i \in T
  <2> HIDE DEF T
  <2> QED
    BY <1>2, <1>3, UpTo
<1>5. \E b \in Nat : \A k \in 1..n : Len(f[k]) <= b
  <2>1. n \in 0..n
    OBVIOUS
  <2>2. n \in T
    <3> HIDE DEF T
    <3> QED
      BY <1>4, <2>1
  <2> QED
    BY <2>2
<1> DEFINE U == {b \in Nat : \A d \in D : Len(d) <= b}
<1>6. U # {}
  BY <1>1, <1>5
<1>7. PICK m \in U : \A k \in U : m <= k
  <2>1. U \in SUBSET Nat
    OBVIOUS
  <2> HIDE DEF U
  <2> QED
    BY <1>6, <2>1, LeastNumber
<1>8. \E d \in D : Len(d) = m
  <2> SUFFICES ASSUME \A d \in D : Len(d) # m PROVE FALSE
    OBVIOUS
  <2>1. \A d \in D : Len(d) <= m - 1
    BY <1>7
  <2>2. m \in Nat /\ m - 1 \in Nat
    BY <1>7, <2>1
  <2>3. m - 1 \in U
    BY <2>1, <2>2
  <2> HIDE DEF U
  <2>4. m <= m - 1
    BY <1>7, <2>3
  <2> QED
    BY <2>2, <2>4
<1> QED
  BY <1>7, <1>8

\* The directory of a description is the nearest one that has one.
LEMMA PkgDirIs ==
  ASSUME w \in Worlds, NEW p, HasPkg(p)
  PROVE  PkgDir(p) \in PkgDirs(p) /\ \A e \in PkgDirs(p) : Len(e) <= Len(PkgDir(p))
<1>1. IsFiniteSet(PkgDirs(p)) /\ \A d \in PkgDirs(p) : IsSeq(d)
  <2>1. IsFiniteSet(DOMAIN w.pkg) /\ \A d \in DOMAIN w.pkg : IsSeq(d)
    BY WorldAssumption
  <2>2. PkgDirs(p) \subseteq DOMAIN w.pkg
    BY DEF PkgDirs
  <2> QED
    BY <2>1, <2>2, FS_Subset
<1>2. \A d \in PkgDirs(p) : Len(d) \in Nat
  BY <1>1, SeqDomain
<1>3. \E d \in PkgDirs(p) : \A e \in PkgDirs(p) : Len(e) <= Len(d)
  <2> DEFINE D == PkgDirs(p)
  <2>1. IsFiniteSet(D) /\ D # {} /\ \A d \in D : Len(d) \in Nat
    BY <1>1, <1>2 DEF HasPkg
  <2> HIDE DEF D
  <2>2. \E d \in D : \A e \in D : Len(e) <= Len(d)
    BY <2>1, Longest
  <2> QED
    BY <2>2 DEF D
<1> QED
  BY <1>3 DEF PkgDir

\* A directory with a description is its own.
LEMMA OwnPkgDir ==
  ASSUME w \in Worlds, NEW p \in DOMAIN w.pkg
  PROVE  HasPkg(p) /\ PkgDir(p) = p
<1>1. \A d \in DOMAIN w.pkg : IsSeq(d)
  BY WorldAssumption
<1> DEFINE S(s) == {s[k] : k \in DOMAIN s}
<1>2. p \in PkgDirs(p)
  <2>1. p \in Seq(S(p))
    BY <1>1 DEF IsSeq
  <2> DEFINE T == S(p)
  <2> HIDE DEF T
  <2>2. p \in Seq(T) /\ Len(p) <= Len(p)
    BY <2>1 DEF T
  <2>3. IsPrefix(p, p)
    BY <2>2, PrefixOf
  <2> QED
    BY <2>3 DEF PkgDirs
<1>3. HasPkg(p)
  BY <1>2 DEF HasPkg
<1> DEFINE d == PkgDir(p)
<1>4. d \in PkgDirs(p) /\ Len(p) <= Len(d)
  BY <1>2, <1>3, PkgDirIs
<1>5. d \in DOMAIN w.pkg /\ IsPrefix(d, p)
  BY <1>4 DEF PkgDirs
<1> HIDE DEF d
<1> DEFINE U == S(d) \cup S(p)
<1>6. d \in Seq(U) /\ p \in Seq(U)
  <2>1. d \in Seq(S(d)) /\ p \in Seq(S(p))
    BY <1>1, <1>5 DEF IsSeq
  <2> HIDE DEF S
  <2>2. S(d) \subseteq U /\ S(p) \subseteq U
    OBVIOUS
  <2> HIDE DEF U
  <2> QED
    BY <2>1, <2>2, SeqMonotonic
<1> HIDE DEF U
<1>7. Len(d) <= Len(p) /\ \A i \in 1..Len(d) : d[i] = p[i]
  BY <1>5, <1>6, PrefixOf
<1>8. d = p
  <2>1. Len(d) = Len(p)
    BY <1>4, <1>6, <1>7, LenProperties
  <2> QED
    BY <1>6, <1>7, <2>1, SeqEqual
<1> QED
  BY <1>3, <1>8 DEF d

\* In a plain call every description can be read and has no exports.
LEMMA PlainPkgs ==
  ASSUME w \in Worlds, Plain
  PROVE  /\ \A p : ~PkgFails(p)
         /\ \A p : HasPkg(p) => PkgDir(p) \in DOMAIN w.pkg
         /\ \A p : HasPkg(p) /\ PkgDir(p) = p <=> p \in DOMAIN w.pkg
<1>1. \A p : HasPkg(p) => PkgDir(p) \in DOMAIN w.pkg
  BY PkgDirIs DEF PkgDirs
<1>2. \A p : ~PkgFails(p)
  BY <1>1 DEF PkgFails, Plain
<1> QED
  BY <1>1, <1>2, OwnPkgDir

-----------------------------------------------------------------------------
\* The inductive invariant. Between two links of the chain stands a note of
\* what the state looks like there and what the call answers from then on;
\* a link agrees with the notes around it when it does what lies between.

\* Where a state leads, and what holds of it throughout a plain call.
PlaceOf(i) == Place(Resolved(i), i.req.slash)
Plainly(i) == IsInfo(i) /\ i.req.frag = "" /\ i.req.kind # "internal"
Climbs(p) == Len(p) \in 0..Len(w.from) /\ p = SubSeq(w.from, 1, Len(p))
IsModule == w.request.kind \notin {"absolute", "relative"}
OnTrack(i) == IsPathLike(i) \/ (i.req = w.request /\ Climbs(i.path))

\* What a call for i tries when n calls may still be made.
SearchFor(n, i) ==
  IF IsPathLike(i) THEN CallTries(n, PlaceOf(i)) ELSE Search[n][Len(i.path)]

\* A note says of a state on its way to a link what it looks like, how many
\* calls may still be made, and the answer if nothing has been found so far.
NoteOK(a) ==
  /\ a.kind \in {"exact", "request", "asked", "any"}
  /\ a.left \in 0..(MaxDepth - 1)
  /\ a.kind = "exact" => Plainly(a.info)

\* The state s is as the note a says.
Fits(s, a) ==
  /\ s.tag \in {"Resolving", "Failed"}
  /\ a.kind = "exact" => s = Resolving(a.info)
  /\ a.kind = "request" => s.tag = "Resolving"
  /\ a.kind \in {"request", "asked"} => s.info.req = w.request

\* b expects what is left of a when the tries have come to nothing.
Onward(a, b, tries) == b.left = a.left /\ a.ans = Ends(tries, b.ans)
Exactly(a, b) == a.kind = "exact" /\ b.kind = "exact" /\ b.info = a.info
Loosely(a, b) ==
  /\ a.kind = "exact"
  /\ b.kind = "any" \/ (b.kind = "asked" /\ a.info.req = w.request)

-----------------------------------------------------------------------------
\* What each kind of link does between the notes a and b.
InPkg == {"imports", "browser", "exports", "self"}
AsSilent(l, a, b) ==
  /\ \/ /\ l.step \in {"parse", "alias", "preferRelative", "scope", "imports",
                       "browser", "context", "fullySpecified", "exports"}
        /\ a.kind = "exact"
     \/ /\ l.step \in {"self", "exports"}
        /\ a.kind = "request"
  /\ l.step \in InPkg => l.dir \in DOMAIN w.pkg
  /\ b = a
AsEnter(l, a, b) ==
  /\ l.step = "enter" /\ a.kind = "exact" /\ b.kind = "any" /\ OnTrack(a.info)
  /\ Onward(a, b, SearchFor(a.left, a.info))
AsDispatch(l, a, b) ==
  /\ l.step = "dispatch" /\ a.kind = "exact" /\ b.kind = "any" /\ OnTrack(a.info)
  /\ Onward(a, b, SearchFor(a.left + 1, a.info))
AsLeave(l, a, b) ==
  l.step = "leave" /\ b.kind = "any" /\ b.left = a.left + 1 /\ b.ans = a.ans
AsFile(l, a, b) ==
  /\ l.step = "file" /\ Exactly(a, b)
  /\ Onward(a, b, IF a.info.req.slash THEN <<>> ELSE FileTries(Resolved(a.info)))
AsLoad(l, a, b) ==
  l.step = "load" /\ Exactly(a, b) /\ Onward(a, b, FileTries(Resolved(a.info)))
AsDir(l, a, b) ==
  /\ l.step = "dir" /\ Loosely(a, b)
  /\ Onward(a, b, IF IsDir(Resolved(a.info)) THEN Inside[a.left][Resolved(a.info)] ELSE <<>>)
AsMainField(l, a, b) ==
  /\ l.step = "mainField" /\ Exactly(a, b) /\ l.dir \in DOMAIN w.pkg
  /\ LET R == Resolved(a.info)
     IN Onward(a, b, FlattenSeq(CallLists(a.left, IF l.dir = R THEN Mains(R) ELSE <<>>)))
AsMainFile(l, a, b) ==
  /\ l.step = "mainFile" /\ Loosely(a, b)
  /\ Onward(a, b, FlattenSeq(CallLists(a.left, Indexes(Resolved(a.info)))))
Remaining(list, k) == [j \in 1..(Len(list) + 1 - k) |-> PlaceOf(list[k + j - 1].info)]
AsAttempt(l, a, b) ==
  /\ l.step = "attempt" /\ l.mode # "on" /\ Fits(l.last, b)
  /\ IsSeq(l.list) /\ l.next \in 1..(Len(l.list) + 1)
  /\ \A j \in DOMAIN l.list :
       /\ l.list[j] = Resolving(l.list[j].info)
       /\ Plainly(l.list[j].info) /\ IsPathLike(l.list[j].info)
  /\ Onward(a, b, FlattenSeq(CallLists(a.left, Remaining(l.list, l.next))))
AsModules(l, a, b) ==
  /\ l.step = "modules" /\ b.kind = "any" /\ IsModule
  /\ IsInfo(l.info) /\ l.info.req = w.request /\ Climbs(l.info.path) /\ IsSeq(l.rest)
  /\ Onward(a, b, FlattenSeq(FolderLists(a.left, Len(l.info.path), l.rest)))
AsInModules(l, a, b) ==
  /\ l.step \in {"inModules", "module"} /\ IsModule
  /\ a.kind = "exact" /\ a.info.req = w.request /\ b.kind = "request"
  /\ l.step = "module" => IsDir(l.folder)
  /\ Onward(a, b, ModuleTries(a.left, l.folder))
AsFindUp(l, a, b) ==
  /\ l.step = "findUp" /\ IsModule /\ a.kind = "request" /\ b.kind = "any" /\ Climbs(l.to)
  /\ Onward(a, b, Search[a.left][Len(l.to)])
AsUnless(l, a, b) ==
  /\ \/ l.step = "unlessFile" /\ l.info.req = w.request
     \/ l.step = "unlessFailed" /\ a.kind = "asked"
  /\ b.kind = "request" /\ b.left = a.left /\ b.ans = a.ans
AsLast(l, a, b) ==
  /\ l.step \in {"fallback", "symlink", "resource"}
  /\ b.kind = "any" /\ b.left = a.left /\ b.ans = a.ans

\* A link l takes a state as a describes it to one as b does.
Agrees(l, a, b) ==
  /\ NoteOK(a) /\ NoteOK(b)
  /\ \/ AsSilent(l, a, b) \/ AsEnter(l, a, b) \/ AsDispatch(l, a, b) \/ AsLeave(l, a, b)
     \/ AsFile(l, a, b) \/ AsLoad(l, a, b) \/ AsDir(l, a, b) \/ AsMainField(l, a, b)
     \/ AsMainFile(l, a, b) \/ AsAttempt(l, a, b) \/ AsModules(l, a, b)
     \/ AsInModules(l, a, b) \/ AsFindUp(l, a, b) \/ AsUnless(l, a, b) \/ AsLast(l, a, b)

\* A chain of links agrees with notes before, between and after them.
Leads(c, a, z) ==
  \E g : /\ g[1] = a /\ g[Len(c) + 1] = z
         /\ \A k \in 1..Len(c) : Agrees(c[k], g[k], g[k + 1])

\* The answer has been found, or the search stands at the front of the chain.
Right ==
  \/ /\ state.tag = "Success"
     /\ \E q : /\ First(Tries) = File(q)
              /\ Info.path = IF Len(control) > 1 THEN q ELSE Real(q)
  \/ state = Error("Overflow") /\ First(Tries) = TooDeep
Searching ==
  \E a, z : /\ NoteOK(a) /\ Leads(control, a, z) /\ Fits(state, a)
            /\ a.left = MaxDepth - 1 - depth
            /\ a.ans = First(Tries) /\ z.ans = Nothing
SearchInv == Plain => Right \/ Searching

-----------------------------------------------------------------------------
\* The world does not change, nor what may be found in it.
LEMMA SearchStays ==
  ASSUME w' = w
  PROVE  Search' = Search /\ Inside' = Inside
<1>1. Inside' = Inside
  BY SMT DEF Inside, Each, PlaceTries, IsDir, FileTries, Map, Mains, Indexes, Before
<1>2. Search' = Search
  BY SMT DEF Search, ModuleTries, CallTries, Inside, Each, PlaceTries, IsDir, FileTries,
     Map, Mains, Indexes, Before, HasPkg, PkgDir, PkgDirs
<1> QED
  BY <1>1, <1>2

LEMMA TriesStay ==
  ASSUME w' = w
  PROVE  /\ \A p : FileTries(p)' = FileTries(p) /\ Mains(p)' = Mains(p) /\ Indexes(p)' = Indexes(p)
         /\ \A n, l : CallTries(n, l)' = CallTries(n, l)
         /\ \A n, f : ModuleTries(n, f)' = ModuleTries(n, f)
         /\ \A n, s : CallLists(n, s)' = CallLists(n, s)
         /\ \A n, k, s : FolderLists(n, k, s)' = FolderLists(n, k, s)
         /\ \A A, x : Ends(A, x)' = Ends(A, x)
         /\ First(Tries)' = First(Tries)
         /\ Plain' = Plain
<1>1. \A p : FileTries(p)' = FileTries(p)
  BY DEF FileTries, Map
<1>2. \A p : Mains(p)' = Mains(p)
  BY DEF Mains, Map, Before
<1>3. \A p : Indexes(p)' = Indexes(p)
  BY DEF Indexes, Map
<1>4. Search' = Search /\ Inside' = Inside
  BY SearchStays
<1>5. \A l, h : PlaceTries(l, h)' = PlaceTries(l, h)
  BY <1>1 DEF PlaceTries, IsDir
<1>6. \A n, l : CallTries(n, l)' = CallTries(n, l)
  BY <1>4, <1>5 DEF CallTries
<1>7. \A n, s : CallLists(n, s)' = CallLists(n, s)
  BY <1>6 DEF CallLists
<1>8. \A p : PkgDirs(p)' = PkgDirs(p)
  BY DEF PkgDirs
<1>9. \A p : HasPkg(p)' = HasPkg(p) /\ PkgDir(p)' = PkgDir(p)
  BY <1>8 DEF HasPkg, PkgDir
<1>10. \A n, f : ModuleTries(n, f)' = ModuleTries(n, f)
  <2> TAKE n, f
  <2> DEFINE names == w.request.names
             package == Walk(f, ModuleName(names))
             l == Place(Walk(f, names), w.request.slash)
  <2>1. ModuleTries(n, f) =
          IF ~IsDir(f) THEN <<>>
          ELSE IF ~IsDir(package) THEN IF l.slash THEN <<>> ELSE FileTries(l.path)
          ELSE (IF HasPkg(package) /\ PkgDir(package) = l.path
                THEN FlattenSeq(CallLists(n, Mains(l.path))) ELSE <<>>)
               \o PlaceTries(l, Inside[n])
    BY DEF ModuleTries, Each, CallLists
  <2>2. ModuleTries(n, f)' =
          (IF ~IsDir(f) THEN <<>>
          ELSE IF ~IsDir(package) THEN IF l.slash THEN <<>> ELSE FileTries(l.path)
          ELSE (IF HasPkg(package) /\ PkgDir(package) = l.path
                THEN FlattenSeq(CallLists(n, Mains(l.path))) ELSE <<>>)
               \o PlaceTries(l, Inside[n]))'
    BY DEF ModuleTries, Each, CallLists
  <2>3. package' = package /\ l' = l
    OBVIOUS
  <2>4. \A p : IsDir(p)' = IsDir(p)
    BY DEF IsDir
  <2> HIDE DEF package, l
  <2> QED
    BY <1>1, <1>2, <1>4, <1>5, <1>7, <1>9, <2>1, <2>2, <2>3, <2>4
<1>11. \A n, k, s : FolderLists(n, k, s)' = FolderLists(n, k, s)
  BY <1>4, <1>10 DEF FolderLists, FolderTries, FolderTriesOf
<1>12. \A A : Hits(A)' = Hits(A)
  BY DEF Hits, IsHit, IsFile
<1>13. \A A, x : Ends(A, x)' = Ends(A, x)
  BY <1>12 DEF Ends
<1>14. Tries' = Tries
  BY <1>4, <1>6 DEF Tries
<1>15. First(Tries)' = First(Tries)
  <2>1. \A A : First(A)' = First(A)
    BY DEF First, IsHit, IsFile
  <2> QED
    BY <1>14, <2>1
<1>16. Plain' = Plain
  BY DEF Plain
<1> QED
  BY <1>1, <1>2, <1>3, <1>6, <1>7, <1>10, <1>11, <1>13, <1>15, <1>16

LEMMA AgreesStays ==
  ASSUME w' = w
  PROVE  \A l, a, b : Agrees(l, a, b)' = Agrees(l, a, b)
<1> TAKE l, a, b
<1> USE TriesStay, SearchStays
<1>1. NoteOK(a)' = NoteOK(a) /\ NoteOK(b)' = NoteOK(b)
  BY DEF NoteOK, Plainly
<1>2. AsSilent(l, a, b)' = AsSilent(l, a, b)
  BY DEF AsSilent
<1>3. \A p : Climbs(p)' = Climbs(p)
  BY DEF Climbs
<1>4. \A i : OnTrack(i)' = OnTrack(i)
  BY <1>3 DEF OnTrack, IsPathLike
<1>5. \A n, i : SearchFor(n, i)' = SearchFor(n, i)
  BY DEF SearchFor, IsPathLike, PlaceOf, Place, Resolved
<1>6. \A tries : Onward(a, b, tries)' = Onward(a, b, tries)
  BY DEF Onward
<1>7. AsEnter(l, a, b)' = AsEnter(l, a, b) /\ AsDispatch(l, a, b)' = AsDispatch(l, a, b)
  BY <1>4, <1>5, <1>6 DEF AsEnter, AsDispatch
<1>8. AsLeave(l, a, b)' = AsLeave(l, a, b)
  BY DEF AsLeave
<1>9. AsFile(l, a, b)' = AsFile(l, a, b) /\ AsLoad(l, a, b)' = AsLoad(l, a, b)
  BY <1>6 DEF AsFile, AsLoad, Exactly
<1>10. \A p : IsDir(p)' = IsDir(p)
  BY DEF IsDir
<1>11. Loosely(a, b)' = Loosely(a, b)
  BY DEF Loosely
<1>12. AsDir(l, a, b)' = AsDir(l, a, b)
  BY <1>6, <1>10, <1>11 DEF AsDir
<1>13. AsMainField(l, a, b)' = AsMainField(l, a, b)
  BY <1>6 DEF AsMainField, Exactly
<1>14. AsMainFile(l, a, b)' = AsMainFile(l, a, b)
  BY <1>6, <1>11 DEF AsMainFile
<1>15. AsAttempt(l, a, b)' = AsAttempt(l, a, b)
  <2>1. Fits(l.last, b)' = Fits(l.last, b)
    BY DEF Fits
  <2> QED
    BY <1>6, <2>1 DEF AsAttempt
<1>16. IsModule' = IsModule
  BY DEF IsModule
<1>17. AsModules(l, a, b)' = AsModules(l, a, b)
  BY <1>3, <1>6, <1>16 DEF AsModules
<1>18. AsInModules(l, a, b)' = AsInModules(l, a, b)
  BY <1>6, <1>10, <1>16 DEF AsInModules
<1>19. AsFindUp(l, a, b)' = AsFindUp(l, a, b)
  BY <1>3, <1>6, <1>16 DEF AsFindUp
<1>20. AsUnless(l, a, b)' = AsUnless(l, a, b) /\ AsLast(l, a, b)' = AsLast(l, a, b)
  BY DEF AsUnless, AsLast
<1> HIDE TriesStay, SearchStays
<1> QED
  BY <1>1, <1>2, <1>7, <1>8, <1>9, <1>12, <1>13, <1>14, <1>15, <1>17, <1>18, <1>19, <1>20
     DEF Agrees

LEMMA LeadsStays ==
  ASSUME w' = w
  PROVE  /\ \A c, a, z : Leads(c, a, z)' = Leads(c, a, z)
         /\ \A s, a : Fits(s, a)' = Fits(s, a)
         /\ \A a : NoteOK(a)' = NoteOK(a)
<1>1. \A c, a, z : Leads(c, a, z)' = Leads(c, a, z)
  BY AgreesStays DEF Leads
<1>2. \A s, a : Fits(s, a)' = Fits(s, a)
  BY DEF Fits
<1>3. \A a : NoteOK(a)' = NoteOK(a)
  BY DEF NoteOK, Plainly
<1> QED
  BY <1>1, <1>2, <1>3

-----------------------------------------------------------------------------
\* Chains of no link, of one, of two parts, and the first link of one.
LEMMA LeadsNone == \A a : Leads(<<>>, a, a)
<1> TAKE a
<1> DEFINE g == [k \in 1..1 |-> a]
<1>1. g[1] = a /\ Len(<<>>) = 0 /\ 0 + 1 = 1 /\ 1..0 = {}
  OBVIOUS
<1> HIDE DEF g
<1>2. g[Len(<<>>) + 1] = a /\ \A k \in 1..Len(<<>>) : Agrees(<<>>[k], g[k], g[k + 1])
  BY <1>1
<1> QED
  BY <1>1, <1>2 DEF Leads

LEMMA LeadsOne ==
  ASSUME NEW l, NEW a, NEW b, Agrees(l, a, b)
  PROVE  Leads(<<l>>, a, b)
<1> DEFINE g == [k \in 1..2 |-> IF k = 1 THEN a ELSE b]
<1>1. g[1] = a /\ g[2] = b
  OBVIOUS
<1>2. Len(<<l>>) = 1 /\ <<l>>[1] = l
  BY OneSeq
<1> HIDE DEF g
<1> QED
  BY <1>1, <1>2 DEF Leads

LEMMA LeadsJoin ==
  ASSUME NEW c, NEW d, IsSeq(c), IsSeq(d), NEW a, NEW b, NEW z, Leads(c, a, b), Leads(d, b, z)
  PROVE  Leads(c \o d, a, z)
<1> DEFINE n == Len(c)
           m == Len(d)
           e == c \o d
<1>1. PICK f : f[1] = a /\ f[n + 1] = b /\ \A k \in 1..n : Agrees(c[k], f[k], f[k + 1])
  BY DEF Leads
<1>2. PICK h : h[1] = b /\ h[m + 1] = z /\ \A k \in 1..m : Agrees(d[k], h[k], h[k + 1])
  BY DEF Leads
<1>3. /\ n \in Nat /\ m \in Nat /\ Len(e) = n + m
      /\ \A k \in 1..n : e[k] = c[k]
      /\ \A k \in 1..m : e[n + k] = d[k]
  <2>1. /\ n \in Nat /\ m \in Nat /\ DOMAIN e = 1..(n + m) /\ IsSeq(e)
        /\ \A k \in 1..m : e[n + k] = d[k]
    BY Concatenated
  <2>2. Begins(c, e)
    BY BeginsJoined
  <2>3. DOMAIN e = 1..Len(e) /\ Len(e) \in Nat
    BY <2>1, SeqDomain
  <2> QED
    BY <2>1, <2>2, <2>3 DEF Begins
<1> HIDE DEF n, m, e
<1> DEFINE g == [k \in 1..(n + m + 1) |-> IF k <= n THEN f[k] ELSE h[k - n]]
<1>4. \A k \in 1..(n + 1) : g[k] = f[k]
  <2> TAKE k \in 1..(n + 1)
  <2>1. k \in 1..(n + m + 1) /\ (k <= n \/ (k = n + 1 /\ k - n = 1))
    BY <1>3
  <2>2. ~(n + 1 <= n)
    BY <1>3
  <2> QED
    BY <1>1, <1>2, <2>1, <2>2
<1>5. \A k \in 1..(m + 1) : g[n + k] = h[k]
  <2> TAKE k \in 1..(m + 1)
  <2>1. n + k \in 1..(n + m + 1) /\ ~(n + k <= n) /\ (n + k) - n = k
    BY <1>3
  <2> QED
    BY <2>1
<1> HIDE DEF g
<1>6. g[1] = a /\ g[n + m + 1] = z
  <2>1. 1 \in 1..(n + 1) /\ m + 1 \in 1..(m + 1) /\ n + (m + 1) = n + m + 1
    BY <1>3
  <2> QED
    BY <1>1, <1>2, <1>4, <1>5, <2>1
<1>7. ASSUME NEW k \in 1..(n + m)
      PROVE  Agrees(e[k], g[k], g[k + 1])
  <2>1. CASE k \in 1..n
    <3>1. k \in 1..(n + 1) /\ k + 1 \in 1..(n + 1)
      BY <1>3, <2>1
    <3> QED
      BY <1>1, <1>3, <1>4, <2>1, <3>1
  <2>2. CASE k \notin 1..n
    <3> DEFINE j == k - n
    <3>1. j \in 1..m /\ j \in 1..(m + 1) /\ j + 1 \in 1..(m + 1) /\ n + j = k /\ n + (j + 1) = k + 1
      BY <1>3, <2>2
    <3> HIDE DEF j
    <3> QED
      BY <1>2, <1>3, <1>5, <3>1
  <2> QED
    BY <2>1, <2>2
<1> QED
  BY <1>3, <1>6, <1>7 DEF Leads, e

LEMMA LeadsHead ==
  ASSUME NEW c, IsSeq(c), c # <<>>, NEW a, NEW z, Leads(c, a, z)
  PROVE  \E b : Agrees(Head(c), a, b) /\ Leads(Tail(c), b, z)
<1>1. PICK g : g[1] = a /\ g[Len(c) + 1] = z /\ \A k \in 1..Len(c) : Agrees(c[k], g[k], g[k + 1])
  BY DEF Leads
<1> DEFINE n == Len(c)
           t == Tail(c)
<1>2. /\ n \in Nat \ {0} /\ IsSeq(t) /\ DOMAIN t = 1..(n - 1)
      /\ \A k \in 1..(n - 1) : t[k] = c[k + 1]
      /\ Head(c) = c[1]
  BY Tailed
<1>3. Len(t) = n - 1
  <2>1. Len(t) \in Nat /\ DOMAIN t = 1..Len(t)
    BY <1>2, SeqDomain
  <2> QED
    BY <1>2, <2>1
<1> HIDE DEF n, t
<1> DEFINE h == [k \in 1..n |-> g[k + 1]]
<1>4. h[1] = g[2] /\ h[n - 1 + 1] = z
  <2>1. 1 \in 1..n /\ n - 1 + 1 = n /\ n \in 1..n /\ 1 + 1 = 2
    BY <1>2
  <2> QED
    BY <1>1, <2>1 DEF n
<1>5. ASSUME NEW k \in 1..(n - 1)
      PROVE  Agrees(t[k], h[k], h[k + 1])
  <2>1. k \in 1..n /\ k + 1 \in 1..n
    BY <1>2
  <2>2. h[k] = g[k + 1] /\ h[k + 1] = g[k + 1 + 1]
    BY <2>1
  <2> HIDE DEF h
  <2> QED
    BY <1>1, <1>2, <2>1, <2>2 DEF n
<1>6. Agrees(Head(c), a, g[2])
  <2>1. 1 \in 1..n /\ 1 + 1 = 2
    BY <1>2
  <2> QED
    BY <1>1, <1>2, <2>1 DEF n
<1>7. Leads(t, h[1], z)
  <2> HIDE DEF h
  <2> QED
    BY <1>3, <1>4, <1>5 DEF Leads
<1> QED
  BY <1>4, <1>6, <1>7 DEF t

-----------------------------------------------------------------------------
\* What the notes give a step to start from, and what a step owes for them.

\* The links a note may stand before.
LEMMA AgreesBy ==
  ASSUME NEW l, NEW a, NEW b, Agrees(l, a, b)
  PROVE  /\ NoteOK(a) /\ NoteOK(b)
         /\ l.step \notin {"restore", "extensionAlias"}
         /\ l.step \in ThenSteps => a.kind \in {"exact", "request"}
         /\ l.step \in {"parse", "alias", "preferRelative", "scope", "imports",
                        "browser", "context", "fullySpecified"} =>
              AsSilent(l, a, b) /\ a.kind = "exact"
         /\ l.step \in {"self", "exports"} => AsSilent(l, a, b)
         /\ l.step = "enter" => AsEnter(l, a, b)
         /\ l.step = "dispatch" => AsDispatch(l, a, b)
         /\ l.step = "leave" => AsLeave(l, a, b)
         /\ l.step = "file" => AsFile(l, a, b)
         /\ l.step = "load" => AsLoad(l, a, b)
         /\ l.step = "dir" => AsDir(l, a, b)
         /\ l.step = "mainField" => AsMainField(l, a, b)
         /\ l.step = "mainFile" => AsMainFile(l, a, b)
         /\ l.step = "attempt" => AsAttempt(l, a, b)
         /\ l.step = "modules" => AsModules(l, a, b)
         /\ l.step \in {"inModules", "module"} => AsInModules(l, a, b)
         /\ l.step = "findUp" => AsFindUp(l, a, b)
         /\ l.step \in {"unlessFile", "unlessFailed"} => AsUnless(l, a, b)
         /\ l.step \in {"fallback", "symlink", "resource"} => AsLast(l, a, b)
<1> DEFINE x == l.step
<1>1. /\ AsSilent(l, a, b) =>
            /\ x \in {"parse", "alias", "preferRelative", "scope", "imports", "browser",
                      "context", "fullySpecified", "exports", "self"}
            /\ x \notin {"self", "exports"} => a.kind = "exact"
            /\ a.kind \in {"exact", "request"}
      /\ AsEnter(l, a, b) => x = "enter" /\ a.kind = "exact"
      /\ AsDispatch(l, a, b) => x = "dispatch" /\ a.kind = "exact"
      /\ AsLeave(l, a, b) => x = "leave"
      /\ AsFile(l, a, b) => x = "file" /\ a.kind = "exact"
      /\ AsLoad(l, a, b) => x = "load" /\ a.kind = "exact"
      /\ AsDir(l, a, b) => x = "dir" /\ a.kind = "exact"
      /\ AsMainField(l, a, b) => x = "mainField" /\ a.kind = "exact"
      /\ AsMainFile(l, a, b) => x = "mainFile" /\ a.kind = "exact"
  BY DEF AsSilent, AsEnter, AsDispatch, AsLeave, AsFile, AsLoad, AsDir, AsMainField, AsMainFile,
     Exactly, Loosely
<1>2. /\ AsAttempt(l, a, b) => x = "attempt"
      /\ AsModules(l, a, b) => x = "modules"
      /\ AsInModules(l, a, b) => x \in {"inModules", "module"} /\ a.kind = "exact"
      /\ AsFindUp(l, a, b) => x = "findUp" /\ a.kind = "request"
      /\ AsUnless(l, a, b) => x \in {"unlessFile", "unlessFailed"}
      /\ AsLast(l, a, b) => x \in {"fallback", "symlink", "resource"}
  BY DEF AsAttempt, AsModules, AsInModules, AsFindUp, AsUnless, AsLast
<1> HIDE DEF x
<1>3. NoteOK(a) /\ NoteOK(b) /\
      (\/ AsSilent(l, a, b) \/ AsEnter(l, a, b) \/ AsDispatch(l, a, b) \/ AsLeave(l, a, b)
      \/ AsFile(l, a, b) \/ AsLoad(l, a, b) \/ AsDir(l, a, b) \/ AsMainField(l, a, b)
      \/ AsMainFile(l, a, b) \/ AsAttempt(l, a, b) \/ AsModules(l, a, b)
      \/ AsInModules(l, a, b) \/ AsFindUp(l, a, b) \/ AsUnless(l, a, b) \/ AsLast(l, a, b))
  BY DEF Agrees
<1>4. ThenSteps = {"enter", "parse", "alias", "preferRelative", "scope", "imports", "browser",
   "dispatch", "context", "fullySpecified", "file", "extensionAlias", "load",
   "dir", "mainField", "mainFile", "inModules", "self", "exports", "findUp"}
  BY DEF ThenSteps
<1> QED
  BY <1>1, <1>2, <1>3, <1>4 DEF x

\* The call stands between two notes.
Stands(a, b, z) ==
  /\ Leads(control, a, z) /\ Agrees(Item, a, b) /\ Leads(Tail(control), b, z)
  /\ Fits(state, a) /\ a.left = MaxDepth - 1 - depth
  /\ a.ans = First(Tries) /\ z.ans = Nothing

\* A search that is not at its end has a first link.
LEMMA SearchingStands ==
  ASSUME CallInv, control # <<>>, Searching
  PROVE  \E a, b, z : Stands(a, b, z)
<1>1. PICK a, z : /\ NoteOK(a) /\ Leads(control, a, z) /\ Fits(state, a)
                  /\ a.left = MaxDepth - 1 - depth
                  /\ a.ans = First(Tries) /\ z.ans = Nothing
  BY DEF Searching
<1>2. \E b : Agrees(Item, a, b) /\ Leads(Tail(control), b, z)
  BY <1>1, LeadsHead DEF CallInv, ChainOK, Item
<1> QED
  BY <1>1, <1>2 DEF Stands

\* A step that puts the chain next in the place of its first link.
LEMMA Advance ==
  ASSUME CallInv, Plain, [Next]_vars, control # <<>>, NEW a, NEW b, NEW z, Stands(a, b, z),
         NEW s, NEW next, IsSeq(next), NEW e, Leads(next, e, b), NoteOK(e), Fits(s, e),
         e.left = MaxDepth - 1 - depth', e.ans = a.ans,
         state' = s, control' = next \o Tail(control)
  PROVE  SearchInv'
<1>1. w' = w
  BY WorldStays
<1>2. IsSeq(Tail(control))
  BY HeadLink
<1>3. Leads(next \o Tail(control), e, z)
  BY <1>2, LeadsJoin DEF Stands
<1>4. Leads(control, e, z)' /\ Fits(state, e)' /\ NoteOK(e)'
  BY <1>1, <1>3, LeadsStays
<1>5. First(Tries)' = First(Tries)
  BY <1>1, TriesStay
<1> DEFINE x == First(Tries)
<1> HIDE DEF x
<1>6. x' = x /\ e.ans = x /\ e.left = MaxDepth - 1 - depth' /\ z.ans = Nothing
  BY <1>5 DEF Stands, x
<1>7. e.ans = x'
  BY <1>6
<1>8. /\ NoteOK(e)' /\ Leads(control, e, z)' /\ Fits(state, e)'
      /\ e.left = MaxDepth - 1 - depth' /\ e.ans = x' /\ z.ans = Nothing'
  BY <1>4, <1>6, <1>7 DEF Nothing
<1>9. Searching'
  BY <1>8 DEF Searching, x
<1> QED
  BY <1>9 DEF SearchInv

\* The link does nothing but hand the state on.
LEMMA HandOn ==
  ASSUME CallInv, Plain, [Next]_vars, control # <<>>, NEW a, NEW b, NEW z, Stands(a, b, z),
         NEW s, Fits(s, b), b.left = a.left, b.ans = a.ans, Return(s)
  PROVE  SearchInv'
<1> DEFINE none == <<>>
<1>1. IsSeq(none) /\ Leads(none, b, b)
  BY LeadsNone DEF IsSeq
<1>2. state' = s /\ control' = none \o Tail(control) /\ depth' = depth
  BY DEF Return, Goto
<1>3. NoteOK(b) /\ b.left = MaxDepth - 1 - depth'
  BY <1>2, AgreesBy DEF Stands
<1> HIDE DEF none
<1> QED
  BY <1>1, <1>2, <1>3, Advance

\* The link puts others in its place.
LEMMA PutIn ==
  ASSUME CallInv, Plain, [Next]_vars, control # <<>>, NEW a, NEW b, NEW z, Stands(a, b, z),
         NEW s, NEW next, IsSeq(next), NEW e, Leads(next, e, b), NoteOK(e), Fits(s, e),
         e.left = a.left, e.ans = a.ans, Goto(s, next)
  PROVE  SearchInv'
<1>1. /\ state' = s /\ control' = next \o Tail(control) /\ depth' = depth
      /\ e.left = MaxDepth - 1 - depth'
  BY DEF Stands, Goto
<1> QED
  BY <1>1, Advance

LEMMA SilentStep ==
  ASSUME CallInv, Plain, [Next]_vars, control # <<>>, NEW a, NEW b, NEW z, Stands(a, b, z),
         AsSilent(Item, a, b)
  PROVE  /\ Return(state) => SearchInv'
         /\ \A next : IsSeq(next) /\ Leads(next, a, a) /\ Goto(state, next) => SearchInv'
<1>1. b = a /\ Fits(state, a) /\ NoteOK(a)
  BY AgreesBy DEF AsSilent, Stands
<1> QED
  BY <1>1, HandOn, PutIn

\* The file that has been found is the one.
LEMMA FoundIt ==
  ASSUME Plain, w' = w, NEW p, First(Tries) = File(p), NEW i, i.path = p, state' = Success(i),
         Len(control') > 1
  PROVE  SearchInv'
<1>1. First(Tries)' = First(Tries)
  BY TriesStay
<1> DEFINE x == First(Tries)
<1> HIDE DEF x
<1>2. x' = x
  BY <1>1 DEF x
<1>3. state.tag' = "Success" /\ Info.path' = p
  BY DEF Success, Info
<1>4. x' = File(p)
  BY <1>2 DEF x
<1>5. Right'
  BY <1>3, <1>4 DEF Right, x, File
<1> QED
  BY <1>5 DEF SearchInv

\* A link that does not lead to the real path hands a success on.
LEMMA SuccessPasses ==
  ASSUME CallInv, Plain, Next, state.tag = "Success", ~Symlink
  PROVE  /\ control # <<>> /\ Item.step # "symlink"
         /\ state' = state /\ control' = Tail(control)
<1>1. IsFinished(state) /\ \A step : ~Then(step)
  BY DEF IsFinished, Then
<1>2. \A step : step # "symlink" /\ Doing(step) /\ Return(state) =>
        /\ control # <<>> /\ Item.step # "symlink"
        /\ state' = state /\ control' = Tail(control)
  BY HeadLink, NothingBefore DEF Return, Goto, Doing
<1>3. ~Plugins
  BY <1>1 DEF Plugins, ParsePlugin, AliasPlugin, PreferRelativePlugin,
       PackageScope, ImportsFieldPlugin, BrowserFieldPlugin,
       ExportsFieldPlugin, MainFieldPlugin, MainFilePlugin, ExtensionAliasPlugin
<1>4. CASE Methods
  <2>1. ~(\/ Enter \/ Dispatch \/ ResolveAsContext
          \/ ResolveAsFullySpecified \/ ResolveAsFile \/ LoadFile
          \/ ResolveAsDir \/ FindUp \/ InModules \/ ResolveSelf
          \/ ResolveNodeModules)
    BY <1>1 DEF Enter, Dispatch, ResolveAsContext, ResolveAsFullySpecified,
         ResolveAsFile, LoadFile, ResolveAsDir, FindUp, InModules, ResolveSelf,
         ResolveNodeModules
  <2>2. CASE Leave
    BY <2>2 DEF Leave, Doing
  <2>3. CASE ResolveAsModules
    BY <1>1, <1>2, <2>3 DEF ResolveAsModules
  <2>4. CASE UnlessFile
    BY <1>1, <1>2, <2>4 DEF UnlessFile
  <2>5. CASE UnlessFailed
    BY <1>2, <2>5 DEF UnlessFailed
  <2>6. CASE Fallback
    BY <1>2, <2>6 DEF Fallback
  <2>7. CASE MakeResource
    <3>1. ~PkgFails(Info.path)
      BY PlainPkgs DEF CallInv
    <3> QED
      BY <1>2, <2>7, <3>1 DEF MakeResource
  <2> QED
    BY <1>4, <2>1, <2>2, <2>3, <2>4, <2>5, <2>6, <2>7 DEF Methods
<1>5. CASE Skip
  BY <1>2, <1>5 DEF Skip, Doing, ThenSteps
<1>6. CASE NextAttempt
  BY <1>1, <1>2, <1>6 DEF NextAttempt
<1>7. CASE RestoreFully
  BY <1>7 DEF RestoreFully, Doing
<1> QED
  BY <1>3, <1>4, <1>5, <1>6, <1>7 DEF Next

\* A finished call stays as it is, but for the real path of what was found.
LEMMA RightStays ==
  ASSUME CallInv, Plain, Right, [Next]_vars
  PROVE  SearchInv'
<1>1. w' = w
  BY WorldStays
<1>2. First(Tries)' = First(Tries)
  BY <1>1, TriesStay
<1> DEFINE x == First(Tries)
<1> HIDE DEF x
<1>3. x' = x
  BY <1>2 DEF x
<1>4. CASE state = Error("Overflow") /\ x = TooDeep
  <2>1. state' = state
    BY <1>4, ErrorStep DEF Error
  <2>2. (state = Error("Overflow") /\ x = TooDeep)'
    BY <1>3, <1>4, <2>1 DEF Error, TooDeep
  <2> QED
    BY <2>2 DEF SearchInv, Right, x
<1>5. ASSUME NEW q, state.tag = "Success", x = File(q),
             Info.path = IF Len(control) > 1 THEN q ELSE Real(q)
      PROVE  SearchInv'
  <2>1. SUFFICES /\ state.tag' = "Success"
                 /\ Info.path' = IF Len(control') > 1 THEN q ELSE Real(q)
    <3> SUFFICES ASSUME state.tag' = "Success",
                        Info.path' = IF Len(control') > 1 THEN q ELSE Real(q)
                 PROVE  Right'
      BY DEF SearchInv
    <3>1. x' = File(q)' /\ Real(q)' = Real(q)
      BY <1>1, <1>3, <1>5 DEF File, Real
    <3> QED
      BY <3>1 DEF Right, x
  <2>2. CASE UNCHANGED vars
    BY <1>5, <2>2 DEF vars, Info
  <2>3. CASE Next /\ ~Symlink
    <3>1. /\ control # <<>> /\ Item.step # "symlink"
          /\ state' = state /\ control' = Tail(control)
      BY <1>5, <2>3, SuccessPasses
    <3> DEFINE n == Len(control)
               m == Len(Tail(control))
    <3>2. /\ n \in Nat /\ m = n - 1 /\ (Item.step = "resource" => m = 0)
          /\ (Item.step \notin {"symlink", "resource"} => m > 1)
      <4>1. Closing(control)
        BY DEF CallInv
      <4> QED
        BY <3>1, <4>1, ClosingTail DEF Item
    <3> HIDE DEF n, m
    <3>3. m > 1 <=> n > 1
      BY <3>1, <3>2
    <3>4. Len(Tail(control)) > 1 <=> Len(control) > 1
      BY <3>3 DEF n, m
    <3> QED
      BY <1>5, <3>1, <3>4 DEF Info
  <2>4. CASE Symlink
    <3>1. Item.step = "symlink" /\ control # <<>>
      BY <2>4 DEF Symlink, Doing
    <3>2. control' = Tail(control)
      BY <2>4, <3>1, HeadLink, NothingBefore DEF Symlink, Return, Goto
    <3>3. Len(Tail(control)) = 1 /\ Len(control) > 1
      <4> DEFINE n == Len(control)
                 m == Len(Tail(control))
      <4>1. Closing(control)
        BY DEF CallInv
      <4>2. n \in Nat /\ m = n - 1 /\ m = 1
        BY <3>1, <4>1, ClosingTail DEF Item
      <4> HIDE DEF n, m
      <4>3. m = 1 /\ n > 1
        BY <4>2
      <4> QED
        BY <4>3 DEF n, m
    <3>4. Info.path = q
      BY <1>5, <3>3
    <3>5. state' = IF w.symlinks /\ q \in DOMAIN w.real
                   THEN Success(WithPath(Info, w.real[q])) ELSE state
      BY <1>5, <2>4, <3>4 DEF Symlink, Return, Goto
    <3>6. IsInfo(Info)
      BY <1>5, StatesOK
    <3>7. WithPath(Info, w.real[q]).path = w.real[q]
      BY <3>6, InfoOf
    <3>8. state.tag' = "Success" /\ Info.path' = Real(q)
      BY <1>5, <3>4, <3>5, <3>7 DEF Success, Info, Real
    <3> QED
      BY <3>2, <3>3, <3>8
  <2> QED
    BY <2>2, <2>3, <2>4
<1> QED
  BY <1>4, <1>5 DEF Right, x

-----------------------------------------------------------------------------
\* The links that do nothing in a plain call.

\* The state where a note says which it is.
LEMMA AtExact ==
  ASSUME NEW a, NEW b, NEW z, Stands(a, b, z), a.kind = "exact"
  PROVE  /\ state = Resolving(a.info) /\ Info = a.info /\ Plainly(Info) /\ IsInfo(Info)
         /\ NoteOK(a) /\ NoteOK(b)
<1>1. NoteOK(a) /\ NoteOK(b)
  BY AgreesBy DEF Stands
<1>2. state = Resolving(a.info)
  BY DEF Stands, Fits
<1> QED
  BY <1>1, <1>2 DEF NoteOK, Plainly, Resolving, Info

\* A chain of two links.
LEMMA LeadsTwo ==
  ASSUME NEW k, NEW l, NEW a, NEW b, NEW c, Agrees(k, a, b), Agrees(l, b, c)
  PROVE  Leads(<<k, l>>, a, c) /\ IsSeq(<<k, l>>)
<1> DEFINE g == [i \in 1..3 |-> IF i = 1 THEN a ELSE IF i = 2 THEN b ELSE c]
           e == <<k, l>>
<1>1. g[1] = a /\ g[2] = b /\ g[3] = c
  OBVIOUS
<1>2. e \in Seq({k, l}) /\ Len(e) = 2 /\ e[1] = k /\ e[2] = l
  OBVIOUS
<1> HIDE DEF g, e
<1>3. \A i \in 1..2 : Agrees(e[i], g[i], g[i + 1])
  <2>1. \A i \in 1..2 : (i = 1 /\ i + 1 = 2) \/ (i = 2 /\ i + 1 = 3)
    OBVIOUS
  <2> QED
    BY <1>1, <1>2, <2>1
<1>4. IsSeq(e)
  BY <1>2, SeqIsSeq
<1>5. Leads(e, a, c)
  <2>1. Len(e) + 1 = 3 /\ 1..Len(e) = 1..2
    BY <1>2
  <2> QED
    BY <1>1, <1>3, <2>1 DEF Leads
<1> QED
  BY <1>4, <1>5 DEF e

\* fully_specified stays off where nothing switches it on.
LEMMA NotFully ==
  ASSUME CallInv, Plain, NEW a, NEW b, NEW z, Stands(a, b, z)
  PROVE  ~fully
<1>1. PICK g : \A k \in 1..Len(control) : Agrees(control[k], g[k], g[k + 1])
  BY DEF Stands, Leads
<1>2. DOMAIN control = 1..Len(control)
  BY SeqDomain DEF CallInv, ChainOK
<1>3. \A k \in DOMAIN control : control[k].step # "restore"
  BY <1>1, <1>2, AgreesBy
<1>4. fully = w.fully
  BY <1>3 DEF CallInv, RestoredIn
<1> QED
  BY <1>4 DEF Plain

\* A loop without alternatives.
LEMMA NoLoop ==
  ASSUME NEW a, NoteOK(a), NEW s, Fits(s, a), NEW mode, mode # "on"
  PROVE  IsSeq(Attempt(<<>>, mode, s)) /\ Leads(Attempt(<<>>, mode, s), a, a)
<1> DEFINE none == <<>>
           l == [step |-> "attempt", list |-> none, next |-> 1, mode |-> mode, last |-> s]
<1>1. IsSeq(none) /\ Len(none) = 0 /\ DOMAIN none = {}
  BY DEF IsSeq
<1>2. FlattenSeq(CallLists(a.left, Remaining(none, 1))) = <<>>
  <2>1. Remaining(none, 1) = <<>>
    BY DEF Remaining
  <2>2. CallLists(a.left, <<>>) = <<>>
    BY DEF CallLists
  <2> QED
    BY <2>1, <2>2, FlattenNone
<1>3. Onward(a, a, FlattenSeq(CallLists(a.left, Remaining(none, 1))))
  BY <1>2, EndsNone DEF Onward
<1> HIDE DEF none
<1>4. AsAttempt(l, a, a)
  BY <1>1, <1>3 DEF AsAttempt
<1>5. Agrees(l, a, a)
  BY <1>4 DEF Agrees
<1>6. Attempt(none, mode, s) = <<l>>
  BY DEF Attempt, AttemptFrom
<1> HIDE DEF l
<1> QED
  BY <1>5, <1>6, LeadsOne, OneSeq DEF none

\* Without aliases there is no alternative.
LEMMA NoAliases == \A i : AliasTargets(<<>>, i) = <<>>
<1> TAKE i
<1>1. ASSUME NEW F(_)
      PROVE  Map(F, <<>>) = <<>>
  BY DEF Map
<1> QED
  BY DEF AliasTargets, Selected, Map, FlattenSeq

\* Where a link asks nothing, the request goes on as it is.
LEMMA QuietStep ==
  ASSUME CallInv, Plain, Next, control # <<>>, NEW a, NEW b, NEW z, Stands(a, b, z),
         \/ ParsePlugin \/ AliasPlugin \/ PreferRelativePlugin \/ PackageScope
         \/ ImportsFieldPlugin \/ BrowserFieldPlugin \/ ResolveAsContext
         \/ ResolveAsFullySpecified
  PROVE  SearchInv'
<1>0. [Next]_vars
  OBVIOUS
<1>1. /\ Item.step \in {"parse", "alias", "preferRelative", "scope", "imports", "browser",
                        "context", "fullySpecified"}
      /\ state.tag = "Resolving"
  BY DEF ParsePlugin, AliasPlugin, PreferRelativePlugin, PackageScope, ImportsFieldPlugin,
     BrowserFieldPlugin, ResolveAsContext, ResolveAsFullySpecified, Then, Doing
<1>2. AsSilent(Item, a, b) /\ a.kind = "exact" /\ NoteOK(a)
  BY <1>1, AgreesBy DEF Stands
<1>3. Plainly(Info) /\ IsInfo(Info) /\ Fits(state, a)
  BY <1>2, AtExact DEF Stands
<1>4. Return(state) => SearchInv'
  BY <1>0, <1>2, SilentStep
<1>5. \A next : IsSeq(next) /\ Leads(next, a, a) /\ Goto(state, next) => SearchInv'
  BY <1>0, <1>2, SilentStep
<1>6. \A mode : mode # "on" /\ Goto(state, Attempt(<<>>, mode, state)) => SearchInv'
  BY <1>2, <1>3, <1>5, NoLoop
<1>7. CASE ParsePlugin
  BY <1>3, <1>6, <1>7 DEF ParsePlugin, Plainly
<1>8. CASE AliasPlugin
  BY <1>6, <1>8, NoAliases DEF AliasPlugin, Plain
<1>9. CASE PreferRelativePlugin
  BY <1>6, <1>9 DEF PreferRelativePlugin, Plain
<1>10. CASE PackageScope
  <2> DEFINE p == Resolved(Info)
             k == [step |-> "imports", dir |-> PkgDir(p)]
             l == [step |-> "browser", dir |-> PkgDir(p), self |-> FALSE]
  <2>1. ~PkgFails(p) /\ (HasPkg(p) => PkgDir(p) \in DOMAIN w.pkg)
    BY PlainPkgs DEF CallInv
  <2>2. Return(state) \/ (HasPkg(p) /\ Goto(state, <<k, l>>))
    BY <1>10, <2>1 DEF PackageScope
  <2>3. HasPkg(p) => Agrees(k, a, a) /\ Agrees(l, a, a)
    BY <1>2, <2>1 DEF Agrees, AsSilent, InPkg
  <2> HIDE DEF k, l, p
  <2> QED
    BY <1>4, <1>5, <2>2, <2>3, LeadsTwo
<1>11. CASE ImportsFieldPlugin
  BY <1>3, <1>4, <1>11 DEF ImportsFieldPlugin, Plainly
<1>12. CASE BrowserFieldPlugin
  BY <1>4, <1>12 DEF BrowserFieldPlugin, Plain
<1>13. CASE ResolveAsContext
  BY <1>4, <1>13 DEF ResolveAsContext, Plain
<1>14. CASE ResolveAsFullySpecified /\ ~fully
  BY <1>4, <1>14 DEF ResolveAsFullySpecified
<1>15. ~fully
  BY NotFully
<1> QED
  BY <1>7, <1>8, <1>9, <1>10, <1>11, <1>12, <1>13, <1>14, <1>15

\* A package refers to itself by its exports only.
LEMMA SelfStep ==
  ASSUME CallInv, Plain, Next, control # <<>>, NEW a, NEW b, NEW z, Stands(a, b, z),
         ResolveSelf \/ ExportsFieldPlugin
  PROVE  SearchInv'
<1>0. [Next]_vars
  OBVIOUS
<1>1. Item.step \in {"self", "exports"}
  BY DEF ResolveSelf, ExportsFieldPlugin, Then, Doing
<1>2. AsSilent(Item, a, b) /\ NoteOK(a)
  BY <1>1, AgreesBy DEF Stands
<1>3. Return(state) => SearchInv'
  BY <1>0, <1>2, SilentStep
<1>4. Item.dir \in DOMAIN w.pkg
  BY <1>1, <1>2 DEF AsSilent, InPkg
<1>5. CASE ExportsFieldPlugin
  BY <1>3, <1>4, <1>5 DEF ExportsFieldPlugin, Plain, Pkg
<1>6. CASE ResolveSelf
  <2> DEFINE l == [step |-> "exports", dir |-> Item.dir]
  <2>1. Item.step = "self"
    BY <1>6 DEF ResolveSelf, Then, Doing
  <2>2. Agrees(l, a, a)
    BY <1>2, <1>4, <2>1 DEF Agrees, AsSilent, InPkg
  <2>3. Return(state) \/ Goto(state, <<l>>)
    BY <1>6 DEF ResolveSelf
  <2> HIDE DEF l
  <2>4. IsSeq(<<l>>) /\ Leads(<<l>>, a, a)
    BY <2>2, LeadsOne, OneSeq
  <2> QED
    BY <1>0, <1>2, <1>3, <2>3, <2>4, SilentStep
<1> QED
  BY <1>5, <1>6

-----------------------------------------------------------------------------
\* Lists of calls, one place after the other.

\* Sequences with the same entries are the same.
LEMMA SeqSame ==
  ASSUME NEW x, NEW y, IsSeq(x), IsSeq(y), Len(x) = Len(y), \A k \in 1..Len(x) : x[k] = y[k]
  PROVE  x = y
<1> DEFINE S(s) == {s[k] : k \in DOMAIN s}
           U == S(x) \cup S(y)
<1>1. x \in Seq(S(x)) /\ y \in Seq(S(y)) /\ S(x) \subseteq U /\ S(y) \subseteq U
  BY DEF IsSeq
<1>2. x \in Seq(U) /\ y \in Seq(U)
  <2> HIDE DEF U, S
  <2> QED
    BY <1>1, SeqMonotonic
<1> HIDE DEF U
<1> QED
  BY <1>2, SeqEqual

\* A try that ends the search does so.
LEMMA EndsOne ==
  ASSUME NEW t, IsHit(t)
  PROVE  \A x : Ends(<<t>>, x) = t
<1> TAKE x
<1> DEFINE A == <<t>>
<1>1. Len(A) = 1 /\ A[1] = t
  BY OneSeq
<1> HIDE DEF A
<1>2. Hits(A) = {1}
  BY <1>1 DEF Hits
<1>3. Min({1}) = 1
  <2>1. {1} \in SUBSET Nat /\ 1 \in {1} /\ \A k \in {1} : 1 <= k
    OBVIOUS
  <2> QED
    BY <2>1, MinIs
<1> QED
  BY <1>1, <1>2, <1>3 DEF Ends, A

\* Calls for one place after the other.
LEMMA CallsJoined ==
  ASSUME w \in Worlds, Plain, NEW n \in 0..MaxDepth, NEW s, IsSeq(s), NEW t, IsSeq(t), NEW x
  PROVE  Ends(FlattenSeq(CallLists(n, s \o t)), x) =
           Ends(FlattenSeq(CallLists(n, s)), Ends(FlattenSeq(CallLists(n, t)), x))
<1> DEFINE a == CallLists(n, s)
           b == CallLists(n, t)
           c == CallLists(n, s \o t)
<1>1. /\ Lists(a) /\ Len(a) = Len(s) /\ IsSeq(FlattenSeq(a))
      /\ Lists(b) /\ Len(b) = Len(t) /\ IsSeq(FlattenSeq(b))
  BY CallListsOK
<1>2. c = a \o b
  <2> DEFINE u == s \o t
  <2>1. /\ IsSeq(u) /\ Len(s) \in Nat /\ Len(t) \in Nat /\ DOMAIN u = 1..(Len(s) + Len(t))
        /\ \A k \in 1..Len(t) : u[Len(s) + k] = t[k]
    BY Concatenated
  <2>2. \A k \in 1..Len(s) : u[k] = s[k]
    BY BeginsJoined DEF Begins
  <2>3. Len(u) = Len(s) + Len(t)
    <3>1. Len(u) \in Nat /\ DOMAIN u = 1..Len(u)
      BY <2>1, SeqDomain
    <3> QED
      BY <2>1, <3>1
  <2> HIDE DEF u
  <2>4. IsSeq(c) /\ Len(c) = Len(s) + Len(t)
    <3>1. Lists(c) /\ Len(c) = Len(u)
      BY <2>1, CallListsOK DEF u
    <3> QED
      BY <2>3, <3>1 DEF Lists
  <2> DEFINE d == a \o b
             m == Len(s)
             l == Len(t)
  <2>5. /\ IsSeq(d) /\ DOMAIN d = 1..(m + l)
        /\ \A k \in 1..l : d[m + k] = b[k]
    BY <1>1, Concatenated DEF Lists
  <2>6. \A k \in 1..m : d[k] = a[k]
    BY <1>1, BeginsJoined DEF Begins, Lists
  <2>7. Len(d) = m + l
    <3> HIDE DEF d
    <3>1. Len(d) \in Nat /\ DOMAIN d = 1..Len(d)
      BY <2>5, SeqDomain
    <3> QED
      BY <2>1, <2>5, <3>1
  <2>8. /\ \A k \in 1..m : c[k] = CallTries(n, u[k]) /\ a[k] = CallTries(n, s[k])
        /\ \A k \in 1..l : c[m + k] = CallTries(n, u[m + k]) /\ b[k] = CallTries(n, t[k])
    <3>1. \A k \in 1..m : k \in 1..(m + l)
      BY <2>1
    <3>2. \A k \in 1..l : m + k \in 1..(m + l)
      BY <2>1
    <3>3. c = [k \in 1..(m + l) |-> CallTries(n, u[k])]
      BY <2>3 DEF CallLists, u
    <3>4. a = [k \in 1..m |-> CallTries(n, s[k])] /\ b = [k \in 1..l |-> CallTries(n, t[k])]
      BY DEF CallLists
    <3> HIDE DEF a, b, c, m, l
    <3> QED
      BY <3>1, <3>2, <3>3, <3>4
  <2> HIDE DEF a, b, c, d
  <2>9. \A k \in 1..(m + l) : c[k] = d[k]
    <3> TAKE k \in 1..(m + l)
    <3>1. CASE k \in 1..m
      BY <2>2, <2>6, <2>8, <3>1
    <3>2. CASE k \notin 1..m
      <4> DEFINE j == k - m
      <4>1. j \in 1..l /\ m + j = k
        BY <2>1, <3>2
      <4> HIDE DEF j, m, l
      <4>2. c[m + j] = d[m + j]
        <5>1. c[m + j] = CallTries(n, u[m + j]) /\ b[j] = CallTries(n, t[j]) /\ d[m + j] = b[j]
          BY <2>5, <2>8, <4>1
        <5>2. u[m + j] = t[j]
          BY <2>1, <4>1 DEF m, l
        <5> QED
          BY <5>1, <5>2
      <4> QED
        BY <4>1, <4>2
    <3> QED
      BY <3>1, <3>2
  <2>10. Len(c) = Len(d) /\ IsSeq(c) /\ IsSeq(d) /\ \A k \in 1..Len(c) : c[k] = d[k]
    BY <2>4, <2>5, <2>7, <2>9
  <2> HIDE DEF m, l
  <2>11. c = d
    BY <2>10, SeqSame
  <2> QED
    BY <2>11 DEF d
<1>3. FlattenSeq(c) = FlattenSeq(a) \o FlattenSeq(b)
  <2> DEFINE R(ss) == UNION {{ss[k][j] : j \in DOMAIN ss[k]} : k \in DOMAIN ss}
             S == R(a) \cup R(b)
  <2>1. ASSUME NEW ss, Lists(ss), R(ss) \subseteq S
        PROVE  ss \in Seq(Seq(S))
    <3>1. ASSUME NEW k \in DOMAIN ss
          PROVE  ss[k] \in Seq(S)
      <4> DEFINE T == {ss[k][j] : j \in DOMAIN ss[k]}
      <4>1. ss[k] \in Seq(T)
        BY <2>1 DEF Lists, IsSeq
      <4>2. T \subseteq S
        BY <2>1
      <4> HIDE DEF T, S
      <4> QED
        BY <4>1, <4>2, SeqMonotonic
    <3> DEFINE Q == {ss[k] : k \in DOMAIN ss}
    <3>2. ss \in Seq(Q)
      BY <2>1 DEF Lists, IsSeq
    <3>3. Q \subseteq Seq(S)
      <4> HIDE DEF S
      <4> QED
        BY <3>1
    <3> HIDE DEF Q, S
    <3> QED
      BY <3>2, <3>3, SeqMonotonic
  <2>2. R(a) \subseteq S /\ R(b) \subseteq S
    OBVIOUS
  <2> HIDE DEF R, S, a, b
  <2>3. a \in Seq(Seq(S)) /\ b \in Seq(Seq(S))
    BY <1>1, <2>1, <2>2
  <2> QED
    BY <1>2, <2>3, FlattenConcat
<1> HIDE DEF a, b, c
<1>4. EndsThen(FlattenSeq(a), FlattenSeq(b), x)
  BY <1>1, EndsJoined
<1> QED
  BY <1>3, <1>4 DEF EndsThen, a, b, c

\* No place, no call.
LEMMA NoCalls == \A n, x : Ends(FlattenSeq(CallLists(n, <<>>)), x) = x
<1> TAKE n, x
<1>1. CallLists(n, <<>>) = <<>>
  BY DEF CallLists
<1> QED
  BY <1>1, FlattenNone, EndsNone

-----------------------------------------------------------------------------
\* _resolve: it starts with the plugins, or ends the call at its depth.

\* A chain of steps without arguments.
LEMMA ThensIs ==
  ASSUME NEW S, NEW s \in Seq(S)
  PROVE  /\ IsSeq(Thens(s)) /\ Len(Thens(s)) = Len(s)
         /\ \A k \in 1..Len(s) : Thens(s)[k] = [step |-> s[k]]
<1> DEFINE c == Thens(s)
           n == Len(s)
<1>1. c = [k \in 1..n |-> [step |-> s[k]]] /\ n \in Nat
  BY DEF Thens, Map
<1>2. c = [k \in 1..n |-> c[k]] /\ \A k \in 1..n : c[k] = [step |-> s[k]]
  BY <1>1
<1> HIDE DEF c, n
<1> QED
  BY <1>1, <1>2, ListIs DEF c, n

\* The end of a call, of the branches of the chain and of resolve itself.
LEMMA EndStep ==
  ASSUME CallInv, Plain, Next, depth \in Int, control # <<>>, NEW a, NEW b, NEW z,
         Stands(a, b, z),
         Leave \/ UnlessFile \/ UnlessFailed \/ Fallback \/ Symlink \/ MakeResource
  PROVE  SearchInv'
<1>0. [Next]_vars /\ Agrees(Item, a, b) /\ NoteOK(a) /\ NoteOK(b) /\ Fits(state, a)
      /\ a.left = MaxDepth - 1 - depth /\ a.ans = First(Tries)
  BY AgreesBy DEF Stands
<1>1. CASE Leave
  <2>1. AsLeave(Item, a, b)
    BY <1>0, <1>1, AgreesBy DEF Leave, Doing
  <2> DEFINE none == <<>>
  <2>2. IsSeq(none) /\ Leads(none, b, b)
    BY LeadsNone DEF IsSeq
  <2>3. none \o Tail(control) = Tail(control)
    <3>1. IsSeq(Tail(control))
      BY HeadLink
    <3> DEFINE t == Tail(control)
    <3>2. t \in Seq({t[k] : k \in DOMAIN t})
      BY <3>1 DEF IsSeq
    <3> HIDE DEF t
    <3> QED
      BY <3>2, ConcatEmptySeq DEF t
  <2>4. state' = state /\ control' = none \o Tail(control) /\ depth' = depth - 1
    BY <1>1, <2>3 DEF Leave
  <2>5. b.left = MaxDepth - 1 - depth' /\ b.ans = a.ans /\ Fits(state, b)
    BY <1>0, <2>1, <2>4, DepthAssumption DEF AsLeave, NoteOK, Fits
  <2> HIDE DEF none
  <2> QED
    BY <1>0, <2>2, <2>4, <2>5, Advance
<1>2. CASE UnlessFile
  <2>1. Item.step = "unlessFile" /\ Return(IF IsFinished(state) THEN state ELSE Resolving(Item.info))
    BY <1>2 DEF UnlessFile, Doing
  <2>2. AsUnless(Item, a, b)
    BY <1>0, <2>1, AgreesBy
  <2>3. ~IsFinished(state)
    BY <1>0 DEF Fits, IsFinished
  <2>4. Fits(Resolving(Item.info), b)
    BY <2>1, <2>2 DEF AsUnless, Fits, Resolving
  <2> QED
    BY <1>0, <2>1, <2>2, <2>3, <2>4, HandOn DEF AsUnless
<1>3. CASE UnlessFailed
  <2>1. Item.step = "unlessFailed"
        /\ Return(IF state.tag = "Failed" THEN Resolving(Info) ELSE state)
    BY <1>3 DEF UnlessFailed, Doing
  <2>2. AsUnless(Item, a, b)
    BY <1>0, <2>1, AgreesBy
  <2>3. a.kind = "asked" /\ b.kind = "request"
    BY <2>1, <2>2 DEF AsUnless
  <2>4. Fits(IF state.tag = "Failed" THEN Resolving(Info) ELSE state, b)
    BY <1>0, <2>3 DEF Fits, Resolving, Info
  <2> QED
    BY <1>0, <2>1, <2>2, <2>4, HandOn DEF AsUnless
<1>4. CASE Fallback \/ Symlink \/ MakeResource
  <2>1. AsLast(Item, a, b)
    BY <1>0, <1>4, AgreesBy DEF Fallback, Symlink, MakeResource, Doing
  <2>2. Fits(state, b)
    BY <1>0, <2>1 DEF AsLast, Fits
  <2>3. Return(state) => SearchInv'
    BY <1>0, <2>1, <2>2, HandOn DEF AsLast
  <2>4. CASE Fallback
    <3> DEFINE r == Resolving(Info)
    <3>1. Return(state) \/ Goto(r, Attempt(<<>>, "off", r))
      BY <2>4, NoAliases DEF Fallback, Plain
    <3>2. Fits(r, b)
      BY <2>1 DEF AsLast, Fits, Resolving
    <3>3. IsSeq(Attempt(<<>>, "off", r)) /\ Leads(Attempt(<<>>, "off", r), b, b)
      BY <1>0, <3>2, NoLoop
    <3> HIDE DEF r
    <3> QED
      BY <1>0, <2>1, <2>3, <3>1, <3>2, <3>3, PutIn DEF AsLast
  <2>5. CASE Symlink \/ MakeResource
    <3>1. state.tag # "Success"
      BY <1>0 DEF Fits
    <3> QED
      BY <2>3, <2>5, <3>1 DEF Symlink, MakeResource
  <2> QED
    BY <1>4, <2>4, <2>5
<1> QED
  BY <1>1, <1>2, <1>3, <1>4

\* A call too many ends the search, any other one begins with the plugins.
LEMMA EnterStep ==
  ASSUME CallInv, Plain, Next, depth \in Int, control # <<>>, NEW a, NEW b, NEW z,
         Stands(a, b, z), Enter
  PROVE  SearchInv'
<1>0. [Next]_vars /\ w' = w
  BY WorldStays
<1>1. /\ AsEnter(Item, a, b) /\ a.kind = "exact" /\ NoteOK(a) /\ NoteOK(b) /\ Fits(state, a)
      /\ a.left = MaxDepth - 1 - depth /\ a.ans = First(Tries)
  <2>1. AsEnter(Item, a, b) /\ NoteOK(a) /\ NoteOK(b)
    BY AgreesBy DEF Stands, Enter, Then, Doing
  <2> QED
    BY <2>1 DEF AsEnter, Stands
<1>2. a.left \in 0..(MaxDepth - 1) /\ MaxDepth \in Nat \ {0}
  BY <1>1, DepthAssumption DEF NoteOK
<1>3. CASE depth + 1 >= MaxDepth
  <2>1. a.left = 0
    BY <1>1, <1>2, <1>3
  <2>2. SearchFor(0, a.info) = <<TooDeep>>
    <3>1. CASE IsPathLike(a.info)
      BY <3>1 DEF SearchFor, CallTries
    <3>2. CASE ~IsPathLike(a.info)
      <4>1. Len(a.info.path) \in 0..Len(w.from)
        BY <1>1, <3>2 DEF AsEnter, OnTrack, Climbs
      <4>2. Search[0] = NoSearch
        BY SearchSolved DEF CallInv
      <4> QED
        BY <3>2, <4>1, <4>2 DEF SearchFor, NoSearch
    <3> QED
      BY <3>1, <3>2
  <2>3. First(Tries) = TooDeep
    BY <1>1, <2>1, <2>2, EndsOne DEF AsEnter, Onward, IsHit
  <2>4. state' = Error("Overflow")
    BY <1>3 DEF Enter
  <2>5. First(Tries)' = First(Tries)
    BY <1>0, TriesStay
  <2>6. (First(Tries) = TooDeep)'
    BY <2>3, <2>5 DEF TooDeep
  <2> QED
    BY <2>4, <2>6 DEF SearchInv, Right, Error
<1>4. CASE ~(depth + 1 >= MaxDepth)
  <2> DEFINE s == <<"parse", "alias", "preferRelative", "scope", "dispatch", "leave">>
             c == Thens(s)
             n == a.left - 1
             e == [info |-> a.info, kind |-> "exact", left |-> n, ans |-> a.ans]
             m == [info |-> a.info, kind |-> "any", left |-> n, ans |-> b.ans]
  <2>1. n \in 0..(MaxDepth - 1) /\ n + 1 = a.left
    BY <1>1, <1>2, <1>4
  <2>2. NoteOK(e) /\ NoteOK(m)
    BY <1>1, <2>1 DEF NoteOK
  <2>3. e.kind = "exact" /\ m.kind = "any" /\ e.info = a.info /\ e.left = n /\ m.left = n
        /\ e.ans = a.ans /\ m.ans = b.ans
    OBVIOUS
  <2>4. IsSeq(c) /\ Len(c) = 6 /\ \A k \in 1..6 : c[k].step = s[k]
    <3> DEFINE S == {"parse", "alias", "preferRelative", "scope", "dispatch", "leave"}
    <3>1. s \in Seq(S) /\ Len(s) = 6
      OBVIOUS
    <3> HIDE DEF s, S
    <3>2. IsSeq(c) /\ Len(c) = 6 /\ \A k \in 1..6 : c[k] = [step |-> s[k]]
      BY <3>1, ThensIs
    <3> HIDE DEF c
    <3> QED
      BY <3>2
  <2>5. s[1] = "parse" /\ s[2] = "alias" /\ s[3] = "preferRelative" /\ s[4] = "scope"
        /\ s[5] = "dispatch" /\ s[6] = "leave"
    OBVIOUS
  <2> HIDE DEF s, c, e, m, n
  <2>6. \A k \in 1..4 : Agrees(c[k], e, e)
    <3>1. \A k \in 1..4 : c[k].step \in {"parse", "alias", "preferRelative", "scope"}
      BY <2>4, <2>5
    <3> QED
      BY <2>2, <2>3, <3>1 DEF Agrees, AsSilent, InPkg
  <2>7. Agrees(c[5], e, m)
    <3>1. c[5].step = "dispatch"
      BY <2>4, <2>5
    <3>2. e.ans = Ends(SearchFor(e.left + 1, e.info), m.ans) /\ OnTrack(e.info)
      BY <1>1, <2>1, <2>3 DEF AsEnter, Onward
    <3> QED
      BY <2>2, <2>3, <3>1, <3>2 DEF Agrees, AsDispatch, Onward
  <2>8. Agrees(c[6], m, b)
    <3>1. c[6].step = "leave"
      BY <2>4, <2>5
    <3>2. b.kind = "any" /\ b.left = m.left + 1 /\ b.ans = m.ans
      BY <1>1, <2>1, <2>3 DEF AsEnter, Onward
    <3> QED
      BY <1>1, <2>2, <2>3, <3>1, <3>2 DEF Agrees, AsLeave
  <2>9. Leads(c, e, b)
    <3> DEFINE g == [k \in 1..7 |-> IF k <= 5 THEN e ELSE IF k = 6 THEN m ELSE b]
    <3>1. \A k \in 1..5 : g[k] = e
      OBVIOUS
    <3>2. g[6] = m /\ g[7] = b
      OBVIOUS
    <3> HIDE DEF g
    <3>3. \A k \in 1..6 : (k \in 1..4 /\ k + 1 \in 1..5 /\ k \in 1..5) \/ (k = 5 /\ k + 1 = 6)
                          \/ (k = 6 /\ k + 1 = 7)
      OBVIOUS
    <3>4. \A k \in 1..6 : Agrees(c[k], g[k], g[k + 1])
      BY <2>6, <2>7, <2>8, <3>1, <3>2, <3>3
    <3>5. Len(c) + 1 = 7 /\ g[1] = e
      BY <2>4, <3>1
    <3> QED
      BY <2>4, <3>2, <3>4, <3>5 DEF Leads
  <2>10. state' = state /\ control' = c \o Tail(control) /\ depth' = depth + 1
    BY <1>4 DEF Enter, c, s
  <2>11. e.left = MaxDepth - 1 - depth' /\ Fits(state, e)
    BY <1>1, <1>2, <2>1, <2>3, <2>10 DEF Fits
  <2> QED
    BY <1>0, <2>2, <2>3, <2>4, <2>9, <2>10, <2>11, Advance
<1> QED
  BY <1>3, <1>4

-----------------------------------------------------------------------------
\* Files, and what a path is taken for.

\* A place: its files, and what it holds as a directory.
FilesAt(l) == IF l.slash THEN <<>> ELSE FileTries(l.path)
HeldAt(n, p) == IF IsDir(p) THEN Inside[n][p] ELSE <<>>

LEMMA PlaceEnds ==
  ASSUME w \in Worlds, Plain, NEW n \in 0..MaxDepth, NEW l, NEW x
  PROVE  /\ Ends(PlaceTries(l, Inside[n]), x) = Ends(FilesAt(l), Ends(HeldAt(n, l.path), x))
         /\ IsSeq(FilesAt(l)) /\ IsSeq(HeldAt(n, l.path))
<1> DEFINE a == FilesAt(l)
           b == HeldAt(n, l.path)
<1>1. PlaceTries(l, Inside[n]) = a \o b
  BY DEF PlaceTries, FilesAt, HeldAt
<1>2. IsSeq(a)
  BY FileTriesIs DEF FilesAt, IsSeq
<1>3. IsSeq(b)
  <2>1. CASE IsDir(l.path)
    <3>1. Inside[n][l.path] \in Seq(Reached)
      BY <2>1, InsideSolved DEF Held, IsDir
    <3> QED
      BY <2>1, <3>1, SeqIsSeq DEF HeldAt
  <2>2. CASE ~IsDir(l.path)
    BY <2>2 DEF HeldAt, IsSeq
  <2> QED
    BY <2>1, <2>2
<1> HIDE DEF a, b
<1>4. EndsThen(a, b, x)
  BY <1>2, <1>3, EndsJoined
<1> QED
  BY <1>1, <1>2, <1>3, <1>4 DEF EndsThen, a, b

\* The tries of a place, named for citing.
PlaceSplit(n, l, x) ==
  Ends(PlaceTries(l, Inside[n]), x) = Ends(FilesAt(l), Ends(HeldAt(n, l.path), x))
LEMMA PlaceSplits ==
  ASSUME w \in Worlds, Plain, NEW n \in 0..MaxDepth, NEW l, NEW x
  PROVE  PlaceSplit(n, l, x)
BY PlaceEnds DEF PlaceSplit

\* A path is taken as a file and as a directory, a module is looked for.
LEMMA DispatchStep ==
  ASSUME CallInv, Plain, Next, control # <<>>, NEW a, NEW b, NEW z, Stands(a, b, z), Dispatch
  PROVE  SearchInv'
<1>0. [Next]_vars
  OBVIOUS
<1>1. /\ AsDispatch(Item, a, b) /\ a.kind = "exact" /\ b.kind = "any"
      /\ OnTrack(a.info) /\ a.ans = Ends(SearchFor(a.left + 1, a.info), b.ans)
      /\ b.left = a.left
  <2>1. AsDispatch(Item, a, b)
    BY AgreesBy DEF Stands, Dispatch, Then, Doing
  <2> QED
    BY <2>1 DEF AsDispatch, Onward
<1>2. Info = a.info /\ state = Resolving(a.info) /\ NoteOK(a) /\ NoteOK(b) /\ IsInfo(a.info)
      /\ Fits(state, a)
  BY <1>1, AtExact DEF Stands
<1> DEFINE n == a.left
           i == a.info
           R == Resolved(i)
<1>3. n \in 0..(MaxDepth - 1) /\ n \in 0..MaxDepth /\ n + 1 \in 1..MaxDepth /\ n + 1 # 0
      /\ n + 1 - 1 = n
  BY <1>2, DepthAssumption DEF NoteOK
<1>4. CASE IsPathLike(i)
  <2> DEFINE f == [info |-> i, kind |-> "exact", left |-> n, ans |-> Ends(HeldAt(n, R), b.ans)]
             s == <<"context", "fullySpecified", "file", "dir">>
             c == Thens(s)
  <2>1. a.ans = Ends(FilesAt(PlaceOf(i)), f.ans)
    <3>1. SearchFor(n + 1, i) = CallTries(n + 1, PlaceOf(i))
      BY <1>4 DEF SearchFor
    <3>2. CallTries(n + 1, PlaceOf(i)) = PlaceTries(PlaceOf(i), Inside[n])
      <4> HIDE DEF n
      <4> QED
        BY <1>3 DEF CallTries
    <3>3. PlaceOf(i).path = R
      BY DEF PlaceOf, Place
    <3>4. f.ans = Ends(HeldAt(n, R), b.ans)
      OBVIOUS
    <3> HIDE DEF f
    <3>5. Ends(PlaceTries(PlaceOf(i), Inside[n]), b.ans) =
            Ends(FilesAt(PlaceOf(i)), Ends(HeldAt(n, PlaceOf(i).path), b.ans))
      <4>1. w \in Worlds
        BY DEF CallInv
      <4> HIDE DEF n, i, R
      <4>2. PlaceSplit(n, PlaceOf(i), b.ans)
        BY <1>3, <4>1, PlaceSplits
      <4> QED
        BY <4>2 DEF PlaceSplit
    <3> HIDE DEF R
    <3> QED
      BY <1>1, <3>1, <3>2, <3>3, <3>4, <3>5
  <2>2. f.info = i /\ f.kind = "exact" /\ f.left = n /\ NoteOK(f) /\ f.ans = Ends(HeldAt(n, R), b.ans)
    BY <1>2, <1>3, <1>1 DEF NoteOK
  <2>3. IsSeq(c) /\ Len(c) = 4 /\ \A k \in 1..4 : c[k] = [step |-> s[k]]
    <3> DEFINE S == {"context", "fullySpecified", "file", "dir"}
    <3>1. s \in Seq(S) /\ Len(s) = 4
      OBVIOUS
    <3> HIDE DEF s, S
    <3> QED
      BY <3>1, ThensIs
  <2>4. s[1] = "context" /\ s[2] = "fullySpecified" /\ s[3] = "file" /\ s[4] = "dir"
    OBVIOUS
  <2> HIDE DEF s, c, f
  <2>5. c[1].step = "context" /\ c[2].step = "fullySpecified" /\ c[3].step = "file"
        /\ c[4].step = "dir"
    BY <2>3, <2>4
  <2>6. Agrees(c[1], a, a) /\ Agrees(c[2], a, a)
    BY <1>1, <1>2, <2>5 DEF Agrees, AsSilent, InPkg
  <2>7. Agrees(c[3], a, f)
    <3>1. FilesAt(PlaceOf(i)) = IF i.req.slash THEN <<>> ELSE FileTries(R)
      BY DEF FilesAt, PlaceOf, Place
    <3> QED
      BY <1>1, <1>2, <2>1, <2>2, <2>5, <3>1 DEF Agrees, AsFile, Exactly, Onward
  <2>8. Agrees(c[4], f, b)
    <3>1. HeldAt(n, R) = IF IsDir(R) THEN Inside[n][R] ELSE <<>>
      BY DEF HeldAt
    <3> QED
      BY <1>1, <1>2, <2>2, <2>5, <3>1 DEF Agrees, AsDir, Loosely, Onward
  <2>9. Leads(c, a, b)
    <3> DEFINE g == [k \in 1..5 |-> IF k <= 3 THEN a ELSE IF k = 4 THEN f ELSE b]
    <3>1. g[1] = a /\ g[2] = a /\ g[3] = a /\ g[4] = f /\ g[5] = b
      OBVIOUS
    <3> HIDE DEF g
    <3>2. \A k \in 1..4 : (k = 1 /\ k + 1 = 2) \/ (k = 2 /\ k + 1 = 3) \/ (k = 3 /\ k + 1 = 4)
                          \/ (k = 4 /\ k + 1 = 5)
      OBVIOUS
    <3>3. \A k \in 1..4 : Agrees(c[k], g[k], g[k + 1])
      BY <2>6, <2>7, <2>8, <3>1, <3>2
    <3>4. Len(c) + 1 = 5
      BY <2>3
    <3> QED
      BY <2>3, <3>1, <3>3, <3>4 DEF Leads
  <2>10. Goto(state, c)
    BY <1>2, <1>4 DEF Dispatch, c, s
  <2> QED
    BY <1>0, <1>2, <2>3, <2>9, <2>10, PutIn
<1>5. CASE ~IsPathLike(i)
  <2> DEFINE l == [step |-> "modules", rest |-> w.modules, info |-> i]
  <2>1. i.req = w.request /\ Climbs(i.path) /\ IsModule
    BY <1>1, <1>5 DEF OnTrack, IsModule, IsPathLike
  <2>2. SearchFor(n + 1, i) = FlattenSeq(FolderLists(n, Len(i.path), w.modules))
    <3>1. Len(i.path) \in 0..Len(w.from)
      BY <2>1 DEF Climbs
    <3> DEFINE m == n + 1
    <3>2. m \in 1..MaxDepth /\ m - 1 = n
      BY <1>3
    <3> HIDE DEF m
    <3>3. Search[m][Len(i.path)] = FlattenSeq(FolderLists(m - 1, Len(i.path), w.modules))
      BY <3>1, <3>2, SearchIs DEF CallInv
    <3> QED
      BY <1>5, <3>2, <3>3 DEF SearchFor, m
  <2>3. IsSeq(w.modules)
    BY WorldAssumption DEF CallInv
  <2>4. AsModules(l, a, b)
    BY <1>1, <1>2, <2>1, <2>2, <2>3 DEF AsModules, Onward
  <2>5. Agrees(l, a, b)
    BY <1>2, <2>4 DEF Agrees
  <2>6. Goto(state, <<l>>)
    BY <1>2, <1>5 DEF Dispatch
  <2> HIDE DEF l
  <2> QED
    BY <1>0, <1>2, <2>5, <2>6, LeadsOne, OneSeq, PutIn
<1> QED
  BY <1>4, <1>5

\* The names of a file, unless the request ends with a slash.
LEMMA FileStep ==
  ASSUME CallInv, Plain, Next, control # <<>>, NEW a, NEW b, NEW z, Stands(a, b, z), ResolveAsFile
  PROVE  SearchInv'
<1>0. [Next]_vars
  OBVIOUS
<1>1. AsFile(Item, a, b)
  BY AgreesBy DEF Stands, ResolveAsFile, Then, Doing
<1>2. /\ a.kind = "exact" /\ b.kind = "exact" /\ b.info = a.info /\ b.left = a.left
      /\ a.ans = Ends(IF a.info.req.slash THEN <<>> ELSE FileTries(Resolved(a.info)), b.ans)
  BY <1>1 DEF AsFile, Exactly, Onward
<1>3. Info = a.info /\ state = Resolving(a.info) /\ NoteOK(a) /\ NoteOK(b) /\ Fits(state, a)
  BY <1>2, AtExact DEF Stands
<1>4. CASE Info.req.slash
  <2>1. a.ans = b.ans
    BY <1>2, <1>3, <1>4, EndsNone
  <2>2. Fits(state, b)
    BY <1>2, <1>3 DEF Fits
  <2> QED
    BY <1>0, <1>2, <1>4, <2>1, <2>2, HandOn DEF ResolveAsFile
<1>5. CASE ~Info.req.slash
  <2> DEFINE l == [step |-> "load"]
             rows == Map(LAMBDA r : [step |-> "extensionAlias", row |-> r], w.extensionAlias)
             load == Thens(<<"load">>)
             c == rows \o load
  <2>1. c = <<l>>
    <3>1. rows = <<>>
      <4>1. rows = [k \in 1..Len(w.extensionAlias) |->
                      [step |-> "extensionAlias", row |-> w.extensionAlias[k]]]
        BY DEF Map
      <4>2. Len(w.extensionAlias) = 0
        <5> DEFINE x == w.extensionAlias
                   none == <<>>
        <5>1. x = none
          BY DEF Plain
        <5>2. Len(none) = 0
          OBVIOUS
        <5> HIDE DEF x, none
        <5>3. Len(x) = 0
          BY <5>1, <5>2
        <5> QED
          BY <5>3 DEF x
      <4> DEFINE none == [k \in 1..0 |-> [step |-> "extensionAlias", row |-> w.extensionAlias[k]]]
      <4>3. rows = none
        <5> HIDE DEF rows
        <5> QED
          BY <4>1, <4>2
      <4>4. none = <<>>
        OBVIOUS
      <4> HIDE DEF rows, none
      <4> QED
        BY <4>3, <4>4
    <3>2. load = <<l>>
      BY DEF Thens, Map
    <3>3. <<>> \o <<l>> = <<l>>
      <4> HIDE DEF l
      <4> QED
        OBVIOUS
    <3> HIDE DEF l, rows, load
    <3> QED
      BY <3>1, <3>2, <3>3
  <2>2. Agrees(l, a, b)
    BY <1>2, <1>3, <1>5 DEF Agrees, AsLoad, Exactly, Onward
  <2>3. Goto(state, c)
    BY <1>5 DEF ResolveAsFile
  <2> HIDE DEF c, l
  <2> QED
    BY <1>0, <1>3, <2>1, <2>2, <2>3, LeadsOne, OneSeq, PutIn
<1> QED
  BY <1>4, <1>5

\* The first of these files is found, or there is none.
LEMMA LoadStep ==
  ASSUME CallInv, Plain, Next, control # <<>>, NEW a, NEW b, NEW z, Stands(a, b, z), LoadFile
  PROVE  SearchInv'
<1>0. [Next]_vars /\ w' = w
  BY WorldStays
<1>1. AsLoad(Item, a, b)
  BY AgreesBy DEF Stands, LoadFile, Then, Doing
<1>2. /\ a.kind = "exact" /\ b.kind = "exact" /\ b.info = a.info /\ b.left = a.left
      /\ a.ans = Ends(FileTries(Resolved(a.info)), b.ans)
  BY <1>1 DEF AsLoad, Exactly, Onward
<1>3. /\ Info = a.info /\ IsInfo(Info) /\ state = Resolving(a.info) /\ NoteOK(a) /\ NoteOK(b)
      /\ Fits(state, a) /\ a.ans = First(Tries)
  BY <1>2, AtExact DEF Stands
<1> DEFINE p == Resolved(Info)
           t == Extensions
           H == {k \in 1..Len(t) : IsFile(Extend(p, t[k]))}
<1>4. t = IF w.enforceExtension THEN w.extensions ELSE <<"">> \o w.extensions
  BY ExtensionsIs DEF CallInv
<1>5. IF H = {} THEN Return(state) ELSE Return(Found(Info, Extend(p, t[Min(H)])))
  <2> DEFINE x == IF w.enforceExtension THEN w.extensions ELSE <<"">> \o w.extensions
  <2>1. LET hits == {k \in 1..Len(x) : IsFile(Extend(p, x[k]))}
        IN IF hits = {} THEN Return(state)
           ELSE Return(Found(Info, Extend(p, x[Min(hits)])))
    BY DEF LoadFile
  <2>2. x = t
    BY <1>4
  <2> HIDE DEF x, t
  <2> QED
    BY <2>1, <2>2
<1>6. Hits(FileTries(p)) = H
  <2>1. Len(FileTries(p)) = Len(t) /\ \A k \in 1..Len(t) : FileTries(p)[k] = File(Extend(p, t[k]))
    BY FileTriesIs DEF CallInv
  <2>2. \A q : IsHit(File(q)) <=> IsFile(q)
    BY DEF IsHit, File, TooDeep
  <2> HIDE DEF p, t
  <2> QED
    BY <2>1, <2>2 DEF Hits
<1>7. CASE H = {}
  <2>1. a.ans = b.ans
    BY <1>2, <1>3, <1>6, <1>7 DEF Ends
  <2>2. Fits(state, b)
    BY <1>2, <1>3 DEF Fits
  <2> QED
    BY <1>0, <1>2, <1>5, <1>7, <2>1, <2>2, HandOn
<1>8. CASE H # {}
  <2> DEFINE m == Min(H)
             q == Extend(p, t[m])
  <2>1. m \in 1..Len(t)
    <3>1. H \in SUBSET Nat /\ H \subseteq 1..Len(t)
      OBVIOUS
    <3> HIDE DEF H
    <3> QED
      BY <1>8, <3>1, MinOf
  <2>2. First(Tries) = File(q)
    <3>1. FileTries(p)[m] = File(q)
      <4> HIDE DEF m
      <4> QED
        BY <2>1, FileTriesIs DEF CallInv
    <3> HIDE DEF H, p, q
    <3> QED
      BY <1>2, <1>3, <1>6, <1>8, <3>1 DEF Ends, p
  <2>3. state' = Success(Use(Info, q)) /\ Use(Info, q).path = q
    <3> HIDE DEF H, p, t
    <3> QED
      BY <1>3, <1>5, <1>8, UseOf DEF Return, Goto, Found
  <2> HIDE DEF m, q, H
  <2> QED
    <3>1. Item.step = "load"
      BY DEF LoadFile, Then, Doing
    <3>2. control' = Tail(control)
      BY <1>5, <1>8, HeadLink, NothingBefore DEF Return, Goto
    <3>3. Len(control') > 1
      BY <3>1, <3>2, ClosingTail DEF CallInv, Item
    <3> QED
      BY <1>0, <2>2, <2>3, <3>3, FoundIt
<1> QED
  BY <1>7, <1>8

-----------------------------------------------------------------------------
\* The loop over the paths of a plugin.

\* The first of a list of calls; t is the tail of s.
Follows(s, t) == Len(s) = Len(t) + 1 /\ \A j \in 1..Len(t) : t[j] = s[j + 1]
LEMMA CallsHead ==
  ASSUME w \in Worlds, Plain, NEW n \in 0..MaxDepth, NEW s, IsSeq(s), NEW t, IsSeq(t),
         Follows(s, t), NEW x
  PROVE  Ends(FlattenSeq(CallLists(n, s)), x) =
           Ends(CallTries(n, s[1]), Ends(FlattenSeq(CallLists(n, t)), x))
<1> DEFINE one == <<s[1]>>
           u == one \o t
<1>0. Len(s) = Len(t) + 1 /\ \A j \in 1..Len(t) : t[j] = s[j + 1]
  BY DEF Follows
<1>1. IsSeq(one) /\ Len(one) = 1 /\ one[1] = s[1]
  BY OneSeq
<1>2. s = u
  <2>1. IsSeq(u) /\ Len(t) \in Nat /\ DOMAIN u = 1..(1 + Len(t))
        /\ \A k \in 1..Len(t) : u[1 + k] = t[k]
    <3> HIDE DEF one
    <3>1. /\ IsSeq(one \o t) /\ Len(t) \in Nat /\ DOMAIN (one \o t) = 1..(Len(one) + Len(t))
          /\ \A k \in 1..Len(t) : (one \o t)[Len(one) + k] = t[k]
      <4>1. IsSeq(one) /\ IsSeq(t)
        BY <1>1
      <4> QED
        BY <4>1, Concatenated
    <3> QED
      BY <1>1, <3>1
  <2>2. u[1] = one[1]
    <3> HIDE DEF one
    <3>1. \A k \in 1..Len(one) : (one \o t)[k] = one[k]
      BY <1>1, BeginsJoined DEF Begins
    <3> QED
      BY <1>1, <3>1
  <2> HIDE DEF u, one
  <2>3. Len(u) = Len(s)
    <3>1. Len(u) \in Nat /\ DOMAIN u = 1..Len(u)
      BY <2>1, SeqDomain
    <3> QED
      BY <1>0, <2>1, <3>1
  <2>4. \A k \in 1..Len(u) : u[k] = s[k]
    <3> TAKE k \in 1..Len(u)
    <3>1. k = 1 \/ (k - 1 \in 1..Len(t) /\ 1 + (k - 1) = k /\ (k - 1) + 1 = k)
      BY <2>1, <2>3
    <3> DEFINE j == k - 1
    <3> HIDE DEF j
    <3>2. CASE k = 1
      BY <1>1, <2>2, <3>2
    <3>3. CASE j \in 1..Len(t) /\ 1 + j = k /\ j + 1 = k
      <4>1. u[1 + j] = t[j] /\ t[j] = s[j + 1]
        BY <1>0, <2>1, <3>3
      <4> QED
        BY <3>3, <4>1
    <3> QED
      BY <3>1, <3>2, <3>3 DEF j
  <2> QED
    BY <2>1, <2>3, <2>4, SeqSame
<1>3. FlattenSeq(CallLists(n, one)) = CallTries(n, s[1])
  <2> DEFINE y == CallTries(n, s[1])
  <2>1. IsSeq(y)
    BY CallTriesSeq
  <2>2. CallLists(n, one) = <<y>>
    BY DEF CallLists
  <2> HIDE DEF y
  <2> DEFINE S == {y[k] : k \in DOMAIN y}
  <2>3. y \in Seq(S)
    BY <2>1 DEF IsSeq
  <2> HIDE DEF S
  <2>4. FlattenSeq(<<y>>) = y
    BY <2>3, FlattenOne
  <2> QED
    BY <2>2, <2>4 DEF y
<1>4. Ends(FlattenSeq(CallLists(n, u)), x) =
        Ends(FlattenSeq(CallLists(n, one)), Ends(FlattenSeq(CallLists(n, t)), x))
  <2> HIDE DEF one
  <2> QED
    BY <1>1, CallsJoined
<1> HIDE DEF one, u
<1> QED
  BY <1>2, <1>3, <1>4

\* A loop over paths.
PathList(list) ==
  /\ IsSeq(list)
  /\ \A j \in DOMAIN list :
       /\ list[j] = Resolving(list[j].info)
       /\ Plainly(list[j].info) /\ IsPathLike(list[j].info)

\* The loop tries its paths in their order.
LEMMA LoopLeads ==
  ASSUME NEW a, NoteOK(a), NEW b, NoteOK(b), NEW list, PathList(list),
         NEW k \in 1..(Len(list) + 1), NEW mode, mode # "on", NEW s, Fits(s, b),
         Onward(a, b, FlattenSeq(CallLists(a.left, Remaining(list, k))))
  PROVE  IsSeq(AttemptFrom(list, k, mode, s)) /\ Leads(AttemptFrom(list, k, mode, s), a, b)
<1> DEFINE l == [step |-> "attempt", list |-> list, next |-> k, mode |-> mode, last |-> s]
<1>1. AsAttempt(l, a, b)
  BY DEF AsAttempt, PathList
<1>2. Agrees(l, a, b)
  BY <1>1 DEF Agrees
<1>3. AttemptFrom(list, k, mode, s) = <<l>>
  BY DEF AttemptFrom
<1> HIDE DEF l
<1> QED
  BY <1>2, <1>3, LeadsOne, OneSeq

\* The places a loop has yet to try.
LEMMA RemainingIs ==
  ASSUME NEW list, IsSeq(list), NEW k \in 1..(Len(list) + 1)
  PROVE  /\ IsSeq(Remaining(list, k)) /\ Len(Remaining(list, k)) = Len(list) + 1 - k
         /\ \A j \in 1..(Len(list) + 1 - k) :
              Remaining(list, k)[j] = PlaceOf(list[k + j - 1].info)
<1> DEFINE r == Remaining(list, k)
           n == Len(list) + 1 - k
<1>1. n \in Nat
  BY SeqDomain
<1>2. r = [j \in 1..n |-> PlaceOf(list[k + j - 1].info)]
  BY DEF Remaining
<1>3. r = [j \in 1..n |-> r[j]] /\ \A j \in 1..n : r[j] = PlaceOf(list[k + j - 1].info)
  BY <1>2
<1> HIDE DEF r, n
<1>4. IsSeq(r) /\ Len(r) = n
  BY <1>1, <1>3, ListIs
<1> QED
  BY <1>3, <1>4 DEF r, n

\* The loop goes on with the next path, or ends as it has to.
LEMMA LoopStep ==
  ASSUME CallInv, Plain, Next, control # <<>>, NEW a, NEW b, NEW z, Stands(a, b, z), NextAttempt
  PROVE  SearchInv'
<1>0. [Next]_vars
  OBVIOUS
<1>1. AsAttempt(Item, a, b) /\ NoteOK(a) /\ NoteOK(b) /\ Fits(state, a)
  BY AgreesBy DEF Stands, NextAttempt, Doing
<1> DEFINE list == Item.list
           k == Item.next
           n == a.left
<1>2. /\ Item.mode # "on" /\ Fits(Item.last, b) /\ PathList(list) /\ k \in 1..(Len(list) + 1)
      /\ b.left = n /\ a.ans = Ends(FlattenSeq(CallLists(n, Remaining(list, k))), b.ans)
  BY <1>1 DEF AsAttempt, PathList, Onward
<1>3. IsSeq(list) /\ Len(list) \in Nat /\ DOMAIN list = 1..Len(list)
  <2> HIDE DEF list
  <2> QED
    BY <1>2, SeqDomain DEF PathList
<1>4. ~IsFinished(state)
  BY <1>1 DEF Fits, IsFinished
<1>5. n \in 0..MaxDepth
  BY <1>1, DepthAssumption DEF NoteOK
<1>6. CASE ~HasNext
  <2>1. k = Len(list) + 1
    BY <1>2, <1>3, <1>6 DEF HasNext
  <2>2. Remaining(list, k) = <<>>
    <3> DEFINE r == Remaining(list, k)
               none == <<>>
    <3>1. IsSeq(r) /\ Len(r) = Len(list) + 1 - k
      <4> HIDE DEF list, k
      <4> QED
        BY <1>2, <1>3, RemainingIs
    <3>2. IsSeq(none) /\ Len(none) = 0
      BY DEF IsSeq
    <3>3. Len(r) = 0
      BY <1>3, <2>1, <3>1
    <3> HIDE DEF r, none
    <3>4. r = none
      BY <3>1, <3>2, <3>3, SeqSame
    <3> QED
      BY <3>4 DEF r, none
  <2>3. a.ans = b.ans
    BY <1>2, <2>2, NoCalls
  <2>4. Return(Item.last)
    BY <1>4, <1>6 DEF NextAttempt
  <2> HIDE DEF list, k, n
  <2> QED
    BY <1>0, <1>2, <2>3, <2>4, HandOn DEF n
<1>7. CASE HasNext
  <2> DEFINE i == list[k].info
             next == AttemptFrom(list, k + 1, Item.mode, Item.last)
             tries == FlattenSeq(CallLists(n, Remaining(list, k + 1)))
             e == [info |-> i, kind |-> "exact", left |-> n, ans |-> a.ans]
             m == [info |-> i, kind |-> "any", left |-> n, ans |-> Ends(tries, b.ans)]
             l == [step |-> "enter"]
  <2>1. k \in 1..Len(list) /\ k + 1 \in 1..(Len(list) + 1)
    BY <1>2, <1>3, <1>7 DEF HasNext
  <2>2. Alternative = Resolving(i) /\ Plainly(i) /\ IsPathLike(i)
    BY <1>2, <1>3, <2>1 DEF PathList, Alternative
  <2>3. NoteOK(e) /\ NoteOK(m) /\ e.left = n /\ m.left = n /\ e.kind = "exact" /\ m.kind = "any"
        /\ e.info = i /\ e.ans = a.ans /\ m.ans = Ends(tries, b.ans)
    BY <1>1, <2>2 DEF NoteOK
  <2>4. a.ans = Ends(CallTries(n, PlaceOf(i)), Ends(tries, b.ans))
    <3> DEFINE r == Remaining(list, k)
               q == Remaining(list, k + 1)
               c == Len(list)
    <3>1. IsSeq(r) /\ Len(r) = c + 1 - k
          /\ \A j \in 1..(c + 1 - k) : r[j] = PlaceOf(list[k + j - 1].info)
      <4> HIDE DEF list, k
      <4> QED
        BY <1>2, <1>3, RemainingIs
    <3>2. IsSeq(q) /\ Len(q) = c + 1 - (k + 1)
          /\ \A j \in 1..(c + 1 - (k + 1)) : q[j] = PlaceOf(list[(k + 1) + j - 1].info)
      <4> DEFINE kk == k + 1
      <4>1. kk \in 1..(c + 1)
        BY <2>1
      <4> HIDE DEF list, kk
      <4>2. IsSeq(Remaining(list, kk)) /\ Len(Remaining(list, kk)) = c + 1 - kk
            /\ \A j \in 1..(c + 1 - kk) : Remaining(list, kk)[j] = PlaceOf(list[kk + j - 1].info)
        BY <1>3, <4>1, RemainingIs
      <4> QED
        BY <4>2 DEF kk
    <3> HIDE DEF r, q
    <3>3. c \in Nat /\ k \in 1..c
      BY <1>3, <2>1
    <3> HIDE DEF c, k
    <3>4. Len(r) = Len(q) + 1
      BY <3>1, <3>2, <3>3
    <3>5. \A j \in 1..Len(q) : q[j] = r[j + 1]
      <4> TAKE j \in 1..Len(q)
      <4>1. /\ j \in 1..(c + 1 - (k + 1)) /\ j + 1 \in 1..(c + 1 - k)
            /\ (k + 1) + j - 1 = k + j /\ k + (j + 1) - 1 = k + j
        BY <3>2, <3>3
      <4>2. q[j] = PlaceOf(list[k + j].info)
        BY <3>2, <4>1
      <4>3. r[j + 1] = PlaceOf(list[k + j].info)
        <5> DEFINE h == j + 1
        <5>1. h \in 1..(c + 1 - k) /\ k + h - 1 = k + j
          BY <4>1
        <5> HIDE DEF h
        <5>2. r[h] = PlaceOf(list[k + h - 1].info)
          BY <3>1, <5>1
        <5> QED
          BY <5>1, <5>2 DEF h
      <4> QED
        BY <4>2, <4>3
    <3>6. r[1] = PlaceOf(i)
      <4>1. 1 \in 1..(c + 1 - k) /\ k + 1 - 1 = k
        BY <3>3
      <4>2. r[1] = PlaceOf(list[k + 1 - 1].info)
        BY <3>1, <4>1
      <4> QED
        BY <4>1, <4>2
    <3>7. Ends(FlattenSeq(CallLists(n, r)), b.ans) =
            Ends(CallTries(n, r[1]), Ends(FlattenSeq(CallLists(n, q)), b.ans))
      <4>1. Follows(r, q)
        BY <3>4, <3>5 DEF Follows
      <4> HIDE DEF n
      <4> QED
        BY <1>5, <3>1, <3>2, <4>1, CallsHead DEF CallInv
    <3> QED
      BY <1>2, <3>6, <3>7 DEF r, q, k
  <2>5. Nested(i, Item.mode, next)
    <3>1. Alternative.tag = "Resolving" /\ Alternative.info = i
      <4> HIDE DEF i
      <4> QED
        BY <2>2 DEF Resolving
    <3> QED
      BY <1>4, <1>7, <3>1 DEF NextAttempt
  <2>6. Restore(Item.mode) = <<>> /\ Thens(<<"enter">>) = <<l>>
    <3>1. ~fully
      BY NotFully
    <3> QED
      BY <1>2, <3>1 DEF Restore, Thens, Map
  <2>7. Agrees(l, e, m)
    <3> HIDE DEF i, n, tries, e, m
    <3> QED
      BY <2>2, <2>3, <2>4 DEF Agrees, AsEnter, OnTrack, Onward, SearchFor
  <2>8. IsSeq(next) /\ Leads(next, m, b)
    <3> DEFINE kk == k + 1
    <3>1. kk \in 1..(Len(list) + 1)
      BY <2>1
    <3>2. Onward(m, b, FlattenSeq(CallLists(m.left, Remaining(list, kk))))
      BY <1>2, <2>3 DEF Onward
    <3> HIDE DEF list, kk, m
    <3> QED
      BY <1>1, <1>2, <2>3, <3>1, <3>2, LoopLeads DEF kk
  <2> HIDE DEF next, e, m, l, i, n, tries
  <2>9. IsSeq(<<l>>) /\ Leads(<<l>>, e, m)
    BY <2>7, LeadsOne, OneSeq
  <2> DEFINE one == <<l>>
             c == one \o next
  <2>10. IsSeq(c) /\ Leads(c, e, b)
    <3> HIDE DEF one
    <3> QED
      BY <2>8, <2>9, LeadsJoin, Concatenated DEF one
  <2>11. state' = Resolving(i) /\ control' = c \o Tail(control) /\ depth' = depth
    <3>1. state' = Resolving(i) /\ depth' = depth
          /\ control' = one \o <<>> \o next \o Tail(control)
      BY <2>5, <2>6 DEF Nested
    <3>2. one \o <<>> = one
      BY ConcatEmptySeq, OneSeq DEF IsSeq
    <3> QED
      BY <3>1, <3>2
  <2>12. Fits(Resolving(i), e)
    BY <2>3 DEF Fits, Resolving
  <2>13. e.left = MaxDepth - 1 - depth' /\ e.ans = a.ans
    BY <2>3, <2>11 DEF Stands, n
  <2> HIDE DEF c
  <2> QED
    BY <1>0, <2>3, <2>10, <2>11, <2>12, <2>13, Advance
<1> QED
  BY <1>6, <1>7

-----------------------------------------------------------------------------
\* Directories: main fields and main files.

\* A target that a directory leads to.
Fields == {"kind", "names", "slash", "query", "frag"}
Onto(i, t, p) == WithPath(WithTarget(i, t), p)
LEMMA OntoIs ==
  ASSUME NEW i, Plainly(i), NEW t, DOMAIN t = Fields, t.kind = "relative", NEW p
  PROVE  /\ Plainly(Onto(i, t, p)) /\ IsPathLike(Onto(i, t, p))
         /\ PlaceOf(Onto(i, t, p)) = Place(Walk(p, t.names), t.slash)
<1> DEFINE r == [t EXCEPT !.query = i.req.query, !.frag = i.req.frag]
           j == [i EXCEPT !.req = r]
           o == [j EXCEPT !.path = p]
<1>1. r.kind = "relative" /\ r.names = t.names /\ r.slash = t.slash /\ r.frag = ""
  BY DEF Fields, Plainly
<1>2. Onto(i, t, p) = o
  BY DEF Onto, WithPath, WithTarget
<1> HIDE DEF r
<1>3. IsInfo(o) /\ o.req = r /\ o.path = p
  <2>0. IsInfo(i)
    BY DEF Plainly
  <2>1. IsInfo(j) /\ j.req = r
    BY <2>0 DEF IsInfo
  <2> HIDE DEF j
  <2> QED
    BY <2>1 DEF IsInfo
<1> HIDE DEF o
<1>4. Resolved(o) = Walk(p, t.names)
  BY <1>1, <1>3 DEF Resolved
<1> QED
  BY <1>1, <1>2, <1>3, <1>4 DEF Plainly, IsPathLike, PlaceOf

\* Paths from targets: what the loop of a plugin tries is the list of places.
Targets(s) ==
  IsSeq(s) /\ \A k \in DOMAIN s : DOMAIN s[k] = Fields /\ s[k].kind = "relative"
Ontos(list, i, s, p) == list = [k \in 1..Len(s) |-> Resolving(Onto(i, s[k], p))]
Places(places, s, p) ==
  /\ IsSeq(places) /\ Len(places) = Len(s)
  /\ \A k \in 1..Len(s) : places[k] = Place(Walk(p, s[k].names), s[k].slash)
LEMMA ListPaths ==
  ASSUME NEW i, Plainly(i), NEW p, NEW s, Targets(s), NEW list, Ontos(list, i, s, p),
         NEW places, Places(places, s, p)
  PROVE  PathList(list) /\ 1 \in 1..(Len(list) + 1) /\ Remaining(list, 1) = places
<1> USE DEF Targets, Ontos, Places
<1> DEFINE n == Len(s)
<1>1. n \in Nat /\ DOMAIN s = 1..n
  BY SeqDomain
<1> HIDE DEF n
<1>2. list = [k \in 1..n |-> list[k]]
  BY DEF n
<1>3. IsSeq(list) /\ Len(list) = n /\ DOMAIN list = 1..n
  BY <1>1, <1>2, ListIs
<1>4. \A k \in 1..n : list[k] = Resolving(Onto(i, s[k], p)) /\ list[k].info = Onto(i, s[k], p)
  BY DEF n, Resolving
<1>5. \A k \in 1..n : /\ Plainly(Onto(i, s[k], p)) /\ IsPathLike(Onto(i, s[k], p))
                      /\ PlaceOf(Onto(i, s[k], p)) = places[k]
  <2> TAKE k \in 1..n
  <2>1. DOMAIN s[k] = Fields /\ s[k].kind = "relative"
    BY <1>1
  <2>2. /\ Plainly(Onto(i, s[k], p)) /\ IsPathLike(Onto(i, s[k], p))
        /\ PlaceOf(Onto(i, s[k], p)) = Place(Walk(p, s[k].names), s[k].slash)
    BY <2>1, OntoIs
  <2> QED
    BY <2>2 DEF n
<1>6. PathList(list)
  BY <1>3, <1>4, <1>5 DEF PathList
<1>7. 1 \in 1..(Len(list) + 1)
  BY <1>1, <1>3
<1>8. Remaining(list, 1) = places
  <2> DEFINE r == Remaining(list, 1)
  <2>1. IsSeq(r) /\ Len(r) = Len(list) + 1 - 1
        /\ \A j \in 1..(Len(list) + 1 - 1) : r[j] = PlaceOf(list[1 + j - 1].info)
    BY <1>3, <1>7, RemainingIs
  <2>2. Len(list) + 1 - 1 = n /\ \A j \in 1..n : 1 + j - 1 = j
    BY <1>1, <1>3
  <2> HIDE DEF r
  <2>3. Len(r) = n /\ \A j \in 1..n : r[j] = PlaceOf(list[j].info)
    BY <2>1, <2>2
  <2>4. \A j \in 1..n : r[j] = places[j]
    BY <1>4, <1>5, <2>3
  <2>5. Len(places) = n
    BY DEF n
  <2>6. r = places
    BY <2>1, <2>3, <2>4, <2>5, SeqSame
  <2> QED
    BY <2>6 DEF r
<1> QED
  BY <1>6, <1>7, <1>8

\* A directory leads on by its main fields and by its main files.
LEMMA DirStep ==
  ASSUME CallInv, Plain, Next, control # <<>>, NEW a, NEW b, NEW z, Stands(a, b, z), ResolveAsDir
  PROVE  SearchInv'
<1>0. [Next]_vars
  OBVIOUS
<1>1. AsDir(Item, a, b)
  BY AgreesBy DEF Stands, ResolveAsDir, Then, Doing
<1> DEFINE n == a.left
           p == Resolved(Info)
<1>2. /\ a.kind = "exact" /\ (b.kind = "any" \/ (b.kind = "asked" /\ a.info.req = w.request))
      /\ Info = a.info /\ IsInfo(Info) /\ state = Resolving(Info)
      /\ NoteOK(a) /\ NoteOK(b) /\ Fits(state, a) /\ b.left = a.left
      /\ a.ans = Ends(IF IsDir(p) THEN Inside[n][p] ELSE <<>>, b.ans)
  <2>1. a.kind = "exact" /\ (b.kind = "any" \/ (b.kind = "asked" /\ a.info.req = w.request))
        /\ b.left = a.left
        /\ a.ans = Ends(IF IsDir(Resolved(a.info)) THEN Inside[a.left][Resolved(a.info)] ELSE <<>>, b.ans)
    BY <1>1 DEF AsDir, Loosely, Onward
  <2>2. Info = a.info /\ IsInfo(Info) /\ state = Resolving(a.info) /\ NoteOK(a) /\ NoteOK(b)
        /\ Fits(state, a)
    BY <2>1, AtExact DEF Stands
  <2> QED
    BY <2>1, <2>2
<1>3. n \in 0..MaxDepth
  BY <1>2, DepthAssumption DEF NoteOK
<1>4. CASE ~IsDir(p)
  <2>1. a.ans = b.ans
    BY <1>2, <1>4, EndsNone
  <2>2. Fits(Failed(Info), b)
    BY <1>2 DEF Fits, Failed
  <2>3. Return(Failed(Info))
    BY <1>4 DEF ResolveAsDir
  <2> QED
    BY <1>0, <1>2, <2>1, <2>2, <2>3, HandOn
<1>5. CASE IsDir(p)
  <2> DEFINE f == [info |-> a.info, kind |-> "exact", left |-> n,
                   ans |-> Ends(FlattenSeq(CallLists(n, Indexes(p))), b.ans)]
             k == [step |-> "mainField", dir |-> PkgDir(p)]
             l == [step |-> "mainFile"]
  <2>1. f.info = a.info /\ f.kind = "exact" /\ f.left = n
        /\ f.ans = Ends(FlattenSeq(CallLists(n, Indexes(p))), b.ans) /\ NoteOK(f)
    BY <1>2 DEF NoteOK
  <2>2. a.ans = Ends(FlattenSeq(CallLists(n, Mains(p))), f.ans)
    <3>1. a.ans = Ends(FlattenSeq(CallLists(n, PlacesIn(p))), b.ans)
      <4>1. Inside[n][p] = FlattenSeq(CallLists(n, PlacesIn(p)))
        <5> HIDE DEF n, p
        <5> QED
          BY <1>3, <1>5, InsideIs DEF CallInv, IsDir
      <4> HIDE DEF n, p
      <4> QED
        BY <1>2, <1>5, <4>1
    <3>2. IsSeq(Mains(p)) /\ IsSeq(Indexes(p))
      BY MainsIs, IndexesIs DEF CallInv
    <3>3. Ends(FlattenSeq(CallLists(n, Mains(p) \o Indexes(p))), b.ans) =
            Ends(FlattenSeq(CallLists(n, Mains(p))),
                 Ends(FlattenSeq(CallLists(n, Indexes(p))), b.ans))
      <4> HIDE DEF n, p
      <4> QED
        BY <1>3, <3>2, CallsJoined DEF CallInv
    <3> HIDE DEF f, n, p
    <3> QED
      BY <2>1, <3>1, <3>3 DEF PlacesIn
  <2> HIDE DEF f
  <2>3. Agrees(l, f, b)
    <3>1. Loosely(f, b) /\ Onward(f, b, FlattenSeq(CallLists(f.left, Indexes(Resolved(f.info)))))
      BY <1>2, <2>1 DEF Loosely, Onward
    <3> QED
      BY <1>2, <2>1, <3>1 DEF Agrees, AsMainFile
  <2>4. ~PkgFails(p) /\ (HasPkg(p) => PkgDir(p) \in DOMAIN w.pkg)
        /\ (HasPkg(p) /\ PkgDir(p) = p <=> p \in DOMAIN w.pkg)
    BY PlainPkgs DEF CallInv
  <2>5. p \notin DOMAIN w.pkg => a.ans = f.ans
    <3>1. p \notin DOMAIN w.pkg => Mains(p) = <<>>
      BY DEF Mains
    <3> QED
      BY <2>2, <3>1, NoCalls
  <2>6. Thens(<<"mainFile">>) = <<l>>
    BY DEF Thens, Map
  <2>7. CASE HasPkg(p)
    <3>1. Agrees(k, a, f)
      <4>1. k.step = "mainField" /\ k.dir = PkgDir(p)
        OBVIOUS
      <4>2. Onward(a, f, FlattenSeq(CallLists(n, IF PkgDir(p) = p THEN Mains(p) ELSE <<>>)))
        <5>1. CASE PkgDir(p) = p
          BY <2>1, <2>2, <5>1 DEF Onward
        <5>2. CASE PkgDir(p) # p
          <6>1. a.ans = f.ans
            BY <2>4, <2>5, <5>2
          <6> QED
            BY <2>1, <5>2, <6>1, NoCalls DEF Onward
        <5> QED
          BY <5>1, <5>2
      <4>3. AsMainField(k, a, f)
        <5> HIDE DEF k
        <5> QED
          BY <1>2, <2>1, <2>4, <2>7, <4>1, <4>2 DEF AsMainField, Exactly
      <4> QED
        BY <1>2, <2>1, <4>3 DEF Agrees
    <3>2. Goto(state, <<k>> \o <<l>>)
      BY <1>5, <2>4, <2>6, <2>7 DEF ResolveAsDir
    <3> HIDE DEF k, l
    <3> DEFINE one == <<k>>
               two == <<l>>
               c == one \o two
    <3>3. IsSeq(one) /\ IsSeq(two) /\ Leads(one, a, f) /\ Leads(two, f, b)
      BY <2>3, <3>1, LeadsOne, OneSeq
    <3>4. Goto(state, c)
      BY <3>2
    <3> HIDE DEF one, two
    <3>5. IsSeq(c) /\ Leads(c, a, b)
      BY <3>3, Concatenated, LeadsJoin
    <3> HIDE DEF c
    <3> QED
      BY <1>0, <1>2, <3>4, <3>5, PutIn
  <2>8. CASE ~HasPkg(p)
    <3>1. Goto(state, <<>> \o <<l>>)
      BY <1>5, <2>4, <2>6, <2>8 DEF ResolveAsDir
    <3>2. <<>> \o <<l>> = <<l>>
      <4> HIDE DEF l
      <4> QED
        OBVIOUS
    <3>3. f.ans = a.ans
      BY <2>4, <2>5, <2>8
    <3>4. f.left = a.left /\ Fits(state, f) /\ NoteOK(f)
      BY <1>2, <2>1 DEF Fits
    <3> HIDE DEF l
    <3>5. IsSeq(<<l>>) /\ Leads(<<l>>, f, b)
      BY <2>3, LeadsOne, OneSeq
    <3> QED
      BY <1>0, <3>1, <3>2, <3>3, <3>4, <3>5, PutIn
  <2> QED
    BY <2>7, <2>8
<1> QED
  BY <1>4, <1>5

\* The plugins that try what the directory leads to.
LEMMA MainStep ==
  ASSUME CallInv, Plain, Next, control # <<>>, NEW a, NEW b, NEW z, Stands(a, b, z),
         MainFieldPlugin \/ MainFilePlugin
  PROVE  SearchInv'
<1>0. [Next]_vars
  OBVIOUS
<1> DEFINE n == a.left
           p == Resolved(Info)
<1>1. ASSUME a.kind = "exact"
      PROVE  /\ Info = a.info /\ Plainly(Info) /\ state = Resolving(Info)
             /\ NoteOK(a) /\ NoteOK(b) /\ Fits(state, a)
  BY <1>1, AtExact DEF Stands
<1>2. ASSUME NEW list, PathList(list), 1 \in 1..(Len(list) + 1), NEW mode, mode # "on",
             NoteOK(a), NoteOK(b), Fits(state, a), Fits(state, b),
             Onward(a, b, FlattenSeq(CallLists(n, Remaining(list, 1)))),
             Goto(state, Attempt(list, mode, state))
      PROVE  SearchInv'
  <2> DEFINE c == Attempt(list, mode, state)
  <2>1. IsSeq(c) /\ Leads(c, a, b)
    BY <1>2, LoopLeads DEF Attempt
  <2>2. Goto(state, c)
    BY <1>2
  <2> HIDE DEF c
  <2> QED
    BY <1>0, <1>2, <2>1, <2>2, PutIn
<1>3. CASE MainFieldPlugin
  <2>1. AsMainField(Item, a, b)
    BY <1>3, AgreesBy DEF Stands, MainFieldPlugin, Then, Doing
  <2>2. /\ a.kind = "exact" /\ b.kind = "exact" /\ b.info = a.info /\ b.left = n
        /\ Item.dir \in DOMAIN w.pkg
        /\ a.ans = Ends(FlattenSeq(CallLists(n, IF Item.dir = Resolved(a.info)
                                                THEN Mains(Resolved(a.info)) ELSE <<>>)), b.ans)
    BY <2>1 DEF AsMainField, Exactly, Onward
  <2>3. Fits(state, b)
    BY <1>1, <2>2 DEF Fits
  <2>4. CASE Item.dir # p
    <3>1. a.ans = b.ans
      BY <1>1, <2>2, <2>4, NoCalls
    <3>2. Return(state)
      BY <1>3, <2>4 DEF MainFieldPlugin
    <3> QED
      BY <1>0, <2>2, <2>3, <3>1, <3>2, HandOn
  <2>5. CASE Item.dir = p
    <3> DEFINE s == MainList(p)
               list == [k \in 1..Len(s) |-> Resolving(Onto(Info, s[k], p))]
    <3>1. p \in DOMAIN w.pkg
      BY <2>2, <2>5
    <3>2. IsSeq(s) /\ \A k \in DOMAIN s : DOMAIN s[k] = Fields /\ s[k].kind = "relative"
      <4> HIDE DEF p
      <4> QED
        BY <3>1, MainListIs DEF CallInv, Fields
    <3>3. IsSeq(Mains(p)) /\ Len(Mains(p)) = Len(s)
          /\ \A k \in 1..Len(s) : Mains(p)[k] = Place(Walk(p, s[k].names), s[k].slash)
      <4> HIDE DEF p
      <4> QED
        BY <3>1, MainsIs DEF CallInv
    <3>4. Goto(state, Attempt(list, "off", state))
      BY <1>3, <2>5 DEF MainFieldPlugin, MainList, Map, Pkg, Onto
    <3> HIDE DEF s, p
    <3>5. PathList(list) /\ 1 \in 1..(Len(list) + 1) /\ Remaining(list, 1) = Mains(p)
      <4>1. Plainly(Info)
        BY <1>1, <2>2
      <4> DEFINE ms == Mains(p)
      <4> HIDE DEF ms
      <4>2. IsSeq(ms) /\ Len(ms) = Len(s)
            /\ \A k \in 1..Len(s) : ms[k] = Place(Walk(p, s[k].names), s[k].slash)
        BY <3>3 DEF ms
      <4>3. list = [k \in 1..Len(s) |-> Resolving(Onto(Info, s[k], p))]
        OBVIOUS
      <4> HIDE DEF list
      <4>4. Targets(s) /\ Ontos(list, Info, s, p) /\ Places(ms, s, p)
        BY <3>2, <4>2, <4>3 DEF Targets, Ontos, Places
      <4>5. PathList(list) /\ 1 \in 1..(Len(list) + 1) /\ Remaining(list, 1) = ms
        BY <4>1, <4>4, ListPaths
      <4> QED
        BY <4>5 DEF ms
    <3> HIDE DEF list
    <3>6. Onward(a, b, FlattenSeq(CallLists(n, Remaining(list, 1))))
      BY <1>1, <2>2, <2>5, <3>5 DEF Onward, p
    <3> QED
      BY <1>1, <1>2, <2>2, <2>3, <3>4, <3>5, <3>6
  <2> QED
    BY <2>4, <2>5
<1>4. CASE MainFilePlugin
  <2>1. AsMainFile(Item, a, b)
    BY <1>4, AgreesBy DEF Stands, MainFilePlugin, Then, Doing
  <2>2. /\ a.kind = "exact" /\ (b.kind = "any" \/ (b.kind = "asked" /\ a.info.req = w.request))
        /\ b.left = n
        /\ a.ans = Ends(FlattenSeq(CallLists(n, Indexes(Resolved(a.info)))), b.ans)
    BY <2>1 DEF AsMainFile, Loosely, Onward
  <2>3. Fits(state, b)
    BY <1>1, <2>2 DEF Fits, Resolving
  <2> DEFINE m == Len(w.mainFiles)
             t(k) == Req("relative", <<w.mainFiles[k]>>)
             s == [k \in 1..m |-> t(k)]
             list == [k \in 1..m |-> Resolving(Onto(Info, t(k), p))]
             li == [k \in 1..Len(s) |-> Resolving(Onto(Info, s[k], p))]
  <2>4. Goto(state, Attempt(list, "keep", state))
    BY <1>4 DEF MainFilePlugin, Map, Onto
  <2>5. IsSeq(s) /\ Len(s) = m /\ DOMAIN s = 1..m
    <3>1. m \in Nat
      BY WorldAssumption, SeqDomain DEF CallInv
    <3>2. s = [k \in 1..m |-> s[k]]
      OBVIOUS
    <3> HIDE DEF s, m
    <3> QED
      BY <3>1, <3>2, ListIs
  <2>6. \A k \in 1..m : s[k] = t(k)
    OBVIOUS
  <2>7. \A k \in 1..m : DOMAIN t(k) = Fields /\ t(k).kind = "relative"
                        /\ t(k).names = <<w.mainFiles[k]>> /\ t(k).slash = FALSE
    BY DEF Req, Fields
  <2>8. IsSeq(Indexes(p)) /\ Len(Indexes(p)) = m
        /\ \A k \in 1..m : Indexes(p)[k] = Place(Walk(p, <<w.mainFiles[k]>>), FALSE)
    BY IndexesIs DEF CallInv
  <2> HIDE DEF s, t, m, p
  <2>9. list = li
    BY <2>5, <2>6
  <2>10. PathList(list) /\ 1 \in 1..(Len(list) + 1) /\ Remaining(list, 1) = Indexes(p)
    <3>1. Plainly(Info)
      BY <1>1, <2>2
    <3> DEFINE ix == Indexes(p)
    <3>2. IsSeq(ix) /\ Len(ix) = Len(s)
      BY <2>5, <2>8
    <3>3. \A k \in 1..Len(s) : ix[k] = Place(Walk(p, s[k].names), s[k].slash)
      <4> HIDE DEF ix
      <4> TAKE k \in 1..Len(s)
      <4>1. k \in 1..m
        BY <2>5
      <4> QED
        BY <2>6, <2>7, <2>8, <4>1 DEF ix
    <3>4. \A k \in DOMAIN s : DOMAIN s[k] = Fields /\ s[k].kind = "relative"
      BY <2>5, <2>6, <2>7
    <3>5. li = [k \in 1..Len(s) |-> Resolving(Onto(Info, s[k], p))]
      OBVIOUS
    <3> HIDE DEF ix, li, list
    <3>6. PathList(li) /\ 1 \in 1..(Len(li) + 1) /\ Remaining(li, 1) = ix
      <4>1. Targets(s) /\ Ontos(li, Info, s, p) /\ Places(ix, s, p)
        BY <2>5, <3>2, <3>3, <3>4, <3>5 DEF Targets, Ontos, Places
      <4> QED
        BY <3>1, <4>1, ListPaths
    <3> QED
      BY <2>9, <3>6 DEF ix
  <2> HIDE DEF list, li
  <2>11. Onward(a, b, FlattenSeq(CallLists(n, Remaining(list, 1))))
    BY <1>1, <2>2, <2>10 DEF Onward, p
  <2> QED
    BY <1>1, <1>2, <2>2, <2>3, <2>4, <2>10, <2>11
<1> QED
  BY <1>3, <1>4

-----------------------------------------------------------------------------
\* Folders of modules, from the directory of the request upwards.

\* The first of the folders of modules, and what follows for the directories above it.
HigherUp(n, k, m) == IF m.absolute \/ k = 0 THEN <<>> ELSE Search[n][k - 1]
LEMMA FoldersHead ==
  ASSUME w \in Worlds, Plain, NEW n \in 0..MaxDepth, NEW k \in 0..Len(w.from),
         NEW rest, IsSeq(rest), rest # <<>>, NEW x
  PROVE  LET m == Head(rest)
             y == Ends(FlattenSeq(FolderLists(n, k, Tail(rest))), x)
         IN Ends(FlattenSeq(FolderLists(n, k, rest)), x) =
              Ends(ModuleTries(n, Folder(k, m)), Ends(HigherUp(n, k, m), y))
<1> DEFINE m == Head(rest)
           t == Tail(rest)
           c == Len(rest)
           y == Ends(FlattenSeq(FolderLists(n, k, t)), x)
           ss == FolderLists(n, k, rest)
           us == FolderLists(n, k, t)
<1>1. /\ c \in Nat \ {0} /\ IsSeq(t) /\ DOMAIN t = 1..(c - 1)
      /\ \A j \in 1..(c - 1) : t[j] = rest[j + 1]
      /\ m = rest[1]
  BY Tailed
<1>2. Lists(ss) /\ Len(ss) = c /\ Lists(us) /\ Len(us) = Len(t) /\ IsSeq(FlattenSeq(us))
  BY <1>1, FolderListsOK
<1>3. Len(t) = c - 1
  <2>1. Len(t) \in Nat /\ DOMAIN t = 1..Len(t)
    BY <1>1, SeqDomain
  <2> QED
    BY <1>1, <2>1
<1>4. (\A j \in 1..c : ss[j] = FolderTries(n, k, rest[j]))
      /\ (\A j \in 1..Len(t) : us[j] = FolderTries(n, k, t[j]))
  BY DEF FolderLists
<1> HIDE DEF ss, us, t, m, c
<1>5. ss # <<>>
  <2> DEFINE none == <<>>
  <2>1. Len(none) = 0
    OBVIOUS
  <2> HIDE DEF none
  <2>2. ss # none
    BY <1>1, <1>2, <2>1
  <2> QED
    BY <2>2 DEF none
<1>6. Tail(ss) = us
  <2> DEFINE q == Tail(ss)
  <2>1. IsSeq(q) /\ DOMAIN q = 1..(c - 1) /\ \A j \in 1..(c - 1) : q[j] = ss[j + 1]
    BY <1>2, <1>5, Tailed DEF Lists
  <2> HIDE DEF q
  <2>2. Len(q) = c - 1
    <3>1. Len(q) \in Nat /\ DOMAIN q = 1..Len(q)
      BY <2>1, SeqDomain
    <3> QED
      BY <1>1, <2>1, <3>1
  <2>3. \A j \in 1..Len(q) : q[j] = us[j]
    <3> TAKE j \in 1..Len(q)
    <3>1. j \in 1..(c - 1) /\ j + 1 \in 1..c /\ j \in 1..Len(t)
      BY <1>1, <1>3, <2>2
    <3>2. ss[j + 1] = FolderTries(n, k, rest[j + 1])
      BY <1>4, <3>1
    <3> QED
      BY <1>1, <1>4, <2>1, <3>1, <3>2
  <2>4. q = us
    BY <1>2, <1>3, <2>1, <2>2, <2>3, SeqSame DEF Lists
  <2> QED
    BY <2>4 DEF q
<1>7. FlattenSeq(ss) = FolderTries(n, k, m) \o FlattenSeq(us)
  <2>1. FlattenSeq(ss) = ss[1] \o FlattenSeq(Tail(ss))
    BY <1>2, <1>5, Flattened
  <2>2. ss[1] = FolderTries(n, k, m)
    BY <1>1, <1>4
  <2> QED
    BY <1>6, <2>1, <2>2
<1> DEFINE f == ModuleTries(n, Folder(k, m))
           u == HigherUp(n, k, m)
<1>8. IsSeq(f) /\ IsSeq(u)
  <2>1. IsSeq(<<>>)
    BY DEF IsSeq
  <2>2. k # 0 => k - 1 \in 0..Len(w.from)
    BY WorldAssumption, SeqDomain
  <2> DEFINE h == k - 1
  <2> HIDE DEF h
  <2>3. k # 0 => IsSeq(Search[n][h])
    BY <2>2, SearchSeq DEF h
  <2> QED
    BY <2>1, <2>3, ModuleTriesSeq DEF HigherUp, h
<1>9. /\ FolderTries(n, k, m) = f \o u /\ IsSeq(FolderTries(n, k, m))
      /\ Ends(FolderTries(n, k, m), y) = Ends(f, Ends(u, y))
  <2>1. f = f \o <<>>
    <3> HIDE DEF f
    <3> DEFINE S == {f[j] : j \in DOMAIN f}
    <3>1. f \in Seq(S)
      BY <1>8 DEF IsSeq
    <3> HIDE DEF S
    <3> QED
      BY <3>1, ConcatEmptySeq
  <2>2. FolderTries(n, k, m) = f \o u
    <3>1. CASE m.absolute
      BY <2>1, <3>1 DEF FolderTries, FolderTriesOf, Folder, HigherUp
    <3>2. CASE ~m.absolute
      BY <3>2 DEF FolderTries, FolderTriesOf, Folder, HigherUp
    <3> QED
      BY <3>1, <3>2
  <2> HIDE DEF f, u, y
  <2>3. EndsThen(f, u, y) /\ IsSeq(f \o u)
    BY <1>8, EndsJoined, Concatenated
  <2> QED
    BY <2>2, <2>3 DEF EndsThen
<1> DEFINE g == FolderTries(n, k, m)
           v == FlattenSeq(us)
<1> HIDE DEF g, v
<1>10. EndsThen(g, v, x)
  BY <1>2, <1>9, EndsJoined DEF g, v
<1>11. Ends(FlattenSeq(ss), x) = Ends(g, Ends(v, x))
  BY <1>7, <1>10 DEF EndsThen, g, v
<1> QED
  BY <1>9, <1>11 DEF g, v, m, t, ss, us

\* The directory of an earlier step on the way up.
LEMMA ClimbsUp ==
  ASSUME w \in Worlds, NEW p, Climbs(p)
  PROVE  /\ IsSeq(p) /\ Len(p) \in 0..Len(w.from) /\ Len(w.from) \in Nat
         /\ (p = <<>> <=> Len(p) = 0)
         /\ p # <<>> => Climbs(DirOf(p)) /\ Len(DirOf(p)) = Len(p) - 1
<1> DEFINE S == {w.from[k] : k \in DOMAIN w.from}
           k == Len(p)
<1>1. w.from \in Seq(S) /\ Len(w.from) \in Nat
  BY WorldAssumption, SeqDomain DEF IsSeq
<1> HIDE DEF S
<1>2. k \in 0..Len(w.from) /\ p = SubSeq(w.from, 1, k)
  BY DEF Climbs
<1>3. p \in Seq(S) /\ \A j \in 1..k : p[j] = w.from[j]
  <2>1. 1 \in Int /\ k \in Int /\ k <= Len(w.from)
    BY <1>1, <1>2
  <2> HIDE DEF k
  <2>2. SubSeq(w.from, 1, k) \in Seq(S) /\ \A j \in 1..Len(SubSeq(w.from, 1, k)) :
          SubSeq(w.from, 1, k)[j] = w.from[1 + j - 1]
    BY <1>1, <2>1, PartOf
  <2>3. \A j \in 1..k : 1 + j - 1 = j
    BY <1>1, <1>2
  <2> QED
    BY <1>2, <2>2, <2>3 DEF k
<1>4. p = <<>> <=> k = 0
  BY <1>3, EmptySeq
<1>5. ASSUME p # <<>>
      PROVE  Climbs(DirOf(p)) /\ Len(DirOf(p)) = k - 1
  <2>1. k \in 1..Len(w.from)
    BY <1>1, <1>2, <1>4, <1>5
  <2>2. DirOf(p) = SubSeq(p, 1, k - 1)
    BY <1>5 DEF DirOf, Front
  <2> DEFINE d == SubSeq(p, 1, k - 1)
             e == SubSeq(w.from, 1, k - 1)
             j == k - 1
  <2>3. d \in Seq(S) /\ Len(d) = j /\ \A i \in 1..j : d[i] = p[i]
    <3>1. 1 \in Int /\ j \in Nat /\ j <= Len(p)
      BY <1>1, <2>1
    <3> HIDE DEF j
    <3>2. /\ SubSeq(p, 1, j) \in Seq(S) /\ Len(SubSeq(p, 1, j)) = IF 1 <= j THEN j - 1 + 1 ELSE 0
          /\ \A i \in 1..Len(SubSeq(p, 1, j)) : SubSeq(p, 1, j)[i] = p[1 + i - 1]
      BY <1>3, <3>1, PartOf
    <3>3. Len(SubSeq(p, 1, j)) = j /\ \A i \in 1..j : 1 + i - 1 = i
      BY <3>1, <3>2
    <3> QED
      BY <3>2, <3>3 DEF j
  <2>4. e \in Seq(S) /\ Len(e) = j /\ \A i \in 1..j : e[i] = w.from[i]
    <3>1. 1 \in Int /\ j \in Nat /\ j <= Len(w.from)
      BY <1>1, <2>1
    <3> HIDE DEF j
    <3>2. /\ SubSeq(w.from, 1, j) \in Seq(S)
          /\ Len(SubSeq(w.from, 1, j)) = IF 1 <= j THEN j - 1 + 1 ELSE 0
          /\ \A i \in 1..Len(SubSeq(w.from, 1, j)) : SubSeq(w.from, 1, j)[i] = w.from[1 + i - 1]
      BY <1>1, <3>1, PartOf
    <3>3. Len(SubSeq(w.from, 1, j)) = j /\ \A i \in 1..j : 1 + i - 1 = i
      BY <3>1, <3>2
    <3> QED
      BY <3>2, <3>3 DEF j
  <2>5. \A i \in 1..j : i \in 1..k
    BY <1>1, <2>1
  <2> HIDE DEF d, e
  <2>6. \A i \in 1..j : d[i] = e[i]
    BY <1>3, <2>3, <2>4, <2>5
  <2>7. d = e
    <3> HIDE DEF j, k
    <3> QED
      BY <2>3, <2>4, <2>6, SeqEqual
  <2>8. Len(d) \in 0..Len(w.from) /\ e = SubSeq(w.from, 1, Len(d)) /\ Len(d) = k - 1
    <3>1. j \in 0..Len(w.from)
      BY <1>1, <2>1
    <3> QED
      BY <2>3, <3>1 DEF e
  <2> QED
    BY <2>2, <2>7, <2>8 DEF Climbs, d
<1> QED
  BY <1>1, <1>2, <1>3, <1>4, <1>5, SeqIsSeq

\* One folder of modules after the other.
LEMMA ModulesStep ==
  ASSUME CallInv, Plain, Next, control # <<>>, NEW a, NEW b, NEW z, Stands(a, b, z),
         ResolveAsModules
  PROVE  SearchInv'
<1>0. [Next]_vars
  OBVIOUS
<1>1. AsModules(Item, a, b) /\ NoteOK(a) /\ NoteOK(b) /\ Fits(state, a)
  BY AgreesBy DEF Stands, ResolveAsModules, Doing
<1> DEFINE n == a.left
           i == Item.info
           rest == Item.rest
           k == Len(i.path)
<1>2. /\ b.kind = "any" /\ IsModule /\ IsInfo(i) /\ i.req = w.request /\ Climbs(i.path)
      /\ IsSeq(rest) /\ b.left = n
      /\ a.ans = Ends(FlattenSeq(FolderLists(n, k, rest)), b.ans)
  BY <1>1 DEF AsModules, Onward
<1>3. ~IsFinished(state)
  BY <1>1 DEF Fits, IsFinished
<1>4. n \in 0..MaxDepth
  BY <1>1, DepthAssumption DEF NoteOK
<1>5. CASE rest = <<>>
  <2>1. FolderLists(n, k, rest) = <<>>
    BY <1>5 DEF FolderLists
  <2>2. a.ans = b.ans
    BY <1>2, <2>1, FlattenNone, EndsNone
  <2>3. Return(Failed(i))
    BY <1>3, <1>5 DEF ResolveAsModules
  <2>4. Fits(Failed(i), b)
    BY <1>2 DEF Fits, Failed
  <2> HIDE DEF i
  <2> QED
    BY <1>0, <1>2, <2>2, <2>3, <2>4, HandOn
<1>6. CASE rest # <<>>
  <2> DEFINE m == Head(rest)
             from == i.path
             folder == IF m.absolute THEN m.names ELSE from \o m.names
             t == FlattenSeq(FolderLists(n, k, Tail(rest)))
             u == HigherUp(n, k, m)
             e == [info |-> i, kind |-> "exact", left |-> n, ans |-> a.ans]
             g == [info |-> i, kind |-> "any", left |-> n, ans |-> Ends(t, b.ans)]
             f == [info |-> i, kind |-> "request", left |-> n, ans |-> Ends(u, g.ans)]
             first == [step |-> "inModules", from |-> from, folder |-> folder]
             second == [step |-> "findUp", to |-> DirOf(from)]
             third == [step |-> "modules", rest |-> Tail(rest), info |-> i]
             way == IF m.absolute \/ from = <<>> THEN <<>> ELSE <<second>>
  <2>1. Goto(Resolving(i), <<first>> \o way \o <<third>>)
    BY <1>3, <1>6 DEF ResolveAsModules
  <2>2. /\ e.info = i /\ e.kind = "exact" /\ e.left = n /\ e.ans = a.ans
        /\ g.kind = "any" /\ g.left = n /\ g.ans = Ends(t, b.ans)
        /\ f.kind = "request" /\ f.left = n /\ f.ans = Ends(u, g.ans)
    OBVIOUS
  <2>3. first.step = "inModules" /\ first.folder = folder
        /\ second.step = "findUp" /\ second.to = DirOf(from)
        /\ third.step = "modules" /\ third.rest = Tail(rest) /\ third.info = i
    OBVIOUS
  <2>4. NoteOK(e) /\ NoteOK(f) /\ NoteOK(g)
    <3>1. Plainly(i)
      BY <1>2 DEF Plain, Plainly
    <3> HIDE DEF i, u, t
    <3> QED
      BY <1>1, <3>1 DEF NoteOK
  <2>5. IsSeq(from) /\ k \in 0..Len(w.from) /\ Len(w.from) \in Nat /\ (from = <<>> <=> k = 0)
        /\ (from # <<>> => Climbs(DirOf(from)) /\ Len(DirOf(from)) = k - 1)
    <3> HIDE DEF i
    <3> QED
      BY <1>2, ClimbsUp DEF CallInv
  <2>6. folder = Folder(k, m)
    BY <1>2 DEF Folder, Climbs
  <2>7. a.ans = Ends(ModuleTries(n, folder), Ends(u, Ends(t, b.ans)))
    <3> HIDE DEF n, k, rest
    <3>1. Ends(FlattenSeq(FolderLists(n, k, rest)), b.ans) =
              Ends(ModuleTries(n, Folder(k, m)), Ends(HigherUp(n, k, m), Ends(t, b.ans)))
      BY <1>2, <1>4, <1>6, <2>5, FoldersHead DEF CallInv
    <3> HIDE DEF folder, m, t
    <3> QED
      BY <1>2, <2>6, <3>1
  <2>8. IsSeq(Tail(rest))
    <3> HIDE DEF rest
    <3> QED
      BY <1>2, <1>6, Tailed
  <2> HIDE DEF first, second, third, e, f, g, folder, t
  <2>9. Agrees(first, e, f)
    <3>1. Onward(e, f, ModuleTries(n, folder))
      BY <2>2, <2>7 DEF Onward
    <3>2. AsInModules(first, e, f)
      BY <1>2, <2>2, <2>3, <3>1 DEF AsInModules
    <3> QED
      BY <2>4, <3>2 DEF Agrees
  <2>10. (IsSeq(way) /\ Leads(way, f, g)) \/ (way = <<>> /\ f.ans = g.ans)
    <3>1. CASE m.absolute \/ from = <<>>
      <4>1. u = <<>> /\ way = <<>>
        BY <2>5, <3>1 DEF HigherUp
      <4> HIDE DEF u, way
      <4> QED
        BY <2>2, <4>1, EndsNone
    <3>2. CASE ~(m.absolute \/ from = <<>>)
      <4>1. u = Search[n][k - 1] /\ way = <<second>>
        BY <2>5, <3>2 DEF HigherUp
      <4>2. Climbs(DirOf(from)) /\ Len(DirOf(from)) = k - 1
        BY <2>5, <3>2
      <4> HIDE DEF u, way, from, k
      <4>3. AsFindUp(second, f, g)
        BY <1>2, <2>2, <2>3, <4>1, <4>2 DEF AsFindUp, Onward
      <4>4. Agrees(second, f, g)
        BY <2>4, <4>3 DEF Agrees
      <4> QED
        BY <4>1, <4>4, LeadsOne, OneSeq
    <3> QED
      BY <3>1, <3>2
  <2>11. Agrees(third, g, b)
    <3>1. Onward(g, b, FlattenSeq(FolderLists(n, Len(i.path), Tail(rest))))
      BY <1>2, <2>2 DEF Onward, t
    <3> HIDE DEF i, n, rest
    <3>2. AsModules(third, g, b)
      BY <1>2, <2>2, <2>3, <2>8, <3>1 DEF AsModules
    <3> QED
      BY <1>1, <2>4, <3>2 DEF Agrees
  <2>12. Fits(Resolving(i), e)
    <3> HIDE DEF i
    <3> QED
      BY <2>2 DEF Fits, Resolving
  <2> DEFINE one == <<first>>
             last == <<third>>
             head == one \o way
             c == head \o last
  <2>13. IsSeq(one) /\ Leads(one, e, f) /\ IsSeq(last) /\ Leads(last, g, b)
    BY <2>9, <2>11, LeadsOne, OneSeq
  <2>14. Goto(Resolving(i), c)
    BY <2>1
  <2>15. (IsSeq(head) /\ Leads(head, e, g)) \/ (head = one /\ f.ans = g.ans)
    <3> HIDE DEF way, one
    <3>1. CASE IsSeq(way) /\ Leads(way, f, g)
      BY <2>13, <3>1, Concatenated, LeadsJoin
    <3>2. CASE way = <<>> /\ f.ans = g.ans
      <4> DEFINE S == {one[j] : j \in DOMAIN one}
      <4>1. one \in Seq(S)
        BY <2>13 DEF IsSeq
      <4> HIDE DEF S
      <4>2. one \o <<>> = one
        BY <4>1, ConcatEmptySeq
      <4> QED
        BY <3>2, <4>2
    <3> QED
      BY <2>10, <3>1, <3>2
  <2>16. IsSeq(c) /\ Leads(c, e, b)
    <3> HIDE DEF one, last, head
    <3>1. CASE IsSeq(head) /\ Leads(head, e, g)
      BY <2>13, <3>1, Concatenated, LeadsJoin
    <3>2. CASE head = one /\ f.ans = g.ans
      <4> DEFINE h == [info |-> i, kind |-> "request", left |-> n, ans |-> g.ans]
      <4>1. NoteOK(h) /\ h.ans = g.ans /\ h.left = n /\ h.kind = "request"
        <5> HIDE DEF i, n
        <5> QED
          BY <1>1, <2>2, <2>4 DEF NoteOK, n
      <4> HIDE DEF h
      <4>2. Agrees(third, h, b)
        <5>1. Onward(h, b, FlattenSeq(FolderLists(n, Len(i.path), Tail(rest))))
          BY <1>2, <2>2, <4>1 DEF Onward, t
        <5> HIDE DEF i, n, rest
        <5>2. AsModules(third, h, b)
          BY <1>2, <2>3, <2>8, <4>1, <5>1 DEF AsModules
        <5> QED
          BY <1>1, <4>1, <5>2 DEF Agrees
      <4>3. Agrees(first, e, h)
        <5>1. Onward(e, h, ModuleTries(n, folder))
          BY <2>2, <2>7, <3>2, <4>1 DEF Onward
        <5>2. AsInModules(first, e, h)
          BY <1>2, <2>2, <2>3, <4>1, <5>1 DEF AsInModules
        <5> QED
          BY <2>4, <4>1, <5>2 DEF Agrees
      <4>4. Leads(one, e, h) /\ Leads(last, h, b)
        BY <4>2, <4>3, LeadsOne DEF one, last
      <4> QED
        BY <2>13, <3>2, <4>4, Concatenated, LeadsJoin
    <3> QED
      BY <2>15, <3>1, <3>2
  <2> HIDE DEF c, i, n
  <2> QED
    BY <1>0, <2>2, <2>4, <2>12, <2>14, <2>16, PutIn DEF n
<1> QED
  BY <1>5, <1>6

\* The directory above.
LEMMA FindUpStep ==
  ASSUME CallInv, Plain, Next, control # <<>>, NEW a, NEW b, NEW z, Stands(a, b, z), FindUp
  PROVE  SearchInv'
<1>0. [Next]_vars
  OBVIOUS
<1>1. AsFindUp(Item, a, b) /\ NoteOK(a) /\ NoteOK(b) /\ Fits(state, a)
  BY AgreesBy DEF Stands, FindUp, Then, Doing
<1> DEFINE n == a.left
           to == Item.to
           i == WithPath(Info, to)
           e == [info |-> i, kind |-> "exact", left |-> n, ans |-> a.ans]
           l == [step |-> "enter"]
<1>2. /\ IsModule /\ a.kind = "request" /\ b.kind = "any" /\ Climbs(to) /\ b.left = n
      /\ a.ans = Ends(Search[n][Len(to)], b.ans)
  BY <1>1 DEF AsFindUp, Onward
<1>3. IsInfo(Info) /\ Info.req = w.request
  <2>1. IsInfo(Info)
    BY ThenInfo DEF FindUp
  <2> QED
    BY <1>1, <1>2, <2>1 DEF Fits, Info
<1>4. IsInfo(i) /\ i.path = to /\ i.req = w.request
  BY <1>3, InfoOf
<1>5. Goto(Resolving(i), <<l>>)
  <2>1. Thens(<<"enter">>) = <<l>>
    BY DEF Thens, Map
  <2> QED
    BY <2>1 DEF FindUp
<1>6. e.info = i /\ e.kind = "exact" /\ e.left = n /\ e.ans = a.ans /\ l.step = "enter"
  OBVIOUS
<1> HIDE DEF i, e, l
<1>7. NoteOK(e)
  BY <1>1, <1>4, <1>6 DEF NoteOK, Plainly, Plain
<1>8. Agrees(l, e, b)
  <2>1. SearchFor(n, i) = Search[n][Len(to)] /\ OnTrack(i)
    BY <1>2, <1>4 DEF SearchFor, OnTrack, IsPathLike, IsModule
  <2>2. AsEnter(l, e, b)
    BY <1>2, <1>6, <2>1 DEF AsEnter, Onward
  <2> QED
    BY <1>1, <1>7, <2>2 DEF Agrees
<1>9. Fits(Resolving(i), e)
  BY <1>6 DEF Fits, Resolving
<1> QED
  BY <1>0, <1>5, <1>6, <1>7, <1>8, <1>9, LeadsOne, OneSeq, PutIn

\* A folder of modules that is not there.
LEMMA InModulesStep ==
  ASSUME CallInv, Plain, Next, control # <<>>, NEW a, NEW b, NEW z, Stands(a, b, z), InModules
  PROVE  SearchInv'
<1>0. [Next]_vars
  OBVIOUS
<1>1. AsInModules(Item, a, b) /\ NoteOK(a) /\ NoteOK(b) /\ Fits(state, a)
  BY AgreesBy DEF Stands, InModules, Then, Doing
<1> DEFINE n == a.left
           folder == Item.folder
           scope == PkgDir(folder)
           l == [step |-> "self", dir |-> scope]
           m == [step |-> "module", from |-> Item.from, folder |-> folder]
           self == IF HasPkg(folder) THEN <<l>> ELSE <<>>
<1>2. /\ IsModule /\ a.kind = "exact" /\ a.info.req = w.request /\ b.kind = "request"
      /\ b.left = n /\ a.ans = Ends(ModuleTries(n, folder), b.ans)
  BY <1>1 DEF AsInModules, Onward
<1>3. ~PkgFails(folder) /\ (HasPkg(folder) => scope \in DOMAIN w.pkg)
  BY PlainPkgs DEF CallInv
<1>4. IsSeq(self) /\ Leads(self, b, b)
  <2>1. CASE HasPkg(folder)
    <3>1. l.step = "self" /\ l.dir = scope
      OBVIOUS
    <3> HIDE DEF l, scope
    <3>2. Agrees(l, b, b)
      BY <1>1, <1>2, <1>3, <2>1, <3>1 DEF Agrees, AsSilent
    <3> QED
      BY <2>1, <3>2, LeadsOne, OneSeq
  <2>2. CASE ~HasPkg(folder)
    BY <2>2, LeadsNone DEF IsSeq
  <2> QED
    BY <2>1, <2>2
<1>5. Fits(state, b)
  <2>1. state = Resolving(a.info)
    BY <1>2, AtExact
  <2> QED
    BY <1>2, <2>1 DEF Fits, Resolving
<1>6. CASE IsDir(folder)
  <2>1. Goto(state, <<m>> \o self)
    BY <1>3, <1>6 DEF InModules
  <2>2. m.step = "module" /\ m.folder = folder
    OBVIOUS
  <2> DEFINE one == <<m>>
             c == one \o self
  <2> HIDE DEF m, self
  <2>3. Agrees(m, a, b)
    <3>1. AsInModules(m, a, b)
      BY <1>2, <1>6, <2>2 DEF AsInModules, Onward
    <3> QED
      BY <1>1, <3>1 DEF Agrees
  <2>4. IsSeq(one) /\ Leads(one, a, b)
    BY <2>3, LeadsOne, OneSeq
  <2>5. Goto(state, c)
    BY <2>1
  <2> HIDE DEF one
  <2>6. IsSeq(c) /\ Leads(c, a, b)
    BY <1>4, <2>4, Concatenated, LeadsJoin
  <2> HIDE DEF c
  <2> QED
    BY <1>0, <1>1, <2>5, <2>6, PutIn
<1>7. CASE ~IsDir(folder)
  <2>1. a.ans = b.ans
    <3>1. ModuleTries(n, folder) = <<>>
      BY <1>7 DEF ModuleTries
    <3> QED
      BY <1>2, <3>1, EndsNone
  <2>2. CASE HasPkg(folder) /\ scope = Item.from
    <3>1. Goto(state, self)
      BY <1>3, <1>7, <2>2 DEF InModules
    <3> HIDE DEF self
    <3> QED
      BY <1>0, <1>1, <1>2, <1>4, <1>5, <2>1, <3>1, PutIn
  <2>3. CASE ~(HasPkg(folder) /\ scope = Item.from)
    <3>1. Return(state)
      BY <1>3, <1>7, <2>3 DEF InModules
    <3> QED
      BY <1>0, <1>2, <1>5, <2>1, <3>1, HandOn
  <2> QED
    BY <2>2, <2>3
<1> QED
  BY <1>6, <1>7

-----------------------------------------------------------------------------
\* The package in a folder of modules, by its main fields, as a file and as
\* a directory; what is not found is looked for elsewhere.
LEMMA NodeStep ==
  ASSUME CallInv, Plain, Next, control # <<>>, NEW a, NEW b, NEW z, Stands(a, b, z),
         ResolveNodeModules
  PROVE  SearchInv'
<1>0. [Next]_vars
  OBVIOUS
<1>1. AsInModules(Item, a, b) /\ NoteOK(a) /\ NoteOK(b) /\ Item.step = "module"
  BY AgreesBy DEF Stands, ResolveNodeModules, Then, Doing
<1> DEFINE n == a.left
           folder == Item.folder
           names == w.request.names
           package == Walk(folder, ModuleName(names))
           i == WithPath(Info, folder)
           p == Walk(folder, names)
           l == Place(p, w.request.slash)
           scope == PkgDir(package)
<1>2. /\ IsModule /\ a.kind = "exact" /\ a.info.req = w.request /\ b.kind = "request"
      /\ b.left = n /\ IsDir(folder) /\ a.ans = Ends(ModuleTries(n, folder), b.ans)
  BY <1>1 DEF AsInModules, Onward
<1>3. Info = a.info /\ IsInfo(Info) /\ Info.req = w.request
  BY <1>2, AtExact
<1>4. IsInfo(i) /\ i.path = folder /\ i.req = w.request
  <2> HIDE DEF folder
  <2> QED
    BY <1>3, InfoOf
<1>5. Plainly(i) /\ Resolved(i) = p /\ PlaceOf(i) = l
  <2>1. Resolved(i) = p
    <3> HIDE DEF i
    <3> QED
      BY <1>2, <1>4 DEF Resolved, IsModule
  <2> HIDE DEF i, p
  <2> QED
    BY <1>4, <2>1 DEF Plainly, Plain, PlaceOf
<1>6. n \in 0..MaxDepth
  BY <1>1, DepthAssumption DEF NoteOK
<1>13. \A v, u : Ends(PlaceTries(v, Inside[n]), u) = Ends(FilesAt(v), Ends(HeldAt(n, v.path), u))
  <2> HIDE DEF n, folder, names, package, i, p, l, scope
  <2> TAKE v, u
  <2>1. w \in Worlds
    BY DEF CallInv
  <2>2. PlaceSplit(n, v, u)
    BY <1>6, <2>1, PlaceSplits
  <2> QED
    BY <2>2 DEF PlaceSplit
<1> DEFINE e == [info |-> i, kind |-> "exact", left |-> n, ans |-> a.ans]
<1>7. e.info = i /\ e.kind = "exact" /\ e.left = n /\ e.ans = a.ans
  OBVIOUS
<1>8. NoteOK(e) /\ Fits(Resolving(i), e)
  <2> HIDE DEF i, e
  <2> QED
    BY <1>1, <1>5, <1>7 DEF NoteOK, Fits, Resolving
<1>9. ModuleTries(n, folder) =
        IF ~IsDir(package) THEN FilesAt(l)
        ELSE (IF HasPkg(package) /\ PkgDir(package) = p
              THEN FlattenSeq(CallLists(n, Mains(p))) ELSE <<>>)
             \o PlaceTries(l, Inside[n])
  <2>1. l.path = p
    BY DEF Place
  <2> QED
    BY <1>2, <2>1 DEF ModuleTries, Each, CallLists, FilesAt
<1>10. l.path = p /\ l.slash = w.request.slash
  BY DEF Place
<1> HIDE DEF i, e
<1>11. CASE ~IsDir(package)
  <2> DEFINE f == [info |-> i, kind |-> "exact", left |-> n, ans |-> b.ans]
             k == [step |-> "file"]
             m == [step |-> "unlessFile", info |-> Info]
             one == <<k>>
             two == <<m>>
             c == one \o two
  <2>1. Goto(Resolving(i), c)
    <3>1. Thens(<<"file">>) = <<k>>
      BY DEF Thens, Map
    <3>2. ~IsDir(Walk(Item.folder, ModuleName(Info.req.names)))
      BY <1>3, <1>11
    <3> QED
      BY <3>1, <3>2 DEF ResolveNodeModules, i
  <2>2. f.info = i /\ f.kind = "exact" /\ f.left = n /\ f.ans = b.ans
        /\ k.step = "file" /\ m.step = "unlessFile" /\ m.info = Info
    OBVIOUS
  <2> HIDE DEF f, k, m
  <2>3. NoteOK(f)
    BY <1>1, <1>5, <2>2 DEF NoteOK
  <2>4. Agrees(k, e, f)
    <3>1. Onward(e, f, FilesAt(l))
      BY <1>2, <1>7, <1>9, <1>11, <2>2 DEF Onward
    <3>2. FilesAt(l) = IF i.req.slash THEN <<>> ELSE FileTries(Resolved(i))
      BY <1>4, <1>5, <1>10 DEF FilesAt
    <3> HIDE DEF l
    <3>3. AsFile(k, e, f)
      BY <1>7, <2>2, <3>1, <3>2 DEF AsFile, Exactly
    <3> QED
      BY <1>8, <2>3, <3>3 DEF Agrees
  <2>5. Agrees(m, f, b)
    <3>1. AsUnless(m, f, b)
      BY <1>2, <1>3, <2>2 DEF AsUnless
    <3> QED
      BY <1>1, <2>3, <3>1 DEF Agrees
  <2>6. IsSeq(one) /\ Leads(one, e, f) /\ IsSeq(two) /\ Leads(two, f, b)
    BY <2>4, <2>5, LeadsOne, OneSeq
  <2> HIDE DEF one, two
  <2>7. IsSeq(c) /\ Leads(c, e, b)
    BY <2>6, Concatenated, LeadsJoin
  <2> HIDE DEF c
  <2> QED
    BY <1>0, <1>7, <1>8, <2>1, <2>7, PutIn
<1>12. CASE IsDir(package)
  <2> DEFINE rest == Ends(HeldAt(n, p), b.ans)
             x == Ends(FilesAt(l), rest)
             d == [info |-> i, kind |-> "exact", left |-> n, ans |-> x]
             f == [info |-> i, kind |-> "exact", left |-> n, ans |-> rest]
             g == [info |-> i, kind |-> "asked", left |-> n, ans |-> b.ans]
             own == IF PkgDir(package) = p THEN Mains(p) ELSE <<>>
  <2>1. /\ d.info = i /\ d.kind = "exact" /\ d.left = n /\ d.ans = x
        /\ f.info = i /\ f.kind = "exact" /\ f.left = n /\ f.ans = rest
        /\ g.kind = "asked" /\ g.left = n /\ g.ans = b.ans
    OBVIOUS
  <2> HIDE DEF d, f, g
  <2>2. NoteOK(d) /\ NoteOK(f) /\ NoteOK(g)
    BY <1>1, <1>5, <2>1 DEF NoteOK
  <2>3. /\ a.ans = IF HasPkg(package) THEN Ends(FlattenSeq(CallLists(n, own)), x) ELSE x
    <3> DEFINE q == IF HasPkg(package) /\ PkgDir(package) = p
                    THEN FlattenSeq(CallLists(n, Mains(p))) ELSE <<>>
               r == PlaceTries(l, Inside[n])
    <3>1. IsSeq(q)
      <4>1. IsSeq(<<>>)
        BY DEF IsSeq
      <4>2. IsSeq(Mains(p))
        BY MainsIs DEF CallInv
      <4>3. IsSeq(FlattenSeq(CallLists(n, Mains(p))))
        <5> HIDE DEF n, p
        <5> QED
          BY <1>6, <4>2, CallListsOK DEF CallInv
      <4> QED
        BY <4>1, <4>3
    <3>2. IsSeq(r) /\ Ends(r, b.ans) = x
      <4> DEFINE y == b.ans
      <4>0. w \in Worlds
        BY DEF CallInv
      <4> HIDE DEF n, l, p, y
      <4>1. IsSeq(PlaceTries(l, Inside[n]))
        BY <1>6, PlaceTriesSeq DEF CallInv
      <4>2. Ends(PlaceTries(l, Inside[n]), y) = Ends(FilesAt(l), Ends(HeldAt(n, l.path), y))
        BY <1>13
      <4>3. l.path = p
        BY <1>10
      <4> QED
        BY <4>1, <4>2, <4>3 DEF y
    <3>3. a.ans = Ends(q \o r, b.ans)
      BY <1>2, <1>9, <1>12
    <3> HIDE DEF q, r, x
    <3>4. EndsThen(q, r, b.ans)
      BY <3>1, <3>2, EndsJoined
    <3>5. a.ans = Ends(q, x)
      BY <3>2, <3>3, <3>4 DEF EndsThen
    <3>6. q = IF HasPkg(package) THEN FlattenSeq(CallLists(n, own)) ELSE <<>>
      <4>1. FlattenSeq(CallLists(n, <<>>)) = <<>>
        <5>1. CallLists(n, <<>>) = <<>>
          BY DEF CallLists
        <5> QED
          BY <5>1, FlattenNone
      <4> HIDE DEF n, p, package
      <4> QED
        BY <4>1 DEF q
    <3> HIDE DEF own
    <3> QED
      BY <3>5, <3>6, EndsNone
  <2> DEFINE s == <<"context", "fullySpecified", "file", "dir", "unlessFailed">>
             c == Thens(s)
  <2>4. IsSeq(c) /\ Len(c) = 5 /\ \A k \in 1..5 : c[k] = [step |-> s[k]]
    <3> DEFINE S == {"context", "fullySpecified", "file", "dir", "unlessFailed"}
    <3>1. s \in Seq(S) /\ Len(s) = 5
      OBVIOUS
    <3> HIDE DEF s, S
    <3> QED
      BY <3>1, ThensIs
  <2>5. s[1] = "context" /\ s[2] = "fullySpecified" /\ s[3] = "file" /\ s[4] = "dir"
        /\ s[5] = "unlessFailed"
    OBVIOUS
  <2> HIDE DEF s, c
  <2>6. c[1].step = "context" /\ c[2].step = "fullySpecified" /\ c[3].step = "file"
        /\ c[4].step = "dir" /\ c[5].step = "unlessFailed"
    BY <2>4, <2>5
  <2>7. Agrees(c[1], d, d) /\ Agrees(c[2], d, d)
    BY <2>1, <2>2, <2>6 DEF Agrees, AsSilent, InPkg
  <2>8. Agrees(c[3], d, f)
    <3>1. FilesAt(l) = IF i.req.slash THEN <<>> ELSE FileTries(Resolved(i))
      BY <1>4, <1>5, <1>10 DEF FilesAt
    <3>2. Onward(d, f, FilesAt(l))
      BY <2>1 DEF Onward
    <3> HIDE DEF l
    <3>3. AsFile(c[3], d, f)
      BY <2>1, <2>6, <3>1, <3>2 DEF AsFile, Exactly
    <3> QED
      BY <2>2, <3>3 DEF Agrees
  <2>9. Agrees(c[4], f, g)
    <3>1. HeldAt(n, p) = IF IsDir(p) THEN Inside[n][p] ELSE <<>>
      BY DEF HeldAt
    <3>2. Onward(f, g, IF IsDir(p) THEN Inside[n][p] ELSE <<>>)
      BY <2>1, <3>1 DEF Onward
    <3> HIDE DEF p
    <3>3. AsDir(c[4], f, g)
      BY <1>4, <1>5, <2>1, <2>6, <3>2 DEF AsDir, Loosely
    <3> QED
      BY <2>2, <3>3 DEF Agrees
  <2>10. Agrees(c[5], g, b)
    <3>1. AsUnless(c[5], g, b)
      BY <1>2, <2>1, <2>6 DEF AsUnless
    <3> QED
      BY <1>1, <2>2, <3>1 DEF Agrees
  <2>11. Leads(c, d, b)
    <3> DEFINE h == [k \in 1..6 |-> IF k <= 3 THEN d ELSE IF k = 4 THEN f ELSE IF k = 5 THEN g ELSE b]
    <3>1. h[1] = d /\ h[2] = d /\ h[3] = d /\ h[4] = f /\ h[5] = g /\ h[6] = b
      OBVIOUS
    <3> HIDE DEF h
    <3>2. \A k \in 1..5 : (k = 1 /\ k + 1 = 2) \/ (k = 2 /\ k + 1 = 3) \/ (k = 3 /\ k + 1 = 4)
                          \/ (k = 4 /\ k + 1 = 5) \/ (k = 5 /\ k + 1 = 6)
      OBVIOUS
    <3>3. \A k \in 1..5 : Agrees(c[k], h[k], h[k + 1])
      BY <2>7, <2>8, <2>9, <2>10, <3>1, <3>2
    <3>4. Len(c) + 1 = 6
      BY <2>4
    <3> QED
      BY <2>4, <3>1, <3>3, <3>4 DEF Leads
  <2> DEFINE exports == [step |-> "exports", dir |-> scope]
             imports == [step |-> "imports", dir |-> scope]
             main == [step |-> "mainField", dir |-> scope]
             browser == [step |-> "browser", dir |-> scope, self |-> TRUE]
             three == <<imports, main, browser>>
             isOwn == scope = Item.from /\ ~IsResolveSelf(w.pkg[scope], Info)
             start == IF isOwn THEN <<>> ELSE <<exports>>
             fields == start \o three
             pre == IF HasPkg(package) THEN fields ELSE <<>>
  <2>12. Goto(Resolving(i), pre \o c)
    <3>1. ~PkgFails(package)
      BY PlainPkgs DEF CallInv
    <3>2. package = Walk(Item.folder, ModuleName(Info.req.names))
      BY <1>3
    <3> QED
      BY <1>12, <3>1, <3>2 DEF ResolveNodeModules, c, s, i
  <2>13. CASE HasPkg(package)
    <3>1. scope \in DOMAIN w.pkg
      BY <2>13, PlainPkgs DEF CallInv
    <3>2. /\ exports.step = "exports" /\ exports.dir = scope
          /\ imports.step = "imports" /\ imports.dir = scope
          /\ main.step = "mainField" /\ main.dir = scope
          /\ browser.step = "browser" /\ browser.dir = scope
      OBVIOUS
    <3>3. three \in Seq({imports, main, browser}) /\ Len(three) = 3
          /\ three[1] = imports /\ three[2] = main /\ three[3] = browser
      <4> HIDE DEF imports, main, browser
      <4> QED
        OBVIOUS
    <3> HIDE DEF exports, imports, main, browser, three, isOwn
    <3>4. Agrees(exports, e, e) /\ Agrees(imports, e, e) /\ Agrees(browser, d, d)
      <4> HIDE DEF scope
      <4> QED
        BY <1>7, <1>8, <2>1, <2>2, <3>1, <3>2 DEF Agrees, AsSilent
    <3>5. Agrees(main, e, d)
      <4>1. Onward(e, d, FlattenSeq(CallLists(n, IF scope = p THEN Mains(p) ELSE <<>>)))
        BY <1>7, <2>1, <2>3, <2>13 DEF Onward
      <4> HIDE DEF scope, p, n
      <4>2. AsMainField(main, e, d)
        BY <1>5, <1>7, <2>1, <3>1, <3>2, <4>1 DEF AsMainField, Exactly
      <4> QED
        BY <1>8, <2>2, <4>2 DEF Agrees
    <3>6. IsSeq(three) /\ Leads(three, e, d)
      <4> DEFINE h == [k \in 1..4 |-> IF k <= 2 THEN e ELSE d]
      <4>1. h[1] = e /\ h[2] = e /\ h[3] = d /\ h[4] = d
        OBVIOUS
      <4> HIDE DEF h
      <4>2. \A k \in 1..3 : (k = 1 /\ k + 1 = 2) \/ (k = 2 /\ k + 1 = 3) \/ (k = 3 /\ k + 1 = 4)
        OBVIOUS
      <4>3. \A k \in 1..3 : Agrees(three[k], h[k], h[k + 1])
        BY <3>3, <3>4, <3>5, <4>1, <4>2
      <4>4. Len(three) + 1 = 4
        BY <3>3
      <4>5. Leads(three, e, d)
        BY <3>3, <4>1, <4>3, <4>4 DEF Leads
      <4>6. IsSeq(three)
        BY <3>3, SeqIsSeq
      <4> QED
        BY <4>5, <4>6
    <3>7. IsSeq(start) /\ Leads(start, e, e)
      <4>1. CASE isOwn
        BY <4>1, LeadsNone DEF IsSeq
      <4>2. CASE ~isOwn
        BY <3>4, <4>2, LeadsOne, OneSeq
      <4> QED
        BY <4>1, <4>2
    <3> HIDE DEF start
    <3>8. IsSeq(fields) /\ Leads(fields, e, d)
      BY <3>6, <3>7, Concatenated, LeadsJoin
    <3> HIDE DEF fields
    <3> DEFINE all == fields \o c
    <3>9. Goto(Resolving(i), all)
      BY <2>12, <2>13
    <3>10. IsSeq(all) /\ Leads(all, e, b)
      BY <2>4, <2>11, <3>8, Concatenated, LeadsJoin
    <3> HIDE DEF all, n
    <3> QED
      BY <1>0, <1>7, <1>8, <3>9, <3>10, PutIn DEF n
  <2>14. CASE ~HasPkg(package)
    <3>1. Goto(Resolving(i), c)
      <4>1. Goto(Resolving(i), <<>> \o c)
        BY <2>12, <2>14
      <4> DEFINE S == {c[k] : k \in DOMAIN c}
      <4>2. c \in Seq(S)
        BY <2>4 DEF IsSeq
      <4> HIDE DEF S
      <4>3. <<>> \o c = c
        BY <4>2, ConcatEmptySeq
      <4> QED
        BY <4>1, <4>3
    <3>2. d.ans = a.ans /\ d.left = a.left
      BY <2>1, <2>3, <2>14
    <3>3. Fits(Resolving(i), d)
      BY <2>1 DEF Fits, Resolving
    <3> QED
      BY <1>0, <2>2, <2>4, <2>11, <3>1, <3>2, <3>3, PutIn
  <2> QED
    BY <2>13, <2>14
<1> QED
  BY <1>11, <1>12

-----------------------------------------------------------------------------
\* Every step keeps the invariant, and at the end it is the property.

\* Every step of a search leads on to the answer.
LEMMA SearchStep ==
  ASSUME CallInv, Plain, Next, depth \in Int, control # <<>>, NEW a, NEW b, NEW z,
         Stands(a, b, z)
  PROVE  SearchInv'
<1>1. CASE Plugins
  <2>1. ~ExtensionAliasPlugin
    <3>1. Item.step # "extensionAlias"
      BY AgreesBy DEF Stands
    <3> QED
      BY <3>1 DEF ExtensionAliasPlugin, Then, Doing
  <2> QED
    BY <1>1, <2>1, QuietStep, SelfStep, MainStep DEF Plugins
<1>2. CASE Methods
  <2>1. \/ Enter \/ Leave \/ Dispatch \/ ResolveAsContext \/ ResolveAsFullySpecified
        \/ ResolveAsFile \/ LoadFile \/ ResolveAsDir \/ ResolveAsModules \/ FindUp
        \/ InModules \/ ResolveSelf \/ ResolveNodeModules \/ UnlessFile \/ UnlessFailed
        \/ Fallback \/ Symlink \/ MakeResource
    BY <1>2 DEF Methods
  <2>2. CASE Enter \/ Leave \/ UnlessFile \/ UnlessFailed \/ Fallback \/ Symlink \/ MakeResource
    BY <2>2, EnterStep, EndStep
  <2>3. CASE Dispatch \/ ResolveAsFile \/ LoadFile \/ ResolveAsDir
    BY <2>3, DispatchStep, FileStep, LoadStep, DirStep
  <2>4. CASE ResolveAsContext \/ ResolveAsFullySpecified \/ ResolveSelf
    BY <2>4, QuietStep, SelfStep
  <2>5. CASE ResolveAsModules \/ FindUp \/ InModules \/ ResolveNodeModules
    BY <2>5, ModulesStep, FindUpStep, InModulesStep, NodeStep
  <2> QED
    BY <2>1, <2>2, <2>3, <2>4, <2>5
<1>3. CASE Skip
  <2>1. Item.step \in ThenSteps /\ state.tag # "Resolving"
    BY <1>3 DEF Skip
  <2>2. a.kind \in {"exact", "request"} /\ Fits(state, a)
    BY <2>1, AgreesBy DEF Stands
  <2> QED
    BY <2>1, <2>2 DEF Fits, Resolving
<1>4. CASE NextAttempt
  BY <1>4, LoopStep
<1>5. CASE RestoreFully
  <2>1. Item.step # "restore"
    BY AgreesBy DEF Stands
  <2> QED
    BY <1>5, <2>1 DEF RestoreFully, Doing
<1> QED
  BY <1>1, <1>2, <1>3, <1>4, <1>5 DEF Next

\* Every step takes a link off the chain.
LEMMA NextHasLink == Next => control # <<>>
<1> SUFFICES ASSUME Next PROVE control # <<>>
  OBVIOUS
<1>1. CASE Plugins
  BY <1>1 DEF Plugins, ParsePlugin, AliasPlugin, PreferRelativePlugin, PackageScope,
       ImportsFieldPlugin, BrowserFieldPlugin, ExportsFieldPlugin, MainFieldPlugin,
       MainFilePlugin, ExtensionAliasPlugin, Then, Doing
<1>2. CASE Methods
  BY <1>2 DEF Methods, Enter, Leave, Dispatch, ResolveAsContext, ResolveAsFullySpecified,
       ResolveAsFile, LoadFile, ResolveAsDir, ResolveAsModules, FindUp, InModules,
       ResolveSelf, ResolveNodeModules, UnlessFile, UnlessFailed, Fallback, Symlink,
       MakeResource, Then, Doing
<1>3. CASE Skip \/ NextAttempt \/ RestoreFully
  BY <1>3 DEF Skip, NextAttempt, RestoreFully, Doing
<1> QED
  BY <1>1, <1>2, <1>3 DEF Next

\* SearchInv is inductive, with CallInv and DepthInv.
LEMMA SearchNext == CallInv /\ DepthInv /\ SearchInv /\ [Next]_vars => SearchInv'
<1> SUFFICES ASSUME CallInv, DepthInv, SearchInv, [Next]_vars
             PROVE  SearchInv'
  OBVIOUS
<1>1. w' = w
  BY WorldStays
<1>2. CASE ~Plain
  <2>1. Plain' = Plain
    BY <1>1, TriesStay
  <2> DEFINE p == Plain
  <2> HIDE DEF p
  <2>2. ~p'
    BY <1>2, <2>1 DEF p
  <2> QED
    BY <2>2 DEF SearchInv, p
<1>3. CASE Plain /\ Right
  BY <1>3, RightStays
<1>4. CASE Plain /\ Searching /\ UNCHANGED vars
  <2>1. PICK a, z : /\ NoteOK(a) /\ Leads(control, a, z) /\ Fits(state, a)
                    /\ a.left = MaxDepth - 1 - depth
                    /\ a.ans = First(Tries) /\ z.ans = Nothing
    BY <1>4 DEF Searching
  <2>2. state' = state /\ control' = control /\ depth' = depth
    BY <1>4 DEF vars
  <2>3. Leads(control, a, z)' /\ Fits(state, a)' /\ NoteOK(a)'
    BY <1>1, <2>1, <2>2, LeadsStays
  <2> DEFINE x == First(Tries)
  <2>4. x' = x
    BY <1>1, TriesStay
  <2> HIDE DEF x
  <2>5. a.ans = x' /\ a.left = MaxDepth - 1 - depth' /\ z.ans = Nothing'
    BY <2>1, <2>2, <2>4 DEF x, Nothing
  <2>6. Searching'
    BY <2>3, <2>5 DEF Searching, x
  <2> QED
    BY <2>6 DEF SearchInv
<1>5. CASE Plain /\ Searching /\ Next
  <2>1. control # <<>> /\ depth \in Int
    BY <1>5, NextHasLink DEF DepthInv
  <2>2. PICK a, b, z : Stands(a, b, z)
    BY <1>5, <2>1, SearchingStands
  <2> QED
    BY <1>5, <2>1, <2>2, SearchStep
<1> QED
  BY <1>2, <1>3, <1>4, <1>5 DEF SearchInv

\* A call begins with everything still to be tried.
LEMMA SearchInit == Init => SearchInv
<1> SUFFICES ASSUME Init, Plain PROVE Searching
  BY DEF SearchInv
<1> DEFINE i == At(w.from, w.request)
           n == MaxDepth - 1
           x == First(Tries)
           e == [info |-> i, kind |-> "exact", left |-> n, ans |-> x]
           m == [info |-> i, kind |-> "any", left |-> n, ans |-> Nothing]
           s == <<"enter", "fallback", "symlink", "resource">>
           c == Thens(s)
<1>1. w \in Worlds /\ state = Resolving(i) /\ control = c /\ depth = 0
  BY DEF Init
<1>2. IsInfo(i) /\ i.path = w.from /\ i.req = w.request
  BY DEF At, IsInfo
<1>3. x = Ends(SearchFor(n, i), Nothing)
  <2>1. Tries = SearchFor(n, i)
    <3>1. i.path = w.from /\ i.req = w.request
      BY <1>2
    <3> QED
      BY <3>1 DEF Tries, SearchFor, PlaceOf
  <2> QED
    BY <2>1, FirstEnds
<1>4. Climbs(w.from)
  <2> DEFINE S == {w.from[k] : k \in DOMAIN w.from}
             l == Len(w.from)
             d == SubSeq(w.from, 1, l)
  <2>1. w.from \in Seq(S) /\ l \in Nat
    BY <1>1, WorldAssumption, SeqDomain DEF IsSeq
  <2> HIDE DEF S
  <2>2. d \in Seq(S) /\ Len(d) = l /\ \A k \in 1..l : d[k] = w.from[k]
    <3>1. 1 \in Int /\ l \in Int /\ l <= l
      BY <2>1
    <3>2. /\ d \in Seq(S) /\ Len(d) = IF 1 <= l THEN l - 1 + 1 ELSE 0
          /\ \A k \in 1..Len(d) : d[k] = w.from[1 + k - 1]
      BY <2>1, <3>1, PartOf
    <3> HIDE DEF d, l
    <3>3. Len(d) = l /\ \A k \in 1..l : 1 + k - 1 = k
      BY <2>1, <3>2
    <3> QED
      BY <3>2, <3>3
  <2> HIDE DEF d
  <2>3. d = w.from
    BY <2>1, <2>2, SeqEqual
  <2>4. l \in 0..l
    BY <2>1
  <2> QED
    BY <2>3, <2>4 DEF Climbs, d
<1>5. n \in 0..(MaxDepth - 1) /\ n = MaxDepth - 1 - 0
  BY DepthAssumption
<1>6. /\ e.info = i /\ e.kind = "exact" /\ e.left = n /\ e.ans = x
      /\ m.kind = "any" /\ m.left = n /\ m.ans = Nothing
  OBVIOUS
<1>7. IsSeq(c) /\ Len(c) = 4 /\ \A k \in 1..4 : c[k] = [step |-> s[k]]
  <2> DEFINE S == {"enter", "fallback", "symlink", "resource"}
  <2>1. s \in Seq(S) /\ Len(s) = 4
    OBVIOUS
  <2> HIDE DEF s, S
  <2> QED
    BY <2>1, ThensIs
<1>8. s[1] = "enter" /\ s[2] = "fallback" /\ s[3] = "symlink" /\ s[4] = "resource"
  OBVIOUS
<1> HIDE DEF i, n, x, e, m, s, c
<1>9. c[1].step = "enter" /\ c[2].step = "fallback" /\ c[3].step = "symlink"
      /\ c[4].step = "resource"
  BY <1>7, <1>8
<1>10. NoteOK(e) /\ NoteOK(m)
  BY <1>2, <1>5, <1>6 DEF NoteOK, Plainly, Plain
<1>11. Agrees(c[1], e, m)
  <2>1. OnTrack(i)
    BY <1>2, <1>4 DEF OnTrack
  <2>2. AsEnter(c[1], e, m)
    BY <1>3, <1>6, <1>9, <2>1 DEF AsEnter, Onward
  <2> QED
    BY <1>10, <2>2 DEF Agrees
<1>12. Agrees(c[2], m, m) /\ Agrees(c[3], m, m) /\ Agrees(c[4], m, m)
  BY <1>6, <1>9, <1>10 DEF Agrees, AsLast
<1>13. Leads(c, e, m)
  <2> DEFINE g == [k \in 1..5 |-> IF k = 1 THEN e ELSE m]
  <2>1. g[1] = e /\ g[2] = m /\ g[3] = m /\ g[4] = m /\ g[5] = m
    OBVIOUS
  <2> HIDE DEF g
  <2>2. \A k \in 1..4 : (k = 1 /\ k + 1 = 2) \/ (k = 2 /\ k + 1 = 3) \/ (k = 3 /\ k + 1 = 4)
                        \/ (k = 4 /\ k + 1 = 5)
    OBVIOUS
  <2>3. \A k \in 1..4 : Agrees(c[k], g[k], g[k + 1])
    BY <1>11, <1>12, <2>1, <2>2
  <2>4. Len(c) + 1 = 5
    BY <1>7
  <2> QED
    BY <1>7, <2>1, <2>3, <2>4 DEF Leads
<1>14. Fits(state, e)
  BY <1>1, <1>6 DEF Fits, Resolving
<1>15. e.left = MaxDepth - 1 - depth /\ e.ans = First(Tries)
  BY <1>1, <1>5, <1>6 DEF n, x
<1> QED
  BY <1>1, <1>6, <1>10, <1>13, <1>14, <1>15 DEF Searching

\* At the end there is nothing left to try, or the answer has been found.
LEMMA SearchWins == SearchInv => FirstFileWins
<1> SUFFICES ASSUME SearchInv, Done, Plain
             PROVE  LET first == First(Tries)
                    IN CASE first = Nothing -> Fails
                         [] first = TooDeep -> state = Error("Overflow")
                         [] OTHER -> state.tag = "Success" /\ Info.path = Real(first.path)
  BY DEF FirstFileWins
<1> DEFINE first == First(Tries)
<1> HIDE DEF first
<1>1. TooDeep # Nothing /\ \A p : File(p) # Nothing /\ File(p) # TooDeep /\ File(p).path = p
  BY DEF TooDeep, Nothing, File
<1>2. CASE Right
  <2>1. ASSUME NEW q, state.tag = "Success", first = File(q),
               Info.path = IF Len(control) > 1 THEN q ELSE Real(q)
        PROVE  /\ first # Nothing /\ first # TooDeep
               /\ state.tag = "Success" /\ Info.path = Real(first.path)
    <3>1. ~(Len(control) > 1)
      BY DEF Done
    <3> QED
      BY <1>1, <2>1, <3>1
  <2>2. CASE state = Error("Overflow") /\ first = TooDeep
    BY <1>1, <2>2 DEF first
  <2>3. CASE state.tag = "Success" /\ \E q : /\ first = File(q)
                                            /\ Info.path = IF Len(control) > 1 THEN q ELSE Real(q)
    BY <2>1, <2>3 DEF first
  <2> QED
    BY <1>2, <2>2, <2>3 DEF Right, first
<1>3. CASE Searching
  <2>1. PICK a, z : Leads(control, a, z) /\ Fits(state, a) /\ a.ans = first /\ z.ans = Nothing
    BY <1>3 DEF Searching, first
  <2>2. a = z
    <3>1. Len(control) = 0
      BY DEF Done
    <3>2. 0 + 1 = 1
      OBVIOUS
    <3> QED
      BY <2>1, <3>1, <3>2 DEF Leads
  <2>3. first = Nothing /\ Fails
    BY <2>1, <2>2 DEF Fits, Fails, Done
  <2> QED
    BY <1>1, <2>3 DEF first
<1> QED
  BY <1>2, <1>3 DEF SearchInv

\* Of the files that may be tried for a request, resolve returns the first
\* that exists, whatever folders, packages and directories there are and
\* however deep they are nested.
THEOREM FirstFileWinsHolds == Spec => []FirstFileWins
<1>1. Init => CallInv /\ DepthInv /\ SearchInv
  BY CallInit, DepthInit, SearchInit
<1>2. CallInv /\ DepthInv /\ SearchInv /\ [Next]_vars => (CallInv /\ DepthInv /\ SearchInv)'
  BY CallNext, DepthNext, SearchNext
<1>3. SearchInv => FirstFileWins
  BY SearchWins
<1> QED
  BY <1>1, <1>2, <1>3, PTL DEF Spec
=============================================================================
