------------------------- MODULE FieldMappingProofs -------------------------
(***************************************************************************)
(* Proofs about Parse and FieldMapping, for every text and every field.    *)
(***************************************************************************)
EXTENDS FieldReference, Basics, SequenceTheorems, FiniteSetTheorems, TLAPS

(* Texts *)

LEMMA TextType ==
  ASSUME NEW x \in Texts
  PROVE  /\ Len(x) \in Nat /\ DOMAIN x = 1..Len(x)
         /\ \A i \in 1..Len(x) : x[i] \in Bytes
         /\ x = <<>> <=> Len(x) = 0
BY ElementsOf DEF Texts

LEMMA PartType ==
  ASSUME NEW x \in Texts, NEW m \in Nat \ {0}, NEW n \in Int, n <= Len(x)
  PROVE  /\ SubSeq(x, m, n) \in Texts
         /\ Len(SubSeq(x, m, n)) = IF m <= n THEN n - m + 1 ELSE 0
         /\ \A i \in 1..Len(SubSeq(x, m, n)) : SubSeq(x, m, n)[i] = x[m + i - 1]
BY PartOf DEF Texts

\* The slash at the end of a text can be put back.
LEMMA SlashBack ==
  ASSUME NEW x \in Texts, EndsWithSlash(x)
  PROVE  Front(x) \in Texts /\ Append(Front(x), "/") = x
<1>1. Len(x) \in Nat \ {0} /\ x[Len(x)] = "/"
  BY TextType DEF EndsWithSlash, Last
<1>2. Front(x) \in Texts /\ Len(Front(x)) = Len(x) - 1
      /\ \A i \in 1..(Len(x) - 1) : Front(x)[i] = x[i]
  <2>1. Len(x) - 1 \in Int /\ Len(x) - 1 <= Len(x) /\ 1 \in Nat \ {0}
    BY <1>1
  <2>2. /\ Front(x) \in Texts
        /\ Len(Front(x)) = IF 1 <= Len(x) - 1 THEN Len(x) - 1 - 1 + 1 ELSE 0
        /\ \A i \in 1..Len(Front(x)) : Front(x)[i] = x[1 + i - 1]
    BY <2>1, PartType DEF Front
  <2>3. Len(Front(x)) = Len(x) - 1
    <3>1. \A n \in Nat \ {0} : (IF 1 <= n - 1 THEN n - 1 - 1 + 1 ELSE 0) = n - 1
      OBVIOUS
    <3> QED
      BY <1>1, <2>2, <3>1
  <2>4. \A i \in 1..(Len(x) - 1) : 1 + i - 1 = i
    OBVIOUS
  <2> QED
    BY <2>2, <2>3, <2>4
<1>3. /\ Append(Front(x), "/") \in Seq(Bytes)
      /\ Len(Append(Front(x), "/")) = Len(x)
      /\ \A i \in 1..(Len(x) - 1) : Append(Front(x), "/")[i] = x[i]
      /\ Append(Front(x), "/")[Len(x)] = "/"
  <2>1. "/" \in Bytes
    BY DEF Bytes, Marks
  <2>2. Front(x) \in Seq(Bytes)
    BY <1>2 DEF Texts
  <2>3. /\ Append(Front(x), "/") \in Seq(Bytes)
        /\ Len(Append(Front(x), "/")) = Len(Front(x)) + 1
        /\ \A i \in 1..Len(Front(x)) : Append(Front(x), "/")[i] = Front(x)[i]
        /\ Append(Front(x), "/")[Len(Front(x)) + 1] = "/"
    BY <2>1, <2>2, AppendProperties
  <2> QED
    BY <1>1, <1>2, <2>3
<1>4. \A i \in 1..Len(x) : Append(Front(x), "/")[i] = x[i]
  BY <1>1, <1>3
<1>5. Append(Front(x), "/") = x
  BY <1>3, <1>4, SeqEqual DEF Texts
<1> QED
  BY <1>2, <1>5

-----------------------------------------------------------------------------
(* parse_identifier *)

\* The loop is what its turns make it.
LEMMA ScannedTurns ==
  ASSUME NEW x \in Texts
  PROVE  /\ Scanned(x) \in [0..Len(x) -> ScanStates]
         /\ Scanned(x)[0] = ScanStart
         /\ \A i \in 1..Len(x) : Scanned(x)[i] = ScanByte(x, i)[Scanned(x)[i - 1]]
<1> DEFINE turn == [i \in 1..Len(x) |-> ScanByte(x, i)]
           Is(f) == f = [i \in 0..Len(x) |->
                           IF i = 0 THEN ScanStart ELSE ScanByte(x, i)[f[i - 1]]]
<1>1. Len(x) \in Nat /\ ScanStart \in ScanStates
  BY TextType DEF ScanStart, ScanStates
<1>2. ASSUME NEW i \in 1..Len(x), NEW s \in ScanStates
      PROVE  ScanByte(x, i)[s] \in ScanStates
  <2>1. i \in Nat
    BY <1>1
  <2> QED
    BY <2>1 DEF ScanByte, ScanStates
<1>3. turn \in [1..Len(x) -> [ScanStates -> ScanStates]]
  BY <1>2 DEF ScanByte
<1>4. PICK f \in Run(ScanStates, ScanStart, turn, Len(x)) : TRUE
  <2> HIDE DEF turn
  <2> QED
    BY <1>1, <1>3, Recursion
<1>5. /\ f \in [0..Len(x) -> ScanStates] /\ f[0] = ScanStart
      /\ \A i \in 1..Len(x) : f[i] = ScanByte(x, i)[f[i - 1]]
  BY <1>4 DEF Run
<1>6. Is(f)
  BY <1>1, <1>5
<1>7. Is(Scanned(x))
  BY <1>6 DEF Scanned
<1>8. /\ DOMAIN Scanned(x) = 0..Len(x) /\ Scanned(x)[0] = ScanStart
      /\ \A i \in 1..Len(x) : Scanned(x)[i] = ScanByte(x, i)[Scanned(x)[i - 1]]
  BY <1>1, <1>7
<1>9. \A i \in 0..Len(x) : i \in {j \in 0..Len(x) : Scanned(x)[j] \in ScanStates}
  <2> DEFINE T == {j \in 0..Len(x) : Scanned(x)[j] \in ScanStates}
  <2>1. 0 \in T
    BY <1>1, <1>8
  <2>2. \A i \in 1..Len(x) : i - 1 \in T => i \in T
    BY <1>1, <1>2, <1>8
  <2> HIDE DEF T
  <2>3. \A i \in 0..Len(x) : i \in T
    BY <1>1, <2>1, <2>2, UpTo
  <2> QED
    BY <2>3 DEF T
<1> QED
  BY <1>7, <1>8, <1>9

\* What the loop knows after i bytes: the first # that is not the first byte
\* begins the fragment, the last question mark before it the query.
ScanOK(x, s, i) ==
  /\ s.query \in 0..i /\ s.fragment \in 0..i
  /\ s.stats = "Start" <=> i = 0
  /\ s.fragment # 0 <=> s.stats = "Fragment"
  /\ s.fragment # 0 => s.fragment > 1 /\ x[s.fragment] = "#"
  /\ s.query # 0 => x[s.query] = "?" /\ (s.fragment # 0 => s.query < s.fragment)
  /\ \A m \in 2..i : x[m] = "#" => s.fragment # 0 /\ s.fragment <= m
  /\ \A m \in 1..i : x[m] = "?" => m <= s.query \/ (s.fragment # 0 /\ s.fragment < m)

LEMMA ScanTurn ==
  ASSUME NEW x \in Texts, NEW i \in 1..Len(x), NEW s \in ScanStates, ScanOK(x, s, i - 1)
  PROVE  ScanOK(x, ScanByte(x, i)[s], i)
<1> DEFINE t == ScanByte(x, i)[s]
<1>1. i \in Nat \ {0} /\ s.query \in Nat /\ s.fragment \in Nat
      /\ s = [stats |-> s.stats, query |-> s.query, fragment |-> s.fragment]
      /\ s.stats \in {"Start", "Request", "Query", "Fragment"}
  BY TextType DEF ScanStates
<1>2. CASE x[i] = "#" /\ s.stats \in {"Request", "Query"}
  <2>1. t = [stats |-> "Fragment", query |-> s.query, fragment |-> i]
    BY <1>1, <1>2 DEF ScanByte
  <2> HIDE DEF t
  <2>2. ScanOK(x, t, i)
    BY <1>1, <1>2, <2>1 DEF ScanOK
  <2> QED
    BY <2>2 DEF t
<1>3. CASE x[i] = "?" /\ s.stats # "Fragment"
  <2>1. t = [stats |-> "Query", query |-> i, fragment |-> s.fragment]
    BY <1>1, <1>3 DEF ScanByte
  <2> HIDE DEF t
  <2>2. ScanOK(x, t, i)
    BY <1>1, <1>3, <2>1 DEF ScanOK
  <2> QED
    BY <2>2 DEF t
<1>4. CASE x[i] # "?" /\ s.stats = "Start"
  <2>1. t = [stats |-> "Request", query |-> s.query, fragment |-> s.fragment]
    BY <1>1, <1>4 DEF ScanByte
  <2> HIDE DEF t
  <2>2. ScanOK(x, t, i)
    BY <1>1, <1>4, <2>1 DEF ScanOK
  <2> QED
    BY <2>2 DEF t
<1>5. CASE /\ ~(x[i] = "#" /\ s.stats \in {"Request", "Query"})
           /\ ~(x[i] = "?" /\ s.stats # "Fragment")
           /\ ~(x[i] # "?" /\ s.stats = "Start")
  <2>1. t = s
    BY <1>1, <1>5 DEF ScanByte
  <2> HIDE DEF t
  <2>2. ScanOK(x, t, i)
    BY <1>1, <1>5, <2>1 DEF ScanOK
  <2> QED
    BY <2>2 DEF t
<1> QED
  BY <1>1, <1>2, <1>3, <1>4, <1>5

LEMMA ScannedOK ==
  ASSUME NEW x \in Texts
  PROVE  /\ Scanned(x)[Len(x)] \in ScanStates
         /\ ScanOK(x, Scanned(x)[Len(x)], Len(x))
<1>1. Len(x) \in Nat
  BY TextType
<1> DEFINE T == {i \in 0..Len(x) : ScanOK(x, Scanned(x)[i], i)}
<1>2. 0 \in T
  BY <1>1, ScannedTurns DEF ScanOK, ScanStart
<1>3. ASSUME NEW i \in 1..Len(x), i - 1 \in T
      PROVE  i \in T
  <2>1. i - 1 \in 0..Len(x) /\ i \in 1..Len(x)
    BY <1>1
  <2>2. Scanned(x)[i - 1] \in ScanStates /\ Scanned(x)[i] = ScanByte(x, i)[Scanned(x)[i - 1]]
    BY <2>1, ScannedTurns
  <2> QED
    BY <1>1, <1>3, <2>2, ScanTurn
<1>4. \A i \in 0..Len(x) : i \in T
  <2> HIDE DEF T
  <2> QED
    BY <1>1, <1>2, <1>3, UpTo
<1> QED
  BY <1>1, <1>4, ScannedTurns

\* parse_identifier cuts a text into three parts.
LEMMA IdentifierSplit ==
  ASSUME NEW x \in Texts
  PROVE  LET p == ParseIdentifier[x]
         IN /\ p.target \in Texts /\ p.query \in Texts /\ p.fragment \in Texts
            /\ x = p.target \o p.query \o p.fragment
            /\ p.fragment # <<>> => Head(p.fragment) = "#"
            /\ p.query # <<>> => Head(p.query) = "?" /\ CountOf(p.query, "?") = 1
            /\ ~Contains(p.query, "#")
            /\ p.target # <<>> => ~Contains(Tail(p.target), "#")
            /\ p.query = <<>> => ~Contains(p.target, "?")
<1> DEFINE s == Scanned(x)[Len(x)]
           q == s.query
           end == IF s.fragment = 0 THEN Len(x) ELSE s.fragment - 1
           stop == IF q = 0 THEN end ELSE q - 1
           target == SubSeq(x, 1, stop)
           query == IF q = 0 THEN <<>> ELSE SubSeq(x, q, end)
           fragment == SubSeq(x, end + 1, Len(x))
<1>1. ParseIdentifier[x] = [target |-> target, query |-> query, fragment |-> fragment]
  BY DEF ParseIdentifier
<1>2. Len(x) \in Nat /\ ScanOK(x, s, Len(x))
  BY TextType, ScannedOK
<1> HIDE DEF s
<1>3. /\ q \in Nat /\ end \in 0..Len(x) /\ stop \in 0..end
      /\ q # 0 => q \in 1..end /\ x[q] = "?" /\ stop = q - 1
      /\ q = 0 => stop = end
      /\ end # Len(x) => end > 0 /\ x[end + 1] = "#"
      /\ \A m \in 2..end : x[m] # "#"
      /\ \A m \in (q + 1)..end : x[m] # "?"
  <2>1. q \in Nat /\ end \in 0..Len(x) /\ (q # 0 => q \in 1..end /\ x[q] = "?")
    BY <1>2 DEF ScanOK
  <2>2. /\ end # Len(x) => end > 0 /\ x[end + 1] = "#"
        /\ \A m \in 2..end : x[m] # "#"
    BY <1>2 DEF ScanOK
  <2>3. \A m \in (q + 1)..end : x[m] # "?"
    BY <1>2 DEF ScanOK
  <2>4. (q # 0 => stop = q - 1) /\ (q = 0 => stop = end)
    OBVIOUS
  <2> HIDE DEF q, end, stop
  <2>5. stop \in 0..end
    BY <2>1, <2>4
  <2> QED
    BY <2>1, <2>2, <2>3, <2>4, <2>5
<1> HIDE DEF q, end, stop
<1>4. /\ target \in Texts /\ Len(target) = stop
      /\ \A i \in 1..stop : target[i] = x[i]
  BY <1>2, <1>3, PartType
<1>5. /\ fragment \in Texts /\ Len(fragment) = Len(x) - end
      /\ \A i \in 1..Len(fragment) : fragment[i] = x[end + i]
  <2>1. end + 1 \in Nat \ {0} /\ Len(x) \in Int
    BY <1>2, <1>3
  <2>2. /\ fragment \in Texts
        /\ Len(fragment) = IF end + 1 <= Len(x) THEN Len(x) - (end + 1) + 1 ELSE 0
        /\ \A i \in 1..Len(fragment) : fragment[i] = x[end + 1 + i - 1]
    BY <1>2, <2>1, PartType
  <2> QED
    BY <1>2, <1>3, <2>2
<1>6. /\ query \in Texts /\ Len(query) = end - stop
      /\ \A i \in 1..Len(query) : query[i] = x[stop + i]
  <2>1. CASE q = 0
    BY <1>3, <2>1, EmptySeq DEF Texts
  <2>2. CASE q # 0
    <3>1. q \in Nat \ {0} /\ end \in Int /\ end <= Len(x)
      BY <1>2, <1>3, <2>2
    <3>2. /\ query \in Texts
          /\ Len(query) = IF q <= end THEN end - q + 1 ELSE 0
          /\ \A i \in 1..Len(query) : query[i] = x[q + i - 1]
      BY <2>2, <3>1, PartType
    <3> QED
      BY <1>2, <1>3, <2>2, <3>1, <3>2
  <2> QED
    BY <2>1, <2>2
<1> HIDE DEF target, query, fragment
<1>7. x = target \o query \o fragment
  <2> DEFINE path == target \o query
             whole == path \o fragment
  <2>1. /\ path \in Texts /\ Len(path) = Len(target) + Len(query)
        /\ \A i \in 1..(Len(target) + Len(query)) : path[i] =
              IF i <= Len(target) THEN target[i] ELSE query[i - Len(target)]
    BY <1>4, <1>6, ConcatProperties DEF Texts
  <2> HIDE DEF path
  <2>2. Len(path) = end /\ \A i \in 1..end : path[i] = x[i]
    <3>1. Len(path) = end
      BY <1>2, <1>3, <1>4, <1>6, <2>1
    <3>2. ASSUME NEW i \in 1..end, i <= stop
          PROVE  path[i] = x[i]
      BY <1>2, <1>3, <1>4, <1>6, <2>1, <3>2
    <3>3. ASSUME NEW i \in 1..end, ~(i <= stop)
          PROVE  path[i] = x[i]
      <4>1. i - stop \in 1..Len(query) /\ stop + (i - stop) = i
        BY <1>2, <1>3, <1>6, <3>3
      <4>2. query[i - stop] = x[stop + (i - stop)]
        BY <1>6, <4>1
      <4> QED
        BY <1>2, <1>3, <1>4, <1>6, <2>1, <3>3, <4>1, <4>2
    <3> QED
      BY <3>1, <3>2, <3>3
  <2>3. /\ whole \in Texts /\ Len(whole) = Len(path) + Len(fragment)
        /\ \A i \in 1..(Len(path) + Len(fragment)) : whole[i] =
              IF i <= Len(path) THEN path[i] ELSE fragment[i - Len(path)]
    <3>1. path \in Seq(Bytes) /\ fragment \in Seq(Bytes)
      BY <1>5, <2>1 DEF Texts
    <3> QED
      BY <3>1, ConcatProperties DEF Texts
  <2> HIDE DEF whole
  <2>4. Len(whole) = Len(x) /\ \A i \in 1..Len(x) : whole[i] = x[i]
    <3>1. Len(whole) = Len(x)
      BY <1>2, <1>3, <1>5, <2>2, <2>3
    <3>2. ASSUME NEW i \in 1..Len(x), i <= end
          PROVE  whole[i] = x[i]
      BY <1>2, <1>3, <1>5, <2>2, <2>3, <3>2
    <3>3. ASSUME NEW i \in 1..Len(x), ~(i <= end)
          PROVE  whole[i] = x[i]
      <4>1. i - end \in 1..Len(fragment) /\ end + (i - end) = i
        BY <1>2, <1>3, <1>5, <3>3
      <4>2. fragment[i - end] = x[end + (i - end)]
        BY <1>5, <4>1
      <4> QED
        BY <1>2, <1>3, <1>5, <2>2, <2>3, <3>3, <4>1, <4>2
    <3> QED
      BY <3>1, <3>2, <3>3
  <2>5. whole = x
    BY <1>2, <2>3, <2>4, SeqEqual DEF Texts
  <2> QED
    BY <2>5 DEF whole, path
<1>8. fragment # <<>> => Head(fragment) = "#"
  BY <1>2, <1>3, <1>5, TextType
<1>9. query # <<>> => Head(query) = "?" /\ CountOf(query, "?") = 1
  <2> SUFFICES ASSUME query # <<>>
               PROVE  Head(query) = "?" /\ CountOf(query, "?") = 1
    OBVIOUS
  <2>1. Len(query) \in Nat \ {0}
    BY <1>6, TextType
  <2>2. q # 0 /\ query[1] = "?"
    BY <1>3, <1>6, <2>1
  <2>3. \A i \in 1..Len(query) : query[i] = "?" => i = 1
    BY <1>2, <1>3, <1>6, <2>1, <2>2
  <2>4. {i \in 1..Len(query) : query[i] = "?"} = {1}
    BY <2>1, <2>2, <2>3
  <2>5. CountOf(query, "?") = 1
    BY <2>4, FS_Singleton DEF CountOf
  <2> QED
    BY <2>1, <2>2, <2>5
<1>10. ~Contains(query, "#")
  <2> SUFFICES ASSUME NEW i \in 1..Len(query), query[i] = "#"
               PROVE  FALSE
    BY DEF Contains
  <2>1. stop + i \in 1..end /\ x[stop + i] = "#"
    BY <1>2, <1>3, <1>6
  <2>2. stop + i = 1 /\ q = 1
    BY <1>2, <1>3, <1>6, <2>1
  <2> QED
    BY <1>3, <2>1, <2>2
<1>11. target # <<>> => ~Contains(Tail(target), "#")
  <2> SUFFICES ASSUME target # <<>>
               PROVE  ~Contains(Tail(target), "#")
    OBVIOUS
  <2>1. Len(Tail(target)) = stop - 1 /\ \A i \in 1..Len(Tail(target)) : Tail(target)[i] = target[i + 1]
    BY <1>3, <1>4, HeadTailProperties DEF Texts
  <2> QED
    BY <1>2, <1>3, <1>4, <2>1 DEF Contains
<1>12. query = <<>> => ~Contains(target, "?")
  <2> SUFFICES ASSUME query = <<>>
               PROVE  ~Contains(target, "?")
    OBVIOUS
  <2>1. q = 0
    BY <1>2, <1>3, <1>6, TextType
  <2> QED
    BY <1>2, <1>3, <1>4, <2>1 DEF Contains
<1> QED
  BY <1>1, <1>4, <1>5, <1>6, <1>7, <1>8, <1>9, <1>10, <1>11, <1>12

\* from_request: the parts and a slash at the end make up the text again.
LEMMA RequestSplit ==
  ASSUME NEW x \in Texts
  PROVE  LET r == FromRequest[x]
         IN /\ r.target \in Texts /\ r.query \in Texts /\ r.fragment \in Texts
            /\ r.directory \in BOOLEAN
            /\ SplitRight(x, r)
<1> DEFINE p == ParseIdentifier[x]
           r == FromRequest[x]
           path == IF r.directory THEN Append(r.target, "/") ELSE r.target
<1>1. /\ r.target = IF EndsWithSlash(p.target) THEN Front(p.target) ELSE p.target
      /\ r.query = p.query /\ r.fragment = p.fragment
      /\ r.directory = EndsWithSlash(p.target)
  BY DEF FromRequest
<1>2. /\ p.target \in Texts /\ p.query \in Texts /\ p.fragment \in Texts
      /\ x = p.target \o p.query \o p.fragment
      /\ p.fragment # <<>> => Head(p.fragment) = "#"
      /\ p.query # <<>> => Head(p.query) = "?" /\ CountOf(p.query, "?") = 1
      /\ ~Contains(p.query, "#")
      /\ p.target # <<>> => ~Contains(Tail(p.target), "#")
      /\ p.query = <<>> => ~Contains(p.target, "?")
  BY IdentifierSplit
<1> HIDE DEF p, r
<1>3. r.target \in Texts /\ path = p.target
  BY <1>1, <1>2, SlashBack
<1>4. SplitRight(x, r)
  BY <1>1, <1>2, <1>3 DEF SplitRight
<1>5. r.directory \in BOOLEAN
  BY <1>1 DEF EndsWithSlash
<1> QED
  BY <1>1, <1>2, <1>3, <1>4, <1>5 DEF r

-----------------------------------------------------------------------------
(* Operators of the library *)

LEMMA MinIs ==
  ASSUME NEW T \in SUBSET Nat, T # {}
  PROVE  Min(T) \in T /\ \A k \in T : Min(T) <= k
BY LeastNumber DEF Min

LEMMA JoinType ==
  ASSUME NEW x \in Texts, NEW y \in Texts
  PROVE  x \o y \in Texts
BY ConcatProperties DEF Texts

\* Texts one after the other are a text.
LEMMA FlattenType ==
  ASSUME NEW xs \in Seq(Texts)
  PROVE  FlattenSeq(xs) \in Texts
BY FlattenInSeq DEF Texts

LEMMA ReplaceType ==
  ASSUME NEW x \in Texts, NEW c, NEW y \in Texts
  PROVE  Replace(x, c, y) \in Texts
<1>1. Len(x) \in Nat /\ \A i \in 1..Len(x) : <<x[i]>> \in Texts
  BY TextType DEF Texts
<1>2. [i \in 1..Len(x) |-> IF x[i] = c THEN y ELSE <<x[i]>>] \in Seq(Texts)
  BY <1>1
<1> QED
  BY <1>2, FlattenType DEF Replace

-----------------------------------------------------------------------------
(* split_slash_from_request *)

Slashes(x) == {i \in 1..Len(x) : x[i] = "/"}
Upto(T, i) == {j \in T : j <= i}

LEMMA PartFinite ==
  ASSUME NEW n \in Int, NEW T \in SUBSET (1..n)
  PROVE  /\ IsFiniteSet(T) /\ Cardinality(T) \in Nat
         /\ \A S \in SUBSET T : IsFiniteSet(S) /\ Cardinality(S) <= Cardinality(T)
<1>1. IsFiniteSet(1..n)
  BY FS_Interval
<1>2. IsFiniteSet(T)
  BY <1>1, FS_Subset
<1>3. \A S \in SUBSET T : IsFiniteSet(S) /\ Cardinality(S) <= Cardinality(T)
  BY <1>2, FS_Subset
<1> QED
  BY <1>2, <1>3, FS_CardinalityType

\* The first and the second of a set of numbers.
LEMMA Nth ==
  ASSUME NEW n \in Nat, NEW T \in SUBSET (1..n), NEW c \in {1, 2}, Cardinality(T) >= c
  PROVE  \E i \in T : Cardinality(Upto(T, i)) = c
<1>1. IsFiniteSet(T) /\ T \in SUBSET Nat
  <2>1. n \in Int /\ T \in SUBSET Nat
    OBVIOUS
  <2> QED
    BY <2>1, PartFinite
<1>2. T # {}
  <2>1. Cardinality({}) = 0
    BY FS_EmptySet
  <2> QED
    BY <2>1
<1>3. PICK i \in T : \A k \in T : i <= k
  BY <1>1, <1>2, LeastNumber
<1>4. Upto(T, i) = {i} /\ Cardinality({i}) = 1
  <2>1. \A j \in T : j <= i <=> j = i
    BY <1>1, <1>3
  <2>2. Upto(T, i) = {i}
    BY <2>1 DEF Upto
  <2> QED
    BY <2>2, FS_Singleton
<1>5. CASE c = 1
  BY <1>3, <1>4, <1>5
<1>6. CASE c = 2
  <2>1. T \ {i} # {} /\ T \ {i} \in SUBSET Nat
    <3>1. T # {i}
      BY <1>4, <1>6
    <3> QED
      BY <1>1, <1>3, <3>1
  <2>2. PICK j \in T \ {i} : \A k \in T \ {i} : j <= k
    BY <2>1, LeastNumber
  <2>3. Upto(T, j) = {i, j} /\ i # j
    <3>1. \A k \in T : k <= j <=> k \in {i, j}
      BY <1>1, <1>3, <2>2
    <3> QED
      BY <1>3, <2>2, <3>1 DEF Upto
  <2>4. Cardinality({i} \cup {j}) = 2
    <3>1. IsFiniteSet({i}) /\ j \notin {i}
      BY <2>3, FS_Singleton
    <3> QED
      BY <1>4, <3>1, FS_AddElement
  <2>5. {i} \cup {j} = {i, j}
    OBVIOUS
  <2> QED
    BY <1>6, <2>2, <2>3, <2>4, <2>5
<1> QED
  BY <1>5, <1>6

LEMMA SlashType ==
  ASSUME NEW x \in Texts, NEW c \in {1, 2}
  PROVE  /\ BeforeSlash(x, c) # NoSplit => BeforeSlash(x, c) \in Nat
         /\ CountOf(x, "/") \in Nat
<1> DEFINE ends == {i \in Slashes(x) : Cardinality(Upto(Slashes(x), i)) = c}
<1>1. BeforeSlash(x, c) =
        IF ends = {} THEN NoSplit
        ELSE Cardinality({j \in 1..(Min(ends) - 1) : x[j] # "~"})
  BY DEF BeforeSlash, Slashes, Upto
<1>2. Len(x) \in Nat /\ Len(x) \in Int /\ Slashes(x) \in SUBSET (1..Len(x))
  BY TextType DEF Slashes
<1>3. ASSUME ends # {}
      PROVE  Cardinality({j \in 1..(Min(ends) - 1) : x[j] # "~"}) \in Nat
  <2>1. ends \in SUBSET Nat
    BY <1>2 DEF Slashes
  <2>2. Min(ends) \in Nat
    <3> HIDE DEF ends
    <3> QED
      BY <1>3, <2>1, MinIs
  <2> HIDE DEF ends
  <2>3. Min(ends) - 1 \in Int
    BY <2>2
  <2> QED
    BY <2>3, PartFinite
<1>4. CountOf(x, "/") \in Nat
  <2>1. Cardinality(Slashes(x)) \in Nat
    BY <1>2, PartFinite
  <2> QED
    BY <2>1 DEF CountOf, Slashes
<1> QED
  BY <1>1, <1>3, <1>4

\* Without a character of two bytes the split is right before the c-th slash.
LEMMA SlashSplit ==
  ASSUME NEW x \in Texts, NEW c \in {1, 2}, ~Contains(x, "~")
  PROVE  IF CountOf(x, "/") < c THEN BeforeSlash(x, c) = NoSplit
         ELSE \E i \in 1..Len(x) :
                /\ BeforeSlash(x, c) = i - 1
                /\ x[i] = "/" /\ CountOf(SubSeq(x, 1, i - 1), "/") = c - 1
<1> DEFINE T == Slashes(x)
           ends == {i \in T : Cardinality(Upto(T, i)) = c}
<1>1. BeforeSlash(x, c) =
        IF ends = {} THEN NoSplit
        ELSE Cardinality({j \in 1..(Min(ends) - 1) : x[j] # "~"})
  BY DEF BeforeSlash, Slashes, Upto
<1>2. /\ Len(x) \in Nat /\ Len(x) \in Int
      /\ IsFiniteSet(T) /\ CountOf(x, "/") = Cardinality(T)
      /\ T \in SUBSET (1..Len(x)) /\ T \in SUBSET Nat /\ Cardinality(T) \in Nat
  <2>1. Len(x) \in Nat /\ Len(x) \in Int /\ T \in SUBSET (1..Len(x)) /\ T \in SUBSET Nat
    BY TextType DEF Slashes
  <2>2. CountOf(x, "/") = Cardinality(T)
    BY DEF Slashes, CountOf
  <2> HIDE DEF T
  <2>3. IsFiniteSet(T) /\ Cardinality(T) \in Nat
    BY <2>1, PartFinite
  <2> QED
    BY <2>1, <2>2, <2>3
<1>3. CASE CountOf(x, "/") < c
  <2>1. ASSUME NEW i \in T
        PROVE  Cardinality(Upto(T, i)) # c
    <3>1. Upto(T, i) \in SUBSET T
      BY DEF Upto
    <3>2. /\ Cardinality(Upto(T, i)) \in Nat
          /\ Cardinality(Upto(T, i)) <= Cardinality(T)
      <4>1. Upto(T, i) \in SUBSET (1..Len(x))
        BY <1>2, <3>1
      <4>2. Cardinality(Upto(T, i)) \in Nat
        BY <1>2, <4>1, PartFinite
      <4>3. Cardinality(Upto(T, i)) <= Cardinality(T)
        <5> HIDE DEF T
        <5> QED
          BY <1>2, <3>1, FS_Subset
      <4> QED
        BY <4>2, <4>3
    <3> QED
      BY <1>2, <1>3, <3>2
  <2>2. ends = {}
    BY <2>1
  <2> QED
    BY <1>1, <1>3, <2>2
<1>4. CASE ~(CountOf(x, "/") < c)
  <2>1. ends # {}
    <3>1. \E i \in T : Cardinality(Upto(T, i)) = c
      <4>1. Cardinality(T) >= c
        BY <1>2, <1>4
      <4> HIDE DEF T
      <4> QED
        BY <1>2, <4>1, Nth
    <3> QED
      BY <3>1
  <2> DEFINE i == Min(ends)
  <2>2. i \in T /\ Cardinality(Upto(T, i)) = c
    <3>1. ends \in SUBSET Nat
      BY <1>2
    <3>2. i \in ends
      <4> HIDE DEF ends
      <4> QED
        BY <2>1, <3>1, MinIs
    <3> QED
      BY <3>2
  <2>3. BeforeSlash(x, c) = Cardinality({j \in 1..(i - 1) : x[j] # "~"})
    BY <1>1, <2>1
  <2> HIDE DEF i
  <2>4. i \in 1..Len(x) /\ x[i] = "/"
    BY <2>2 DEF Slashes
  <2>5. {j \in 1..(i - 1) : x[j] # "~"} = 1..(i - 1)
    BY <1>2, <2>4 DEF Contains
  <2>6. BeforeSlash(x, c) = i - 1
    <3>1. 1 \in Int /\ i - 1 \in Int /\ i \in Nat \ {0}
      BY <1>2, <2>4
    <3>2. Cardinality(1..(i - 1)) = IF 1 > i - 1 THEN 0 ELSE i - 1 - 1 + 1
      BY <3>1, FS_Interval
    <3>3. Cardinality(1..(i - 1)) = i - 1
      BY <3>1, <3>2
    <3> QED
      BY <2>3, <2>5, <3>3
  <2> DEFINE before == SubSeq(x, 1, i - 1)
  <2>7. Len(before) = i - 1 /\ \A j \in 1..(i - 1) : before[j] = x[j]
    <3>1. 1 \in Nat \ {0} /\ i - 1 \in Int /\ i - 1 <= Len(x)
      BY <1>2, <2>4
    <3>2. /\ Len(before) = IF 1 <= i - 1 THEN i - 1 - 1 + 1 ELSE 0
          /\ \A j \in 1..Len(before) : before[j] = x[1 + j - 1]
      BY <3>1, PartType
    <3> QED
      BY <1>2, <2>4, <3>2
  <2>8. {j \in 1..Len(before) : before[j] = "/"} = Upto(T, i) \ {i}
    BY <1>2, <2>4, <2>7 DEF Upto, Slashes
  <2>9. Cardinality(Upto(T, i) \ {i}) = c - 1
    <3>1. Upto(T, i) \in SUBSET (1..Len(x)) /\ i \in Upto(T, i)
      BY <1>2, <2>2, <2>4 DEF Upto
    <3>2. IsFiniteSet(Upto(T, i))
      <4> HIDE DEF T
      <4> QED
        BY <1>2, <3>1, PartFinite
    <3> QED
      BY <2>2, <3>1, <3>2, FS_RemoveElement
  <2> QED
    BY <1>4, <2>4, <2>6, <2>8, <2>9 DEF CountOf
<1> QED
  BY <1>3, <1>4

-----------------------------------------------------------------------------
(* Keys *)

\* The star of a key is its first one.
LEMMA StarIs ==
  ASSUME NEW k \in Texts
  PROVE  /\ ~Contains(k, "*") => StarOf(k) = 0
         /\ Contains(k, "*") =>
              /\ StarOf(k) \in 1..Len(k) /\ k[StarOf(k)] = "*"
              /\ \A i \in 1..Len(k) : k[i] = "*" => StarOf(k) <= i
<1>1. CASE ~Contains(k, "*")
  BY <1>1 DEF StarOf
<1>2. CASE Contains(k, "*")
  <2> DEFINE T == {i \in 1..Len(k) : k[i] = "*"}
  <2>1. T \in SUBSET Nat /\ T # {}
    BY <1>2, TextType DEF Contains
  <2>2. Min(T) \in T /\ \A i \in T : Min(T) <= i
    <3> HIDE DEF T
    <3> QED
      BY <2>1, MinIs
  <2> QED
    BY <1>2, <2>2 DEF StarOf
<1> QED
  BY <1>1, <1>2

LEMMA KeyType ==
  ASSUME NEW k \in Texts
  PROVE  /\ Len(k) \in Nat /\ StarOf(k) \in 0..Len(k) /\ BaseLen(k) \in 0..Len(k)
         /\ Contains(k, "*") <=> StarOf(k) # 0
BY TextType, StarIs DEF BaseLen

\* The length up to the star, counted.
LEMMA FixedIsBase ==
  ASSUME NEW k \in Texts
  PROVE  Fixed(k) = BaseLen(k)
<1>1. CASE ~Contains(k, "*")
  BY <1>1, StarIs DEF Fixed, BaseLen, Contains
<1>2. CASE Contains(k, "*")
  <2> DEFINE s == StarOf(k)
             T == {i \in 1..Len(k) : "*" \notin Range(SubSeq(k, 1, i - 1))}
  <2>1. /\ Len(k) \in Nat /\ s \in 1..Len(k) /\ k[s] = "*"
        /\ \A i \in 1..Len(k) : k[i] = "*" => s <= i
    BY <1>2, TextType, StarIs
  <2> HIDE DEF s
  <2>2. ASSUME NEW i \in 1..Len(k)
        PROVE  "*" \notin Range(SubSeq(k, 1, i - 1)) <=> i <= s
    <3> DEFINE before == SubSeq(k, 1, i - 1)
    <3>1. 1 \in Nat \ {0} /\ i - 1 \in Int /\ i - 1 <= Len(k)
      BY <2>1
    <3>2. /\ before \in Seq(Bytes)
          /\ Len(before) = IF 1 <= i - 1 THEN i - 1 - 1 + 1 ELSE 0
          /\ \A j \in 1..Len(before) : before[j] = k[1 + j - 1]
      BY <3>1, PartType DEF Texts
    <3> HIDE DEF before
    <3>3. Range(before) = {before[j] : j \in 1..Len(before)}
      BY <3>2, RangeEquality
    <3>4. Len(before) = i - 1 /\ \A j \in 1..(i - 1) : before[j] = k[j]
      BY <2>1, <3>2
    <3>5. "*" \in Range(before) <=> \E j \in 1..(i - 1) : k[j] = "*"
      BY <3>3, <3>4
    <3>6. (\E j \in 1..(i - 1) : k[j] = "*") <=> s <= i - 1
      BY <2>1
    <3> QED
      BY <2>1, <3>5, <3>6 DEF before
  <2>3. T = 1..s
    BY <2>1, <2>2
  <2>4. Cardinality(1..s) = s
    <3>1. 1 \in Int /\ s \in Int /\ ~(1 > s)
      BY <2>1
    <3>2. Cardinality(1..s) = IF 1 > s THEN 0 ELSE s - 1 + 1
      BY <3>1, FS_Interval
    <3> QED
      BY <3>1, <3>2
  <2>5. Fixed(k) = Cardinality(T)
    BY <1>2 DEF Fixed, Contains
  <2>6. BaseLen(k) = s
    BY <2>1 DEF BaseLen, s
  <2> QED
    BY <2>3, <2>4, <2>5, <2>6
<1> QED
  BY <1>1, <1>2

LEMMA PrefixIs ==
  ASSUME NEW x \in Texts, NEW y \in Texts
  PROVE  IsPrefix(x, y) <=> Len(x) <= Len(y) /\ \A i \in 1..Len(x) : x[i] = y[i]
BY PrefixOf DEF Texts

LEMMA SuffixIs ==
  ASSUME NEW x \in Texts, NEW y \in Texts
  PROVE  IsSuffix(x, y) <=>
           /\ Len(x) <= Len(y)
           /\ \A i \in 1..Len(x) : x[i] = y[Len(y) - Len(x) + i]
BY SuffixOf DEF Texts

\* A text with a part of it replaced by a star, byte for byte.
LEMMA StarFor ==
  ASSUME NEW r \in Texts, NEW k \in Texts, NEW i \in 1..Len(r), NEW j \in 1..Len(r)
  PROVE  SubSeq(r, 1, i - 1) \o <<"*">> \o SubSeq(r, j + 1, Len(r)) = k <=>
           /\ Len(k) = i + (Len(r) - j) /\ k[i] = "*"
           /\ \A m \in 1..(i - 1) : k[m] = r[m]
           /\ \A m \in 1..(Len(r) - j) : k[i + m] = r[j + m]
<1> DEFINE z == "*"
<1>1. z \in Bytes /\ r \in Seq(Bytes) /\ k \in Seq(Bytes)
  BY DEF Bytes, Marks, Texts
<1> HIDE DEF z
<1>2. Splice(r, i, z, j) = k <=> IsSpliced(k, r, i, z, j)
  BY <1>1, SplicedAt
<1> QED
  BY <1>2 DEF z, Splice, IsSpliced

\* A pattern fits a request byte for byte.
LEMMA PatternFits ==
  ASSUME NEW k \in Texts, request \in Texts, Contains(k, "*")
  PROVE  LET s == StarOf(k)
             t == Len(k) - s
         IN Fits(k) <=>
              /\ \A i \in 1..t : k[s + i] # "*"
              /\ Len(request) >= Len(k)
              /\ \A i \in 1..(s - 1) : k[i] = request[i]
              /\ \A i \in 1..t : k[s + i] = request[Len(request) - t + i]
<1> DEFINE s == StarOf(k)
           n == Len(request)
           t == Trailer(k)
           before == SubSeq(k, 1, s - 1)
<1>1. Len(k) \in Nat /\ s \in 0..Len(k) /\ n \in Nat /\ s # 0
  BY KeyType, TextType
<1>2. /\ s \in 1..Len(k) /\ k[s] = "*"
      /\ \A i \in 1..Len(k) : k[i] = "*" => s <= i
  BY StarIs
<1> HIDE DEF s
<1>3. /\ before \in Texts /\ Len(before) = s - 1
      /\ \A i \in 1..(s - 1) : before[i] = k[i]
  <2>1. 1 \in Nat \ {0} /\ s - 1 \in Int /\ s - 1 <= Len(k)
    BY <1>1, <1>2
  <2>2. /\ before \in Texts /\ Len(before) = IF 1 <= s - 1 THEN s - 1 - 1 + 1 ELSE 0
        /\ \A i \in 1..Len(before) : before[i] = k[1 + i - 1]
    BY <2>1, PartType
  <2> QED
    BY <1>1, <1>2, <2>2
<1>4. /\ t \in Texts /\ Len(t) = Len(k) - s
      /\ \A i \in 1..(Len(k) - s) : t[i] = k[s + i]
  <2>1. s + 1 \in Nat \ {0} /\ Len(k) \in Int /\ Len(k) <= Len(k)
    BY <1>1, <1>2
  <2>2. /\ SubSeq(k, s + 1, Len(k)) \in Texts
        /\ Len(SubSeq(k, s + 1, Len(k))) = IF s + 1 <= Len(k) THEN Len(k) - (s + 1) + 1 ELSE 0
        /\ \A i \in 1..Len(SubSeq(k, s + 1, Len(k))) :
             SubSeq(k, s + 1, Len(k))[i] = k[s + 1 + i - 1]
    BY <2>1, PartType
  <2>3. t = SubSeq(k, s + 1, Len(k))
    BY DEF Trailer, s
  <2> QED
    BY <1>1, <1>2, <2>2, <2>3
<1>5. StartsWith(request, before) <=> s - 1 <= n /\ \A i \in 1..(s - 1) : k[i] = request[i]
  <2>1. IsPrefix(before, request) <=>
          Len(before) <= Len(request) /\ \A i \in 1..Len(before) : before[i] = request[i]
    BY <1>3, PrefixIs
  <2> QED
    BY <1>3, <2>1 DEF StartsWith
<1>6. IsSuffix(t, request) <=>
        /\ Len(k) - s <= n
        /\ \A i \in 1..(Len(k) - s) : k[s + i] = request[n - (Len(k) - s) + i]
  <2>1. IsSuffix(t, request) <=>
          /\ Len(t) <= Len(request)
          /\ \A i \in 1..Len(t) : t[i] = request[Len(request) - Len(t) + i]
    BY <1>4, SuffixIs
  <2> QED
    BY <1>4, <2>1
<1>7. Contains(t, "*") <=> \E i \in 1..(Len(k) - s) : k[s + i] = "*"
  BY <1>4 DEF Contains
<1>8. Fits(k) <=> /\ StartsWith(request, before) /\ n >= Len(k)
                  /\ IsSuffix(t, request) /\ ~Contains(t, "*")
  BY <1>1 DEF Fits, s
<1>9. n >= Len(k) => s - 1 <= n /\ Len(k) - s <= n
  BY <1>1, <1>2
<1> HIDE DEF t, before, n
<1>10. Fits(k) <=>
        /\ \A i \in 1..(Len(k) - s) : k[s + i] # "*"
        /\ n >= Len(k)
        /\ \A i \in 1..(s - 1) : k[i] = request[i]
        /\ \A i \in 1..(Len(k) - s) : k[s + i] = request[n - (Len(k) - s) + i]
  BY <1>5, <1>6, <1>7, <1>8, <1>9
<1> QED
  BY <1>10 DEF s, n

\* A pattern or a folder fits a request exactly if it covers it.
LEMMA FitsCovers ==
  ASSUME NEW k \in Texts, request \in Texts
  PROVE  Fits(k) <=> Covers(k)
<1> DEFINE s == StarOf(k)
           n == Len(request)
<1>1. Len(k) \in Nat /\ s \in 0..Len(k) /\ n \in Nat /\ (Contains(k, "*") <=> s # 0)
  BY KeyType, TextType
<1>2. CASE ~Contains(k, "*")
  BY <1>1, <1>2 DEF Fits, Covers, StartsWith
<1>3. CASE Contains(k, "*")
  <2>1. /\ s \in 1..Len(k) /\ k[s] = "*"
        /\ \A i \in 1..Len(k) : k[i] = "*" => s <= i
    BY <1>3, StarIs
  <2> DEFINE Single == \A i \in 1..(Len(k) - s) : k[s + i] # "*"
             Around == /\ n >= Len(k)
                       /\ \A i \in 1..(s - 1) : k[i] = request[i]
                       /\ \A i \in 1..(Len(k) - s) : k[s + i] = request[n - (Len(k) - s) + i]
  <2>7. Fits(k) <=> Single /\ Around
    BY <1>3, PatternFits
  <2> HIDE DEF s
  <2>8. CountOf(k, "*") = 1 <=> Single
    <3> DEFINE T == {i \in 1..Len(k) : k[i] = "*"}
    <3>1. s \in T
      BY <2>1
    <3>2. ASSUME Single
          PROVE  CountOf(k, "*") = 1
      <4>1. ASSUME NEW i \in T
            PROVE  i = s
        <5>1. s <= i
          BY <2>1
        <5>2. i > s => i - s \in 1..(Len(k) - s) /\ s + (i - s) = i
          BY <1>1, <2>1
        <5> QED
          BY <1>1, <2>1, <3>2, <5>1, <5>2
      <4>2. T = {s}
        BY <3>1, <4>1
      <4> QED
        BY <4>2, FS_Singleton DEF CountOf
    <3>3. ASSUME CountOf(k, "*") = 1
          PROVE  Single
      <4>1. IsFiniteSet(T)
        <5>1. IsFiniteSet(1..Len(k)) /\ T \in SUBSET (1..Len(k))
          BY <1>1, FS_Interval
        <5> HIDE DEF T
        <5> QED
          BY <5>1, FS_Subset
      <4>2. PICK x : T = {x}
        <5>1. Cardinality(T) = 1
          BY <3>3 DEF CountOf
        <5> HIDE DEF T
        <5> QED
          BY <4>1, <5>1, FS_Singleton
      <4>3. \A i \in T : i = s
        BY <3>1, <4>2
      <4> SUFFICES ASSUME NEW i \in 1..(Len(k) - s), k[s + i] = "*"
                   PROVE  FALSE
        OBVIOUS
      <4>4. s + i \in T
        BY <1>1, <2>1
      <4>5. s + i # s
        BY <1>1, <2>1
      <4> QED
        BY <4>3, <4>4, <4>5
    <3> QED
      BY <3>2, <3>3
  <2> DEFINE Cut(i, j) == SubSeq(request, 1, i - 1) \o <<"*">> \o SubSeq(request, j + 1, n) = k
             Bytewise(i, j) ==
               /\ Len(k) = i + (n - j) /\ k[i] = "*"
               /\ \A m \in 1..(i - 1) : k[m] = request[m]
               /\ \A m \in 1..(n - j) : k[i + m] = request[j + m]
  <2>9. ASSUME NEW i \in 1..n, NEW j \in 1..n
        PROVE  Cut(i, j) <=> Bytewise(i, j)
    BY StarFor
  <2>10. Covers(k) <=> \E i, j \in 1..n : i <= j /\ Cut(i, j) /\ CountOf(k, "*") = 1
    BY <1>3 DEF Covers
  <2> HIDE DEF Cut
  <2>11. ASSUME Single, Around
         PROVE  Covers(k)
    <3> DEFINE j == n - (Len(k) - s)
    <3>1. s \in 1..n /\ j \in 1..n /\ s <= j
      BY <1>1, <2>1, <2>11
    <3>2. Bytewise(s, j)
      <4>1. n - j = Len(k) - s /\ Len(k) = s + (n - j)
        BY <1>1, <2>1
      <4>2. \A m \in 1..(Len(k) - s) : k[s + m] = request[j + m]
        BY <2>11
      <4>3. \A m \in 1..(s - 1) : k[m] = request[m]
        BY <2>11
      <4> HIDE DEF j
      <4>5. \A m \in 1..(n - j) : k[s + m] = request[j + m]
        BY <4>1, <4>2
      <4> QED
        BY <2>1, <4>1, <4>3, <4>5
    <3> HIDE DEF j, Single, Around, Bytewise
    <3> QED
      BY <2>8, <2>9, <2>10, <2>11, <3>1, <3>2
  <2>12. ASSUME Covers(k)
         PROVE  Single /\ Around
    <3>1. PICK i \in 1..n, j \in 1..n : i <= j /\ Cut(i, j) /\ CountOf(k, "*") = 1
      BY <2>10, <2>12
    <3>2. Single
      BY <2>8, <3>1
    <3>3. Bytewise(i, j)
      BY <2>9, <3>1
    <3>4. i \in 1..Len(k)
      BY <1>1, <3>3
    <3>5. i = s
      <4>1. s <= i
        BY <2>1, <3>3, <3>4
      <4>2. ASSUME i > s
            PROVE  FALSE
        <5>1. i - s \in 1..(Len(k) - s) /\ s + (i - s) = i
          BY <1>1, <2>1, <3>4, <4>2
        <5>2. k[s + (i - s)] # "*" /\ k[i] = "*"
          BY <3>2, <3>3, <5>1
        <5> QED
          BY <5>1, <5>2
      <4> QED
        BY <1>1, <2>1, <3>4, <4>1, <4>2
    <3>6. n - j = Len(k) - s /\ n - (Len(k) - s) = j /\ n >= Len(k)
      BY <1>1, <2>1, <3>1, <3>3, <3>5
    <3>7. \A m \in 1..(Len(k) - s) : k[s + m] = request[j + m]
      BY <3>3, <3>5, <3>6
    <3>8. Around
      BY <3>3, <3>5, <3>6, <3>7
    <3> QED
      BY <3>2, <3>8
  <2> HIDE DEF Single, Around
  <2> QED
    BY <2>7, <2>11, <2>12
<1> QED
  BY <1>2, <1>3

-----------------------------------------------------------------------------
(* The order of keys *)

LEMMA BeatsTransitive ==
  ASSUME NEW k \in Texts, NEW l \in Texts, NEW m \in Texts, Beats(k, l), Beats(l, m)
  PROVE  Beats(k, m)
<1>1. /\ Fixed(k) \in Nat /\ Fixed(l) \in Nat /\ Fixed(m) \in Nat
      /\ Len(k) \in Nat /\ Len(l) \in Nat /\ Len(m) \in Nat
  BY KeyType, FixedIsBase
<1> QED
  BY <1>1 DEF Beats

\* Two folders that fit and are as long as each other are the same, and so are
\* two patterns that fit.
LEMMA SameKey ==
  ASSUME NEW k \in Texts, NEW l \in Texts, request \in Texts, Fits(k), Fits(l),
         BaseLen(k) = BaseLen(l), Len(k) = Len(l), Contains(k, "*") <=> Contains(l, "*")
  PROVE  k = l
<1>1. Len(k) \in Nat /\ Len(l) \in Nat
  BY TextType
<1>2. CASE ~Contains(k, "*")
  <2>1. StarOf(k) = 0 /\ StarOf(l) = 0
    BY <1>2, StarIs
  <2>2. IsPrefix(k, request) /\ IsPrefix(l, request)
    BY <2>1 DEF Fits, StartsWith
  <2>3. \A i \in 1..Len(k) : k[i] = l[i]
    BY <2>2, PrefixIs
  <2> QED
    BY <2>3, SeqEqual DEF Texts
<1>3. CASE Contains(k, "*")
  <2> DEFINE s == StarOf(k)
             t == Len(k) - s
             n == Len(request)
  <2>1. StarOf(l) = s /\ s \in 1..Len(k) /\ k[s] = "*" /\ l[s] = "*"
    BY <1>3, StarIs DEF BaseLen
  <2>2. /\ \A i \in 1..(s - 1) : k[i] = request[i] /\ l[i] = request[i]
        /\ \A i \in 1..t : k[s + i] = request[n - t + i] /\ l[s + i] = request[n - t + i]
    BY <1>3, <2>1, PatternFits
  <2> HIDE DEF s, n
  <2>3. ASSUME NEW i \in 1..Len(k)
        PROVE  k[i] = l[i]
    <3>1. i \in 1..(s - 1) \/ i = s \/ (i - s \in 1..t /\ s + (i - s) = i)
      BY <1>1, <2>1
    <3>2. ASSUME i - s \in 1..t, s + (i - s) = i
          PROVE  k[i] = l[i]
      <4>1. k[s + (i - s)] = l[s + (i - s)]
        BY <2>2, <3>2
      <4> QED
        BY <3>2, <4>1
    <3> QED
      BY <2>1, <2>2, <3>1, <3>2
  <2> QED
    BY <2>3, SeqEqual DEF Texts
<1> QED
  BY <1>2, <1>3

\* pattern_key_compare decides like the order, of keys that fit.
LEMMA PrecedesBeats ==
  ASSUME NEW k \in Texts, NEW l \in Texts, request \in Texts, Fits(k), Fits(l)
  PROVE  /\ Precedes(k, l) => k = l \/ Beats(k, l)
         /\ ~Precedes(k, l) => k = l \/ Beats(l, k)
<1>1. /\ Len(k) \in Nat /\ Len(l) \in Nat /\ BaseLen(k) \in Nat /\ BaseLen(l) \in Nat
      /\ StarOf(k) \in Nat /\ StarOf(l) \in Nat
      /\ Fixed(k) = BaseLen(k) /\ Fixed(l) = BaseLen(l)
      /\ (Contains(k, "*") <=> StarOf(k) # 0) /\ (Contains(l, "*") <=> StarOf(l) # 0)
  BY KeyType, FixedIsBase
<1>2. StarOf(k) = 0 => BaseLen(k) = Len(k)
  BY DEF BaseLen
<1>3. StarOf(l) = 0 => BaseLen(l) = Len(l)
  BY DEF BaseLen
<1>4. BaseLen(k) = BaseLen(l) /\ Len(k) = Len(l) /\ (Contains(k, "*") <=> Contains(l, "*")) => k = l
  BY SameKey
<1> QED
  BY <1>1, <1>2, <1>3, <1>4 DEF Precedes, Beats

LEMMA PrecedesNone ==
  ASSUME NEW k \in Texts
  PROVE  Precedes(k, <<>>)
<1>1. <<>> \in Texts
  BY EmptySeq DEF Texts
<1>2. BaseLen(<<>>) = 0 /\ StarOf(<<>>) = 0
  BY <1>1, KeyType, EmptySeq
<1>3. BaseLen(k) \in Nat
  BY KeyType
<1> QED
  BY <1>2, <1>3 DEF Precedes

LEMMA DotType == <<".">> \in Texts /\ <<".", "/">> \in Texts
<1>1. "." \in Bytes /\ "/" \in Bytes
  BY DEF Bytes, Marks
<1> HIDE DEF Bytes
<1> QED
  BY <1>1 DEF Texts

-----------------------------------------------------------------------------
(* check_target *)

\* The loop is what its turns make it.
LEMMA SegmentsTurns ==
  ASSUME NEW x \in Texts
  PROVE  /\ Segments(x) \in [0..Len(x) -> SegmentStates]
         /\ Segments(x)[0] = FirstSegment
         /\ \A i \in 1..Len(x) : Segments(x)[i] = CheckSegment(x, i)[Segments(x)[i - 1]]
<1> DEFINE turn == [i \in 1..Len(x) |-> CheckSegment(x, i)]
           Is(f) == f = [i \in 0..Len(x) |->
                           IF i = 0 THEN FirstSegment ELSE CheckSegment(x, i)[f[i - 1]]]
<1>1. Len(x) \in Nat /\ FirstSegment \in SegmentStates
  BY TextType DEF FirstSegment, SegmentStates
<1>2. ASSUME NEW i \in 1..Len(x), NEW s \in SegmentStates
      PROVE  CheckSegment(x, i)[s] \in SegmentStates
  <2>1. i + 1 \in Nat /\ s.cd \in Int /\ s.ok \in BOOLEAN
    BY <1>1 DEF SegmentStates
  <2>2. Depth(x, s) \in Int
    BY <2>1 DEF Depth
  <2>3. [start |-> i + 1, cd |-> Depth(x, s), ok |-> s.ok /\ Depth(x, s) >= 0] \in SegmentStates
    BY <2>1, <2>2 DEF SegmentStates
  <2> QED
    BY <2>3 DEF CheckSegment
<1>3. turn \in [1..Len(x) -> [SegmentStates -> SegmentStates]]
  BY <1>2 DEF CheckSegment
<1>4. PICK f \in Run(SegmentStates, FirstSegment, turn, Len(x)) : TRUE
  <2> HIDE DEF turn
  <2> QED
    BY <1>1, <1>3, Recursion
<1>5. /\ f \in [0..Len(x) -> SegmentStates] /\ f[0] = FirstSegment
      /\ \A i \in 1..Len(x) : f[i] = CheckSegment(x, i)[f[i - 1]]
  BY <1>4 DEF Run
<1>6. Is(f)
  BY <1>1, <1>5
<1>7. Is(Segments(x))
  BY <1>6 DEF Segments
<1>8. /\ DOMAIN Segments(x) = 0..Len(x) /\ Segments(x)[0] = FirstSegment
      /\ \A i \in 1..Len(x) : Segments(x)[i] = CheckSegment(x, i)[Segments(x)[i - 1]]
  BY <1>1, <1>7
<1>9. \A i \in 0..Len(x) : i \in {j \in 0..Len(x) : Segments(x)[j] \in SegmentStates}
  <2> DEFINE T == {j \in 0..Len(x) : Segments(x)[j] \in SegmentStates}
  <2>1. 0 \in T
    BY <1>1, <1>8
  <2>2. \A i \in 1..Len(x) : i - 1 \in T => i \in T
    BY <1>1, <1>2, <1>8
  <2> HIDE DEF T
  <2>3. \A i \in 0..Len(x) : i \in T
    BY <1>1, <2>1, <2>2, UpTo
  <2> QED
    BY <2>3 DEF T
<1> QED
  BY <1>7, <1>8, <1>9

\* The steps up and down before the segment that begins at j.
Ups(x, j) == {i \in {i \in Starts(x) : i < j} : Segment(x, i) \in Up}
Downs(x, j) == {i \in {i \in Starts(x) : i < j} : Segment(x, i) \notin Here \cup Up}

LEMMA StepsFinite ==
  ASSUME NEW x \in Texts, NEW j
  PROVE  /\ IsFiniteSet(Ups(x, j)) /\ Cardinality(Ups(x, j)) \in Nat
         /\ IsFiniteSet(Downs(x, j)) /\ Cardinality(Downs(x, j)) \in Nat
<1>1. Len(x) + 1 \in Int
  BY TextType
<1>2. Ups(x, j) \in SUBSET (1..(Len(x) + 1)) /\ Downs(x, j) \in SUBSET (1..(Len(x) + 1))
  BY DEF Ups, Downs, Starts
<1> QED
  BY <1>1, <1>2, PartFinite

\* A name with two dots leads up, one with a dot nowhere, any other one down.
LEMMA DepthIs ==
  ASSUME NEW x \in Texts, PlainNames(x), NEW s \in SegmentStates, s.start \in Starts(x),
         NEW i \in s.start..Len(x), x[i] = "/", \A e \in s.start..(i - 1) : x[e] # "/"
  PROVE  Depth(x, s) = IF Segment(x, s.start) \in Up THEN s.cd - 1
                       ELSE IF Segment(x, s.start) \in Here THEN s.cd ELSE s.cd + 1
<1> DEFINE b == s.start
           name == Segment(x, b)
           ends == {e \in b..Len(x) : x[e] = "/"}
<1>1. Len(x) \in Nat /\ b \in 1..(Len(x) + 1) /\ i \in Nat
  BY TextType DEF Starts
<1>2. Min(ends) = i
  <2>1. ends \in SUBSET Nat /\ i \in ends
    BY <1>1
  <2>2. Min(ends) \in ends /\ Min(ends) <= i
    <3> HIDE DEF ends
    <3> QED
      BY <2>1, MinIs
  <2> QED
    BY <1>1, <2>2
<1>3. name = SubSeq(x, b, i - 1)
  <2>1. ends # {}
    BY <1>1
  <2> QED
    BY <1>2, <2>1 DEF Segment
<1>4. /\ name \in Texts /\ Len(name) = IF b <= i - 1 THEN i - 1 - b + 1 ELSE 0
      /\ \A n \in 1..Len(name) : name[n] = x[b + n - 1]
  <2>1. b \in Nat \ {0} /\ i - 1 \in Int /\ i - 1 <= Len(x)
    BY <1>1
  <2> HIDE DEF b, name
  <2> QED
    BY <1>3, <2>1, PartType
<1>5. name # <<>> /\ (Dotted(name) => name \in Here \cup Up)
  BY DEF PlainNames
<1> HIDE DEF name, ends
<1>6. Len(name) = i - b /\ b < i /\ name[1] = x[b]
  <2>1. Len(name) # 0
    BY <1>4, <1>5, TextType
  <2>2. Len(name) = i - b /\ b < i
    BY <1>1, <1>4, <2>1
  <2>3. 1 \in 1..Len(name) /\ b + 1 - 1 = b
    BY <1>1, <2>2
  <2>4. name[1] = x[b + 1 - 1]
    BY <1>4, <2>3
  <2> QED
    BY <2>2, <2>3, <2>4
<1>7. Dotted(name) <=> x[b] = "."
  <2>1. IsPrefix(<<".">>, name) <=>
          Len(<<".">>) <= Len(name) /\ \A n \in 1..Len(<<".">>) : <<".">>[n] = name[n]
    BY <1>4, DotType, PrefixIs
  <2>2. Len(<<".">>) = 1 /\ <<".">>[1] = "."
    OBVIOUS
  <2> QED
    BY <1>1, <1>6, <2>1, <2>2 DEF Dotted, StartsWith
<1>8. CASE name \in Here
  <2>1. name = <<".">>
    BY <1>8 DEF Here
  <2>2. Len(name) = 1 /\ name[1] = "." /\ Len(<<".", ".">>) = 2
    BY <2>1
  <2>3. i = b + 1 /\ x[b] = "."
    BY <1>1, <1>6, <2>2
  <2>4. x[b + 1] # "."
    BY <2>3
  <2>5. name \notin Up
    BY <2>2 DEF Up
  <2> QED
    BY <1>8, <2>3, <2>4, <2>5 DEF Depth, name
<1>9. CASE name \in Up
  <2>1. name = <<".", ".">>
    BY <1>9 DEF Up
  <2>2. Len(name) = 2 /\ name[1] = "." /\ name[2] = "."
    BY <2>1
  <2>3. 2 \in 1..Len(name) /\ b + 2 - 1 = b + 1
    BY <1>1, <2>2
  <2>4. name[2] = x[b + 2 - 1]
    BY <1>4, <2>3
  <2>5. x[b] = "." /\ x[b + 1] = "."
    BY <1>6, <2>2, <2>3, <2>4
  <2> QED
    BY <1>9, <2>5 DEF Depth, name
<1>10. CASE name \notin Here \cup Up
  <2>1. x[b] # "."
    BY <1>5, <1>7, <1>10
  <2> QED
    BY <1>10, <2>1 DEF Depth, name
<1> QED
  BY <1>8, <1>9, <1>10

\* What the loop knows after i bytes.
WalkOK(x, s, i) ==
  /\ s.start \in Starts(x) /\ s.start <= i + 1
  /\ \A e \in s.start..i : x[e] # "/"
  /\ s.cd = Cardinality(Downs(x, s.start)) - Cardinality(Ups(x, s.start))
  /\ s.ok <=> \A j \in Starts(x) :
                j <= s.start => Cardinality(Ups(x, j)) <= Cardinality(Downs(x, j))

LEMMA WalkTurn ==
  ASSUME NEW x \in Texts, PlainNames(x), NEW i \in 1..Len(x), NEW s \in SegmentStates,
         WalkOK(x, s, i - 1)
  PROVE  WalkOK(x, CheckSegment(x, i)[s], i)
<1> DEFINE b == s.start
           t == CheckSegment(x, i)[s]
<1>1. Len(x) \in Nat /\ i \in Nat \ {0} /\ b \in Nat \ {0} /\ b <= i /\ b \in Starts(x)
      /\ s.cd \in Int /\ s.ok \in BOOLEAN
  BY TextType DEF WalkOK, SegmentStates, Starts
<1>2. CASE x[i] # "/"
  <2>1. t = s
    BY <1>2 DEF CheckSegment
  <2>2. \A e \in b..i : x[e] # "/"
    BY <1>1, <1>2 DEF WalkOK
  <2> HIDE DEF t
  <2>3. WalkOK(x, t, i)
    BY <1>1, <2>1, <2>2 DEF WalkOK
  <2> QED
    BY <2>3 DEF t
<1>3. CASE x[i] = "/"
  <2> DEFINE name == Segment(x, b)
             n == i + 1
             d == Depth(x, s)
             u == Cardinality(Ups(x, b))
             v == Cardinality(Downs(x, b))
  <2>1. t = [start |-> n, cd |-> d, ok |-> s.ok /\ d >= 0]
    BY <1>3 DEF CheckSegment
  <2>2. \A e \in b..(i - 1) : x[e] # "/"
    BY DEF WalkOK
  <2>3. d = IF name \in Up THEN s.cd - 1 ELSE IF name \in Here THEN s.cd ELSE s.cd + 1
    <3>1. i \in b..Len(x)
      BY <1>1
    <3> QED
      BY <1>1, <1>3, <2>2, <3>1, DepthIs
  <2>4. n \in Starts(x) /\ n \in Nat
    BY <1>1, <1>3 DEF Starts
  <2>5. ASSUME NEW j \in Starts(x), j < n
        PROVE  j <= b
    <3>1. j \in Nat /\ (j = 1 \/ x[j - 1] = "/")
      BY <1>1 DEF Starts
    <3>2. j > b => j - 1 \in b..(i - 1)
      BY <1>1, <2>5, <3>1
    <3> QED
      BY <1>1, <2>2, <3>1, <3>2
  <2>6. {j \in Starts(x) : j < n} = {j \in Starts(x) : j < b} \cup {b}
    <3>1. Starts(x) \subseteq Nat
      BY <1>1 DEF Starts
    <3> QED
      BY <1>1, <2>5, <3>1
  <2>7. u \in Nat /\ v \in Nat /\ IsFiniteSet(Ups(x, b)) /\ IsFiniteSet(Downs(x, b))
    BY StepsFinite
  <2>8. b \notin Ups(x, b) /\ b \notin Downs(x, b)
    BY <1>1 DEF Ups, Downs
  <2>9. Cardinality(Ups(x, n)) = IF name \in Up THEN u + 1 ELSE u
    <3>1. Ups(x, n) = IF name \in Up THEN Ups(x, b) \cup {b} ELSE Ups(x, b)
      BY <2>6 DEF Ups
    <3> QED
      BY <2>7, <2>8, <3>1, FS_AddElement
  <2>10. Cardinality(Downs(x, n)) = IF name \in Here \cup Up THEN v ELSE v + 1
    <3>1. Downs(x, n) = IF name \in Here \cup Up THEN Downs(x, b) ELSE Downs(x, b) \cup {b}
      BY <2>6 DEF Downs
    <3> QED
      BY <2>7, <2>8, <3>1, FS_AddElement
  <2>11. name \in Up => name \notin Here
    <3>1. \A p, q : p = <<".">> /\ q = <<".", ".">> => Len(p) = 1 /\ Len(q) = 2
      OBVIOUS
    <3>2. <<".">> # <<".", ".">>
      BY <3>1
    <3> QED
      BY <3>2 DEF Up, Here
  <2>12. s.cd = v - u
    BY DEF WalkOK
  <2> HIDE DEF u, v, name, d, n
  <2>13. d = Cardinality(Downs(x, n)) - Cardinality(Ups(x, n)) /\ d \in Int
    BY <2>3, <2>7, <2>9, <2>10, <2>11, <2>12
  <2>14. d >= 0 <=> Cardinality(Ups(x, n)) <= Cardinality(Downs(x, n))
    BY <2>7, <2>9, <2>10, <2>13
  <2>15. \A j \in Starts(x) : j <= n <=> j <= b \/ j = n
    <3>1. Starts(x) \subseteq Nat /\ b < n
      BY <1>1 DEF Starts, n
    <3> QED
      BY <1>1, <2>4, <2>5, <3>1
  <2>16. s.ok /\ d >= 0 <=>
           \A j \in Starts(x) : j <= n => Cardinality(Ups(x, j)) <= Cardinality(Downs(x, j))
    BY <2>4, <2>14, <2>15 DEF WalkOK
  <2>17. n <= i + 1 /\ \A e \in n..i : x[e] # "/"
    BY <1>1 DEF n
  <2>18. t.start = n /\ t.cd = d /\ (t.ok <=> s.ok /\ d >= 0)
    <3> HIDE DEF t
    <3>1. t.start = n /\ t.cd = d
      BY <2>1
    <3>2. CASE s.ok /\ d >= 0
      <4>1. t = [start |-> n, cd |-> d, ok |-> TRUE]
        BY <2>1, <3>2
      <4> QED
        BY <3>1, <3>2, <4>1
    <3>3. CASE ~(s.ok /\ d >= 0)
      <4>1. t = [start |-> n, cd |-> d, ok |-> FALSE]
        BY <2>1, <3>3
      <4> QED
        BY <3>1, <3>3, <4>1
    <3> QED
      BY <3>2, <3>3
  <2> HIDE DEF t
  <2>19. WalkOK(x, t, i)
    BY <2>4, <2>13, <2>16, <2>17, <2>18 DEF WalkOK
  <2> QED
    BY <2>19 DEF t
<1> QED
  BY <1>2, <1>3

\* The loop accepts exactly the texts that stay inside.
LEMMA WalkInside ==
  ASSUME NEW x \in Texts, PlainNames(x)
  PROVE  CheckTarget(x) <=> Inside(x)
<1>1. Len(x) \in Nat
  BY TextType
<1> DEFINE T == {i \in 0..Len(x) : WalkOK(x, Segments(x)[i], i)}
<1>2. 0 \in T
  <2>1. 1 \in Starts(x) /\ \A j \in Starts(x) : j <= 1 => j = 1
    BY <1>1 DEF Starts
  <2>2. Ups(x, 1) = {} /\ Downs(x, 1) = {}
    BY <1>1 DEF Ups, Downs, Starts
  <2>3. Cardinality(Ups(x, 1)) = 0 /\ Cardinality(Downs(x, 1)) = 0
    BY <2>2, FS_EmptySet
  <2>4. WalkOK(x, FirstSegment, 0)
    BY <2>1, <2>3 DEF WalkOK, FirstSegment
  <2> QED
    BY <1>1, <2>4, SegmentsTurns
<1>3. ASSUME NEW i \in 1..Len(x), i - 1 \in T
      PROVE  i \in T
  <2>1. i - 1 \in 0..Len(x) /\ i \in 0..Len(x)
    BY <1>1
  <2>2. Segments(x)[i - 1] \in SegmentStates
    BY <2>1, SegmentsTurns
  <2>3. Segments(x)[i] = CheckSegment(x, i)[Segments(x)[i - 1]]
    BY SegmentsTurns
  <2>4. WalkOK(x, Segments(x)[i - 1], i - 1)
    BY <1>3
  <2> QED
    BY <2>1, <2>2, <2>3, <2>4, WalkTurn
<1>4. \A i \in 0..Len(x) : i \in T
  <2> HIDE DEF T
  <2> QED
    BY <1>1, <1>2, <1>3, UpTo
<1> DEFINE s == Segments(x)[Len(x)]
<1>5. WalkOK(x, s, Len(x)) /\ (CheckTarget(x) <=> s.ok)
  BY <1>1, <1>4 DEF CheckTarget
<1> HIDE DEF s
<1>6. ASSUME NEW j \in Starts(x)
      PROVE  j <= s.start
  <2>1. j \in 1..(Len(x) + 1) /\ (j = 1 \/ x[j - 1] = "/") /\ s.start \in 1..(Len(x) + 1)
    BY <1>5 DEF WalkOK, Starts
  <2>2. j > s.start => j - 1 \in s.start..Len(x)
    BY <1>1, <2>1
  <2> QED
    BY <1>1, <1>5, <2>1, <2>2 DEF WalkOK
<1>7. s.ok <=> \A j \in Starts(x) : Cardinality(Ups(x, j)) <= Cardinality(Downs(x, j))
  BY <1>5, <1>6 DEF WalkOK
<1>8. Inside(x) <=> \A j \in Starts(x) : Cardinality(Ups(x, j)) <= Cardinality(Downs(x, j))
  BY DEF Inside, Ups, Downs
<1> QED
  BY <1>5, <1>7, <1>8

-----------------------------------------------------------------------------
(* The invariant *)

Pairs == Seq(Texts \X Values)
Found == [value : Values, rest : Texts, folder : BOOLEAN, pattern : BOOLEAN]
Items == [value : Values, soft : BOOLEAN]
Frames == {f \in [map : Pairs, j : Nat] : f.j \in 1..(Len(f.map) + 1)}

CallInv ==
  /\ w \in Worlds
  /\ pc \in {"parse", "request", "keys", "scan", "mapping", "conditions", "items", "done"}
  /\ pc # "parse" => parsed = FromRequest[w.ident]
  /\ request \in Texts

\* No key is seen before the loop over the keys, and all of them exist.
KeysInv ==
  /\ index \in Nat /\ best \in 0..index
  /\ pc \in {"parse", "request", "keys"} => index = 0
  /\ pc = "scan" => w.root.t = "obj" /\ index <= Len(w.root.obj)

\* Values are mapped only for a match; conditions are those of the first value.
ValuesInv ==
  /\ match # Nothing => match \in Found
  /\ match = Nothing => todo = <<>>
  /\ todo \in Seq(Items) /\ lookup \in Seq(Frames) /\ list \in Seq(Texts)
  /\ pc = "conditions" => lookup # <<>> /\ todo # <<>>

\* Only a slice within a character panics.
AnswerInv ==
  /\ pc = "done" <=> answer # Nothing
  /\ answer \in {Nothing} \cup Answers \cup w.found
  /\ answer = Panic => pc # "parse" /\ Contains(parsed.target, "~")

FieldInv == CallInv /\ KeysInv /\ ValuesInv /\ AnswerInv

LEMMA WorldType ==
  ASSUME CallInv
  PROVE  /\ w.field \in {"exports", "imports"} /\ w.ident \in Texts /\ w.root \in Values
         /\ w.found \subseteq Texts /\ w.names \subseteq Texts
         /\ w.root.t \in {"str", "arr", "obj", "other"}
         /\ w.root.t = "obj" => w.root.obj \in Pairs
BY WorldAssumption, ValueAssumption DEF CallInv, Pairs

LEMMA PairType ==
  ASSUME NEW m \in Pairs, NEW i \in 1..Len(m)
  PROVE  Key(m, i) \in Texts /\ Value(m, i) \in Values
BY ElementOfSeq DEF Pairs, Key, Value

LEMMA Sentinels ==
  /\ Nothing \notin Answers /\ Nothing \notin Texts /\ Error \notin Texts /\ Panic \notin Texts
  /\ Error \in Answers /\ Failed \in Answers /\ Pass \in Answers /\ Panic \in Answers
  /\ Panic # Error /\ Panic # Failed /\ Panic # Pass
BY SentinelAssumption DEF Answers

\* The request, and what it is cut into.
LEMMA ParsedType ==
  ASSUME CallInv, pc # "parse"
  PROVE  /\ parsed.target \in Texts /\ parsed.query \in Texts /\ parsed.fragment \in Texts
         /\ parsed.directory \in BOOLEAN /\ SplitRight(w.ident, parsed)
<1>1. parsed = FromRequest[w.ident] /\ w.ident \in Texts
  BY WorldType DEF CallInv
<1> QED
  BY <1>1, RequestSplit

LEMMA WithRestType ==
  ASSUME CallInv, pc # "parse", NEW path \in Texts
  PROVE  WithRest(path) \in Texts
<1>1. parsed.query \in Texts /\ parsed.fragment \in Texts
  BY ParsedType
<1>2. path \o parsed.query \o parsed.fragment \in Texts
  BY <1>1, JoinType
<1>3. <<".", "/">> \o parsed.query \o parsed.fragment \in Texts
  BY <1>1, DotType, JoinType
<1> QED
  BY <1>2, <1>3 DEF WithRest

LEMMA InitInv == Init => FieldInv
<1> SUFFICES ASSUME Init
             PROVE  FieldInv
  OBVIOUS
<1>1. <<>> \in Texts /\ <<>> \in Seq(Items) /\ <<>> \in Seq(Frames) /\ <<>> \in Seq(Texts)
  BY EmptySeq DEF Texts
<1>2. CallInv
  BY <1>1 DEF Init, CallInv
<1>3. KeysInv
  BY DEF Init, KeysInv
<1>4. ValuesInv
  BY <1>1 DEF Init, ValuesInv
<1>5. AnswerInv
  BY Sentinels DEF Init, AnswerInv
<1> QED
  BY <1>2, <1>3, <1>4, <1>5 DEF FieldInv

LEMMA ParseStep ==
  ASSUME FieldInv, ParseRequest
  PROVE  FieldInv'
<1>1. CallInv'
  BY DEF ParseRequest, FieldInv, CallInv
<1>2. KeysInv'
  BY DEF ParseRequest, FieldInv, KeysInv
<1>3. ValuesInv'
  BY DEF ParseRequest, FieldInv, ValuesInv
<1>4. AnswerInv'
  BY Sentinels DEF ParseRequest, FieldInv, AnswerInv
<1> QED
  BY <1>1, <1>2, <1>3, <1>4 DEF FieldInv

\* A request is asked for, or the answer is there.
LEMMA AskStep ==
  ASSUME FieldInv, pc = "request",
         UNCHANGED <<w, parsed, index, best, match, todo, lookup, list>>,
         \/ request' \in Texts /\ pc' = "keys" /\ answer' = answer
         \/ /\ request' = request /\ pc' = "done" /\ answer' \in Answers
            /\ answer' = Panic => Contains(parsed.target, "~")
  PROVE  FieldInv'
<1>1. CallInv'
  BY DEF FieldInv, CallInv
<1>2. KeysInv'
  BY DEF FieldInv, KeysInv
<1>3. ValuesInv'
  BY DEF FieldInv, ValuesInv
<1>4. AnswerInv'
  BY Sentinels DEF FieldInv, AnswerInv
<1> QED
  BY <1>1, <1>2, <1>3, <1>4 DEF FieldInv

LEMMA SplitType ==
  ASSUME NEW x \in Texts
  PROVE  SplitSlash(x) # NoSplit => SplitSlash(x) \in Nat
BY SlashType DEF SplitSlash

LEMMA ExportsRequestStep ==
  ASSUME FieldInv, ExportsRequest
  PROVE  FieldInv'
<1> DEFINE n == SplitSlash(parsed.target)
           rest == SubSeq(parsed.target, n + 1, Len(parsed.target))
<1>1. CallInv /\ pc = "request" /\ parsed.target \in Texts /\ Len(parsed.target) \in Nat
  BY ParsedType, TextType DEF FieldInv, ExportsRequest
<1>2. n # NoSplit => n \in Nat
  BY <1>1, SplitType
<1>3. WithRest(<<".">>) \in Texts
  BY <1>1, DotType, WithRestType
<1>4. n # NoSplit => WithRest(<<".">> \o rest) \in Texts
  <2> SUFFICES ASSUME n # NoSplit
               PROVE  WithRest(<<".">> \o rest) \in Texts
    OBVIOUS
  <2>1. n + 1 \in Nat \ {0} /\ Len(parsed.target) \in Int
    BY <1>1, <1>2
  <2>2. rest \in Texts
    BY <1>1, <2>1, PartType
  <2> HIDE DEF rest
  <2>3. <<".">> \o rest \in Texts
    BY <2>2, DotType, JoinType
  <2> QED
    BY <1>1, <2>3, WithRestType
<1>5. n # NoSplit /\ SplitsCharacter(parsed.target, n) => Contains(parsed.target, "~")
  <2> SUFFICES ASSUME n # NoSplit, SplitsCharacter(parsed.target, n)
               PROVE  Contains(parsed.target, "~")
    OBVIOUS
  <2>1. n \in Nat /\ n < Len(parsed.target) /\ parsed.target[n + 1] = "~"
    BY <1>2 DEF SplitsCharacter
  <2> HIDE DEF n
  <2>2. n + 1 \in 1..Len(parsed.target)
    BY <1>1, <2>1
  <2> QED
    BY <2>1, <2>2 DEF Contains
<1>6. UNCHANGED <<w, parsed, index, best, match, todo, lookup, list>>
  BY DEF ExportsRequest
<1>7. \/ request' \in Texts /\ pc' = "keys" /\ answer' = answer
      \/ /\ request' = request /\ pc' = "done" /\ answer' \in Answers
         /\ answer' = Panic => Contains(parsed.target, "~")
  <2> HIDE DEF n, rest
  <2>1. \/ request' = request /\ Return(Error)
        \/ request' = request /\ Return(Failed)
        \/ n # NoSplit /\ SplitsCharacter(parsed.target, n) /\ Return(Panic) /\ request' = request
        \/ n # NoSplit /\ Ask(WithRest(<<".">> \o rest))
        \/ Ask(WithRest(<<".">>))
    BY DEF ExportsRequest, n, rest
  <2> QED
    BY <1>3, <1>4, <1>5, <2>1, Sentinels DEF Return, Ask
<1> QED
  BY <1>1, <1>6, <1>7, AskStep

LEMMA ImportsRequestStep ==
  ASSUME FieldInv, ImportsRequest
  PROVE  FieldInv'
<1>1. CallInv /\ pc = "request" /\ parsed.target \in Texts
  BY ParsedType DEF FieldInv, ImportsRequest
<1>2. UNCHANGED <<w, parsed, index, best, match, todo, lookup, list>>
  BY DEF ImportsRequest
<1>3. \/ request' \in Texts /\ pc' = "keys" /\ answer' = answer
      \/ /\ request' = request /\ pc' = "done" /\ answer' \in Answers
         /\ answer' = Panic => Contains(parsed.target, "~")
  BY <1>1, Sentinels DEF ImportsRequest, Return, Ask
<1> QED
  BY <1>1, <1>2, <1>3, AskStep

\* The keys are searched, or a match is found, or there is an error.
LEMMA FindStep ==
  ASSUME FieldInv, pc \in {"keys", "scan"},
         UNCHANGED <<w, parsed, request, index, best, lookup, list>>,
         \/ /\ pc = "keys" /\ pc' = "scan" /\ w.root.t = "obj"
            /\ match' = match /\ todo' = todo /\ answer' = answer
         \/ Map(Nothing)
         \/ \E m \in Found : Map(m)
         \/ Return(Error) /\ match' = match /\ todo' = todo
  PROVE  FieldInv'
<1>1. CallInv'
  BY DEF FieldInv, CallInv, Map, Return
<1>2. KeysInv'
  <2>1. w.root.t = "obj" => Len(w.root.obj) \in Nat
    BY WorldType, LenProperties DEF FieldInv, Pairs
  <2> QED
    BY <2>1 DEF FieldInv, KeysInv, Map, Return
<1>3. ValuesInv'
  <2>1. CASE \E m \in Found : Map(m)
    <3>1. PICK m \in Found : Map(m)
      BY <2>1
    <3>2. << [value |-> m.value, soft |-> FALSE] >> \in Seq(Items)
      BY DEF Found, Items
    <3>3. <<>> \in Seq(Items)
      BY EmptySeq
    <3> QED
      BY <3>1, <3>2, <3>3 DEF FieldInv, ValuesInv, Map
  <2>2. CASE Map(Nothing)
    <3>1. <<>> \in Seq(Items)
      BY EmptySeq
    <3> QED
      BY <2>2, <3>1 DEF FieldInv, ValuesInv, Map
  <2>3. CASE match' = match /\ todo' = todo /\ pc' # "conditions"
    BY <2>3 DEF FieldInv, ValuesInv
  <2> QED
    BY <2>1, <2>2, <2>3 DEF Return
<1>4. AnswerInv'
  BY Sentinels DEF FieldInv, AnswerInv, Map, Return
<1> QED
  BY <1>1, <1>2, <1>3, <1>4 DEF FieldInv

\* A match in an object is one of its values.
LEMMA FindInObjectType ==
  ASSUME NEW m \in Pairs, FindInObject(m)
  PROVE  \/ pc' = "scan" /\ match' = match /\ todo' = todo /\ answer' = answer
         \/ \E x \in Found : Map(x)
<1>1. CASE ~Contains(request, "*") /\ ~EndsWithSlash(request) /\ request \in Keys(m)
  <2> DEFINE i == CHOOSE i \in 1..Len(m) : Key(m, i) = request
             x == Match(Value(m, i), <<>>, FALSE, FALSE)
  <2>1. i \in 1..Len(m)
    BY <1>1 DEF Keys
  <2>2. Map(x)
    BY <1>1 DEF FindInObject
  <2> HIDE DEF i
  <2>3. Value(m, i) \in Values /\ <<>> \in Texts
    BY <2>1, PairType, EmptySeq DEF Texts
  <2>4. x \in Found
    BY <2>3 DEF Match, Found
  <2> QED
    BY <2>2, <2>4
<1>2. CASE ~(~Contains(request, "*") /\ ~EndsWithSlash(request) /\ request \in Keys(m))
  BY <1>2 DEF FindInObject
<1> QED
  BY <1>1, <1>2

LEMMA MapRootType ==
  ASSUME CallInv, MapRoot
  PROVE  Map(Nothing) \/ \E x \in Found : Map(x)
<1>1. Match(w.root, <<".">>, FALSE, FALSE) \in Found
  BY WorldType, DotType DEF Match, Found
<1> QED
  BY <1>1 DEF MapRoot

LEMMA ExportsKeysStep ==
  ASSUME FieldInv, ExportsKeys
  PROVE  FieldInv'
<1>1. CallInv /\ pc = "keys" /\ (w.root.t = "obj" => w.root.obj \in Pairs)
  BY WorldType DEF FieldInv, ExportsKeys
<1>2. UNCHANGED <<w, parsed, request, index, best, lookup, list>>
  BY DEF ExportsKeys
<1>3. \/ Map(Nothing)
      \/ MapRoot
      \/ w.root.t = "obj" /\ FindInObject(w.root.obj)
      \/ Return(Error) /\ match' = match /\ todo' = todo
  BY DEF ExportsKeys
<1> QED
  BY <1>1, <1>2, <1>3, MapRootType, FindInObjectType, FindStep

LEMMA ImportsKeysStep ==
  ASSUME FieldInv, ImportsKeys
  PROVE  FieldInv'
<1>1. pc = "keys" /\ (w.root.t = "obj" => w.root.obj \in Pairs)
  BY WorldType DEF FieldInv, ImportsKeys
<1>2. UNCHANGED <<w, parsed, request, index, best, lookup, list>>
  BY DEF ImportsKeys
<1>3. \/ Map(Nothing)
      \/ w.root.t = "obj" /\ FindInObject(w.root.obj)
      \/ Return(Error) /\ match' = match /\ todo' = todo
  BY DEF ImportsKeys
<1> QED
  BY <1>1, <1>2, <1>3, FindInObjectType, FindStep

LEMMA ScanStep ==
  ASSUME FieldInv, Scan
  PROVE  FieldInv'
<1>1. CallInv'
  BY DEF FieldInv, CallInv, Scan
<1>2. KeysInv'
  <2>1. w.root.t = "obj" => Len(w.root.obj) \in Nat
    BY WorldType, LenProperties DEF FieldInv, Pairs
  <2>2. index' = index + 1 /\ index < Len(w.root.obj) /\ best' \in {best, index + 1}
        /\ w' = w /\ pc' = pc /\ pc = "scan"
    BY DEF Scan
  <2> QED
    BY <2>1, <2>2 DEF FieldInv, KeysInv
<1>3. ValuesInv'
  BY DEF FieldInv, ValuesInv, Scan
<1>4. AnswerInv'
  BY DEF FieldInv, AnswerInv, Scan
<1> QED
  BY <1>1, <1>2, <1>3, <1>4 DEF FieldInv

\* The best key of the keys that were seen is one of them.
LEMMA BestType ==
  ASSUME FieldInv, pc = "scan"
  PROVE  /\ w.root.obj \in Pairs /\ index \in 0..Len(w.root.obj) /\ Len(w.root.obj) \in Nat
         /\ best # 0 => best \in 1..Len(w.root.obj)
         /\ BestKey \in Texts
<1>1. w.root.obj \in Pairs /\ index \in Nat /\ index <= Len(w.root.obj) /\ best \in 0..index
  BY WorldType DEF FieldInv, KeysInv
<1>2. Len(w.root.obj) \in Nat
  BY <1>1, LenProperties DEF Pairs
<1>3. best # 0 => best \in 1..Len(w.root.obj)
  BY <1>1, <1>2
<1>4. BestKey \in Texts
  BY <1>1, <1>3, PairType, EmptySeq DEF BestKey, Texts
<1> QED
  BY <1>1, <1>2, <1>3, <1>4

LEMMA SubpathType ==
  ASSUME FieldInv, pc = "scan"
  PROVE  Subpath \in Texts
<1> DEFINE k == BestKey
           n == Len(request)
<1>1. k \in Texts /\ request \in Texts /\ n \in Nat /\ Len(k) \in Nat /\ StarOf(k) \in 0..Len(k)
  BY BestType, KeyType, TextType DEF FieldInv, CallInv
<1> HIDE DEF k
<1>2. SubSeq(request, Len(k) + 1, n) \in Texts
  <2>1. Len(k) + 1 \in Nat \ {0} /\ n \in Int /\ n <= Len(request)
    BY <1>1
  <2> QED
    BY <1>1, <2>1, PartType
<1>3. StarOf(k) # 0 => SubSeq(request, StarOf(k), n - Len(Trailer(k))) \in Texts
  <2> SUFFICES ASSUME StarOf(k) # 0
               PROVE  SubSeq(request, StarOf(k), n - Len(Trailer(k))) \in Texts
    OBVIOUS
  <2>1. StarOf(k) + 1 \in Nat \ {0} /\ Len(k) \in Int /\ Len(k) <= Len(k)
    BY <1>1
  <2>2. Len(SubSeq(k, StarOf(k) + 1, Len(k))) \in Nat
    BY <1>1, <2>1, PartType, TextType
  <2>3. StarOf(k) \in Nat \ {0} /\ n - Len(Trailer(k)) \in Int /\ n - Len(Trailer(k)) <= Len(request)
    BY <1>1, <2>2 DEF Trailer
  <2> QED
    BY <1>1, <2>3, PartType
<1> QED
  BY <1>2, <1>3 DEF Subpath, k

LEMMA MatchedStep ==
  ASSUME FieldInv, Matched
  PROVE  FieldInv'
<1> DEFINE x == Match(Value(w.root.obj, best), Subpath, EndsWithSlash(BestKey),
                      StarOf(BestKey) # 0)
<1>1. pc = "scan"
  BY DEF Matched
<1>2. UNCHANGED <<w, parsed, request, index, best, lookup, list>>
  BY DEF Matched
<1>3. Map(Nothing) \/ (best # 0 /\ Map(x))
  BY DEF Matched
<1>4. best # 0 => x \in Found
  <2>1. best # 0 => Value(w.root.obj, best) \in Values
    BY <1>1, BestType, PairType
  <2>2. Subpath \in Texts /\ EndsWithSlash(BestKey) \in BOOLEAN /\ (StarOf(BestKey) # 0) \in BOOLEAN
    BY <1>1, SubpathType DEF EndsWithSlash
  <2> QED
    BY <2>1, <2>2 DEF Match, Found
<1> HIDE DEF x
<1> QED
  BY <1>1, <1>2, <1>3, <1>4, FindStep

-----------------------------------------------------------------------------
\* A step through the values: the match stays, the lists stay lists.
LEMMA ValueStep ==
  ASSUME FieldInv, pc \in {"mapping", "conditions"}, match # Nothing,
         UNCHANGED <<w, parsed, request, index, best, match>>,
         todo' \in Seq(Items), lookup' \in Seq(Frames), list' \in Seq(Texts),
         pc' = "conditions" => lookup' # <<>> /\ todo' # <<>>,
         \/ pc' \in {"mapping", "conditions"} /\ answer' = answer
         \/ pc' = "done" /\ answer' = Error
  PROVE  FieldInv'
<1>1. CallInv'
  BY DEF FieldInv, CallInv
<1>2. KeysInv'
  BY DEF FieldInv, KeysInv
<1>3. ValuesInv'
  BY DEF FieldInv, ValuesInv
<1>4. AnswerInv'
  BY Sentinels DEF FieldInv, AnswerInv
<1> QED
  BY <1>1, <1>2, <1>3, <1>4 DEF FieldInv

\* While there are values, there is a match and a first value.
LEMMA ItemType ==
  ASSUME FieldInv, todo # <<>>
  PROVE  /\ match \in Found /\ match # Nothing
         /\ Item.value \in Values /\ Item.soft \in BOOLEAN /\ Tail(todo) \in Seq(Items)
         /\ Item.value.t \in {"str", "arr", "obj", "other"}
         /\ Item.value.t = "str" => Item.value.str \in Texts
         /\ Item.value.t = "arr" => Item.value.arr \in Seq(Values)
         /\ Item.value.t = "obj" => Item.value.obj \in Pairs
<1>1. match # Nothing /\ match \in Found /\ todo \in Seq(Items)
  BY DEF FieldInv, ValuesInv
<1>2. Item \in Items /\ Tail(todo) \in Seq(Items)
  BY <1>1, HeadTailProperties DEF Item
<1>3. Item.value \in Values /\ Item.soft \in BOOLEAN
  BY <1>2 DEF Items
<1> QED
  BY <1>1, <1>2, <1>3, ValueAssumption DEF Pairs

LEMMA ListTypes ==
  ASSUME FieldInv
  PROVE  /\ todo \in Seq(Items) /\ lookup \in Seq(Frames) /\ list \in Seq(Texts)
         /\ <<>> \in Seq(Frames)
BY EmptySeq DEF FieldInv, ValuesInv

LEMMA TargetType ==
  ASSUME match \in Found, NEW target \in Texts
  PROVE  TargetMapping(target) \in Texts \cup {Error}
<1>1. match.rest \in Texts
  BY DEF Found
<1>2. target \o match.rest \in Texts
  BY <1>1, JoinType
<1>3. Replace(target, "*", Replace(match.rest, "$", <<"$", "$">>)) \in Texts
  <2>1. <<"$", "$">> \in Texts
    <3>1. "$" \in Bytes
      BY DEF Bytes, Marks
    <3> HIDE DEF Bytes
    <3> QED
      BY <3>1 DEF Texts
  <2> QED
    BY <1>1, <2>1, ReplaceType
<1> QED
  BY <1>2, <1>3 DEF TargetMapping

LEMMA MapStringStep ==
  ASSUME FieldInv, MapString
  PROVE  FieldInv'
<1> DEFINE target == TargetMapping(Item.value.str)
<1>1. pc = "mapping" /\ todo # <<>> /\ Item.value.t = "str"
  BY DEF MapString, Mapping
<1>2. match # Nothing /\ Tail(todo) \in Seq(Items) /\ target \in Texts \cup {Error}
  BY <1>1, ItemType, TargetType
<1>3. UNCHANGED <<w, parsed, request, index, best, match, lookup>>
  BY DEF MapString
<1> HIDE DEF target
<1>4. \/ target = Error /\ Fail /\ list' = list
      \/ target # Error /\ Take /\ list' = Append(list, target) /\ pc' = pc /\ answer' = answer
  BY DEF MapString, target
<1>5. list' \in Seq(Texts)
  <2>1. list \in Seq(Texts)
    BY ListTypes
  <2>2. target # Error => Append(list, target) \in Seq(Texts)
    BY <1>2, <2>1, AppendProperties
  <2> QED
    BY <1>4, <2>1, <2>2
<1>6. /\ todo' \in Seq(Items)
      /\ \/ pc' = "mapping" /\ answer' = answer
         \/ pc' = "done" /\ answer' = Error
  BY <1>1, <1>2, <1>4, ListTypes DEF Fail, Take, Return
<1> QED
  BY <1>1, <1>2, <1>3, <1>5, <1>6, ListTypes, ValueStep

LEMMA MapArrayStep ==
  ASSUME FieldInv, MapArray
  PROVE  FieldInv'
<1> DEFINE items == Item.value.arr
           soft == [i \in 1..Len(items) |-> [value |-> items[i], soft |-> TRUE]]
<1>1. pc = "mapping" /\ todo # <<>> /\ Item.value.t = "arr"
  BY DEF MapArray, Mapping
<1>2. match # Nothing /\ Tail(todo) \in Seq(Items) /\ items \in Seq(Values)
  BY <1>1, ItemType
<1>3. soft \in Seq(Items)
  <2>1. Len(items) \in Nat /\ \A i \in 1..Len(items) : items[i] \in Values
    BY <1>2, ElementOfSeq, LenProperties
  <2> HIDE DEF items
  <2> QED
    BY <2>1 DEF Items
<1>4. todo' = soft \o Tail(todo)
      /\ UNCHANGED <<w, pc, parsed, request, index, best, match, lookup, list, answer>>
  BY DEF MapArray
<1> HIDE DEF soft
<1>5. todo' \in Seq(Items)
  BY <1>2, <1>3, <1>4, ConcatProperties
<1> QED
  BY <1>1, <1>2, <1>4, <1>5, ListTypes, ValueStep

\* An object whose conditions are searched from the first one.
LEMMA FrameType ==
  ASSUME NEW m \in Pairs
  PROVE  [map |-> m, j |-> 1] \in Frames
BY LenProperties DEF Frames, Pairs

LEMMA MapObjectStep ==
  ASSUME FieldInv, MapObject
  PROVE  FieldInv'
<1> DEFINE f == [map |-> Item.value.obj, j |-> 1]
<1>1. pc = "mapping" /\ todo # <<>> /\ Item.value.t = "obj"
  BY DEF MapObject, Mapping
<1>2. match # Nothing /\ f \in Frames
  <2>1. match # Nothing /\ Item.value.obj \in Pairs
    BY <1>1, ItemType
  <2> QED
    BY <2>1, FrameType
<1>3. lookup' = <<f>> /\ pc' = "conditions"
      /\ UNCHANGED <<w, parsed, request, index, best, match, todo, list, answer>>
  BY DEF MapObject
<1> HIDE DEF f
<1>4. lookup' \in Seq(Frames) /\ lookup' # <<>>
  BY <1>2, <1>3
<1> QED
  BY <1>1, <1>2, <1>3, <1>4, ListTypes, ValueStep

LEMMA MapOtherStep ==
  ASSUME FieldInv, MapOther
  PROVE  FieldInv'
<1>1. pc = "mapping" /\ todo # <<>> /\ todo' = Tail(todo)
      /\ UNCHANGED <<w, pc, parsed, request, index, best, match, lookup, list, answer>>
  BY DEF MapOther, Mapping, Take
<1> QED
  BY <1>1, ItemType, ListTypes, ValueStep

LEMMA FrontType ==
  ASSUME NEW S, NEW q \in Seq(S), q # <<>>
  PROVE  Front(q) \in Seq(S) /\ Len(Front(q)) = Len(q) - 1
<1>1. Len(q) \in Nat \ {0} /\ \A i \in 1..Len(q) : q[i] \in S
  BY EmptySeq, ElementOfSeq, LenProperties
<1>2. 1 \in Int /\ Len(q) - 1 \in Int /\ \A i \in 1..(Len(q) - 1) : q[i] \in S
  BY <1>1
<1>3. /\ Front(q) \in Seq(S)
      /\ Len(Front(q)) = IF 1 <= Len(q) - 1 THEN Len(q) - 1 - 1 + 1 ELSE 0
  BY <1>2, SubSeqProperties DEF Front
<1>4. \A n \in Nat \ {0} : n - 1 = IF 1 <= n - 1 THEN n - 1 - 1 + 1 ELSE 0
  OBVIOUS
<1> QED
  BY <1>1, <1>3, <1>4

\* The innermost object, and the condition that is next.
LEMMA TopType ==
  ASSUME FieldInv, lookup # <<>>
  PROVE  /\ Len(lookup) \in Nat \ {0} /\ Top \in Frames
         /\ Applying # {} => /\ Min(Applying) \in 1..Len(Top.map)
                             /\ Min(Applying) \in Applying
<1>1. Len(lookup) \in Nat \ {0} /\ Top \in Frames
  <2>1. lookup \in Seq(Frames) /\ Len(lookup) \in Nat /\ Len(lookup) # 0
    BY ListTypes, EmptySeq, LenProperties
  <2>2. Len(lookup) \in 1..Len(lookup)
    BY <2>1
  <2> QED
    BY <2>1, <2>2, ElementOfSeq DEF Top
<1>2. Applying \in SUBSET Nat /\ Applying \subseteq 1..Len(Top.map)
  BY <1>1 DEF Frames, Applying
<1>3. Applying # {} => Min(Applying) \in Applying
  BY <1>2, MinIs
<1> QED
  BY <1>1, <1>2, <1>3

LEMMA AdvancedType ==
  ASSUME FieldInv, lookup # <<>>, NEW i \in 1..Len(Top.map)
  PROVE  Advanced(i) \in Seq(Frames)
<1> DEFINE f == [Top EXCEPT !.j = i + 1]
<1>1. Top \in Frames /\ Len(lookup) \in 1..Len(lookup) /\ lookup \in Seq(Frames)
  BY TopType, ListTypes
<1>2. f \in Frames
  <2>1. Top.map \in Pairs /\ Top.j \in Nat /\ Top = [map |-> Top.map, j |-> Top.j]
    BY <1>1 DEF Frames
  <2>2. Len(Top.map) \in Nat
    BY <2>1, LenProperties DEF Pairs
  <2>3. f = [map |-> Top.map, j |-> i + 1]
    BY <2>1
  <2> HIDE DEF f
  <2> QED
    BY <2>1, <2>2, <2>3 DEF Frames
<1> HIDE DEF f
<1>3. [lookup EXCEPT ![Len(lookup)] = f] \in Seq(Frames)
  BY <1>1, <1>2, ExceptSeq
<1>4. Advanced(i) = [lookup EXCEPT ![Len(lookup)] = f]
  BY DEF Advanced, f, Top
<1> QED
  BY <1>3, <1>4

LEMMA ConditionStep ==
  ASSUME FieldInv, Condition
  PROVE  FieldInv'
<1> DEFINE i == Min(Applying)
           value == Value(Top.map, i)
           f == [map |-> value.obj, j |-> 1]
           item == [value |-> value, soft |-> Item.soft]
<1>1. pc = "conditions" /\ lookup # <<>> /\ Applying # {} /\ todo # <<>>
  BY DEF Condition, FieldInv, ValuesInv
<1>2. UNCHANGED <<w, parsed, request, index, best, match, list>>
  BY DEF Condition
<1>3. i \in 1..Len(Top.map) /\ Top.map \in Pairs
  BY <1>1, TopType DEF Frames
<1>4. value \in Values /\ Advanced(i) \in Seq(Frames)
  BY <1>1, <1>3, PairType, AdvancedType
<1>5. match # Nothing /\ Tail(todo) \in Seq(Items) /\ Item.soft \in BOOLEAN
  BY <1>1, ItemType
<1>6. value.t = "obj" => f \in Frames
  <2>1. value.t = "obj" => value.obj \in Pairs
    BY <1>4, ValueAssumption DEF Pairs
  <2> HIDE DEF value
  <2> QED
    BY <2>1, FrameType
<1>7. item \in Items
  BY <1>4, <1>5 DEF Items
<1> HIDE DEF i
<1>8. \/ Fail /\ lookup' = <<>>
      \/ /\ value.t = "obj" /\ lookup' = Append(Advanced(i), f)
         /\ pc' = pc /\ todo' = todo /\ answer' = answer
      \/ /\ todo' = <<item>> \o Tail(todo) /\ lookup' = <<>> /\ pc' = "mapping"
         /\ answer' = answer
  BY DEF Condition, i
<1> HIDE DEF value, item, f
<1>9. CASE Fail /\ lookup' = <<>>
  <2>1. /\ todo' \in Seq(Items)
        /\ \/ pc' = "mapping" /\ answer' = answer
           \/ pc' = "done" /\ answer' = Error
    BY <1>5, <1>9, ListTypes DEF Fail, Take, Return
  <2> QED
    BY <1>1, <1>2, <1>5, <1>9, <2>1, ListTypes, ValueStep
<1>10. CASE /\ value.t = "obj" /\ lookup' = Append(Advanced(i), f)
            /\ pc' = pc /\ todo' = todo /\ answer' = answer
  <2>1. lookup' \in Seq(Frames) /\ lookup' # <<>>
    BY <1>4, <1>6, <1>10, AppendProperties
  <2> QED
    BY <1>1, <1>2, <1>5, <1>10, <2>1, ListTypes, ValueStep
<1>11. CASE /\ todo' = <<item>> \o Tail(todo) /\ lookup' = <<>> /\ pc' = "mapping"
            /\ answer' = answer
  <2>1. <<item>> \in Seq(Items)
    BY <1>7
  <2>2. todo' \in Seq(Items)
    BY <1>5, <1>11, <2>1, ConcatProperties
  <2> QED
    BY <1>1, <1>2, <1>5, <1>11, <2>2, ListTypes, ValueStep
<1> QED
  BY <1>8, <1>9, <1>10, <1>11

LEMMA ExhaustedStep ==
  ASSUME FieldInv, Exhausted
  PROVE  FieldInv'
<1>1. pc = "conditions" /\ lookup # <<>> /\ todo # <<>>
  BY DEF Exhausted, FieldInv, ValuesInv
<1>2. UNCHANGED <<w, parsed, request, index, best, match, list, answer>>
  BY DEF Exhausted
<1>3. match # Nothing /\ Tail(todo) \in Seq(Items)
  BY <1>1, ItemType
<1>4. lookup' \in Seq(Frames) /\ Len(lookup') = Len(lookup) - 1 /\ Len(lookup) \in Nat \ {0}
  BY <1>1, ListTypes, FrontType, TopType DEF Exhausted
<1>5. \/ todo' = Tail(todo) /\ pc' = "mapping"
      \/ Len(lookup) # 1 /\ todo' = todo /\ pc' = pc
  BY DEF Exhausted, Take
<1>6. pc' = "conditions" => lookup' # <<>>
  BY <1>4, <1>5, EmptySeq
<1>7. todo' \in Seq(Items)
  BY <1>3, <1>5, ListTypes
<1> QED
  BY <1>1, <1>2, <1>3, <1>4, <1>5, <1>6, <1>7, ListTypes, ValueStep

\* After the values: the targets are left, or there is an answer.
LEMMA ItemsStep ==
  ASSUME FieldInv, pc \in {"mapping", "items"},
         UNCHANGED <<w, parsed, request, index, best, match, todo, lookup>>,
         list' \in Seq(Texts),
         \/ pc' = "items" /\ answer' = answer
         \/ pc' = "done" /\ answer' \in {Error, Failed} \cup w.found
  PROVE  FieldInv'
<1>1. CallInv'
  BY DEF FieldInv, CallInv
<1>2. KeysInv'
  BY DEF FieldInv, KeysInv
<1>3. ValuesInv'
  BY DEF FieldInv, ValuesInv
<1>4. AnswerInv'
  <2>1. w.found \subseteq Texts
    BY WorldType DEF FieldInv
  <2> QED
    BY <2>1, Sentinels DEF FieldInv, AnswerInv
<1> QED
  BY <1>1, <1>2, <1>3, <1>4 DEF FieldInv

LEMMA MappedStep ==
  ASSUME FieldInv, Mapped
  PROVE  FieldInv'
BY ListTypes, ItemsStep DEF Mapped, Return

LEMMA TryItemStep ==
  ASSUME FieldInv, TryItem
  PROVE  FieldInv'
<1> DEFINE target == FromRequest[Head(list)].target
<1>1. pc = "items" /\ UNCHANGED <<w, parsed, request, index, best, match, todo, lookup>>
  BY DEF TryItem
<1>2. /\ list' = list \/ (list # <<>> /\ list' = Tail(list))
      /\ \/ pc' = pc /\ answer' = answer
         \/ Return(Failed) \/ Return(Error) \/ (target \in w.found /\ Return(target))
  BY DEF TryItem
<1>3. list' \in Seq(Texts)
  BY <1>2, ListTypes, HeadTailProperties
<1> HIDE DEF target
<1> QED
  BY <1>1, <1>2, <1>3, ItemsStep DEF Return

LEMMA TakeFirstStep ==
  ASSUME FieldInv, TakeFirst
  PROVE  FieldInv'
<1> DEFINE target == FromRequest[Head(list)].target
<1>1. pc = "items" /\ UNCHANGED <<w, parsed, request, index, best, match, todo, lookup, list>>
  BY DEF TakeFirst
<1>2. Return(Failed) \/ Return(Error) \/ (target \in w.found /\ Return(target))
  BY DEF TakeFirst
<1> HIDE DEF target
<1> QED
  BY <1>1, <1>2, ListTypes, ItemsStep DEF Return

LEMMA FieldStep ==
  ASSUME FieldInv, [Next]_vars
  PROVE  FieldInv'
<1>1. CASE UNCHANGED vars
  BY <1>1 DEF vars, FieldInv, CallInv, KeysInv, ValuesInv, AnswerInv
<1>2. CASE Next
  BY <1>2, ParseStep, ExportsRequestStep, ImportsRequestStep, ExportsKeysStep, ImportsKeysStep,
     ScanStep, MatchedStep, MapStringStep, MapArrayStep, MapObjectStep, MapOtherStep,
     ConditionStep, ExhaustedStep, MappedStep, TryItemStep, TakeFirstStep DEF Next
<1> QED
  BY <1>1, <1>2

-----------------------------------------------------------------------------
(* The choice of a key *)

\* Of the keys seen so far that fit, best beats all others.
Beaten(l) == l = BestKey \/ Beats(BestKey, l)
OrderInv ==
  pc = "scan" =>
    /\ best # 0 => Fits(BestKey)
    /\ \A i \in 1..index : Fits(Key(w.root.obj, i)) => best # 0 /\ Beaten(Key(w.root.obj, i))

\* One more key.
LEMMA ScanOrder ==
  ASSUME FieldInv, OrderInv, Scan
  PROVE  OrderInv'
<1> DEFINE m == w.root.obj
           new == Key(m, index + 1)
           better == Fits(new) /\ Precedes(new, BestKey)
<1>1. /\ pc = "scan" /\ pc' = pc /\ w' = w /\ request' = request
      /\ index' = index + 1 /\ index < Len(m)
      /\ best' = IF better THEN index + 1 ELSE best
  BY DEF Scan
<1>2. /\ m \in Pairs /\ Len(m) \in Nat /\ index \in Nat /\ BestKey \in Texts /\ request \in Texts
  BY <1>1, BestType DEF FieldInv, CallInv, KeysInv
<1>3. \A i \in 1..(index + 1) : Key(m, i) \in Texts
  BY <1>1, <1>2, PairType
<1>4. new \in Texts
  BY <1>2, <1>3
<1>5. \A k : Fits(k)' <=> Fits(k)
  BY <1>1 DEF Fits
<1>6. best # 0 => Fits(BestKey)
  BY <1>1 DEF OrderInv
<1>7. \A i \in 1..index : Fits(Key(m, i)) => best # 0 /\ Beaten(Key(m, i))
  BY <1>1 DEF OrderInv
<1>8. CASE ~better
  <2>1. best' = best /\ BestKey' = BestKey
    BY <1>1, <1>8 DEF BestKey
  <2>2. Fits(new) => best # 0 /\ Beaten(new)
    <3> SUFFICES ASSUME Fits(new)
                 PROVE  best # 0 /\ Beaten(new)
      OBVIOUS
    <3>1. ~Precedes(new, BestKey)
      BY <1>8
    <3>2. best # 0
      BY <1>4, <3>1, PrecedesNone DEF BestKey
    <3> QED
      BY <1>2, <1>4, <1>6, <3>1, <3>2, PrecedesBeats DEF Beaten
  <2>3. \A i \in 1..(index + 1) : i \in 1..index \/ i = index + 1
    BY <1>2
  <2>4. \A i \in 1..(index + 1) : Fits(Key(m, i)) => best # 0 /\ Beaten(Key(m, i))
    BY <1>7, <2>2, <2>3
  <2>5. \A l : Beaten(l)' <=> Beaten(l)
    BY <2>1 DEF Beaten
  <2>6. \A i : Key(m, i)' = Key(m, i)
    BY <1>1 DEF Key
  <2> HIDE DEF new
  <2> QED
    BY <1>1, <1>5, <1>6, <2>1, <2>4, <2>5, <2>6 DEF OrderInv
<1>9. CASE better
  <2>1. best' = index + 1 /\ BestKey' = new /\ best' # 0
    BY <1>1, <1>2, <1>9 DEF BestKey
  <2>2. \A k : Beats(new, k) => Beaten(k)'
    BY <2>1 DEF Beaten
  <2>3. ASSUME NEW i \in 1..(index + 1), Fits(Key(m, i))
        PROVE  Key(m, i) = new \/ Beats(new, Key(m, i))
    <3>1. CASE i = index + 1
      BY <3>1
    <3>2. CASE i \in 1..index
      <4> DEFINE l == Key(m, i)
      <4>1. best # 0 /\ Beaten(l) /\ l \in Texts
        BY <1>3, <1>7, <2>3, <3>2
      <4>2. new = BestKey \/ Beats(new, BestKey)
        BY <1>2, <1>4, <1>6, <1>9, <4>1, PrecedesBeats
      <4> HIDE DEF new, l
      <4> QED
        BY <1>2, <1>4, <4>1, <4>2, BeatsTransitive DEF Beaten, l
    <3> QED
      BY <1>2, <3>1, <3>2
  <2>4. \A i : Key(m, i)' = Key(m, i)
    BY <1>1 DEF Key
  <2>5. Fits(BestKey)'
    BY <1>5, <1>9, <2>1
  <2>6. \A l : l = new \/ Beats(new, l) => Beaten(l)'
    BY <2>1, <2>2 DEF Beaten
  <2> HIDE DEF new
  <2> QED
    BY <1>1, <1>5, <2>1, <2>3, <2>4, <2>5, <2>6 DEF OrderInv
<1> QED
  BY <1>8, <1>9

\* The loop begins with no key.
LEMMA OrderStep ==
  ASSUME FieldInv, OrderInv, [Next]_vars
  PROVE  OrderInv'
<1>1. CASE Scan
  BY <1>1, ScanOrder
<1>2. CASE ExportsKeys \/ ImportsKeys
  <2>1. index' = 0 /\ best' = 0
    BY <1>2 DEF ExportsKeys, ImportsKeys, FieldInv, KeysInv
  <2> QED
    BY <2>1 DEF OrderInv
<1>3. CASE UNCHANGED vars
  BY <1>3 DEF vars, OrderInv, BestKey, Beaten, Fits
<1>4. CASE Next /\ ~Scan /\ ~ExportsKeys /\ ~ImportsKeys
  <2>1. pc' # "scan"
    BY <1>4 DEF Next, ParseRequest, ExportsRequest, ImportsRequest, Matched, Ask, Return, Map,
       MapString, MapArray, MapObject, MapOther, Mapping, Fail, Take, Condition, Exhausted,
       Mapped, TryItem, TakeFirst
  <2> QED
    BY <2>1 DEF OrderInv
<1> QED
  BY <1>1, <1>2, <1>3, <1>4

LEMMA OrderBest ==
  ASSUME FieldInv, OrderInv
  PROVE  BestIsBest
<1> SUFFICES ASSUME pc = "scan"
             PROVE  LET seen == {Key(w.root.obj, i) : i \in 1..index}
                        fits == {k \in seen : Covers(k)}
                    IN IF best = 0 THEN fits = {}
                       ELSE BestKey \in fits /\ \A k \in fits \ {BestKey} : Beats(BestKey, k)
  BY DEF BestIsBest
<1> DEFINE seen == {Key(w.root.obj, i) : i \in 1..index}
<1>1. /\ w.root.obj \in Pairs /\ index \in Nat /\ index <= Len(w.root.obj)
      /\ Len(w.root.obj) \in Nat /\ best \in 0..index /\ request \in Texts
  BY BestType DEF FieldInv, CallInv, KeysInv
<1>2. \A i \in 1..index : Key(w.root.obj, i) \in Texts
  BY <1>1, PairType
<1>3. \A k \in seen : Fits(k) <=> Covers(k)
  BY <1>1, <1>2, FitsCovers
<1>4. best # 0 => BestKey \in seen /\ Fits(BestKey)
  BY <1>1 DEF OrderInv, BestKey
<1>5. \A k \in seen : Fits(k) => best # 0 /\ Beaten(k)
  BY DEF OrderInv
<1> QED
  BY <1>3, <1>4, <1>5 DEF Beaten

-----------------------------------------------------------------------------
(* The name of the module *)

\* The request of a field is what the sentence about the name says.
LEMMA RequestOfModule ==
  ASSUME FieldInv, ExportsRequest
  PROVE  ModuleSplit'
<1> DEFINE target == parsed.target
           c == IF StartsWith(target, <<"@">>) THEN 2 ELSE 1
           scoped == IF StartsWith(target, <<"@">>) THEN 1 ELSE 0
           n == SplitSlash(target)
           From(i) == SubSeq(target, i, Len(target))
<1>1. target \in Texts /\ Len(target) \in Nat /\ parsed' = parsed /\ w' = w
  BY ParsedType, TextType DEF FieldInv, ExportsRequest
<1>2. \A path : WithRest(path)' = WithRest(path)
  BY <1>1 DEF WithRest
<1>3. (answer' = Panic => Contains(target, "~"))
  <2>1. FieldInv'
    BY ExportsRequestStep
  <2> QED
    BY <1>1, <2>1 DEF FieldInv, AnswerInv
<1>4. ASSUME pc' = "keys", ~Contains(target, "~")
      PROVE  IF CountOf(target, "/") <= scoped
             THEN w.self /\ request' = WithRest(<<".">>)
             ELSE \E i \in 1..Len(target) :
                    /\ target[i] = "/" /\ CountOf(SubSeq(target, 1, i - 1), "/") = scoped
                    /\ request' = WithRest(<<".">> \o From(i))
  <2>1. c \in {1, 2} /\ scoped = c - 1 /\ n = BeforeSlash(target, c)
    BY DEF SplitSlash
  <2>2. CountOf(target, "/") \in Nat
    BY <1>1, SlashType
  <2>3. \/ n # NoSplit /\ request' = WithRest(<<".">> \o From(n + 1))
        \/ n = NoSplit /\ w.self /\ request' = WithRest(<<".">>)
    <3> HIDE DEF n
    <3> QED
      BY <1>4 DEF ExportsRequest, Ask, Return, n
  <2>4. IF CountOf(target, "/") < c THEN n = NoSplit
        ELSE \E i \in 1..Len(target) :
               /\ n = i - 1
               /\ target[i] = "/" /\ CountOf(SubSeq(target, 1, i - 1), "/") = c - 1
    BY <1>1, <1>4, <2>1, SlashSplit
  <2>5. CASE CountOf(target, "/") < c
    <3>1. n = NoSplit /\ CountOf(target, "/") <= scoped
      BY <2>1, <2>2, <2>4, <2>5
    <3> HIDE DEF n, scoped
    <3> QED
      BY <2>3, <3>1
  <2>6. CASE ~(CountOf(target, "/") < c)
    <3>1. PICK i \in 1..Len(target) :
            /\ n = i - 1
            /\ target[i] = "/" /\ CountOf(SubSeq(target, 1, i - 1), "/") = scoped
      BY <2>1, <2>4, <2>6
    <3>2. ~(CountOf(target, "/") <= scoped)
      BY <2>1, <2>2, <2>6
    <3>3. n # NoSplit /\ n + 1 = i
      BY <1>1, <3>1 DEF NoSplit
    <3> HIDE DEF n, scoped
    <3> QED
      BY <2>3, <3>1, <3>2, <3>3
  <2> QED
    BY <2>5, <2>6
<1> HIDE DEF target
<1> QED
  BY <1>1, <1>2, <1>3, <1>4 DEF ModuleSplit, target

LEMMA ModuleStep ==
  ASSUME FieldInv, ModuleSplit, [Next]_vars
  PROVE  ModuleSplit'
<1>1. CASE ExportsRequest
  BY <1>1, RequestOfModule
<1>2. CASE UNCHANGED vars
  BY <1>2 DEF vars, ModuleSplit, WithRest
<1>3. CASE ImportsRequest
  BY <1>3 DEF ImportsRequest, ModuleSplit
<1>4. CASE Next /\ ~ExportsRequest /\ ~ImportsRequest
  <2>1. pc' # "keys"
    BY <1>4 DEF Next, ParseRequest, ExportsKeys, ImportsKeys, FindInObject, MapRoot, Scan, Matched,
       Return, Map, MapString, MapArray, MapObject, MapOther, Mapping, Fail, Take, Condition,
       Exhausted, Mapped, TryItem, TakeFirst
  <2>2. answer' = Panic => Contains(parsed.target, "~")'
    <3>1. FieldInv'
      BY FieldStep
    <3> QED
      BY <3>1 DEF FieldInv, AnswerInv
  <2> QED
    BY <2>1, <2>2 DEF ModuleSplit
<1> QED
  BY <1>1, <1>2, <1>3, <1>4

-----------------------------------------------------------------------------
(* The theorems *)

LEMMA InvHolds == Spec => [](FieldInv /\ OrderInv /\ ModuleSplit)
<1>1. Init => FieldInv /\ OrderInv /\ ModuleSplit
  BY InitInv DEF Init, OrderInv, ModuleSplit
<1>2. FieldInv /\ OrderInv /\ ModuleSplit /\ [Next]_vars => (FieldInv /\ OrderInv /\ ModuleSplit)'
  BY FieldStep, OrderStep, ModuleStep
<1> QED
  BY <1>1, <1>2, PTL DEF Spec

\* Whatever request and field: every state is one the code can describe, and an
\* answer is there exactly when the call is done.
THEOREM TypeOKHolds == Spec => []TypeOK
<1>1. FieldInv => TypeOK
  <2> SUFFICES ASSUME FieldInv
               PROVE  TypeOK
    OBVIOUS
  <2>1. \A m \in Matches : m.folder \in BOOLEAN /\ m.pattern \in BOOLEAN
    BY DEF FieldInv, ValuesInv, Matches, Found
  <2>2. \A i \in 1..Len(todo) : todo[i].soft \in BOOLEAN
    <3>1. \A i \in 1..Len(todo) : todo[i] \in Items
      BY ListTypes, ElementOfSeq
    <3> QED
      BY <3>1 DEF Items
  <2>3. \A i \in 1..Len(lookup) : lookup[i].j \in 1..(Len(lookup[i].map) + 1)
    BY ListTypes, ElementOfSeq DEF Frames
  <2> QED
    BY <2>1, <2>2, <2>3 DEF FieldInv, CallInv, KeysInv, ValuesInv, AnswerInv, TypeOK
<1> QED
  BY <1>1, InvHolds, PTL

\* Whatever the text of a request or of a target is, the loop of
\* parse_identifier cuts it where the sentence about # and ? says.
THEOREM ParsedRightHolds == Spec => []ParsedRight
<1>1. FieldInv => ParsedRight
  <2> SUFFICES ASSUME FieldInv
               PROVE  ParsedRight
    OBVIOUS
  <2>1. pc = "request" => SplitRight(w.ident, parsed)
    BY ParsedType DEF FieldInv
  <2>2. \A target \in Targets : target \in Texts
    BY ListTypes, ElementOfSeq DEF Targets
  <2>3. \A target \in Targets : SplitRight(target, FromRequest[target])
    BY <2>2, RequestSplit
  <2> QED
    BY <2>1, <2>3 DEF ParsedRight
<1> QED
  BY <1>1, InvHolds, PTL

\* Whatever the request is, the exports field is asked for what follows the
\* name of the module, and only a character of several bytes panics.
THEOREM ModuleSplitHolds == Spec => []ModuleSplit
BY InvHolds, PTL

\* check_target, byte for byte, accepts a target exactly if no directory on its
\* way is outside the package.
THEOREM WalkAgreesHolds == Spec => []WalkAgrees
<1>1. FieldInv => WalkAgrees
  <2> SUFFICES ASSUME FieldInv, NEW target \in Targets
               PROVE  PlainNames(FromRequest[target].target) =>
                        (CheckTarget(FromRequest[target].target)
                           <=> Inside(FromRequest[target].target))
    BY DEF WalkAgrees
  <2>1. target \in Texts
    BY ListTypes, ElementOfSeq DEF Targets
  <2> QED
    BY <2>1, RequestSplit, WalkInside
<1> QED
  BY <1>1, InvHolds, PTL

\* Whatever the keys are and in whatever order, pattern_key_compare and the
\* loop over the keys choose the one that beats every other key of the request.
THEOREM BestIsBestHolds == Spec => []BestIsBest
<1>1. FieldInv /\ OrderInv => BestIsBest
  BY OrderBest
<1> QED
  BY <1>1, InvHolds, PTL
-----------------------------------------------------------------------------
(* What a value says, and the targets it stands for *)

Said == Values \cup {Nothing, Error}

\* The conditions of an object from the j-th on.
Says(m, i) ==
  IF Key(m, i) = Default /\ i < Len(m) THEN Error ELSE Chosen[Value(m, i)]
Saying(m, j) ==
  {i \in j..Len(m) : Key(m, i) \in {Default} \cup w.names /\ Says(m, i) # Nothing}
SaidFrom(m, j) ==
  IF Saying(m, j) = {} THEN Nothing ELSE Says(m, Min(Saying(m, j)))

\* One turn of the recursion of Chosen.
ChosenTurn(v, f) ==
  IF v.t # "obj" THEN v
  ELSE LET says(i) == IF Key(v.obj, i) = Default /\ i < Len(v.obj) THEN Error
                      ELSE f[Value(v.obj, i)]
           saying == {i \in 1..Len(v.obj) : /\ Key(v.obj, i) \in {Default} \cup w.names
                                           /\ says(i) # Nothing}
       IN IF saying = {} THEN Nothing ELSE says(Min(saying))

LEMMA InnerValues ==
  ASSUME NEW v \in Values
  PROVE  /\ Nesting[v] \in Nat
         /\ v.t \in {"str", "arr", "obj", "other"}
         /\ v.t = "str" => v.str \in Texts
         /\ v.t = "arr" =>
              /\ v.arr \in Seq(Values) /\ Len(v.arr) \in Nat
              /\ \A i \in 1..Len(v.arr) :
                   v.arr[i] \in Values /\ Nesting[v.arr[i]] < Nesting[v]
         /\ v.t = "obj" =>
              /\ v.obj \in Pairs /\ Len(v.obj) \in Nat
              /\ \A i \in 1..Len(v.obj) :
                   Value(v.obj, i) \in Values /\ Nesting[Value(v.obj, i)] < Nesting[v]
<1>1. /\ v.t \in {"str", "arr", "obj", "other"}
      /\ v.t = "str" => v.str \in Texts
      /\ v.t = "arr" => v.arr \in Seq(Values)
      /\ v.t = "obj" => v.obj \in Pairs
  BY ValueAssumption DEF Pairs
<1>2. /\ Nesting[v] \in Nat
      /\ v.t = "arr" => \A i \in 1..Len(v.arr) : Nesting[v.arr[i]] < Nesting[v]
      /\ v.t = "obj" => \A i \in 1..Len(v.obj) : Nesting[Value(v.obj, i)] < Nesting[v]
  BY NestingAssumption DEF Value
<1>3. v.t = "arr" => Len(v.arr) \in Nat /\ \A i \in 1..Len(v.arr) : v.arr[i] \in Values
  BY <1>1, ElementsOf
<1>4. v.t = "obj" => Len(v.obj) \in Nat /\ \A i \in 1..Len(v.obj) : Value(v.obj, i) \in Values
  <2> SUFFICES ASSUME v.t = "obj"
               PROVE  Len(v.obj) \in Nat /\ \A i \in 1..Len(v.obj) : Value(v.obj, i) \in Values
    OBVIOUS
  <2>1. v.obj \in Pairs
    BY <1>1
  <2>2. Len(v.obj) \in Nat
    BY <2>1, ElementsOf DEF Pairs
  <2> QED
    BY <2>1, <2>2, PairType
<1> QED
  BY <1>1, <1>2, <1>3, <1>4

LEMMA ChosenTurnType ==
  ASSUME NEW v \in Values, NEW f, \A u \in Values : Nesting[u] < Nesting[v] => f[u] \in Said
  PROVE  ChosenTurn(v, f) \in Said
<1> DEFINE says(i) == IF Key(v.obj, i) = Default /\ i < Len(v.obj) THEN Error
                      ELSE f[Value(v.obj, i)]
           saying == {i \in 1..Len(v.obj) : /\ Key(v.obj, i) \in {Default} \cup w.names
                                           /\ says(i) # Nothing}
<1>1. CASE v.t # "obj"
  BY <1>1 DEF ChosenTurn, Said
<1>2. CASE v.t = "obj" /\ saying = {}
  BY <1>2 DEF ChosenTurn, Said
<1>3. CASE v.t = "obj" /\ saying # {}
  <2>1. ChosenTurn(v, f) = says(Min(saying))
    BY <1>3 DEF ChosenTurn
  <2>2. \A i \in saying : i \in 1..Len(v.obj)
    OBVIOUS
  <2>3. Len(v.obj) \in Nat /\ saying \in SUBSET Nat
    BY <1>3, InnerValues
  <2>4. Min(saying) \in saying
    <3> HIDE DEF saying
    <3> QED
      BY <1>3, <2>3, MinIs
  <2>5. \A i \in 1..Len(v.obj) : says(i) \in Said
    BY <1>3, InnerValues DEF Said
  <2> HIDE DEF says, saying
  <2> QED
    BY <2>1, <2>2, <2>4, <2>5
<1> QED
  BY <1>1, <1>2, <1>3

LEMMA ChosenTurnSame ==
  ASSUME NEW v \in Values, NEW f, NEW g, \A u \in Values : Nesting[u] < Nesting[v] => f[u] = g[u]
  PROVE  ChosenTurn(v, f) = ChosenTurn(v, g)
<1> DEFINE says(i, h) == IF Key(v.obj, i) = Default /\ i < Len(v.obj) THEN Error
                         ELSE h[Value(v.obj, i)]
           saying(h) == {i \in 1..Len(v.obj) : /\ Key(v.obj, i) \in {Default} \cup w.names
                                              /\ says(i, h) # Nothing}
<1>1. CASE v.t # "obj"
  BY <1>1 DEF ChosenTurn
<1>2. CASE v.t = "obj"
  <2>1. \A i \in 1..Len(v.obj) : says(i, f) = says(i, g)
    BY <1>2, InnerValues
  <2>2. saying(f) = saying(g)
    <3> HIDE DEF says
    <3> QED
      BY <2>1
  <2>3. /\ ChosenTurn(v, f) = IF saying(f) = {} THEN Nothing ELSE says(Min(saying(f)), f)
        /\ ChosenTurn(v, g) = IF saying(g) = {} THEN Nothing ELSE says(Min(saying(g)), g)
    BY <1>2 DEF ChosenTurn
  <2>4. CASE saying(f) # {}
    <3>1. saying(f) \in SUBSET Nat /\ \A i \in saying(f) : i \in 1..Len(v.obj)
      BY <1>2, InnerValues
    <3>2. Min(saying(f)) \in 1..Len(v.obj)
      <4> HIDE DEF saying
      <4> QED
        BY <2>4, <3>1, MinIs
    <3> HIDE DEF says, saying
    <3> QED
      BY <2>1, <2>2, <2>3, <3>2
  <2>5. CASE saying(f) = {}
    <3> HIDE DEF says, saying
    <3> QED
      BY <2>2, <2>3, <2>5
  <2> QED
    BY <2>4, <2>5
<1> QED
  BY <1>1, <1>2

LEMMA ChosenIs ==
  \A v \in Values : Chosen[v] = ChosenTurn(v, Chosen) /\ Chosen[v] \in Said
<1> DEFINE G == [v \in Values |-> [f \in [Values -> Said] |-> ChosenTurn(v, f)]]
           Is(f) == f = [v \in Values |-> ChosenTurn(v, f)]
<1>1. Nesting \in [Values -> Nat] /\ Said # {}
  BY NestingAssumption DEF Said
<1>2. ASSUME NEW v \in Values, NEW f \in [Values -> Said]
      PROVE  ChosenTurn(v, f) \in Said
  BY ChosenTurnType
<1>3. G \in [Values -> [[Values -> Said] -> Said]]
  BY <1>2
<1>4. ASSUME NEW v \in Values, NEW f \in [Values -> Said], NEW g \in [Values -> Said],
             \A u \in Values : Nesting[u] < Nesting[v] => f[u] = g[u]
      PROVE  G[v][f] = G[v][g]
  BY <1>4, ChosenTurnSame
<1>5. PICK f \in [Values -> Said] : \A v \in Values : f[v] = G[v][f]
  <2> HIDE DEF G
  <2>1. LooksDown(Values, Said, Nesting, G)
    BY <1>4 DEF LooksDown
  <2>2. Solvable(Values, Said, G)
    BY <1>1, <1>3, <2>1, TreeRecursion
  <2> QED
    BY <2>2 DEF Solvable
<1>6. Is(f)
  BY <1>5
<1>7. Is(Chosen)
  <2>1. Chosen = CHOOSE g : Is(g)
    BY DEF Chosen, ChosenTurn
  <2> HIDE DEF Is
  <2> QED
    BY <1>6, <2>1
<1>8. \A v \in Values : Chosen[v] = ChosenTurn(v, Chosen)
  BY <1>7
<1> DEFINE T == {v \in Values : Chosen[v] \in Said}
<1>9. ASSUME NEW v \in Values, \A u \in Values : Nesting[u] < Nesting[v] => u \in T
      PROVE  v \in T
  <2>1. \A u \in Values : Nesting[u] < Nesting[v] => Chosen[u] \in Said
    BY <1>9
  <2>2. ChosenTurn(v, Chosen) \in Said
    BY <2>1, ChosenTurnType
  <2> QED
    BY <1>8, <2>2
<1>10. Values \subseteq T
  <2> HIDE DEF T
  <2> QED
    BY <1>1, <1>9, TreeInduction
<1> QED
  BY <1>8, <1>10

LEMMA ChosenSays ==
  ASSUME NEW v \in Values
  PROVE  Chosen[v] = IF v.t # "obj" THEN v ELSE SaidFrom(v.obj, 1)
BY ChosenIs DEF ChosenTurn, SaidFrom, Saying, Says

\* What is said is said by one of the conditions.
LEMMA SaidBy ==
  ASSUME NEW m \in Pairs, NEW j \in Nat \ {0}, Saying(m, j) # {}
  PROVE  /\ Min(Saying(m, j)) \in Saying(m, j)
         /\ Min(Saying(m, j)) \in j..Len(m) /\ Min(Saying(m, j)) \in 1..Len(m)
         /\ \A i \in Saying(m, j) : Min(Saying(m, j)) <= i
         /\ SaidFrom(m, j) = Says(m, Min(Saying(m, j)))
<1>1. Len(m) \in Nat
  BY ElementsOf DEF Pairs
<1>2. Saying(m, j) \in SUBSET Nat /\ \A i \in Saying(m, j) : i \in j..Len(m) /\ i \in 1..Len(m)
  BY <1>1 DEF Saying
<1>3. Min(Saying(m, j)) \in Saying(m, j) /\ \A i \in Saying(m, j) : Min(Saying(m, j)) <= i
  BY <1>2, MinIs
<1> QED
  BY <1>2, <1>3 DEF SaidFrom

\* What an object says is inside of it, and no object.
LEMMA ChosenInside ==
  \A v \in Values : Chosen[v] \in Values =>
    /\ Chosen[v].t # "obj"
    /\ v.t = "obj" => Nesting[Chosen[v]] < Nesting[v]
<1> DEFINE T == {v \in Values : Chosen[v] \in Values =>
                                  /\ Chosen[v].t # "obj"
                                  /\ v.t = "obj" => Nesting[Chosen[v]] < Nesting[v]}
<1>1. ASSUME NEW v \in Values, \A u \in Values : Nesting[u] < Nesting[v] => u \in T
      PROVE  v \in T
  <2>1. CASE v.t # "obj"
    BY <2>1, ChosenSays
  <2>2. CASE v.t = "obj"
    <3> SUFFICES ASSUME Chosen[v] \in Values
                 PROVE  Chosen[v].t # "obj" /\ Nesting[Chosen[v]] < Nesting[v]
      BY <2>2
    <3> DEFINE i == Min(Saying(v.obj, 1))
               u == Value(v.obj, i)
    <3>1. v.obj \in Pairs /\ 1 \in Nat \ {0} /\ Chosen[v] = SaidFrom(v.obj, 1)
      BY <2>2, InnerValues, ChosenSays
    <3>2. Saying(v.obj, 1) # {}
      BY <3>1, SentinelAssumption DEF SaidFrom
    <3>3. i \in 1..Len(v.obj) /\ Chosen[v] = Says(v.obj, i)
      BY <3>1, <3>2, SaidBy
    <3>4. Chosen[v] = Chosen[u]
      BY <3>3, SentinelAssumption DEF Says
    <3>5. u \in Values /\ Nesting[u] < Nesting[v] /\ Nesting[u] \in Nat /\ Nesting[v] \in Nat
      BY <2>2, <3>3, InnerValues
    <3>6. u.t # "obj" => Chosen[u] = u
      BY <3>5, ChosenSays
    <3> HIDE DEF u
    <3>7. Chosen[u].t # "obj" /\ (u.t = "obj" => Nesting[Chosen[u]] < Nesting[u])
      BY <1>1, <3>4, <3>5
    <3>8. Nesting[Chosen[u]] \in Nat
      BY <3>4, InnerValues
    <3>9. Nesting[Chosen[u]] < Nesting[v]
      BY <3>5, <3>6, <3>7, <3>8
    <3> QED
      BY <3>4, <3>7, <3>9
  <2> QED
    BY <2>1, <2>2
<1>2. Nesting \in [Values -> Nat]
  BY NestingAssumption
<1>3. Values \subseteq T
  <2> HIDE DEF T
  <2> QED
    BY <1>1, <1>2, TreeInduction
<1> QED
  BY <1>3

Stood == Seq(Texts) \cup {Error}

\* One turn of the recursion of TargetsOf.
TargetsTurn(v, f) ==
  CASE v.t = "str" ->
         IF GoodTarget(v.str, match.folder /\ match.rest # <<>>) THEN << Filled(v.str) >> ELSE Error
    [] v.t = "arr" -> FlattenSeq([i \in 1..Len(v.arr) |-> Kept(f[v.arr[i]])])
    [] v.t = "obj" ->
         LET c == Chosen[v]
         IN IF c = Nothing THEN <<>> ELSE IF c = Error THEN Error ELSE f[c]
    [] OTHER -> <<>>

LEMMA FilledType ==
  ASSUME match \in Found, NEW x \in Texts
  PROVE  Filled(x) \in Texts
<1>1. match.rest \in Texts
  BY DEF Found
<1>2. x \o match.rest \in Texts
  BY <1>1, JoinType
<1>3. Replace(x, "*", match.rest) \in Texts
  BY <1>1, ReplaceType
<1> QED
  BY <1>2, <1>3 DEF Filled, Replace

LEMMA KeptType ==
  ASSUME NEW x \in Stood
  PROVE  Kept(x) \in Seq(Texts)
BY EmptySeq DEF Kept, Stood

LEMMA TargetsTurnType ==
  ASSUME match \in Found, NEW v \in Values, NEW f,
         \A u \in Values : Nesting[u] < Nesting[v] => f[u] \in Stood
  PROVE  TargetsTurn(v, f) \in Stood
<1>1. CASE v.t = "str"
  <2>1. Filled(v.str) \in Texts
    BY <1>1, InnerValues, FilledType
  <2>2. << Filled(v.str) >> \in Seq(Texts)
    BY <2>1
  <2> QED
    BY <1>1, <2>2 DEF TargetsTurn, Stood
<1>2. CASE v.t = "arr"
  <2>1. Len(v.arr) \in Nat /\ \A i \in 1..Len(v.arr) : Kept(f[v.arr[i]]) \in Seq(Texts)
    BY <1>2, InnerValues, KeptType
  <2>2. [i \in 1..Len(v.arr) |-> Kept(f[v.arr[i]])] \in Seq(Seq(Texts))
    BY <2>1
  <2>3. FlattenSeq([i \in 1..Len(v.arr) |-> Kept(f[v.arr[i]])]) \in Seq(Texts)
    BY <2>2, FlattenInSeq
  <2> QED
    BY <1>2, <2>3 DEF TargetsTurn, Stood
<1>3. CASE v.t = "obj"
  <2>1. Chosen[v] \notin {Nothing, Error} => f[Chosen[v]] \in Stood
    BY <1>3, ChosenIs, ChosenInside DEF Said
  <2>2. <<>> \in Seq(Texts)
    BY EmptySeq
  <2> QED
    BY <1>3, <2>1, <2>2 DEF TargetsTurn, Stood
<1>4. CASE v.t \notin {"str", "arr", "obj"}
  BY <1>4, EmptySeq DEF TargetsTurn, Stood
<1> QED
  BY <1>1, <1>2, <1>3, <1>4

LEMMA TargetsTurnSame ==
  ASSUME NEW v \in Values, NEW f, NEW g, \A u \in Values : Nesting[u] < Nesting[v] => f[u] = g[u]
  PROVE  TargetsTurn(v, f) = TargetsTurn(v, g)
<1>1. CASE v.t = "arr"
  <2>1. \A i \in 1..Len(v.arr) : Kept(f[v.arr[i]]) = Kept(g[v.arr[i]])
    BY <1>1, InnerValues
  <2>2. [i \in 1..Len(v.arr) |-> Kept(f[v.arr[i]])] = [i \in 1..Len(v.arr) |-> Kept(g[v.arr[i]])]
    BY <2>1
  <2> QED
    BY <1>1, <2>2 DEF TargetsTurn
<1>2. CASE v.t = "obj"
  <2>1. Chosen[v] \notin {Nothing, Error} => f[Chosen[v]] = g[Chosen[v]]
    BY <1>2, ChosenIs, ChosenInside DEF Said
  <2> QED
    BY <1>2, <2>1 DEF TargetsTurn
<1>3. CASE v.t \notin {"arr", "obj"}
  BY <1>3 DEF TargetsTurn
<1> QED
  BY <1>1, <1>2, <1>3

LEMMA TargetsAre ==
  ASSUME match \in Found
  PROVE  \A v \in Values : TargetsOf[v] = TargetsTurn(v, TargetsOf) /\ TargetsOf[v] \in Stood
<1> DEFINE G == [v \in Values |-> [f \in [Values -> Stood] |-> TargetsTurn(v, f)]]
           Is(f) == f = [v \in Values |-> TargetsTurn(v, f)]
<1>1. Nesting \in [Values -> Nat] /\ Stood # {}
  BY NestingAssumption DEF Stood
<1>2. ASSUME NEW v \in Values, NEW f \in [Values -> Stood]
      PROVE  TargetsTurn(v, f) \in Stood
  BY TargetsTurnType
<1>3. G \in [Values -> [[Values -> Stood] -> Stood]]
  BY <1>2
<1>4. ASSUME NEW v \in Values, NEW f \in [Values -> Stood], NEW g \in [Values -> Stood],
             \A u \in Values : Nesting[u] < Nesting[v] => f[u] = g[u]
      PROVE  G[v][f] = G[v][g]
  BY <1>4, TargetsTurnSame
<1>5. PICK f \in [Values -> Stood] : \A v \in Values : f[v] = G[v][f]
  <2> HIDE DEF G
  <2>1. LooksDown(Values, Stood, Nesting, G)
    BY <1>4 DEF LooksDown
  <2>2. Solvable(Values, Stood, G)
    BY <1>1, <1>3, <2>1, TreeRecursion
  <2> QED
    BY <2>2 DEF Solvable
<1>6. Is(f)
  BY <1>5
<1>7. Is(TargetsOf)
  BY <1>6 DEF TargetsOf, TargetsTurn
<1>8. \A v \in Values : TargetsOf[v] = TargetsTurn(v, TargetsOf)
  BY <1>7
<1> DEFINE T == {v \in Values : TargetsOf[v] \in Stood}
<1>9. ASSUME NEW v \in Values, \A u \in Values : Nesting[u] < Nesting[v] => u \in T
      PROVE  v \in T
  <2>1. \A u \in Values : Nesting[u] < Nesting[v] => TargetsOf[u] \in Stood
    BY <1>9
  <2>2. TargetsTurn(v, TargetsOf) \in Stood
    BY <2>1, TargetsTurnType
  <2> QED
    BY <1>8, <2>2
<1>10. Values \subseteq T
  <2> HIDE DEF T
  <2> QED
    BY <1>1, <1>9, TreeInduction
<1> QED
  BY <1>8, <1>10

\* Both depend on the call and on the match only.
LEMMA TargetsSame ==
  ASSUME UNCHANGED <<w, match>>
  PROVE  Chosen' = Chosen /\ TargetsOf' = TargetsOf
<1>1. Chosen' = Chosen
  BY DEF Chosen
<1> QED
  BY <1>1 DEF TargetsOf, GoodTarget, Filled

\* A text without a dollar is put into a target as it is.
LEMMA ReplaceNone ==
  ASSUME NEW x \in Texts, NEW c, NEW y, ~Contains(x, c)
  PROVE  Replace(x, c, y) = x
<1>1. \A i \in 1..Len(x) : x[i] # c
  BY DEF Contains
<1>2. [i \in 1..Len(x) |-> IF x[i] = c THEN y ELSE <<x[i]>>] = [i \in 1..Len(x) |-> <<x[i]>>]
  BY <1>1
<1>3. Replace(x, c, y) = FlattenSeq([i \in 1..Len(x) |-> <<x[i]>>])
  BY <1>2 DEF Replace
<1> QED
  BY <1>3, FlattenEach DEF Texts

LEMMA MappingFills ==
  ASSUME match \in Found, ~Contains(match.rest, "$"), NEW x \in Texts
  PROVE  TargetMapping(x) = IF GoodTarget(x, match.folder /\ match.rest # <<>>)
                            THEN Filled(x) ELSE Error
<1>1. match.rest \in Texts /\ match.folder \in BOOLEAN /\ match.pattern \in BOOLEAN
  BY DEF Found
<1>2. Replace(match.rest, "$", <<"$", "$">>) = match.rest
  BY <1>1, ReplaceNone
<1>3. (match.rest # <<>> /\ match.folder) = (match.folder /\ match.rest # <<>>)
  BY <1>1
<1>4. Filled(x) = IF match.rest # <<>> /\ match.folder THEN x \o match.rest
                  ELSE IF match.rest # <<>> /\ match.pattern THEN Replace(x, "*", match.rest)
                       ELSE x
  BY <1>1 DEF Filled, Replace
<1> QED
  BY <1>2, <1>3, <1>4 DEF TargetMapping

-----------------------------------------------------------------------------
(* The loop over the values lists the targets *)

\* What the values still to be mapped add.
Coming(ts) == [i \in 1..Len(ts) |-> Kept(TargetsOf[ts[i].value])]

\* One value is left and nothing was added, or only items of arrays are left.
Whole ==
  /\ Len(todo) = 1 /\ ~Item.soft /\ list = <<>>
  /\ TargetsOf[Item.value] = TargetsOf[match.value]
Pieces ==
  /\ \A i \in 1..Len(todo) : todo[i].soft
  /\ TargetsOf[match.value] = list \o FlattenSeq(Coming(todo))

LEMMA ComingType ==
  ASSUME match \in Found, NEW ts \in Seq(Items)
  PROVE  /\ Coming(ts) \in Seq(Seq(Texts)) /\ Len(Coming(ts)) = Len(ts)
         /\ FlattenSeq(Coming(ts)) \in Seq(Texts)
<1>1. Len(ts) \in Nat /\ \A i \in 1..Len(ts) : ts[i].value \in Values
  <2>1. Len(ts) \in Nat /\ \A i \in 1..Len(ts) : ts[i] \in Items
    BY ElementsOf
  <2> QED
    BY <2>1 DEF Items
<1>2. \A i \in 1..Len(ts) : Kept(TargetsOf[ts[i].value]) \in Seq(Texts)
  BY <1>1, TargetsAre, KeptType
<1>3. Coming(ts) \in Seq(Seq(Texts)) /\ Len(Coming(ts)) = Len(ts)
  BY <1>1, <1>2 DEF Coming
<1> QED
  BY <1>3, FlattenInSeq

LEMMA ComingConcat ==
  ASSUME match \in Found, NEW ts \in Seq(Items), NEW us \in Seq(Items)
  PROVE  FlattenSeq(Coming(ts \o us)) = FlattenSeq(Coming(ts)) \o FlattenSeq(Coming(us))
<1>1. /\ Coming(ts) \in Seq(Seq(Texts)) /\ Len(Coming(ts)) = Len(ts)
      /\ Coming(us) \in Seq(Seq(Texts)) /\ Len(Coming(us)) = Len(us)
  BY ComingType
<1>2. Len(ts) \in Nat /\ Len(us) \in Nat
  BY ElementsOf
<1>3. /\ ts \o us \in Seq(Items) /\ Len(ts \o us) = Len(ts) + Len(us)
      /\ \A i \in 1..(Len(ts) + Len(us)) :
           (ts \o us)[i] = IF i <= Len(ts) THEN ts[i] ELSE us[i - Len(ts)]
  BY ConcatProperties
<1>4. /\ Coming(ts) \o Coming(us) \in Seq(Seq(Texts))
      /\ Len(Coming(ts) \o Coming(us)) = Len(ts) + Len(us)
      /\ \A i \in 1..(Len(ts) + Len(us)) :
           (Coming(ts) \o Coming(us))[i] =
             IF i <= Len(ts) THEN Coming(ts)[i] ELSE Coming(us)[i - Len(ts)]
  <2> DEFINE x == Coming(ts)
             y == Coming(us)
  <2>1. x \in Seq(Seq(Texts)) /\ y \in Seq(Seq(Texts)) /\ Len(x) = Len(ts) /\ Len(y) = Len(us)
    BY <1>1
  <2> HIDE DEF x, y
  <2>2. /\ x \o y \in Seq(Seq(Texts)) /\ Len(x \o y) = Len(x) + Len(y)
        /\ \A i \in 1..(Len(x) + Len(y)) :
             (x \o y)[i] = IF i <= Len(x) THEN x[i] ELSE y[i - Len(x)]
    BY <2>1, ConcatProperties
  <2> QED
    BY <2>1, <2>2 DEF x, y
<1>5. Coming(ts \o us) \in Seq(Seq(Texts)) /\ Len(Coming(ts \o us)) = Len(ts) + Len(us)
  BY <1>3, ComingType
<1>6. ASSUME NEW i \in 1..(Len(ts) + Len(us))
      PROVE  Coming(ts \o us)[i] = (Coming(ts) \o Coming(us))[i]
  <2>1. Coming(ts \o us)[i] = Kept(TargetsOf[(ts \o us)[i].value])
    BY <1>3 DEF Coming
  <2>2. CASE i <= Len(ts)
    <3>1. i \in 1..Len(ts)
      BY <1>2, <2>2
    <3>2. Coming(ts)[i] = Kept(TargetsOf[ts[i].value])
      BY <3>1 DEF Coming
    <3> QED
      BY <1>3, <1>4, <2>1, <2>2, <3>2
  <2>3. CASE ~(i <= Len(ts))
    <3>1. i - Len(ts) \in 1..Len(us)
      BY <1>2, <2>3
    <3>2. Coming(us)[i - Len(ts)] = Kept(TargetsOf[us[i - Len(ts)].value])
      BY <3>1 DEF Coming
    <3> QED
      BY <1>3, <1>4, <2>1, <2>3, <3>2
  <2> QED
    BY <2>2, <2>3
<1>7. Coming(ts \o us) = Coming(ts) \o Coming(us)
  <2> DEFINE x == Coming(ts \o us)
             y == Coming(ts) \o Coming(us)
  <2>1. x \in Seq(Seq(Texts)) /\ y \in Seq(Seq(Texts)) /\ Len(x) = Len(y)
        /\ \A i \in 1..Len(x) : x[i] = y[i]
    BY <1>4, <1>5, <1>6
  <2> HIDE DEF x, y
  <2>2. x = y
    BY <2>1, SeqEqual
  <2> QED
    BY <2>2 DEF x, y
<1> QED
  BY <1>1, <1>7, FlattenConcat

LEMMA ComingOne ==
  ASSUME match \in Found, NEW t \in Items
  PROVE  FlattenSeq(Coming(<<t>>)) = Kept(TargetsOf[t.value])
<1>1. Kept(TargetsOf[t.value]) \in Seq(Texts)
  BY TargetsAre, KeptType DEF Items
<1>2. Coming(<<t>>) = << Kept(TargetsOf[t.value]) >>
  <2>1. Len(<<t>>) = 1 /\ <<t>>[1] = t
    OBVIOUS
  <2>2. Coming(<<t>>) = [i \in 1..1 |-> Kept(TargetsOf[<<t>>[i].value])]
    BY <2>1 DEF Coming
  <2> QED
    BY <2>2
<1> QED
  BY <1>1, <1>2, FlattenOne

LEMMA ComingNone == FlattenSeq(Coming(<<>>)) = <<>>
<1>1. Coming(<<>>) = <<>>
  BY DEF Coming
<1> QED
  BY <1>1, FlattenNone

\* The first value and the others.
LEMMA TodoParts ==
  ASSUME FieldInv, todo # <<>>
  PROVE  /\ Item \in Items /\ Tail(todo) \in Seq(Items) /\ <<Item>> \in Seq(Items)
         /\ todo = <<Item>> \o Tail(todo)
         /\ Len(todo) \in Nat \ {0} /\ Len(Tail(todo)) = Len(todo) - 1
         /\ \A i \in 1..Len(Tail(todo)) : i + 1 \in 1..Len(todo) /\ Tail(todo)[i] = todo[i + 1]
<1>1. todo \in Seq(Items)
  BY ListTypes
<1>2. Len(todo) \in Nat \ {0}
  BY <1>1, ElementsOf
<1>3. /\ Item \in Items /\ Tail(todo) \in Seq(Items) /\ Len(Tail(todo)) = Len(todo) - 1
      /\ \A i \in 1..Len(Tail(todo)) : Tail(todo)[i] = todo[i + 1]
  BY <1>1, HeadTailProperties DEF Item
<1>4. \A i \in 1..Len(Tail(todo)) : i + 1 \in 1..Len(todo)
  BY <1>2, <1>3
<1>5. <<Item>> \in Seq(Items) /\ Len(<<Item>>) = 1 /\ <<Item>>[1] = Item
  BY <1>3
<1>6. /\ <<Item>> \o Tail(todo) \in Seq(Items)
      /\ Len(<<Item>> \o Tail(todo)) = 1 + (Len(todo) - 1)
      /\ \A i \in 1..(1 + (Len(todo) - 1)) :
           (<<Item>> \o Tail(todo))[i] = IF i <= 1 THEN <<Item>>[i] ELSE Tail(todo)[i - 1]
  <2> DEFINE x == <<Item>>
             y == Tail(todo)
  <2>1. x \in Seq(Items) /\ y \in Seq(Items) /\ Len(x) = 1 /\ Len(y) = Len(todo) - 1
    BY <1>3, <1>5
  <2> HIDE DEF x, y
  <2>2. /\ x \o y \in Seq(Items) /\ Len(x \o y) = Len(x) + Len(y)
        /\ \A i \in 1..(Len(x) + Len(y)) :
             (x \o y)[i] = IF i <= Len(x) THEN x[i] ELSE y[i - Len(x)]
    BY <2>1, ConcatProperties
  <2> QED
    BY <2>1, <2>2 DEF x, y
<1>7. ASSUME NEW i \in 1..Len(todo)
      PROVE  todo[i] = (<<Item>> \o Tail(todo))[i]
  <2>1. i \in 1..(1 + (Len(todo) - 1))
    BY <1>2
  <2>2. CASE i = 1
    <3>1. todo[1] = Item
      BY DEF Item
    <3> QED
      BY <1>5, <1>6, <2>1, <2>2, <3>1
  <2>3. CASE i # 1
    <3>1. ~(i <= 1) /\ i - 1 \in 1..Len(Tail(todo)) /\ (i - 1) + 1 = i
      BY <1>2, <1>3, <2>3
    <3> QED
      BY <1>3, <1>6, <2>1, <3>1
  <2> QED
    BY <2>2, <2>3
<1>8. Len(<<Item>> \o Tail(todo)) = Len(todo)
  BY <1>2, <1>6
<1>9. todo = <<Item>> \o Tail(todo)
  <2> DEFINE x == <<Item>> \o Tail(todo)
  <2>1. x \in Seq(Items) /\ Len(x) = Len(todo) /\ \A i \in 1..Len(todo) : todo[i] = x[i]
    BY <1>6, <1>7, <1>8
  <2> HIDE DEF x
  <2>2. todo = x
    BY <1>1, <2>1, SeqEqual
  <2> QED
    BY <2>2 DEF x
<1> QED
  BY <1>2, <1>3, <1>4, <1>5, <1>9

Regrouped(a, b, c, d) == a \o ((b \o c) \o d) = (a \o b) \o (c \o d)
LEMMA JoinFour ==
  ASSUME NEW S, NEW a \in Seq(S), NEW b \in Seq(S), NEW c \in Seq(S), NEW d \in Seq(S)
  PROVE  Regrouped(a, b, c, d)
<1>1. c \o d \in Seq(S)
  BY ConcatProperties
<1>2. Associate(b, c, d) /\ Associate(a, b, c \o d)
  BY <1>1, Associated
<1> QED
  BY <1>2 DEF Regrouped, Associate

\* What is listed and what is coming is all, unless the value is an error.
LEMMA AllComing ==
  ASSUME FieldInv, todo # <<>>, Whole \/ Pieces, TargetsOf[Item.value] # Error \/ Item.soft
  PROVE  /\ TargetsOf[match.value]
              = list \o (Kept(TargetsOf[Item.value]) \o FlattenSeq(Coming(Tail(todo))))
         /\ \A i \in 1..Len(Tail(todo)) : Tail(todo)[i].soft
<1>1. match \in Found /\ list \in Seq(Texts) /\ Item \in Items /\ Tail(todo) \in Seq(Items)
  BY ItemType, ListTypes, TodoParts
<1>2. CASE Whole
  <2>1. Tail(todo) = <<>>
    BY <1>2, TodoParts, ElementsOf DEF Whole
  <2>2. TargetsOf[match.value] = Kept(TargetsOf[Item.value]) /\ list = <<>>
    BY <1>2 DEF Whole, Kept
  <2>3. Kept(TargetsOf[Item.value]) \in Seq(Texts)
    BY <1>1, TargetsAre, KeptType DEF Items
  <2>4. FlattenSeq(Coming(Tail(todo))) = <<>>
    BY <2>1, ComingNone
  <2> DEFINE x == Kept(TargetsOf[Item.value])
  <2>5. <<>> \o (x \o <<>>) = x
    <3>1. x \in Seq(Texts)
      BY <2>3
    <3> HIDE DEF x
    <3> QED
      BY <3>1, ConcatEmptySeq
  <2>6. \A i \in 1..Len(Tail(todo)) : Tail(todo)[i].soft
    BY <1>2, TodoParts DEF Whole
  <2>7. TargetsOf[match.value] = list \o (x \o FlattenSeq(Coming(Tail(todo))))
    BY <2>2, <2>4, <2>5
  <2> QED
    BY <2>6, <2>7
<1>3. CASE Pieces
  <2>1. FlattenSeq(Coming(<<Item>> \o Tail(todo)))
          = FlattenSeq(Coming(<<Item>>)) \o FlattenSeq(Coming(Tail(todo)))
    BY <1>1, TodoParts, ComingConcat
  <2>2. FlattenSeq(Coming(todo)) = Kept(TargetsOf[Item.value]) \o FlattenSeq(Coming(Tail(todo)))
    BY <1>1, <2>1, TodoParts, ComingOne
  <2> QED
    BY <1>3, <2>2, TodoParts DEF Pieces
<1> QED
  BY <1>2, <1>3

LEMMA PiecesNext ==
  ASSUME UNCHANGED <<w, match>>, \A i \in 1..Len(todo') : todo'[i].soft,
         TargetsOf[match.value] = list' \o FlattenSeq(Coming(todo'))
  PROVE  Pieces'
BY TargetsSame DEF Pieces, Coming

\* The first value is replaced by the items inside of it.
LEMMA Replaced ==
  ASSUME FieldInv, todo # <<>>, Whole \/ Pieces, UNCHANGED <<w, match>>,
         NEW ts \in Seq(Items), NEW xs \in Seq(Texts),
         todo' = ts \o Tail(todo), list' = list \o xs,
         \A i \in 1..Len(ts) : ts[i].soft,
         Kept(TargetsOf[Item.value]) = xs \o FlattenSeq(Coming(ts)),
         TargetsOf[Item.value] # Error \/ Item.soft
  PROVE  Pieces'
<1> DEFINE a == FlattenSeq(Coming(ts))
           b == FlattenSeq(Coming(Tail(todo)))
<1>1. match \in Found /\ list \in Seq(Texts) /\ Tail(todo) \in Seq(Items)
  BY ItemType, ListTypes
<1>2. a \in Seq(Texts) /\ b \in Seq(Texts)
  BY <1>1, ComingType
<1>3. FlattenSeq(Coming(ts \o Tail(todo))) = a \o b
  BY <1>1, ComingConcat
<1>4. /\ TargetsOf[match.value] = list \o ((xs \o a) \o b)
      /\ \A i \in 1..Len(Tail(todo)) : Tail(todo)[i].soft
  BY AllComing
<1>5. \A i \in 1..Len(todo') : todo'[i].soft
  <2>1. /\ Len(todo') = Len(ts) + Len(Tail(todo))
        /\ \A i \in 1..(Len(ts) + Len(Tail(todo))) :
             todo'[i] = IF i <= Len(ts) THEN ts[i] ELSE Tail(todo)[i - Len(ts)]
    BY <1>1, ConcatProperties
  <2>2. Len(ts) \in Nat /\ Len(Tail(todo)) \in Nat
    BY <1>1, ElementsOf
  <2>3. ASSUME NEW i \in 1..Len(todo')
        PROVE  todo'[i].soft
    <3>1. CASE i <= Len(ts)
      <4>1. i \in 1..Len(ts) /\ i \in 1..(Len(ts) + Len(Tail(todo)))
        BY <2>1, <2>2, <3>1
      <4> QED
        BY <2>1, <3>1, <4>1
    <3>2. CASE ~(i <= Len(ts))
      <4>1. i - Len(ts) \in 1..Len(Tail(todo)) /\ i \in 1..(Len(ts) + Len(Tail(todo)))
        BY <2>1, <2>2, <3>2
      <4> QED
        BY <1>4, <2>1, <3>2, <4>1
    <3> QED
      BY <3>1, <3>2
  <2> QED
    BY <2>3
<1> HIDE DEF a, b
<1>6. list \o ((xs \o a) \o b) = (list \o xs) \o (a \o b)
  <2>1. Regrouped(list, xs, a, b)
    BY <1>1, <1>2, JoinFour
  <2> QED
    BY <2>1 DEF Regrouped
<1>7. TargetsOf[match.value] = list' \o FlattenSeq(Coming(todo'))
  BY <1>3, <1>4, <1>6
<1> QED
  BY <1>5, <1>7, PiecesNext

\* The first value is replaced by one that stands for the same targets.
LEMMA Swapped ==
  ASSUME FieldInv, todo # <<>>, Whole \/ Pieces, UNCHANGED <<w, match, list>>,
         NEW t \in Items, t.soft = Item.soft, TargetsOf[t.value] = TargetsOf[Item.value],
         todo' = <<t>> \o Tail(todo)
  PROVE  (Whole \/ Pieces)'
<1>1. match \in Found /\ list \in Seq(Texts) /\ <<t>> \in Seq(Items) /\ <<>> \in Seq(Texts)
  BY ItemType, ListTypes, EmptySeq
<1>2. CASE Whole
  <2>1. Tail(todo) = <<>>
    BY <1>2, TodoParts, ElementsOf DEF Whole
  <2>2. todo' = <<t>>
    BY <1>1, <2>1, ConcatEmptySeq
  <2>3. Item' = t /\ Len(todo') = 1
    BY <2>2 DEF Item
  <2>4. TargetsOf' = TargetsOf
    BY TargetsSame
  <2> QED
    BY <1>2, <2>3, <2>4 DEF Whole
<1>3. CASE Pieces
  <2>1. Item.soft
    BY <1>3, TodoParts DEF Pieces, Item
  <2>2. Kept(TargetsOf[Item.value]) = <<>> \o FlattenSeq(Coming(<<t>>))
    <3>1. FlattenSeq(Coming(<<t>>)) = Kept(TargetsOf[Item.value])
      BY <1>1, ComingOne
    <3>2. FlattenSeq(Coming(<<t>>)) \in Seq(Texts)
      BY <1>1, ComingType
    <3> QED
      BY <3>1, <3>2, ConcatEmptySeq
  <2>3. list' = list \o <<>>
    BY <1>1, ConcatEmptySeq
  <2>4. \A i \in 1..Len(<<t>>) : <<t>>[i].soft
    <3>1. t.soft
      BY <2>1
    <3>2. \A i \in 1..Len(<<t>>) : <<t>>[i] = t
      OBVIOUS
    <3> QED
      BY <3>1, <3>2
  <2>5. Pieces'
    BY <1>1, <1>3, <2>1, <2>2, <2>3, <2>4, Replaced
  <2> QED
    BY <2>5
<1> QED
  BY <1>2, <1>3

-----------------------------------------------------------------------------
(* The loop over the conditions finds what an object says *)

Applied(m, j) == {i \in j..Len(m) : Key(m, i) \in {Default} \cup w.names}

LEMMA AppliedType ==
  ASSUME NEW m \in Pairs, NEW j \in Nat \ {0}
  PROVE  /\ Saying(m, j) \subseteq Applied(m, j) /\ Applied(m, j) \in SUBSET Nat
         /\ \A i \in Applied(m, j) : i \in j..Len(m) /\ i \in 1..Len(m)
         /\ Len(m) \in Nat
<1>1. Len(m) \in Nat
  BY ElementsOf DEF Pairs
<1> QED
  BY <1>1 DEF Applied, Saying

\* The first condition that applies says it, or the next ones do.
LEMMA SaidNext ==
  ASSUME NEW m \in Pairs, NEW j \in Nat \ {0}, Applied(m, j) # {},
         NEW i, i = Min(Applied(m, j))
  PROVE  /\ i \in j..Len(m) /\ i \in 1..Len(m)
         /\ SaidFrom(m, j) = IF Says(m, i) # Nothing THEN Says(m, i) ELSE SaidFrom(m, i + 1)
<1>1. /\ i \in Applied(m, j) /\ i \in j..Len(m) /\ i \in 1..Len(m)
      /\ \A k \in Applied(m, j) : i <= k
  BY AppliedType, MinIs
<1>2. CASE Says(m, i) # Nothing
  <2>1. i \in Saying(m, j)
    BY <1>1, <1>2 DEF Saying, Applied
  <2>2. /\ Min(Saying(m, j)) \in Saying(m, j) /\ Min(Saying(m, j)) <= i
        /\ SaidFrom(m, j) = Says(m, Min(Saying(m, j))) /\ Min(Saying(m, j)) \in 1..Len(m)
    BY <2>1, SaidBy
  <2>3. i <= Min(Saying(m, j))
    BY <1>1, <2>2, AppliedType
  <2>4. i = Min(Saying(m, j))
    BY <1>1, <2>2, <2>3
  <2> QED
    BY <1>1, <1>2, <2>2, <2>4
<1>3. CASE Says(m, i) = Nothing
  <2>1. ASSUME NEW k
        PROVE  k \in Saying(m, j) <=> k \in Saying(m, i + 1)
    <3>1. CASE k \in Saying(m, j)
      <4>1. k \in Applied(m, j) /\ k \in j..Len(m) /\ k # i
        BY <1>3, <3>1, AppliedType DEF Saying
      <4>2. i <= k /\ Len(m) \in Nat
        BY <1>1, <4>1, AppliedType
      <4>3. k \in (i + 1)..Len(m)
        BY <1>1, <4>1, <4>2
      <4> QED
        BY <3>1, <4>3 DEF Saying
    <3>2. CASE k \in Saying(m, i + 1)
      <4>1. k \in (i + 1)..Len(m)
        BY <3>2 DEF Saying
      <4>2. k \in j..Len(m)
        BY <1>1, <4>1, AppliedType
      <4> QED
        BY <3>2, <4>2 DEF Saying
    <3> QED
      BY <3>1, <3>2
  <2>2. Saying(m, j) = Saying(m, i + 1)
    BY <2>1
  <2> QED
    BY <1>1, <1>3, <2>2 DEF SaidFrom
<1> QED
  BY <1>2, <1>3

\* The objects on the stack say what the innermost says that says something.
Frame(f) == SaidFrom(f.map, f.j)
Chain(ls) ==
  {h \in [0..Len(ls) -> Said] :
    /\ h[0] = Nothing
    /\ \A n \in 1..Len(ls) : h[n] = IF Frame(ls[n]) # Nothing THEN Frame(ls[n]) ELSE h[n - 1]}
Answering(ls, x) == \E h \in Chain(ls) : h[Len(ls)] = x

LEMMA SaidFromType ==
  ASSUME NEW m \in Pairs, NEW j \in Nat \ {0}
  PROVE  SaidFrom(m, j) \in Said
<1>1. CASE Saying(m, j) = {}
  BY <1>1 DEF SaidFrom, Said
<1>2. CASE Saying(m, j) # {}
  <2>1. Min(Saying(m, j)) \in 1..Len(m) /\ SaidFrom(m, j) = Says(m, Min(Saying(m, j)))
    BY <1>2, SaidBy
  <2>2. \A i \in 1..Len(m) : Says(m, i) \in Said
    BY PairType, ChosenIs DEF Says, Said
  <2> QED
    BY <2>1, <2>2
<1> QED
  BY <1>1, <1>2

LEMMA FrameSays ==
  ASSUME NEW f \in Frames
  PROVE  f.map \in Pairs /\ f.j \in Nat \ {0} /\ Frame(f) \in Said
<1>1. f.map \in Pairs /\ f.j \in Nat \ {0}
  BY DEF Frames
<1> QED
  BY <1>1, SaidFromType DEF Frame

\* One object.
LEMMA AnsweringOne ==
  ASSUME NEW f \in Frames
  PROVE  Answering(<<f>>, Frame(f))
<1> DEFINE h == [n \in 0..1 |-> IF n = 0 THEN Nothing ELSE Frame(f)]
           ls == <<f>>
<1>1. Len(ls) = 1 /\ ls[1] = f /\ Frame(f) \in Said /\ Nothing \in Said
  BY FrameSays DEF Said
<1>2. h \in [0..1 -> Said] /\ h[0] = Nothing /\ h[1] = Frame(f)
  BY <1>1
<1> HIDE DEF h, ls
<1>3. \A n \in 1..1 : h[n] = IF Frame(ls[n]) # Nothing THEN Frame(ls[n]) ELSE h[n - 1]
  BY <1>1, <1>2
<1>4. h \in Chain(ls) /\ h[Len(ls)] = Frame(f)
  BY <1>1, <1>2, <1>3 DEF Chain
<1>5. Answering(ls, Frame(f))
  BY <1>4 DEF Answering
<1> QED
  BY <1>5 DEF ls

\* The innermost object says something.
LEMMA AnsweringTop ==
  ASSUME NEW ls \in Seq(Frames), ls # <<>>, NEW x, Answering(ls, x),
         Frame(ls[Len(ls)]) # Nothing
  PROVE  x = Frame(ls[Len(ls)])
<1>1. Len(ls) \in Nat /\ Len(ls) \in 1..Len(ls)
  BY ElementsOf
<1> QED
  BY <1>1 DEF Answering, Chain

\* It says nothing: the object around it does.
LEMMA AnsweringPop ==
  ASSUME NEW ls \in Seq(Frames), ls # <<>>, NEW x, Answering(ls, x),
         Frame(ls[Len(ls)]) = Nothing
  PROVE  /\ Len(ls) = 1 => x = Nothing
         /\ Answering(Front(ls), x)
<1> DEFINE n == Len(ls) - 1
           us == Front(ls)
<1>1. Len(ls) \in Nat /\ n \in Nat /\ Len(ls) = n + 1 /\ 0..n \subseteq 0..Len(ls)
      /\ n + 1 \in 1..Len(ls) /\ (n + 1) - 1 = n
  BY ElementsOf
<1>2. PICK h \in Chain(ls) : h[Len(ls)] = x
  BY DEF Answering
<1>3. /\ h \in [0..Len(ls) -> Said] /\ h[0] = Nothing
      /\ \A k \in 1..Len(ls) : h[k] = IF Frame(ls[k]) # Nothing THEN Frame(ls[k]) ELSE h[k - 1]
  BY <1>2 DEF Chain
<1>4. us \in Seq(Frames) /\ Len(us) = n /\ \A k \in 1..n : us[k] = ls[k]
  <2>1. us \in Seq(Frames) /\ Len(us) = n
    BY FrontType
  <2>2. us = SubSeq(ls, 1, n)
    BY DEF Front
  <2>3. \A k \in 1..n : us[k] = ls[k]
    <3>1. n <= Len(ls)
      BY <1>1
    <3> HIDE DEF n, us
    <3>2. \A k \in 1..Len(SubSeq(ls, 1, n)) : SubSeq(ls, 1, n)[k] = ls[1 + k - 1]
      BY <1>1, <3>1, PartOf
    <3>3. \A k \in 1..n : 1 + k - 1 = k
      BY <1>1
    <3> QED
      BY <2>1, <2>2, <3>2, <3>3
  <2> QED
    BY <2>1, <2>3
<1> DEFINE g == [k \in 0..n |-> h[k]]
<1> HIDE DEF n, us
<1>5. x = h[n]
  BY <1>1, <1>2, <1>3
<1>6. g \in [0..n -> Said] /\ g[0] = Nothing /\ g[n] = x
  BY <1>1, <1>3, <1>5
<1>7. ASSUME NEW k \in 1..n
      PROVE  g[k] = IF Frame(us[k]) # Nothing THEN Frame(us[k]) ELSE g[k - 1]
  <2>1. k \in 1..Len(ls) /\ k \in 0..n /\ k - 1 \in 0..n
    BY <1>1
  <2>2. g[k] = h[k] /\ g[k - 1] = h[k - 1]
    BY <2>1
  <2> QED
    BY <1>3, <1>4, <2>1, <2>2
<1> HIDE DEF g
<1>8. g \in Chain(us) /\ g[Len(us)] = x
  BY <1>4, <1>6, <1>7 DEF Chain
<1>9. Answering(us, x)
  BY <1>8 DEF Answering
<1>10. Len(ls) = 1 => x = Nothing
  <2>1. Len(ls) = 1 => n = 0
    <3>1. n \in Nat /\ Len(ls) = n + 1
      BY <1>1
    <3>2. \A a \in Nat : a + 1 = 1 => a = 0
      OBVIOUS
    <3> QED
      BY <3>1, <3>2
  <2>2. h[0] = Nothing
    BY <1>3
  <2> QED
    BY <1>5, <2>1, <2>2
<1> QED
  BY <1>9, <1>10 DEF us

\* An object is searched inside another one, which goes on behind it.
LEMMA AnsweringPush ==
  ASSUME NEW ls \in Seq(Frames), ls # <<>>, NEW x, Answering(ls, x),
         NEW f \in Frames, NEW i \in Nat,
         NEW us \in Seq(Frames), Len(us) = Len(ls),
         \A k \in 1..Len(ls) : k # Len(ls) => us[k] = ls[k],
         Frame(ls[Len(ls)]) = IF Frame(f) # Nothing THEN Frame(f) ELSE Frame(us[Len(ls)])
  PROVE  Answering(Append(us, f), x)
<1> DEFINE n == Len(ls)
           vs == Append(us, f)
<1>1. n \in Nat \ {0} /\ n \in 1..n /\ n - 1 \in 0..n
  BY ElementsOf
<1>2. PICK h \in Chain(ls) : h[n] = x
  BY DEF Answering
<1>3. /\ h \in [0..n -> Said] /\ h[0] = Nothing
      /\ \A k \in 1..n : h[k] = IF Frame(ls[k]) # Nothing THEN Frame(ls[k]) ELSE h[k - 1]
  BY <1>2 DEF Chain
<1>4. /\ vs \in Seq(Frames) /\ Len(vs) = n + 1 /\ vs[n + 1] = f
      /\ \A k \in 1..n : vs[k] = us[k]
  BY AppendProperties
<1> DEFINE turn == IF Frame(us[n]) # Nothing THEN Frame(us[n]) ELSE h[n - 1]
           g == [k \in 0..(n + 1) |-> IF k < n THEN h[k] ELSE IF k = n THEN turn ELSE x]
<1>5. turn \in Said /\ x \in Said
  <2>1. us[n] \in Frames
    BY <1>1, ElementOfSeq
  <2>2. Frame(us[n]) \in Said
    BY <2>1, FrameSays
  <2> QED
    BY <1>1, <1>2, <1>3, <2>2
<1>6. x = IF Frame(f) # Nothing THEN Frame(f) ELSE turn
  <2>1. h[n] = IF Frame(ls[n]) # Nothing THEN Frame(ls[n]) ELSE h[n - 1]
    BY <1>1, <1>3
  <2> QED
    BY <1>2, <2>1
<1> HIDE DEF n, vs, turn
<1>7. /\ \A k \in 0..(n + 1) : k < n => k \in 0..n
      /\ 0 \in 0..(n + 1) /\ 0 < n /\ n \in 0..(n + 1) /\ ~(n < n)
      /\ n + 1 \in 0..(n + 1) /\ ~(n + 1 < n) /\ n + 1 # n
  BY <1>1
<1>8. g \in [0..(n + 1) -> Said]
  BY <1>3, <1>5, <1>7
<1>9. g[0] = Nothing /\ g[n] = turn /\ g[n + 1] = x
  BY <1>3, <1>7
<1>10. \A k \in 0..(n + 1) : k < n => g[k] = h[k]
  BY <1>7
<1> HIDE DEF g
<1>11. ASSUME NEW k \in 1..(n + 1)
       PROVE  g[k] = IF Frame(vs[k]) # Nothing THEN Frame(vs[k]) ELSE g[k - 1]
  <2>1. CASE k = n + 1
    <3>1. k - 1 = n
      BY <1>1, <2>1
    <3> QED
      BY <1>4, <1>6, <1>9, <2>1, <3>1
  <2>2. CASE k = n
    <3>1. k - 1 \in 0..(n + 1) /\ k - 1 < n /\ k \in 1..n
      BY <1>1, <2>2
    <3>2. g[k - 1] = h[n - 1] /\ vs[k] = us[n] /\ g[k] = turn
      BY <1>4, <1>9, <1>10, <2>2, <3>1
    <3> QED
      BY <3>2 DEF turn
  <2>3. CASE k # n /\ k # n + 1
    <3>1. k \in 1..n /\ k < n /\ k - 1 \in 0..(n + 1) /\ k - 1 < n /\ k \in 0..(n + 1)
      BY <1>1, <2>3
    <3>2. g[k] = h[k] /\ g[k - 1] = h[k - 1]
      BY <1>10, <3>1
    <3>3. us[k] = ls[k]
      BY <2>3, <3>1 DEF n
    <3>4. vs[k] = ls[k]
      BY <1>4, <3>1, <3>3
    <3> QED
      BY <1>3, <3>1, <3>2, <3>4
  <2> QED
    BY <2>1, <2>2, <2>3
<1>12. g \in Chain(vs) /\ g[Len(vs)] = x
  BY <1>4, <1>8, <1>9, <1>11 DEF Chain
<1>13. Answering(vs, x)
  BY <1>12 DEF Answering
<1> QED
  BY <1>13 DEF vs

\* What is on the stack is judged as before the step.
LEMMA AnsweringSame ==
  ASSUME UNCHANGED <<w, match>>, Answering(lookup', Chosen[Item'.value])
  PROVE  Answering(lookup, Chosen[Item.value])'
<1>1. Chosen' = Chosen /\ w' = w
  BY TargetsSame
<1>2. ASSUME NEW f
      PROVE  Frame(f)' = Frame(f)
  <2>1. ASSUME NEW i
        PROVE  Says(f.map, i)' = Says(f.map, i)
    BY <1>1 DEF Says
  <2>2. Saying(f.map, f.j)' = Saying(f.map, f.j)
    BY <1>1, <2>1 DEF Saying
  <2> QED
    BY <2>1, <2>2 DEF Frame, SaidFrom
<1>3. ASSUME NEW ls, NEW h
      PROVE  h \in Chain(ls)' <=> h \in Chain(ls)
  BY <1>2 DEF Chain
<1> QED
  BY <1>1, <1>3 DEF Answering

-----------------------------------------------------------------------------
(* The targets, step by step *)

TargetsInv ==
  /\ pc \in {"parse", "request", "keys", "scan"} => match = Nothing /\ list = <<>>
  /\ pc = "items" => todo = <<>>
  /\ match # Nothing /\ ~Contains(match.rest, "$") =>
       /\ pc \in {"mapping", "conditions"} => Whole \/ Pieces
       /\ pc = "conditions" => /\ Item.value.t = "obj"
                               /\ Answering(lookup, Chosen[Item.value])
       /\ pc = "done" /\ todo # <<>> => TargetsOf[match.value] = Error

\* A match whose targets are explained.
Plain == match # Nothing /\ ~Contains(match.rest, "$")

LEMMA MappingInv ==
  ASSUME TargetsInv, pc' = "mapping", UNCHANGED match, Plain => (Whole \/ Pieces)'
  PROVE  TargetsInv'
BY DEF TargetsInv, Plain

LEMMA ErrorInv ==
  ASSUME TargetsInv, pc' = "done", UNCHANGED <<w, match>>,
         Plain => TargetsOf[match.value] = Error
  PROVE  TargetsInv'
BY TargetsSame DEF TargetsInv, Plain

\* A value that is an error.
LEMMA FailInv ==
  ASSUME FieldInv, TargetsInv, pc \in {"mapping", "conditions"}, todo # <<>>,
         UNCHANGED <<w, match, list>>, Fail, Plain => TargetsOf[Item.value] = Error
  PROVE  TargetsInv'
<1>1. CASE Item.soft
  <2>1. pc' = "mapping" /\ todo' = Tail(todo)
    BY <1>1 DEF Fail, Take
  <2>2. ASSUME Plain
        PROVE  Pieces'
    <3>1. Whole \/ Pieces
      BY <2>2 DEF TargetsInv, Plain
    <3>2. <<>> \in Seq(Items) /\ <<>> \in Seq(Texts) /\ list \in Seq(Texts) /\ Tail(todo) \in Seq(Items)
      BY EmptySeq, ListTypes, ItemType
    <3>3. todo' = <<>> \o Tail(todo) /\ list' = list \o <<>>
      BY <2>1, <3>2, ConcatEmptySeq
    <3>4. Kept(TargetsOf[Item.value]) = <<>> \o FlattenSeq(Coming(<<>>))
      <4>1. Kept(TargetsOf[Item.value]) = <<>>
        BY <2>2 DEF Kept
      <4>2. <<>> \o <<>> = <<>>
        BY <3>2, ConcatEmptySeq
      <4> QED
        BY <4>1, <4>2, ComingNone
    <3>5. \A i \in 1..Len(<<>>) : (<<>>)[i].soft
      OBVIOUS
    <3> QED
      BY <1>1, <3>1, <3>2, <3>3, <3>4, <3>5, Replaced
  <2> QED
    BY <2>1, <2>2, MappingInv
<1>2. CASE ~Item.soft
  <2>1. pc' = "done"
    BY <1>2 DEF Fail, Return
  <2>2. ASSUME Plain
        PROVE  TargetsOf[match.value] = Error
    <3>1. Whole \/ Pieces
      BY <2>2 DEF TargetsInv, Plain
    <3>2. ~Pieces
      BY <1>2, TodoParts DEF Pieces, Item
    <3> QED
      BY <2>2, <3>1, <3>2 DEF Whole
  <2> QED
    BY <2>1, <2>2, ErrorInv
<1> QED
  BY <1>1, <1>2

LEMMA TargetsOfString ==
  ASSUME match \in Found, Plain, NEW v \in Values, v.t = "str"
  PROVE  TargetsOf[v] = IF TargetMapping(v.str) = Error THEN Error ELSE << TargetMapping(v.str) >>
<1>1. v.str \in Texts
  BY InnerValues
<1>2. TargetsOf[v] = TargetsTurn(v, TargetsOf)
  BY TargetsAre
<1>3. TargetMapping(v.str) = IF GoodTarget(v.str, match.folder /\ match.rest # <<>>)
                             THEN Filled(v.str) ELSE Error
  BY <1>1, MappingFills DEF Plain
<1>4. Filled(v.str) # Error
  BY <1>1, FilledType, Sentinels
<1> QED
  BY <1>2, <1>3, <1>4 DEF TargetsTurn

LEMMA MapStringTargets ==
  ASSUME FieldInv, TargetsInv, MapString
  PROVE  TargetsInv'
<1> DEFINE target == TargetMapping(Item.value.str)
<1>1. pc = "mapping" /\ todo # <<>> /\ Item.value.t = "str" /\ UNCHANGED <<w, match>>
  BY DEF MapString, Mapping
<1>2. match \in Found /\ Item.value \in Values /\ target \in Texts \cup {Error}
      /\ list \in Seq(Texts) /\ Tail(todo) \in Seq(Items)
  BY <1>1, ItemType, TargetType, ListTypes
<1>3. Plain => TargetsOf[Item.value] = IF target = Error THEN Error ELSE <<target>>
  BY <1>1, <1>2, TargetsOfString
<1> HIDE DEF target
<1>4. \/ target = Error /\ Fail /\ list' = list
      \/ target # Error /\ Take /\ list' = Append(list, target) /\ pc' = pc
  BY DEF MapString, target
<1>5. CASE target = Error
  BY <1>1, <1>3, <1>4, <1>5, FailInv
<1>6. CASE target # Error
  <2>1. todo' = Tail(todo) /\ list' = Append(list, target) /\ pc' = "mapping" /\ target \in Texts
    BY <1>1, <1>2, <1>4, <1>6 DEF Take
  <2>2. ASSUME Plain
        PROVE  Pieces'
    <3>1. Whole \/ Pieces
      BY <1>1, <2>2 DEF TargetsInv, Plain
    <3>2. <<>> \in Seq(Items) /\ <<target>> \in Seq(Texts)
      BY <2>1, EmptySeq
    <3>3. todo' = <<>> \o Tail(todo) /\ list' = list \o <<target>>
      BY <1>2, <2>1, <3>2, ConcatEmptySeq, AppendIsConcat
    <3>4. TargetsOf[Item.value] = <<target>> /\ TargetsOf[Item.value] # Error
      BY <1>3, <1>6, <2>2, <3>2, SentinelAssumption
    <3>5. Kept(TargetsOf[Item.value]) = <<target>> \o FlattenSeq(Coming(<<>>))
      <4>1. Kept(TargetsOf[Item.value]) = <<target>>
        BY <3>4 DEF Kept
      <4>2. <<target>> \o <<>> = <<target>>
        BY <3>2, ConcatEmptySeq
      <4> QED
        BY <4>1, <4>2, ComingNone
    <3>6. \A i \in 1..Len(<<>>) : (<<>>)[i].soft
      OBVIOUS
    <3> QED
      BY <1>1, <3>1, <3>2, <3>3, <3>4, <3>5, <3>6, Replaced
  <2> QED
    BY <1>1, <2>1, <2>2, MappingInv
<1> QED
  BY <1>5, <1>6

LEMMA MapArrayTargets ==
  ASSUME FieldInv, TargetsInv, MapArray
  PROVE  TargetsInv'
<1> DEFINE items == Item.value.arr
           ts == [i \in 1..Len(items) |-> [value |-> items[i], soft |-> TRUE]]
<1>1. pc = "mapping" /\ todo # <<>> /\ Item.value.t = "arr"
      /\ todo' = ts \o Tail(todo) /\ UNCHANGED <<w, pc, match, list>>
  BY DEF MapArray, Mapping
<1>2. match \in Found /\ Item.value \in Values /\ list \in Seq(Texts)
  BY <1>1, ItemType, ListTypes
<1>3. Len(items) \in Nat /\ \A i \in 1..Len(items) : items[i] \in Values
  BY <1>1, <1>2, InnerValues
<1>4. TargetsOf[Item.value] = FlattenSeq([i \in 1..Len(items) |-> Kept(TargetsOf[items[i]])])
  BY <1>1, <1>2, TargetsAre DEF TargetsTurn
<1> HIDE DEF items
<1>5. /\ ts \in Seq(Items) /\ Len(ts) = Len(items)
      /\ \A i \in 1..Len(ts) : ts[i].soft
      /\ \A i \in 1..Len(items) : ts[i].value = items[i]
  BY <1>3 DEF Items
<1> HIDE DEF ts
<1>6. Coming(ts) = [i \in 1..Len(items) |-> Kept(TargetsOf[items[i]])]
  BY <1>5 DEF Coming
<1>7. TargetsOf[Item.value] = FlattenSeq(Coming(ts)) /\ FlattenSeq(Coming(ts)) \in Seq(Texts)
  BY <1>2, <1>4, <1>5, <1>6, ComingType
<1>8. TargetsOf[Item.value] # Error
  BY <1>7, SentinelAssumption
<1>9. Kept(TargetsOf[Item.value]) = <<>> \o FlattenSeq(Coming(ts))
  BY <1>7, <1>8, ConcatEmptySeq DEF Kept
<1>10. <<>> \in Seq(Texts) /\ list' = list \o <<>>
  BY <1>1, <1>2, ConcatEmptySeq, EmptySeq
<1>11. ASSUME Plain
       PROVE  Pieces'
  <2>1. Whole \/ Pieces
    BY <1>1, <1>11 DEF TargetsInv, Plain
  <2> QED
    BY <1>1, <1>5, <1>8, <1>9, <1>10, <2>1, Replaced
<1> QED
  BY <1>1, <1>11, MappingInv

\* The first value adds nothing.
LEMMA NothingAdded ==
  ASSUME FieldInv, TargetsInv, pc \in {"mapping", "conditions"}, todo # <<>>, pc' = "mapping",
         todo' = Tail(todo), UNCHANGED <<w, match, list>>, Plain => TargetsOf[Item.value] = <<>>
  PROVE  TargetsInv'
<1>1. ASSUME Plain
      PROVE  Pieces'
  <2>1. Whole \/ Pieces
    BY <1>1 DEF TargetsInv, Plain
  <2>2. <<>> \in Seq(Items) /\ <<>> \in Seq(Texts) /\ list \in Seq(Texts) /\ Tail(todo) \in Seq(Items)
    BY EmptySeq, ListTypes, ItemType
  <2>3. todo' = <<>> \o Tail(todo) /\ list' = list \o <<>>
    BY <2>2, ConcatEmptySeq
  <2>4. TargetsOf[Item.value] = <<>> /\ TargetsOf[Item.value] # Error
    BY <1>1, <2>2, SentinelAssumption
  <2>5. Kept(TargetsOf[Item.value]) = <<>> \o FlattenSeq(Coming(<<>>))
    <3>1. Kept(TargetsOf[Item.value]) = <<>>
      BY <2>4 DEF Kept
    <3>2. <<>> \o <<>> = <<>>
      BY <2>2, ConcatEmptySeq
    <3> QED
      BY <3>1, <3>2, ComingNone
  <2>6. \A i \in 1..Len(<<>>) : (<<>>)[i].soft
    OBVIOUS
  <2> QED
    BY <2>1, <2>2, <2>3, <2>4, <2>5, <2>6, Replaced
<1> QED
  BY <1>1, MappingInv

LEMMA MapOtherTargets ==
  ASSUME FieldInv, TargetsInv, MapOther
  PROVE  TargetsInv'
<1>1. pc = "mapping" /\ todo # <<>> /\ Item.value.t = "other" /\ todo' = Tail(todo)
      /\ UNCHANGED <<w, pc, match, list>>
  BY DEF MapOther, Mapping, Take
<1>2. match \in Found /\ Item.value \in Values
  BY <1>1, ItemType
<1>3. TargetsOf[Item.value] = <<>>
  BY <1>1, <1>2, TargetsAre DEF TargetsTurn
<1> QED
  BY <1>1, <1>3, NothingAdded

\* Within the conditions of a value the list stays as it is.
LEMMA ConditionsInv ==
  ASSUME TargetsInv, pc \in {"mapping", "conditions"}, pc' = "conditions",
         UNCHANGED <<w, match, todo, list>>,
         Plain => Item.value.t = "obj" /\ Answering(lookup', Chosen[Item.value])
  PROVE  TargetsInv'
<1>1. ASSUME Plain
      PROVE  (Whole \/ Pieces)'
  <2>1. Whole \/ Pieces
    BY <1>1 DEF TargetsInv, Plain
  <2>2. CASE Whole
    BY <2>2, TargetsSame DEF Whole, Item
  <2>3. CASE Pieces
    BY <2>3, PiecesNext DEF Pieces
  <2> QED
    BY <2>1, <2>2, <2>3
<1>2. ASSUME Plain
      PROVE  Item'.value.t = "obj" /\ Answering(lookup, Chosen[Item.value])'
  <2>1. Item' = Item
    BY DEF Item
  <2> QED
    BY <1>2, <2>1, AnsweringSame
<1> QED
  BY <1>1, <1>2 DEF TargetsInv, Plain

LEMMA MapObjectTargets ==
  ASSUME FieldInv, TargetsInv, MapObject
  PROVE  TargetsInv'
<1> DEFINE f == [map |-> Item.value.obj, j |-> 1]
<1>1. pc = "mapping" /\ todo # <<>> /\ Item.value.t = "obj" /\ lookup' = <<f>>
      /\ pc' = "conditions" /\ UNCHANGED <<w, match, todo, list>>
  BY DEF MapObject, Mapping
<1>2. Item.value \in Values /\ Item.value.obj \in Pairs
  BY <1>1, ItemType
<1>3. f \in Frames /\ Frame(f) = Chosen[Item.value]
  BY <1>1, <1>2, FrameType, ChosenSays DEF Frame
<1> HIDE DEF f
<1>4. Answering(lookup', Chosen[Item.value])
  BY <1>1, <1>3, AnsweringOne
<1> QED
  BY <1>1, <1>4, ConditionsInv

\* What an object stands for.
LEMMA TargetsOfObject ==
  ASSUME match \in Found, NEW v \in Values, v.t = "obj"
  PROVE  /\ Chosen[v] = Error => TargetsOf[v] = Error
         /\ Chosen[v] = Nothing => TargetsOf[v] = <<>>
         /\ Chosen[v] \in Values => TargetsOf[v] = TargetsOf[Chosen[v]]
<1>1. Nothing # Error /\ Nothing \notin Values /\ Error \notin Values
  BY SentinelAssumption DEF Answers
<1>2. TargetsOf[v] = TargetsTurn(v, TargetsOf)
  BY TargetsAre
<1>3. TargetsOf[v] = IF Chosen[v] = Nothing THEN <<>>
                     ELSE IF Chosen[v] = Error THEN Error ELSE TargetsOf[Chosen[v]]
  BY <1>2 DEF TargetsTurn
<1> QED
  BY <1>1, <1>3

\* The condition that is next, and what the innermost object says from it on.
LEMMA NextCondition ==
  ASSUME FieldInv, lookup # <<>>, Applying # {}, NEW i, i = Min(Applying)
  PROVE  /\ Top \in Frames /\ Top.map \in Pairs /\ i \in 1..Len(Top.map)
         /\ Value(Top.map, i) \in Values
         /\ Frame(Top) = IF Says(Top.map, i) # Nothing THEN Says(Top.map, i)
                         ELSE SaidFrom(Top.map, i + 1)
<1>1. Top \in Frames /\ Top.map \in Pairs /\ Top.j \in Nat \ {0}
  BY TopType, FrameSays
<1>2. Applying = Applied(Top.map, Top.j)
  BY DEF Applying, Applied
<1>3. /\ i \in 1..Len(Top.map)
      /\ SaidFrom(Top.map, Top.j) = IF Says(Top.map, i) # Nothing THEN Says(Top.map, i)
                                    ELSE SaidFrom(Top.map, i + 1)
  BY <1>1, <1>2, SaidNext
<1> QED
  BY <1>1, <1>3, PairType DEF Frame

LEMMA AdvancedFrames ==
  ASSUME FieldInv, lookup # <<>>, NEW i \in 1..Len(Top.map)
  PROVE  /\ Advanced(i) \in Seq(Frames) /\ Len(Advanced(i)) = Len(lookup)
         /\ \A k \in 1..Len(lookup) : k # Len(lookup) => Advanced(i)[k] = lookup[k]
         /\ Frame(Advanced(i)[Len(lookup)]) = SaidFrom(Top.map, i + 1)
<1>1. Advanced(i) \in Seq(Frames)
  BY AdvancedType
<1>2. lookup \in Seq(Frames) /\ Len(lookup) \in 1..Len(lookup) /\ DOMAIN lookup = 1..Len(lookup)
      /\ Len(lookup) \in Nat
  BY ListTypes, TopType, ElementsOf
<1>3. Top \in Frames
  BY TopType
<1>4. Top = [map |-> Top.map, j |-> Top.j]
  BY <1>3 DEF Frames
<1>5. /\ DOMAIN Advanced(i) = 1..Len(lookup)
      /\ Advanced(i)[Len(lookup)] = [Top EXCEPT !.j = i + 1]
      /\ \A k \in 1..Len(lookup) : k # Len(lookup) => Advanced(i)[k] = lookup[k]
  BY <1>2 DEF Advanced, Top
<1>6. Len(Advanced(i)) = Len(lookup)
  BY <1>1, <1>2, <1>5, ElementsOf
<1>7. [Top EXCEPT !.j = i + 1] = [map |-> Top.map, j |-> i + 1]
  BY <1>4
<1> QED
  BY <1>1, <1>5, <1>6, <1>7 DEF Frame

LEMMA ConditionTargets ==
  ASSUME FieldInv, TargetsInv, Condition
  PROVE  TargetsInv'
<1> DEFINE i == Min(Applying)
           m == Top.map
           value == Value(Top.map, i)
           f == [map |-> value.obj, j |-> 1]
           item == [value |-> value, soft |-> Item.soft]
           early == Key(m, i) = Default /\ i # Len(m)
<1>1. pc = "conditions" /\ lookup # <<>> /\ Applying # {} /\ todo # <<>>
      /\ UNCHANGED <<w, match, list>>
  BY DEF Condition, FieldInv, ValuesInv
<1>2. match \in Found /\ Item.value \in Values /\ Item.soft \in BOOLEAN /\ lookup \in Seq(Frames)
  BY <1>1, ItemType, ListTypes
<1>3. i \in 1..Len(m) /\ m \in Pairs /\ value \in Values /\ Len(m) \in Nat
  BY <1>1, NextCondition, ElementsOf DEF Pairs
<1>4. Frame(Top) = IF Says(m, i) # Nothing THEN Says(m, i) ELSE SaidFrom(m, i + 1)
  BY <1>1, NextCondition
<1>5. Says(m, i) = IF early THEN Error ELSE Chosen[value]
  <2>1. i # Len(m) <=> i < Len(m)
    BY <1>3
  <2> QED
    BY <2>1 DEF Says
<1>6. Plain => Item.value.t = "obj" /\ Answering(lookup, Chosen[Item.value])
  BY <1>1 DEF TargetsInv, Plain
<1>7. \/ early /\ Fail
      \/ ~early /\ value.t = "obj" /\ lookup' = Append(Advanced(i), f)
         /\ pc' = pc /\ todo' = todo
      \/ ~early /\ value.t # "obj" /\ todo' = <<item>> \o Tail(todo) /\ pc' = "mapping"
  BY DEF Condition
<1>8. Nothing # Error /\ Nothing \notin Values
  BY SentinelAssumption DEF Answers
<1>9. Top = lookup[Len(lookup)]
  BY DEF Top
<1>10. /\ Advanced(i) \in Seq(Frames) /\ Len(Advanced(i)) = Len(lookup)
       /\ \A k \in 1..Len(lookup) : k # Len(lookup) => Advanced(i)[k] = lookup[k]
       /\ Frame(Advanced(i)[Len(lookup)]) = SaidFrom(m, i + 1)
  BY <1>1, <1>3, AdvancedFrames
<1>11. value.t = "obj" => f \in Frames /\ Frame(f) = Chosen[value]
  <2> SUFFICES ASSUME value.t = "obj" PROVE f \in Frames /\ Frame(f) = Chosen[value]
    OBVIOUS
  <2>1. value.obj \in Pairs /\ Chosen[value] = SaidFrom(value.obj, 1)
    BY <1>3, InnerValues, ChosenSays
  <2> HIDE DEF value
  <2> QED
    BY <2>1, FrameType DEF Frame
<1>12. value.t # "obj" => Chosen[value] = value
  BY <1>3, ChosenSays
<1>13. item \in Items /\ item.soft = Item.soft /\ item.value = value
  BY <1>2, <1>3 DEF Items
<1> HIDE DEF i, m, value, f, item, early
<1>14. CASE early /\ Fail
  <2>1. Frame(Top) = Error
    BY <1>4, <1>5, <1>8, <1>14
  <2>2. ASSUME Plain
        PROVE  TargetsOf[Item.value] = Error
    <3>1. Chosen[Item.value] = Error
      BY <1>1, <1>2, <1>6, <1>8, <1>9, <2>1, <2>2, AnsweringTop
    <3> QED
      BY <1>2, <1>6, <2>2, <3>1, TargetsOfObject
  <2> QED
    BY <1>1, <1>14, <2>2, FailInv
<1>15. CASE ~early /\ value.t = "obj" /\ lookup' = Append(Advanced(i), f)
            /\ pc' = pc /\ todo' = todo
  <2>1. ASSUME Plain
        PROVE  Answering(lookup', Chosen[Item.value])
    <3>1. Frame(lookup[Len(lookup)])
            = IF Frame(f) # Nothing THEN Frame(f) ELSE Frame(Advanced(i)[Len(lookup)])
      BY <1>4, <1>5, <1>9, <1>10, <1>11, <1>15
    <3>2. Answering(lookup, Chosen[Item.value]) /\ f \in Frames
      BY <1>6, <1>11, <1>15, <2>1
    <3>3. Answering(Append(Advanced(i), f), Chosen[Item.value])
      BY <1>1, <1>2, <1>10, <3>1, <3>2, AnsweringPush
    <3> QED
      BY <1>15, <3>3
  <2> QED
    BY <1>1, <1>6, <1>15, <2>1, ConditionsInv
<1>16. CASE ~early /\ value.t # "obj" /\ todo' = <<item>> \o Tail(todo) /\ pc' = "mapping"
  <2>1. Frame(Top) = value
    BY <1>3, <1>4, <1>5, <1>8, <1>12, <1>16
  <2>2. ASSUME Plain
        PROVE  (Whole \/ Pieces)'
    <3>1. Chosen[Item.value] = value
      BY <1>1, <1>2, <1>3, <1>6, <1>8, <1>9, <2>1, <2>2, AnsweringTop
    <3>2. TargetsOf[item.value] = TargetsOf[Item.value]
      BY <1>2, <1>3, <1>6, <1>13, <2>2, <3>1, TargetsOfObject
    <3>3. Whole \/ Pieces
      BY <1>1, <2>2 DEF TargetsInv, Plain
    <3> QED
      BY <1>1, <1>13, <1>16, <3>2, <3>3, Swapped
  <2> QED
    BY <1>1, <1>16, <2>2, MappingInv
<1> QED
  BY <1>7, <1>14, <1>15, <1>16

LEMMA ExhaustedTargets ==
  ASSUME FieldInv, TargetsInv, Exhausted
  PROVE  TargetsInv'
<1>1. pc = "conditions" /\ lookup # <<>> /\ Applying = {} /\ todo # <<>>
      /\ lookup' = Front(lookup) /\ UNCHANGED <<w, match, list>>
  BY DEF Exhausted, FieldInv, ValuesInv
<1>2. match \in Found /\ Item.value \in Values /\ lookup \in Seq(Frames)
  BY <1>1, ItemType, ListTypes
<1>3. Frame(lookup[Len(lookup)]) = Nothing
  <2>1. Top.map \in Pairs /\ Top.j \in Nat \ {0}
    BY <1>1, TopType, FrameSays
  <2>2. Applied(Top.map, Top.j) = {}
    BY <1>1 DEF Applying, Applied
  <2>3. Saying(Top.map, Top.j) = {}
    BY <2>1, <2>2, AppliedType
  <2> QED
    BY <2>3 DEF Frame, SaidFrom, Top
<1>4. ASSUME Plain
      PROVE  /\ Item.value.t = "obj" /\ Answering(lookup', Chosen[Item.value])
             /\ Len(lookup) = 1 => Chosen[Item.value] = Nothing
  <2>1. Item.value.t = "obj" /\ Answering(lookup, Chosen[Item.value])
    BY <1>1, <1>4 DEF TargetsInv, Plain
  <2> QED
    BY <1>1, <1>2, <1>3, <2>1, AnsweringPop
<1>5. CASE Len(lookup) = 1
  <2>1. pc' = "mapping" /\ todo' = Tail(todo)
    BY <1>5 DEF Exhausted, Take
  <2>2. Plain => TargetsOf[Item.value] = <<>>
    BY <1>2, <1>4, <1>5, TargetsOfObject
  <2> QED
    BY <1>1, <2>1, <2>2, NothingAdded
<1>6. CASE Len(lookup) # 1
  <2>1. pc' = "conditions" /\ todo' = todo
    BY <1>1, <1>6 DEF Exhausted
  <2> QED
    BY <1>1, <1>4, <2>1, ConditionsInv
<1> QED
  BY <1>5, <1>6

\* find_match: one value and an empty list.
LEMMA MatchInv ==
  ASSUME TargetsInv, pc \in {"keys", "scan"}, UNCHANGED list, NEW m, Map(m)
  PROVE  TargetsInv'
<1>1. match' = m /\ pc' = "mapping" /\ list' = <<>>
      /\ (m # Nothing => todo' = << [value |-> m.value, soft |-> FALSE] >>)
  BY DEF TargetsInv, Map
<1>2. ASSUME m # Nothing
      PROVE  Whole'
  <2> DEFINE t == [value |-> m.value, soft |-> FALSE]
  <2>1. todo' = <<t>>
    BY <1>1, <1>2
  <2>2. Len(todo') = 1 /\ Item' = t
    BY <2>1 DEF Item
  <2>3. Item'.value = match'.value /\ ~Item'.soft
    BY <1>1, <2>2
  <2> QED
    BY <1>1, <2>2, <2>3 DEF Whole
<1> QED
  BY <1>1, <1>2 DEF TargetsInv

\* No match yet.
LEMMA UnmatchedInv ==
  ASSUME TargetsInv, pc \in {"parse", "request", "keys", "scan"}, UNCHANGED <<match, list>>,
         pc' \in {"request", "keys", "scan", "done"}
  PROVE  TargetsInv'
BY DEF TargetsInv

LEMMA FindTargets ==
  ASSUME TargetsInv, FieldInv, pc \in {"keys", "scan"}, UNCHANGED list,
         ExportsKeys \/ ImportsKeys \/ Matched
  PROVE  TargetsInv'
<1>1. \/ \E m : Map(m)
      \/ UNCHANGED match /\ pc' \in {"scan", "done"}
  BY DEF ExportsKeys, ImportsKeys, Matched, FindInObject, MapRoot, Return
<1> QED
  BY <1>1, MatchInv, UnmatchedInv

\* The values are mapped: they stay so.
LEMMA ListedInv ==
  ASSUME TargetsInv, todo = <<>>, UNCHANGED <<match, todo>>, pc' \in {"items", "done"}
  PROVE  TargetsInv'
BY DEF TargetsInv

LEMMA TargetsStep ==
  ASSUME FieldInv, TargetsInv, [Next]_vars
  PROVE  TargetsInv'
<1>1. CASE UNCHANGED vars
  <2>1. UNCHANGED <<w, pc, match, todo, lookup, list>> /\ TargetsOf' = TargetsOf
    BY <1>1, TargetsSame DEF vars
  <2>2. CASE Plain
    <3>1. CASE pc = "conditions"
      <4>1. Item.value.t = "obj" /\ Answering(lookup', Chosen[Item.value])
        BY <2>1, <2>2, <3>1 DEF TargetsInv, Plain
      <4> QED
        BY <2>1, <3>1, <4>1, ConditionsInv
    <3>2. CASE pc = "mapping"
      <4>1. Whole \/ Pieces
        BY <2>2, <3>2 DEF TargetsInv, Plain
      <4>2. Whole => Whole'
        BY <2>1 DEF Whole, Item
      <4>3. Pieces => Pieces'
        BY <2>1, PiecesNext DEF Pieces
      <4> QED
        BY <2>1, <3>2, <4>1, <4>2, <4>3, MappingInv
    <3>3. CASE pc \notin {"mapping", "conditions"}
      BY <2>1, <3>3 DEF TargetsInv
    <3> QED
      BY <3>1, <3>2, <3>3
  <2>3. CASE ~Plain
    BY <2>1, <2>3 DEF TargetsInv, Plain
  <2> QED
    BY <2>2, <2>3
<1>2. CASE ParseRequest \/ ExportsRequest \/ ImportsRequest \/ Scan
  <2>1. pc \in {"parse", "request", "scan"} /\ UNCHANGED <<match, list>>
        /\ pc' \in {"request", "keys", "scan", "done"}
    BY <1>2 DEF ParseRequest, ExportsRequest, ImportsRequest, Scan, Ask, Return
  <2> QED
    BY <2>1, UnmatchedInv
<1>3. CASE ExportsKeys \/ ImportsKeys \/ Matched
  <2>1. pc \in {"keys", "scan"} /\ UNCHANGED list
    BY <1>3 DEF ExportsKeys, ImportsKeys, Matched
  <2> QED
    BY <1>3, <2>1, FindTargets
<1>4. CASE Mapped
  <2>1. todo = <<>> /\ UNCHANGED <<match, todo>> /\ pc' \in {"items", "done"}
    BY <1>4 DEF Mapped, Return
  <2> QED
    BY <2>1, ListedInv
<1>5. CASE TryItem
  <2>1. pc = "items" /\ UNCHANGED <<match, todo>> /\ pc' \in {"items", "done"}
    BY <1>5 DEF TryItem, Return
  <2> QED
    BY <2>1, ListedInv DEF TargetsInv
<1>6. CASE TakeFirst
  <2>1. pc = "items" /\ UNCHANGED <<match, todo>> /\ pc' \in {"items", "done"}
    BY <1>6 DEF TakeFirst, Return
  <2> QED
    BY <2>1, ListedInv DEF TargetsInv
<1> QED
  BY <1>1, <1>2, <1>3, <1>4, <1>5, <1>6, MapStringTargets, MapArrayTargets, MapObjectTargets,
     MapOtherTargets, ConditionTargets, ExhaustedTargets DEF Next

\* Whatever is in the field: the loops over values and conditions list what the
\* recursion over the field says, or fail where it does.
THEOREM TargetsExplainedHolds == Spec => []TargetsExplained
<1>1. Init => FieldInv /\ TargetsInv
  BY InitInv DEF Init, TargetsInv
<1>2. FieldInv /\ TargetsInv /\ [Next]_vars => (FieldInv /\ TargetsInv)'
  BY FieldStep, TargetsStep
<1>3. FieldInv /\ TargetsInv => TargetsExplained
  <2> SUFFICES ASSUME FieldInv, TargetsInv, Plain
               PROVE  /\ pc = "mapping" /\ todo = <<>> => list = TargetsOf[match.value]
                      /\ pc = "done" /\ todo # <<>> => TargetsOf[match.value] = Error
    BY DEF TargetsExplained, Plain
  <2>1. ASSUME pc = "mapping", todo = <<>>
        PROVE  list = TargetsOf[match.value]
    <3>1. Whole \/ Pieces
      BY <2>1 DEF TargetsInv, Plain
    <3>2. ~Whole
      BY <2>1 DEF Whole
    <3>3. TargetsOf[match.value] = list \o FlattenSeq(Coming(<<>>))
      BY <2>1, <3>1, <3>2 DEF Pieces
    <3>4. list \o <<>> = list
      BY ListTypes, ConcatEmptySeq
    <3> QED
      BY <3>3, <3>4, ComingNone
  <2>2. pc = "done" /\ todo # <<>> => TargetsOf[match.value] = Error
    BY DEF TargetsInv, Plain
  <2> QED
    BY <2>1, <2>2
<1> QED
  BY <1>1, <1>2, <1>3, PTL DEF Spec
=============================================================================
