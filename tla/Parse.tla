------------------------------- MODULE Parse --------------------------------
(***************************************************************************)
(* The text of a request: parse.rs, get_target_kind of kind.rs and         *)
(* split_slash_from_request of resolve.rs.                                 *)
(*                                                                         *)
(* A text is the sequence of its bytes.  What the code looks at is itself; *)
(* a character of two bytes is "^" "~", other characters are themselves,   *)
(* and the name of a condition is kept whole.                              *)
(***************************************************************************)
EXTENDS Integers, Sequences, FiniteSets, SequencesExt

\* The letters of a drive, upper and lower case (kind.rs).
Letters ==
  { "a", "b", "c", "d", "e", "f", "g", "h", "i", "j", "k", "l", "m",
    "n", "o", "p", "q", "r", "s", "t", "u", "v", "w", "x", "y", "z",
    "A", "B", "C", "D", "E", "F", "G", "H", "I", "J", "K", "L", "M",
    "N", "O", "P", "Q", "R", "S", "T", "U", "V", "W", "X", "Y", "Z" }
\* What the code looks at, and any other character.
Marks == {".", "/", "#", "?", "@", "*", "$", ":", "\\"}
Bytes == Marks \cup STRING
Texts == Seq(Bytes)

StartsWith(s, p) == IsPrefix(p, s)
EndsWithSlash(s) == s # <<>> /\ Last(s) = "/"

\* What the loop of parse_identifier knows after some bytes; 0 is None.
ScanStates == [stats : {"Start", "Request", "Query", "Fragment"}, query : Nat, fragment : Nat]
ScanStart == [stats |-> "Start", query |-> 0, fragment |-> 0]

\* Mutant of ScanByte: a # after the query is part of it.
ScanByteInQuery(ident, i) ==
  [s \in ScanStates |->
    CASE ident[i] = "#" /\ s.stats = "Request" ->
           [s EXCEPT !.stats = "Fragment", !.fragment = i]
      [] ident[i] = "?" /\ s.stats # "Fragment" ->
           [s EXCEPT !.stats = "Query", !.query = i]
      [] ident[i] # "?" /\ s.stats = "Start" -> [s EXCEPT !.stats = "Request"]
      [] OTHER -> s]

\* One turn of the loop.
ScanByte(ident, i) ==
  [s \in ScanStates |->
    CASE ident[i] = "#" /\ s.stats \in {"Request", "Query"} ->
           [s EXCEPT !.stats = "Fragment", !.fragment = i]
      [] ident[i] = "?" /\ s.stats # "Fragment" ->
           [s EXCEPT !.stats = "Query", !.query = i]
      [] ident[i] # "?" /\ s.stats = "Start" -> [s EXCEPT !.stats = "Request"]
      [] OTHER -> s]

\* The loop, byte for byte.
Scanned(ident) ==
  LET after[i \in 0..Len(ident)] ==
        IF i = 0 THEN ScanStart ELSE ScanByte(ident, i)[after[i - 1]]
  IN after

ParseIdentifier[ident \in Texts] ==
  LET s == Scanned(ident)[Len(ident)]
      q == s.query
      end == IF s.fragment = 0 THEN Len(ident) ELSE s.fragment - 1
  IN [target |-> SubSeq(ident, 1, IF q = 0 THEN end ELSE q - 1),
      query |-> IF q = 0 THEN <<>> ELSE SubSeq(ident, q, end),
      fragment |-> SubSeq(ident, end + 1, Len(ident))]

\* get_target_kind
KindOf[target \in Texts] ==
  CASE target = <<>> -> "Relative"
    [] StartsWith(target, <<"#">>) -> "Internal"
    [] StartsWith(target, <<"/">>) -> "AbsolutePosix"
    [] \/ target \in {<<".">>, <<".", ".">>}
       \/ StartsWith(target, <<".", "/">>)
       \/ StartsWith(target, <<".", ".", "/">>) -> "Relative"
    [] /\ target # <<>> /\ Head(target) \in Letters
       /\ \/ Tail(target) = <<":">>
          \/ StartsWith(Tail(target), <<":", "/">>)
          \/ StartsWith(Tail(target), <<":", "\\">>) -> "AbsoluteWin"
    [] OTHER -> "Normal"

\* from_request: a slash at the end is kept as is_directory.
FromRequest[ident \in Texts] ==
  LET p == ParseIdentifier[ident]
      dir == EndsWithSlash(p.target)
      target == IF dir THEN Front(p.target) ELSE p.target
  IN [target |-> target, query |-> p.query, fragment |-> p.fragment,
      kind |-> KindOf[target], directory |-> dir]

-----------------------------------------------------------------------------
NoSplit == 0 - 1

\* How many characters there are before the n-th slash.
BeforeSlash(target, n) ==
  LET slashes == {i \in 1..Len(target) : target[i] = "/"}
      ends == {i \in slashes : Cardinality({j \in slashes : j <= i}) = n}
  IN IF ends = {} THEN NoSplit
     ELSE Cardinality({j \in 1..(Min(ends) - 1) : target[j] # "~"})

\* Mutant of SplitSlash: a scope is not seen.
SplitSlashUnscoped(target) == BeforeSlash(target, 1)

\* split_slash_from_request: the first slash, of a scoped name the second one.
SplitSlash(target) == BeforeSlash(target, IF StartsWith(target, <<"@">>) THEN 2 ELSE 1)

\* Does a slice that begins with byte n panic?
SplitsCharacter(target, n) == n < Len(target) /\ target[n + 1] = "~"
=============================================================================
