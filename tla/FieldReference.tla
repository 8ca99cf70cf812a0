--------------------------- MODULE FieldReference ---------------------------
(***************************************************************************)
(* What FieldMapping is to compute, said without its loops: by recursion   *)
(* over the field, by sets of keys, by counting directories, by splitting  *)
(* a text.                                                                 *)
(***************************************************************************)
EXTENDS FieldMapping

Matches == {match} \ {Nothing}
Targets == {list[i] : i \in 1..Len(list)}

\* Type invariant.
TypeOK ==
  /\ pc \in {"parse", "request", "keys", "scan", "mapping", "conditions", "items", "done"}
  /\ index \in Nat /\ best \in 0..index
  /\ \A m \in Matches : m.folder \in BOOLEAN /\ m.pattern \in BOOLEAN
  /\ \A i \in 1..Len(todo) : todo[i].soft \in BOOLEAN
  /\ \A i \in 1..Len(lookup) : lookup[i].j \in 1..(Len(lookup[i].map) + 1)
  /\ pc = "conditions" => lookup # <<>> /\ todo # <<>>
  /\ pc = "done" <=> answer # Nothing
  /\ answer \in {Nothing} \cup Answers \cup w.found

-----------------------------------------------------------------------------
(* Texts *)

CountOf(s, c) == Cardinality({i \in 1..Len(s) : s[i] = c})

\* Nothing of the text is lost; the first # that is not its first character
\* begins the fragment, and the last question mark before it the query.
SplitRight(ident, r) ==
  LET path == IF r.directory THEN Append(r.target, "/") ELSE r.target
  IN /\ ident = path \o r.query \o r.fragment
     /\ r.fragment # <<>> => Head(r.fragment) = "#"
     /\ r.query # <<>> => Head(r.query) = "?" /\ CountOf(r.query, "?") = 1
     /\ ~Contains(r.query, "#")
     /\ path # <<>> => ~Contains(Tail(path), "#")
     /\ r.query = <<>> => ~Contains(path, "?")

\* Requests and targets are split at the same places, whatever is in them.
ParsedRight ==
  /\ pc = "request" => SplitRight(w.ident, parsed)
  /\ pc = "items" => \A target \in Targets : SplitRight(target, FromRequest[target])

\* The field is asked for what follows the name of the module, which has a
\* slash only if it is scoped.  Only a character of several bytes panics.
ModuleSplit ==
  LET target == parsed.target
      scoped == IF StartsWith(target, <<"@">>) THEN 1 ELSE 0
  IN w.field = "exports" /\ pc \in {"keys", "done"} =>
     /\ answer = Panic => Contains(target, "~")
     /\ pc = "keys" /\ ~Contains(target, "~") =>
          IF CountOf(target, "/") <= scoped
          THEN w.self /\ request = WithRest(<<".">>)
          ELSE \E i \in 1..Len(target) :
                 /\ target[i] = "/" /\ CountOf(SubSeq(target, 1, i - 1), "/") = scoped
                 /\ request = WithRest(<<".">> \o SubSeq(target, i, Len(target)))

-----------------------------------------------------------------------------
(* Keys *)

\* Node's order of keys: the longer text up to the star, a pattern before a
\* folder of that length, then the longer key.
Fixed(k) == IF \E i \in 1..Len(k) : k[i] = "*"
            THEN Cardinality({i \in 1..Len(k) : "*" \notin Range(SubSeq(k, 1, i - 1))})
            ELSE Len(k)
Beats(k, l) ==
  \/ Fixed(k) > Fixed(l)
  \/ Fixed(k) = Fixed(l) /\ Contains(k, "*") /\ ~Contains(l, "*")
  \/ Fixed(k) = Fixed(l) /\ Contains(k, "*") /\ Contains(l, "*") /\ Len(k) > Len(l)

\* A star stands for some text, not nothing; a folder for what is below it.
Covers(k) ==
  IF Contains(k, "*")
  THEN \E i, j \in 1..Len(request) :
         i <= j /\ SubSeq(request, 1, i - 1) \o <<"*">>
                     \o SubSeq(request, j + 1, Len(request)) = k
                /\ CountOf(k, "*") = 1
  ELSE EndsWithSlash(k) /\ IsPrefix(k, request)

\* The key that is chosen beats every other key that covers the request: the
\* choice does not depend on the order of the keys in the file.
BestIsBest ==
  pc = "scan" =>
    LET seen == {Key(w.root.obj, i) : i \in 1..index}
        fits == {k \in seen : Covers(k)}
    IN IF best = 0 THEN fits = {}
       ELSE BestKey \in fits /\ \A k \in fits \ {BestKey} : Beats(BestKey, k)

-----------------------------------------------------------------------------
(* Values *)

\* What a value says: an object what the first of its conditions says that
\* applies and says something, where default has to be the last one.
Chosen[v \in Values] ==
  IF v.t # "obj" THEN v
  ELSE LET says(i) == IF Key(v.obj, i) = Default /\ i < Len(v.obj) THEN Error
                      ELSE Chosen[Value(v.obj, i)]
           saying == {i \in 1..Len(v.obj) : /\ Key(v.obj, i) \in {Default} \cup w.names
                                           /\ says(i) # Nothing}
       IN IF saying = {} THEN Nothing ELSE says(Min(saying))

\* What the star or the folder stands for, put into the target.
Filled(target) ==
  CASE match.rest = <<>> \/ ~(match.folder \/ match.pattern) -> target
    [] match.rest # <<>> /\ match.folder -> target \o match.rest
    [] OTHER -> FlattenSeq([i \in 1..Len(target) |->
                              IF target[i] = "*" THEN match.rest ELSE <<target[i]>>])

\* The targets a value stands for, or Error; errors inside an array are dropped.
Kept(targets) == IF targets = Error THEN <<>> ELSE targets
TargetsOf[value \in Values] ==
  CASE value.t = "str" ->
         IF GoodTarget(value.str, match.folder /\ match.rest # <<>>)
         THEN << Filled(value.str) >> ELSE Error
    [] value.t = "arr" ->
         FlattenSeq([i \in 1..Len(value.arr) |-> Kept(TargetsOf[value.arr[i]])])
    [] value.t = "obj" ->
         LET c == Chosen[value]
         IN IF c = Nothing THEN <<>> ELSE IF c = Error THEN Error ELSE TargetsOf[c]
    [] OTHER -> <<>>

\* The loops over values and conditions list the targets the field has for
\* these conditions, in its order, or fail where it has a wrong one.  (A dollar
\* in the request is not kept as it is: see TargetMapping.)
TargetsExplained ==
  match # Nothing /\ ~Contains(match.rest, "$") =>
    /\ pc = "mapping" /\ todo = <<>> => list = TargetsOf[match.value]
    /\ pc = "done" /\ todo # <<>> => TargetsOf[match.value] = Error

-----------------------------------------------------------------------------
(* Paths *)

Starts(path) == {j \in 1..(Len(path) + 1) : j = 1 \/ path[j - 1] = "/"}
Segment(path, j) ==
  LET ends == {e \in j..Len(path) : path[e] = "/"}
  IN SubSeq(path, j, IF ends = {} THEN Len(path) ELSE Min(ends) - 1)
Here == {<<".">>}
Up == {<<".", ".">>}

\* Names that are not empty and do not begin with a dot.
PlainNames(path) ==
  \A j \in Starts(path) :
    LET s == Segment(path, j) IN s # <<>> /\ (Dotted(s) => s \in Here \cup Up)

\* At no directory on the way are there more steps up than down.
Inside(path) ==
  \A j \in Starts(path) :
    LET before == {i \in Starts(path) : i < j}
    IN Cardinality({i \in before : Segment(path, i) \in Up})
         <= Cardinality({i \in before : Segment(path, i) \notin Here \cup Up})

\* check_target accepts a target whose directories are all in the package, and
\* no other.  (Of the last name nothing is asked.)
WalkAgrees ==
  pc = "items" => \A target \in Targets :
    LET path == FromRequest[target].target
    IN PlainNames(path) => (CheckTarget(path) <=> Inside(path))

\* Every call returns.
Returns == <>(pc = "done")
=============================================================================
