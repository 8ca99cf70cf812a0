---------------------------- MODULE FieldMapping ----------------------------
(***************************************************************************)
(* From a request to the targets of an exports or imports field: map.rs,   *)
(* and the parts of plugin/exports_field.rs and plugin/imports_field.rs    *)
(* that handle the texts.  Resolve has the rest of the two plugins and     *)
(* takes the targets as given.                                             *)
(*                                                                         *)
(* Texts are those of Parse.  A JSON value has a type `t` and a field of   *)
(* that name: "str", "arr", "obj" (a sequence of pairs, since keys keep    *)
(* their order), or is "other".                                            *)
(* The recursion of `mapping` is the list `todo` of values that are still  *)
(* to be mapped, in order; `soft` says that one is an item of an array,    *)
(* whose errors are dropped.  `lookup` is the stack of conditional_mapping.*)
(* w.found has the targets with which _resolve is finished, be it found,   *)
(* ignored or an error (State::is_finished), and such a target stands for  *)
(* that State; a target of imports that is a path has to be a file.        *)
(***************************************************************************)
EXTENDS Parse

CONSTANTS
  Worlds,   \* the calls considered
  Values,   \* the JSON values of their fields, with those inside them
  Nesting,  \* how many values are inside each other at most in a value
  Nothing,  \* None
  Error,    \* State::Error, or Err
  Failed,   \* State::Failed
  Pass,     \* State::Resolving: the plugin has nothing to say
  Panic     \* the thread panics

ASSUME ValueAssumption ==
  \A v \in Values :
    /\ v.t \in {"str", "arr", "obj", "other"}
    /\ v.t = "str" => v.str \in Texts
    /\ v.t = "arr" => v.arr \in Seq(Values)
    /\ v.t = "obj" => v.obj \in Seq(Texts \X Values)

\* A JSON text is finite: values inside each other come to an end.
ASSUME NestingAssumption ==
  /\ Nesting \in [Values -> Nat]
  /\ \A v \in Values :
       /\ v.t = "arr" => \A i \in 1..Len(v.arr) : Nesting[v.arr[i]] < Nesting[v]
       /\ v.t = "obj" => \A i \in 1..Len(v.obj) : Nesting[v.obj[i][2]] < Nesting[v]

ASSUME WorldAssumption ==
  \A x \in Worlds :
    /\ x.field \in {"exports", "imports"} /\ x.self \in BOOLEAN
    /\ x.ident \in Texts /\ x.root \in Values
    /\ x.names \subseteq Texts /\ x.found \subseteq Texts

Answers == {Error, Failed, Pass, Panic}

ASSUME SentinelAssumption ==
  /\ Panic \notin {Error, Failed, Pass} /\ Nothing \notin Answers
  /\ ({Nothing} \cup Answers) \cap Texts = {}
  /\ {Nothing, Error} \cap Values = {} /\ Error \notin Seq(Texts)

VARIABLES
  w,        \* the world: field, request, conditions, what ends in _resolve
  pc,
  parsed,   \* the Request
  request,  \* what field_process is asked for
  index,    \* the keys of find_normalized_match_in_object seen so far
  best,     \* the position of best_match, or 0
  match,    \* what find_match returned
  todo,     \* the values to map
  lookup,   \* the stack of conditional_mapping: object and next position
  list,     \* the targets
  answer

vars == <<w, pc, parsed, request, index, best, match, todo, lookup, list, answer>>

Return(x) == answer' = x /\ pc' = "done"

Key(m, i) == m[i][1]
Value(m, i) == m[i][2]
Keys(m) == {Key(m, i) : i \in 1..Len(m)}

-----------------------------------------------------------------------------
(* The request *)

\* Request::from_request, before the plugins are asked.
ParseRequest ==
  /\ pc = "parse"
  /\ parsed' = FromRequest[w.ident]
  /\ pc' = "request"
  /\ UNCHANGED <<w, request, index, best, match, todo, lookup, list, answer>>

\* ExportsField::assert_request and ImportsField::assert_request
GoodRequest(r) ==
  IF w.field = "exports"
  THEN r = <<".">> \/ StartsWith(r, <<".", "/">>)
  ELSE /\ StartsWith(r, <<"#">>) /\ Len(r) > 1
       /\ ~StartsWith(r, <<"#", "/">>) /\ ~EndsWithSlash(r)

Ask(r) ==
  IF GoodRequest(r) THEN request' = r /\ pc' = "keys" /\ UNCHANGED answer
  ELSE Return(Error) /\ UNCHANGED request

\* The query and the fragment are part of the request for an exports field.
WithRest(path) ==
  IF parsed.query = <<>> /\ parsed.fragment = <<>> THEN path
  ELSE (IF path = <<".">> THEN <<".", "/">> ELSE path) \o parsed.query \o parsed.fragment

\* What follows the name of the module, behind a dot.
ExportsRequest ==
  LET n == SplitSlash(parsed.target)
      rest == SubSeq(parsed.target, n + 1, Len(parsed.target))
  IN /\ pc = "request" /\ w.field = "exports"
     /\ \/ /\ parsed.directory
           /\ Return(Error) /\ UNCHANGED request
        \/ /\ ~parsed.directory /\ n # NoSplit /\ SplitsCharacter(parsed.target, n)
           /\ Return(Panic) /\ UNCHANGED request
        \/ /\ ~parsed.directory /\ n # NoSplit /\ ~SplitsCharacter(parsed.target, n)
           /\ Ask(WithRest(<<".">> \o rest))
        \/ /\ ~parsed.directory /\ n = NoSplit /\ w.self
           /\ Ask(WithRest(<<".">>))
        \/ /\ ~parsed.directory /\ n = NoSplit /\ ~w.self
           /\ Return(Failed) /\ UNCHANGED request
     /\ UNCHANGED <<w, parsed, index, best, match, todo, lookup, list>>

ImportsRequest ==
  /\ pc = "request" /\ w.field = "imports"
  /\ \/ /\ ~StartsWith(parsed.target, <<"#">>)
        /\ Return(Pass) /\ UNCHANGED request
     \/ /\ StartsWith(parsed.target, <<"#">>)
        /\ Ask(parsed.target)
  /\ UNCHANGED <<w, parsed, index, best, match, todo, lookup, list>>

-----------------------------------------------------------------------------
(* find_match *)

\* find_match returned m: its value is what is mapped.
Map(m) ==
  /\ match' = m
  /\ todo' = IF m = Nothing THEN <<>> ELSE << [value |-> m.value, soft |-> FALSE] >>
  /\ pc' = "mapping"
  /\ UNCHANGED answer

Match(value, rest, folder, pattern) ==
  [value |-> value, rest |-> rest, folder |-> folder, pattern |-> pattern]

\* The keys of an object are paths: the first decides, and no other kind is
\* among them.
Dotted(k) == StartsWith(k, <<".">>)
PathKey(k) == k = <<".">> \/ StartsWith(k, <<".", "/">>)
ConditionKey(k) == ~Dotted(k) /\ ~StartsWith(k, <<"/">>)
ImportKey(k) == StartsWith(k, <<"#">>) /\ Len(k) > 1 /\ ~StartsWith(k, <<"#", "/">>)

\* find_normalized_match_in_object: an exact key, or else the loop.
FindInObject(m) ==
  IF ~Contains(request, "*") /\ ~EndsWithSlash(request) /\ request \in Keys(m)
  THEN Map(Match(Value(m, CHOOSE i \in 1..Len(m) : Key(m, i) = request), <<>>, FALSE, FALSE))
  ELSE pc' = "scan" /\ UNCHANGED <<match, todo, answer>>

MapRoot ==
  IF request = <<".">> THEN Map(Match(w.root, <<".">>, FALSE, FALSE)) ELSE Map(Nothing)

ExportsKeys ==
  LET keys == Keys(w.root.obj)
      paths == IF w.root.obj = <<>> THEN TRUE ELSE Dotted(Key(w.root.obj, 1))
  IN /\ pc = "keys" /\ w.field = "exports"
     /\ \/ /\ w.root.t = "other"
           /\ Map(Nothing)
        \/ /\ w.root.t \in {"str", "arr"}
           /\ MapRoot
        \/ /\ w.root.t = "obj" /\ paths
           /\ IF \A k \in keys : PathKey(k) THEN FindInObject(w.root.obj)
              ELSE Return(Error) /\ UNCHANGED <<match, todo>>
        \/ /\ w.root.t = "obj" /\ ~paths
           /\ IF \A k \in keys : ConditionKey(k) THEN MapRoot
              ELSE Return(Error) /\ UNCHANGED <<match, todo>>
     /\ UNCHANGED <<w, parsed, request, index, best, lookup, list>>

ImportsKeys ==
  /\ pc = "keys" /\ w.field = "imports"
  /\ \/ /\ w.root.t # "obj"
        /\ Map(Nothing)
     \/ /\ w.root.t = "obj"
        /\ IF \A k \in Keys(w.root.obj) : ImportKey(k) THEN FindInObject(w.root.obj)
           ELSE Return(Error) /\ UNCHANGED <<match, todo>>
  /\ UNCHANGED <<w, parsed, request, index, best, lookup, list>>

\* str::find of the first star, 0 if there is none.
StarOf(k) == IF Contains(k, "*") THEN Min({i \in 1..Len(k) : k[i] = "*"}) ELSE 0
BaseLen(k) == IF StarOf(k) = 0 THEN Len(k) ELSE StarOf(k)

\* Mutant of Precedes: the longer key is the better one.
PrecedesByLength(b, a) == Len(b) > Len(a)

\* pattern_key_compare(a, b).is_gt(): b is the better key.
Precedes(b, a) ==
  \/ BaseLen(b) > BaseLen(a)
  \/ BaseLen(a) = BaseLen(b) /\ StarOf(a) = 0
  \/ BaseLen(a) = BaseLen(b) /\ StarOf(b) # 0 /\ Len(b) > Len(a)

\* What comes after the star.
Trailer(k) == SubSeq(k, StarOf(k) + 1, Len(k))

\* Has the request this pattern, or is it below this folder?
Fits(k) ==
  IF StarOf(k) # 0
  THEN /\ StartsWith(request, SubSeq(k, 1, StarOf(k) - 1))
       /\ Len(request) >= Len(k)
       /\ IsSuffix(Trailer(k), request)
       /\ ~Contains(Trailer(k), "*")
  ELSE EndsWithSlash(k) /\ StartsWith(request, k)

BestKey == IF best = 0 THEN <<>> ELSE Key(w.root.obj, best)

\* One turn of the loop over the keys.
Scan ==
  /\ pc = "scan" /\ index < Len(w.root.obj)
  /\ index' = index + 1
  /\ best' = IF /\ Fits(Key(w.root.obj, index + 1))
                /\ Precedes(Key(w.root.obj, index + 1), BestKey)
             THEN index + 1 ELSE best
  /\ UNCHANGED <<w, pc, parsed, request, match, todo, lookup, list, answer>>

\* The part of the request that the star or the folder stands for.
Subpath ==
  IF StarOf(BestKey) = 0 THEN SubSeq(request, Len(BestKey) + 1, Len(request))
  ELSE SubSeq(request, StarOf(BestKey), Len(request) - Len(Trailer(BestKey)))

Matched ==
  /\ pc = "scan" /\ index = Len(w.root.obj)
  /\ Map(IF best = 0 THEN Nothing
         ELSE Match(Value(w.root.obj, best), Subpath, EndsWithSlash(BestKey),
                    StarOf(BestKey) # 0))
  /\ UNCHANGED <<w, parsed, request, index, best, lookup, list>>

-----------------------------------------------------------------------------
(* mapping and conditional_mapping *)

\* assert_target
GoodTarget(target, folder) ==
  /\ w.field = "exports" =>
       /\ Len(target) >= 2 /\ ~StartsWith(target, <<"/">>)
       /\ Dotted(target) => StartsWith(target, <<".", "/">>)
  /\ EndsWithSlash(target) = folder

\* str::replace of one character by a text.
Replace(s, c, text) ==
  FlattenSeq([i \in 1..Len(s) |-> IF s[i] = c THEN text ELSE <<s[i]>>])

\* Mutant of TargetMapping: what a folder stands for is not appended.
TargetMappingBare(target) ==
  IF ~GoodTarget(target, match.rest # <<>> /\ match.folder) THEN Error
  ELSE IF match.rest # <<>> /\ match.pattern
       THEN Replace(target, "*", Replace(match.rest, "$", <<"$", "$">>))
       ELSE target

\* target_mapping; a dollar in the request is doubled.
TargetMapping(target) ==
  LET folder == match.rest # <<>> /\ match.folder
  IN IF ~GoodTarget(target, folder) THEN Error
     ELSE IF folder THEN target \o match.rest
     ELSE IF match.rest # <<>> /\ match.pattern
          THEN Replace(target, "*", Replace(match.rest, "$", <<"$", "$">>))
          ELSE target

Item == Head(todo)
Take == todo' = Tail(todo)
\* An error of an item of an array is dropped, another one is the result.
Fail == IF Item.soft THEN pc' = "mapping" /\ Take /\ UNCHANGED answer
        ELSE Return(Error) /\ UNCHANGED todo

Mapping == pc = "mapping" /\ todo # <<>>

MapString ==
  LET target == TargetMapping(Item.value.str)
  IN /\ Mapping /\ Item.value.t = "str"
     /\ IF target = Error THEN Fail /\ UNCHANGED list
        ELSE Take /\ list' = Append(list, target) /\ UNCHANGED <<pc, answer>>
     /\ UNCHANGED <<w, parsed, request, index, best, match, lookup>>

MapArray ==
  LET items == Item.value.arr
  IN /\ Mapping /\ Item.value.t = "arr"
     /\ todo' = [i \in 1..Len(items) |-> [value |-> items[i], soft |-> TRUE]] \o Tail(todo)
     /\ UNCHANGED <<w, pc, parsed, request, index, best, match, lookup, list, answer>>

MapObject ==
  /\ Mapping /\ Item.value.t = "obj"
  /\ lookup' = << [map |-> Item.value.obj, j |-> 1] >>
  /\ pc' = "conditions"
  /\ UNCHANGED <<w, parsed, request, index, best, match, todo, list, answer>>

MapOther ==
  /\ Mapping /\ Item.value.t = "other"
  /\ Take
  /\ UNCHANGED <<w, pc, parsed, request, index, best, match, lookup, list, answer>>

Default == <<"default">>

\* The conditions of the innermost object that are left and apply.
Top == lookup[Len(lookup)]
Applying ==
  {i \in Top.j..Len(Top.map) : Key(Top.map, i) \in {Default} \cup w.names}

\* Mutant of Advanced: the outer object goes on where it was.
AdvancedNot(i) == lookup

\* Mutant of Advanced: a condition is skipped.
AdvancedPast(i) == [lookup EXCEPT ![Len(lookup)].j = i + 2]

\* The outer object goes on behind the condition whose object is searched.
Advanced(i) == [lookup EXCEPT ![Len(lookup)].j = i + 1]

\* One turn of 'outer: default must be the last key, an object is searched in
\* turn, any other value is the result.
Condition ==
  LET i == Min(Applying)
      value == Value(Top.map, i)
  IN /\ pc = "conditions" /\ lookup # <<>> /\ Applying # {}
     /\ \/ /\ Key(Top.map, i) = Default /\ i # Len(Top.map)
           /\ Fail /\ lookup' = <<>>
        \/ /\ Key(Top.map, i) = Default => i = Len(Top.map)
           /\ value.t = "obj"
           /\ lookup' = Append(Advanced(i), [map |-> value.obj, j |-> 1])
           /\ UNCHANGED <<pc, todo, answer>>
        \/ /\ Key(Top.map, i) = Default => i = Len(Top.map)
           /\ value.t # "obj"
           /\ todo' = << [value |-> value, soft |-> Item.soft] >> \o Tail(todo)
           /\ lookup' = <<>> /\ pc' = "mapping"
           /\ UNCHANGED answer
     /\ UNCHANGED <<w, parsed, request, index, best, match, list>>

\* No condition is left: back to the object around this one, if there is one.
Exhausted ==
  /\ pc = "conditions" /\ lookup # <<>> /\ Applying = {}
  /\ lookup' = Front(lookup)
  /\ IF Len(lookup) = 1 THEN Take /\ pc' = "mapping" ELSE UNCHANGED <<todo, pc>>
  /\ UNCHANGED <<w, parsed, request, index, best, match, list, answer>>

Mapped ==
  /\ pc = "mapping" /\ todo = <<>>
  /\ IF list = <<>> THEN Return(Error) ELSE pc' = "items" /\ UNCHANGED answer
  /\ UNCHANGED <<w, parsed, request, index, best, match, todo, lookup, list>>

-----------------------------------------------------------------------------
(* The targets *)

\* What the loop of check_target knows after some bytes: where the segment
\* begins, how deep the ones before it lead, whether they stayed inside.
SegmentStates == [start : Nat, cd : Int, ok : BOOLEAN]
FirstSegment == [start |-> 1, cd |-> 0, ok |-> TRUE]

\* A segment is judged by the first two of its characters.
Depth(path, s) ==
  LET dots == path[s.start] = "."
      up == dots /\ path[s.start + 1] = "."
  IN IF up THEN s.cd - 1 ELSE IF dots THEN s.cd ELSE s.cd + 1

\* Mutant of CheckSegment: leaving is noticed one directory too late.
CheckSegmentLate(path, i) ==
  [s \in SegmentStates |->
    IF path[i] # "/" THEN s
    ELSE [start |-> i + 1, cd |-> Depth(path, s), ok |-> s.ok /\ Depth(path, s) >= -1]]

\* One turn of the loop: a segment ends with a slash.
CheckSegment(path, i) ==
  [s \in SegmentStates |->
    IF path[i] # "/" THEN s
    ELSE [start |-> i + 1, cd |-> Depth(path, s), ok |-> s.ok /\ Depth(path, s) >= 0]]

\* The loop, byte for byte.
Segments(path) ==
  LET after[i \in 0..Len(path)] ==
        IF i = 0 THEN FirstSegment ELSE CheckSegment(path, i)[after[i - 1]]
  IN after

CheckTarget(path) == Segments(path)[Len(path)].ok

\* The loop of ExportsFieldPlugin over the targets; the first with which
\* _resolve is finished ends it.
TryItem ==
  LET item == Head(list)
      target == FromRequest[item].target
  IN /\ pc = "items" /\ w.field = "exports"
     /\ \/ /\ list = <<>>
           /\ Return(Failed) /\ UNCHANGED list
        \/ /\ list # <<>>
           /\ ~StartsWith(item, <<".", "/">>) \/ ~CheckTarget(target)
           /\ Return(Error) /\ UNCHANGED list
        \/ /\ list # <<>> /\ StartsWith(item, <<".", "/">>) /\ CheckTarget(target)
           /\ IF target \in w.found THEN Return(target) ELSE UNCHANGED <<pc, answer>>
           /\ list' = Tail(list)
     /\ UNCHANGED <<w, parsed, request, index, best, match, todo, lookup>>

\* ImportsFieldPlugin takes the first target: a file of the package, which the
\* rest of the chain resolves, or a request of its own.
TakeFirst ==
  LET r == FromRequest[Head(list)]
  IN /\ pc = "items" /\ w.field = "imports"
     /\ IF r.target \in w.found /\ (r.kind \in {"Normal", "Internal"} \/ CheckTarget(r.target))
        THEN Return(r.target)
        ELSE Return(IF r.kind \in {"Normal", "Internal"} THEN Failed ELSE Error)
     /\ UNCHANGED <<w, parsed, request, index, best, match, todo, lookup, list>>

-----------------------------------------------------------------------------
Init ==
  /\ w \in Worlds
  /\ pc = "parse"
  /\ parsed = Nothing
  /\ request = <<>>
  /\ index = 0 /\ best = 0
  /\ match = Nothing
  /\ todo = <<>> /\ lookup = <<>> /\ list = <<>>
  /\ answer = Nothing

Next == \/ ParseRequest \/ ExportsRequest \/ ImportsRequest \/ ExportsKeys \/ ImportsKeys
        \/ Scan \/ Matched
        \/ MapString \/ MapArray \/ MapObject \/ MapOther \/ Condition \/ Exhausted
        \/ Mapped \/ TryItem \/ TakeFirst

\* One thread that runs on.
Spec == Init /\ [][Next]_vars /\ WF_vars(Next)
=============================================================================
