------------------------------ MODULE TsConfig ------------------------------
(***************************************************************************)
(* _resolve_with_tsconfig: tsconfig.rs and tsconfig_path.rs.               *)
(*                                                                         *)
(* First the tsconfig file is read with the files it extends: the stack    *)
(* has the calls of parse_file_to_value, each of which calls _resolve for  *)
(* the file to extend and then itself.  Then the request is tried below    *)
(* baseUrl, with the patterns of `paths`, and as it is.  _resolve is the   *)
(* system Resolve models; here the world says what it returns.             *)
(*                                                                         *)
(* A JSON value is a record of its type `t` and its value; an object       *)
(* is a function from keys.  Targets, patterns and paths are sequences of  *)
(* characters, of which "*", "." and "/" matter.                           *)
(***************************************************************************)
EXTENDS Naturals, Sequences, FiniteSets, SequencesExt

CONSTANTS
  Worlds,     \* the calls considered
  Files,      \* the tsconfig files
  Chars,      \* the characters of targets, patterns and paths
  MaxFrames,  \* bound: calls of parse_file_to_value that fit on a thread's stack
  NoText,     \* no baseUrl, or no match
  NoFile,
  Ignored, Failed, Error,  \* what _resolve may return besides a success
  Panic,      \* the thread panics
  Crash       \* the stack overflows

ASSUME FrameAssumption ==
  IsFiniteSet(Files) /\ MaxFrames \in Nat /\ MaxFrames >= Cardinality(Files)
ASSUME SentinelAssumption ==
  /\ NoFile \notin Files \cup {Ignored, Failed, Error, Panic, Crash}
  /\ Files \cap {Ignored, Failed, Error} = {}
  /\ Ignored \notin {Failed, Error, Panic, Crash} /\ Failed \notin {Error, Panic, Crash}
  /\ Error \notin {Panic, Crash} /\ Panic # Crash

Texts == Seq(Chars)

\* A key that is not there: None, which is no JSON value.
NoField == [t |-> "none"]

\* Value::get
Get(j, k) == IF j.t = "obj" /\ k \in DOMAIN j.obj THEN j.obj[k] ELSE NoField

Options(j) == Get(j, "compilerOptions")
BaseUrl(j) == Get(Options(j), "baseUrl")
Paths(j) == Get(Options(j), "paths")

\* The patterns of a table of paths are texts, and what they have are lists.
Table(x) ==
  x.t = "obj" =>
    \A k \in DOMAIN x.obj : k \in Texts /\ (x.obj[k].t = "list" => Len(x.obj[k].list) \in Nat)

\* A tsconfig has only values, down to the list of a pattern.
With(Good(_), j) == j # NoField /\ (j.t = "obj" => \A k \in DOMAIN j.obj : Good(j.obj[k]))
Lists(j) == With(LAMBDA x : x # NoField, j)
Content(j) == With(LAMBDA x : With(Lists, x), j)

ASSUME WorldAssumption ==
  \A x \in Worlds :
    /\ x.root \in Files /\ x.toContext \in BOOLEAN
    /\ x.lookup \in [Files -> Files \cup {Ignored, Failed, Error}]
    /\ \A f \in Files : x.content[f].t \in {"absent", "empty", "malformed", "json"}
    /\ {NoFile, Ignored, Failed, Error, Panic, Crash} \cap x.found = {}
    /\ x.plain \in {Ignored, Failed, Error} \cup x.found
ASSUME TextAssumption ==
  /\ NoText \notin Texts
  /\ \A x \in Worlds : x.target \in Texts
  /\ \A x \in Worlds : \A f \in Files :
       x.content[f].t = "json" => Content(x.content[f].v) /\ Table(Paths(x.content[f].v))

VARIABLES
  w,          \* the world: files, options and request
  pc,
  stack,      \* the calls of parse_file_to_value: file, JSON, prev_resolve_to_context;
              \* empty when the tsconfig is parsed
  value,      \* the JSON that a call returned
  toContext,  \* Context::resolve_to_context
  conf,       \* TsConfigInfo
  todo,       \* the entries of absolute_path_mappings still to try
  queue,      \* the paths of the entry that is tried
  answer

vars == <<w, pc, stack, value, toContext, conf, todo, queue, answer>>

-----------------------------------------------------------------------------
(* JSON *)

Null == [t |-> "null"]
Str(s) == [t |-> "str", str |-> s]
List(s) == [t |-> "list", list |-> s]
Obj(f) == [t |-> "obj", obj |-> f]

\* merge, where M merges the members of two objects.
MergeBy(M(_, _), a, b) ==
  IF a.t = "obj" /\ b.t = "obj"
  THEN Obj([k \in DOMAIN a.obj \cup DOMAIN b.obj |->
              IF k \notin DOMAIN b.obj THEN a.obj[k]
              ELSE M(IF k \in DOMAIN a.obj THEN a.obj[k] ELSE Null, b.obj[k])])
  ELSE IF a.t = "null" THEN b ELSE a

\* The recursion, to the depth at which a tsconfig has no objects any more:
\* the file, compilerOptions, paths, and a pattern's list.
MergeLists(a, b) == MergeBy(LAMBDA x, y : x, a, b)
MergePaths(a, b) == MergeBy(MergeLists, a, b)
MergeOptions(a, b) == MergeBy(MergePaths, a, b)
Merge(a, b) == MergeBy(MergeOptions, a, b)

-----------------------------------------------------------------------------
(* parse_file_to_value *)

Top == stack[Len(stack)]

Return(x) == answer' = x /\ pc' = "done"

\* Mutant of ReadFile: what does not parse is an empty object.
ReadFileLenient ==
  LET c == w.content[Top.file]
  IN /\ pc = "read"
     /\ \/ /\ c.t = "absent"
           /\ Return(Error)
           /\ UNCHANGED stack
        \/ /\ c.t # "absent"
           /\ stack' = [stack EXCEPT ![Len(stack)].json =
                          IF c.t = "json" THEN c.v ELSE Obj(<<>>)]
           /\ pc' = "extends"
           /\ UNCHANGED answer
     /\ UNCHANGED <<w, value, toContext, conf, todo, queue>>

\* CantFindTsConfig, and TsConfig::parse, which panics on a file without value.
ReadFile ==
  LET c == w.content[Top.file]
  IN /\ pc = "read"
     /\ \/ /\ c.t \in {"absent", "malformed"}
           /\ Return(Error)
           /\ UNCHANGED stack
        \/ /\ c.t = "empty"
           /\ Return(Panic)
           /\ UNCHANGED stack
        \/ /\ c.t = "json"
           /\ stack' = [stack EXCEPT ![Len(stack)].json = c.v]
           /\ pc' = "extends"
           /\ UNCHANGED answer
     /\ UNCHANGED <<w, value, toContext, conf, todo, queue>>

\* Does json["extends"] have a string?
Extends(j) == Get(j, "extends").t = "str"

\* Before the call of _resolve, resolve_to_context is switched off.
AskExtends ==
  /\ pc = "extends"
  /\ \/ /\ ~Extends(Top.json)
        /\ pc' = "return" /\ value' = Top.json
        /\ UNCHANGED <<stack, toContext>>
     \/ /\ Extends(Top.json)
        /\ pc' = "lookup"
        /\ stack' = [stack EXCEPT ![Len(stack)].prev = toContext]
        /\ toContext' = FALSE
        /\ UNCHANGED value
  /\ UNCHANGED <<w, conf, todo, queue, answer>>

\* Mutant of PutBack: put back when a file was found.
PutBackIfFound == toContext' = (toContext \/ (Top.prev /\ w.lookup[Top.file] \in Files))

\* resolve_to_context after _resolve.
PutBack == toContext' = (toContext \/ Top.prev)

\* Mutant of LookedUp: the location of the file that extends.
LookedUpSelf == IF w.lookup[Top.file] \in Files THEN Top.file ELSE w.lookup[Top.file]

\* What _resolve returns for the file to extend; a context is not a file.
LookedUp == IF toContext THEN Failed ELSE w.lookup[Top.file]

\* A file is read in turn, Ignored is an error, all else means that nothing
\* is extended.
Extend ==
  /\ pc = "lookup"
  /\ PutBack
  /\ \/ /\ LookedUp \in Files
        /\ IF Len(stack) = MaxFrames
           THEN Return(Crash) /\ UNCHANGED stack
           ELSE /\ stack' = Append(stack, [file |-> LookedUp, json |-> Null, prev |-> FALSE])
                /\ pc' = "read" /\ UNCHANGED answer
        /\ UNCHANGED value
     \/ /\ LookedUp = Ignored
        /\ Return(Error)
        /\ UNCHANGED <<stack, value>>
     \/ /\ LookedUp \in {Failed, Error}
        /\ pc' = "return" /\ value' = Top.json
        /\ UNCHANGED <<stack, answer>>
  /\ UNCHANGED <<w, conf, todo, queue>>

\* Mutant of MergeUp: the extended file is the one that is completed.
MergeDown ==
  /\ pc = "return" /\ Len(stack) > 1
  /\ stack' = Front(stack)
  /\ value' = Merge(value, stack[Len(stack) - 1].json)
  /\ UNCHANGED <<w, pc, toContext, conf, todo, queue, answer>>

\* A call returns: the caller merges, and returns the result in turn.
MergeUp ==
  /\ pc = "return" /\ Len(stack) > 1
  /\ stack' = Front(stack)
  /\ value' = Merge(stack[Len(stack) - 1].json, value)
  /\ UNCHANGED <<w, pc, toContext, conf, todo, queue, answer>>

-----------------------------------------------------------------------------
(* parse_ts_file and parse_tsconfig *)

StringList(x) == x.t = "list" /\ \A i \in 1..Len(x.list) : x.list[i].t = "str"

\* as_str().unwrap(), as_object().unwrap(), as_array().unwrap()
Unwraps(j) ==
  /\ BaseUrl(j) # NoField => BaseUrl(j).t = "str"
  /\ Paths(j) # NoField =>
       Paths(j).t = "obj" /\ \A k \in DOMAIN Paths(j).obj : StringList(Paths(j).obj[k])

Strings(x) == [i \in 1..Len(x.list) |-> x.list[i].str]

ParseTsFile ==
  /\ pc = "return" /\ Len(stack) = 1
  /\ \/ /\ ~Unwraps(value)
        /\ Return(Panic)
        /\ UNCHANGED <<stack, conf, todo>>
     \/ /\ Unwraps(value)
        /\ conf' = [base |-> IF BaseUrl(value) = NoField THEN NoText ELSE BaseUrl(value).str,
                    paths |-> IF Paths(value) = NoField THEN <<>>
                              ELSE [k \in DOMAIN Paths(value).obj |-> Strings(Paths(value).obj[k])]]
        /\ todo' = DOMAIN conf'.paths
        /\ stack' = <<>>
        /\ pc' = "base"
        /\ UNCHANGED answer
  /\ UNCHANGED <<w, value, toContext, queue>>

-----------------------------------------------------------------------------
(* _resolve_with_tsconfig *)

\* Path::join: an absolute path replaces the directory, and a directory that
\* ends with a slash gets no second one.
Join(dir, s) ==
  IF s # <<>> /\ Head(s) = "/" THEN s
  ELSE IF dir # <<>> /\ Last(dir) = "/" THEN dir \o s ELSE dir \o <<"/">> \o s

AbsoluteBaseUrl == IF conf.base = NoText THEN w.dir ELSE Join(w.dir, conf.base)

\* What _resolve returns for a path that is a candidate; a browser field may
\* say that it is ignored.
Lookup(path) == CASE path \in w.found -> path
                  [] path \in w.ignored \ w.found -> Ignored
                  [] path \in w.bad \ (w.found \cup w.ignored) -> Error
                  [] OTHER -> Failed

IsFinished(x) == x # Failed

\* Mutant of TryBaseUrl: the path is the answer, whatever is there.
TryBaseUrlUnasked ==
  /\ pc = "base"
  /\ IF conf.base # NoText THEN Return(Join(AbsoluteBaseUrl, w.target))
     ELSE pc' = "paths" /\ UNCHANGED answer
  /\ UNCHANGED <<w, stack, value, toContext, conf, todo, queue>>

\* The path the target has below baseUrl.
TryBaseUrl ==
  LET x == Lookup(Join(AbsoluteBaseUrl, w.target))
      asked == conf.base # NoText /\ (w.target = <<>> \/ Head(w.target) # ".")
  IN /\ pc = "base"
     /\ \/ /\ asked /\ IsFinished(x)
           /\ Return(x)
        \/ /\ asked => ~IsFinished(x)
           /\ pc' = "paths" /\ UNCHANGED answer
     /\ UNCHANGED <<w, stack, value, toContext, conf, todo, queue>>

\* Mutant of MatchStar: the lengths are not compared.
MatchStarShort(p, s) ==
  LET stars == {i \in 1..Len(p) : p[i] = "*"}
  IN IF stars = {} THEN NoText
     ELSE LET i == Min(stars)
              after == SubSeq(p, i + 1, Len(p))
          IN IF IsPrefix(SubSeq(p, 1, i - 1), s) /\ IsSuffix(after, s)
             THEN SubSeq(s, i, Len(s) - Len(after))
             ELSE NoText

\* match_star: what the first star of the pattern stands for.
MatchStar(p, s) ==
  LET stars == {i \in 1..Len(p) : p[i] = "*"}
  IN IF Len(s) < Len(p) \/ stars = {} THEN NoText
     ELSE LET i == Min(stars)
              after == SubSeq(p, i + 1, Len(p))
          IN IF IsPrefix(SubSeq(p, 1, i - 1), s) /\ IsSuffix(after, s)
             THEN SubSeq(s, i, Len(s) - Len(after))
             ELSE NoText

\* str::replace of every star.
Replace(path, star) ==
  FlattenSeq([i \in 1..Len(path) |-> IF path[i] = "*" THEN star ELSE <<path[i]>>])

\* The paths of an entry of the mapping, in the order they are listed.
Candidates(k, star) ==
  [i \in 1..Len(conf.paths[k]) |-> Replace(Join(AbsoluteBaseUrl, conf.paths[k][i]), star)]

\* The next entry of the hash map, in any order.
NextEntry ==
  /\ pc = "paths" /\ queue = <<>>
  /\ \E k \in todo :
       LET star == IF k = w.target THEN <<>> ELSE MatchStar(k, w.target)
       IN /\ todo' = todo \ {k}
          /\ queue' = IF star = NoText THEN <<>> ELSE Candidates(k, star)
  /\ UNCHANGED <<w, pc, stack, value, toContext, conf, answer>>

\* Mutant of TryPath: a path that is not there is tried again.
TryPathAgain ==
  /\ pc = "paths" /\ queue # <<>>
  /\ IF IsFinished(Lookup(Head(queue)))
     THEN Return(Lookup(Head(queue))) /\ queue' = Tail(queue)
     ELSE UNCHANGED <<pc, answer, queue>>
  /\ UNCHANGED <<w, stack, value, toContext, conf, todo>>

TryPath ==
  /\ pc = "paths" /\ queue # <<>>
  /\ IF IsFinished(Lookup(Head(queue)))
     THEN Return(Lookup(Head(queue)))
     ELSE UNCHANGED <<pc, answer>>
  /\ queue' = Tail(queue)
  /\ UNCHANGED <<w, stack, value, toContext, conf, todo>>

\* The request as it came.
Plain ==
  /\ pc = "paths" /\ queue = <<>> /\ todo = {}
  /\ Return(w.plain)
  /\ UNCHANGED <<w, stack, value, toContext, conf, todo, queue>>

-----------------------------------------------------------------------------
Init ==
  /\ w \in Worlds
  /\ pc = "read"
  /\ stack = << [file |-> w.root, json |-> Null, prev |-> FALSE] >>
  /\ value = Null
  /\ toContext = w.toContext
  /\ conf = [base |-> NoText, paths |-> <<>>]
  /\ todo = {} /\ queue = <<>>
  /\ answer = NoFile

Next == \/ ReadFile \/ AskExtends \/ Extend \/ MergeUp \/ ParseTsFile
        \/ TryBaseUrl \/ NextEntry \/ TryPath \/ Plain

\* One thread that runs on.
Spec == Init /\ [][Next]_vars /\ WF_vars(Next)

-----------------------------------------------------------------------------
(* Properties *)

\* The file that f extends, as far as _resolve finds one.
Extended(f) ==
  IF f # NoFile /\ w.content[f].t = "json" /\ Extends(w.content[f].v) /\ w.lookup[f] \in Files
  THEN w.lookup[f] ELSE NoFile

\* Sets of files that have the root and, of each file, the one it extends.
Closed(fs) == w.root \in fs /\ \A f \in fs : Extended(f) \in fs \cup {NoFile}
\* The files that the root extends, and those that they extend.
Reached == {f \in Files : \A fs \in SUBSET Files : Closed(fs) => f \in fs}
\* Each of them extends a file.
Endless == \E fs \in SUBSET Files : Closed(fs) /\ \A f \in fs : Extended(f) # NoFile

\* Type invariant.
TypeOK ==
  /\ pc \in {"read", "extends", "lookup", "return", "base", "paths", "done"}
  /\ Len(stack) \in 0..MaxFrames
  /\ pc # "done" => (stack = <<>> <=> pc \in {"base", "paths"})
  /\ \A i \in 1..Len(stack) : stack[i].file \in Files
  /\ toContext \in BOOLEAN
  /\ todo \subseteq DOMAIN conf.paths
  /\ answer \in {NoFile, Ignored, Failed, Error, Panic, Crash} \cup w.found
  /\ pc = "done" <=> answer # NoFile

\* tsconfig files that extend each other exhaust the stack, which the depth of
\* _resolve does not count; nothing else does, and every other call returns.
CrashIsCycle == pc = "done" => (answer = Crash <=> Endless)

\* _resolve looks for the file to extend with resolve_to_context off, and for
\* everything else as the options say, however many files were not found.
ContextKept == toContext = (w.toContext /\ pc # "lookup")

\* What j has at the beginning of a path of keys, from j itself to its end.
Along(j, key) ==
  LET at[n \in 0..Len(key)] == IF n = 0 THEN j ELSE Get(at[n - 1], key[n]) IN at
Said(j, key) == Along(j, key)[Len(key)]

\* j says something of a key when it has a value there, or one that is no
\* object on the way, which hides it.
Speaks(j, key) ==
  \E n \in 0..Len(key) :
    /\ Along(j, key)[n] # NoField /\ Along(j, key)[n].t # "null"
    /\ n = Len(key) \/ Along(j, key)[n].t # "obj"

Keys == { <<"compilerOptions", "baseUrl">>, <<"compilerOptions", "paths">> }
        \cup {<<"compilerOptions", "paths", k>> : k \in w.patterns}

\* The files from the root on, in this order.
Nth[n \in 0..MaxFrames] == IF n = 0 THEN w.root ELSE Extended(Nth[n - 1])
Chain == [n \in 1..Cardinality(Reached) |-> Nth[n - 1]]

\* What the merged tsconfig says of a key is what the first file of the chain
\* says that says anything: not null, and not hidden behind another value.
NearestWins ==
  pc = "base" => \A key \in Keys :
    LET speakers == {n \in 1..Len(Chain) : Speaks(w.content[Chain[n]].v, key)}
        said == Said(value, key)
    IN IF speakers = {} THEN said = NoField
       ELSE LET first == Said(w.content[Chain[Min(speakers)]].v, key)
            IN said = first \/ (said.t = "obj" /\ first.t = "obj")

\* A configuration is used only if every file of the chain was read, the last
\* one extends nothing or something that is not there; a panic means that a
\* file is empty or that a value has a type the code does not expect; and what
\* _resolve fails to find for the last file is no error.
FailuresExplained ==
  LET Read(ts) == \E f \in Reached : w.content[f].t \in ts
      ignored == \E f \in Reached : /\ w.content[f].t = "json" /\ Extends(w.content[f].v)
                                    /\ w.lookup[f] = Ignored
  IN /\ pc = "base" =>
          ~Endless /\ ~Read({"absent", "empty", "malformed"}) /\ ~ignored
     /\ pc = "done" /\ answer = Panic =>
          Read({"empty"}) \/ ~Unwraps(value)
     /\ pc = "done" /\ answer = Error /\ stack # <<>> =>
          Read({"absent", "malformed"}) \/ ignored

\* The texts that the star of k stands for when target has the pattern k.
Stars(k, target) ==
  IF k = target THEN {<<>>}
  ELSE {SubSeq(target, q[1], q[2]) : q \in
          {r \in (1..Len(target)) \X (1..Len(target)) :
             /\ r[1] <= r[2]
             /\ "*" \notin Range(SubSeq(target, 1, r[1] - 1))
             /\ SubSeq(target, 1, r[1] - 1) \o <<"*">>
                  \o SubSeq(target, r[2] + 1, Len(target)) = k}}

FirstHits(list) ==
  LET hits == {i \in 1..Len(list) : Lookup(list[i]) # Failed}
  IN IF hits = {} THEN {} ELSE {Lookup(list[Min(hits)])}

\* The answers this program's order of attempts allows: baseUrl before paths
\* (TypeScript tries paths first), of a pattern the first path for which
\* _resolve does not fail, and the plain request only if no pattern has one.
\* Which of two patterns answers is left open.
Allowed ==
  LET base == IF conf.base = NoText \/ (w.target # <<>> /\ Head(w.target) = ".") THEN <<>>
              ELSE << Join(AbsoluteBaseUrl, w.target) >>
      hits == UNION {UNION {FirstHits(Candidates(k, s)) : s \in Stars(k, w.target)}
                       : k \in DOMAIN conf.paths}
  IN IF FirstHits(base) # {} THEN FirstHits(base)
     ELSE IF hits # {} THEN hits ELSE {w.plain}

\* The order of the hash map, and where in it the entries are that do not
\* match, makes no other difference to the answer than which of several
\* matching patterns answers.
AnswerAllowed ==
  pc = "done" /\ stack = <<>> => answer \in Allowed

\* Every call returns, or its stack overflows.
Returns == <>(pc = "done")
=============================================================================
