------------------------------ MODULE Resolve ------------------------------
(***************************************************************************)
(* One call of Resolver::resolve: lib.rs, resolve.rs, the plugins,         *)
(* context.rs and state.rs.                                                *)
(*                                                                         *)
(* The code is one chain of State::then closures that calls _resolve       *)
(* again from almost every link.  Here the chain that is still to run is   *)
(* the stack `control`, `state` is the State on its way through it, and    *)
(* `depth` and `fully` are the fields of Context that nested calls change  *)
(* and have to restore.  An action is one function of the code; what it    *)
(* calls is pushed on the stack.                                           *)
(*                                                                         *)
(* A world is a file system with the options and the request of a call;    *)
(* the disk does not change during the call (EntryCache is about that).    *)
(* A name is a sequence of atoms (<<"a", ".js">> is a.js), a path is a     *)
(* sequence of names and a target is a path with the kind of its text.     *)
(***************************************************************************)
EXTENDS Integers, Sequences, FiniteSets, SequencesExt

CONSTANTS
  Worlds,    \* the calls considered
  MaxDepth,  \* the depth at which _resolve gives up: 127 in the code
  BadJson,   \* a description file that does not parse
  NoField    \* a field that a description does not have

ASSUME DepthAssumption == MaxDepth \in Nat \ {0}

\* A sequence of whatever is in it.
IsSeq(s) == s \in Seq({s[k] : k \in DOMAIN s})

ASSUME WorldAssumption ==
  \A x \in Worlds :
    /\ x.fully \in BOOLEAN /\ Len(x.extensionAlias) \in Nat
    /\ IsSeq(x.from) /\ IsSeq(x.extensions) /\ IsSeq(x.modules) /\ IsSeq(x.mainFiles)
    \* The real path of a file is a file, that of a directory a directory.
    /\ \A p \in DOMAIN x.real :
         (p \in x.files => x.real[p] \in x.files) /\ (p \in x.dirs => x.real[p] \in x.dirs)
    /\ IsFiniteSet(DOMAIN x.pkg) /\ \A d \in DOMAIN x.pkg : IsSeq(d)
    \* A main field is made relative (main_field.rs:41-46).
    /\ \A d \in DOMAIN x.pkg : x.pkg[d] # BadJson =>
         /\ IsSeq(x.pkg[d].main)
         /\ \A k \in DOMAIN x.pkg[d].main :
              /\ x.pkg[d].main[k].kind = "relative"
              /\ DOMAIN x.pkg[d].main[k] = {"kind", "names", "slash", "query", "frag"}

VARIABLES
  w,        \* the world: file system, options and request
  state,    \* the State that runs through the chain
  control,  \* the rest of the chain, innermost call first
  depth,    \* Context::depth
  fully     \* Context::fully_specified

vars == <<w, state, control, depth, fully>>

-----------------------------------------------------------------------------
(* Sequences, paths, targets and the file system *)

Map(F(_), s) == [k \in 1..Len(s) |-> F(s[k])]

\* The elements of s that pass the test, in order.
Selected(s, Test(_)) ==
  FlattenSeq(Map(LAMBDA x : IF Test(x) THEN <<x>> ELSE <<>>, s))

\* The elements of s before the first that Stops.
Before(s, Stops(_)) ==
  LET ends == {k \in 1..Len(s) : Stops(s[k])}
  IN SubSeq(s, 1, IF ends = {} THEN Len(s) ELSE Min(ends) - 1)

Up == <<"..">>
Dot == <<".">>
DirOf(p) == IF p = <<>> THEN <<>> ELSE Front(p)
Walk(p, names) ==
  FoldLeft(LAMBDA q, n : CASE n = Up -> DirOf(q) [] n = Dot -> q
                           [] OTHER -> Append(q, n), p, names)

\* What extending the last name of a path by an atom yields; "" adds nothing.
Extend(p, atom) ==
  CASE atom = "" -> p
    [] atom # "" /\ p = <<>> -> << <<atom>> >>
    [] OTHER -> [p EXCEPT ![Len(p)] = Append(@, atom)]

IsFile(p) == p \in w.files
IsDir(p) == p \in w.dirs

\* Entry::pkg_info: the nearest directory with a description file.
PkgDirs(p) == {d \in DOMAIN w.pkg : IsPrefix(d, p)}
HasPkg(p) == PkgDirs(p) # {}
PkgDir(p) == CHOOSE d \in PkgDirs(p) : \A e \in PkgDirs(p) : Len(e) <= Len(d)
PkgFails(p) == HasPkg(p) /\ w.pkg[PkgDir(p)] = BadJson

\* Request: the target, whether it ended in a slash, its query and fragment.
Req(kind, names) ==
  [kind |-> kind, names |-> names, slash |-> FALSE, query |-> "", frag |-> ""]
WithTarget(i, t) ==
  [i EXCEPT !.req = [t EXCEPT !.query = i.req.query, !.frag = i.req.frag]]
WithPath(i, p) == [i EXCEPT !.path = p]
At(p, req) == [path |-> p, req |-> req]

\* Info::to_resolved_path
Resolved(i) ==
  IF i.req.kind = "absolute" THEN Walk(<<>>, i.req.names)
  ELSE Walk(i.path, i.req.names)

IsPathLike(i) == i.req.kind \in {"absolute", "relative"}

\* The names of `[module-name]/[path]`, where a scope takes two names.
ModuleLen(names) == IF Head(names)[1] = "@" /\ Len(names) > 1 THEN 2 ELSE 1
ModuleName(names) == SubSeq(names, 1, ModuleLen(names))
Subpath(names) == SubSeq(names, ModuleLen(names) + 1, Len(names))

IsResolveSelf(pkg, i) ==
  ~IsPathLike(i) /\ pkg.name = ModuleName(i.req.names)

-----------------------------------------------------------------------------
(* State, and the chain of closures *)

Resolving(i) == [tag |-> "Resolving", info |-> i]
Failed(i) == [tag |-> "Failed", info |-> i]
Success(i) == [tag |-> "Success", info |-> i]
Ignored == [tag |-> "Ignored"]
Error(why) == [tag |-> "Error", why |-> why]
\* Mutant of IsFinished: an error is left to the next alternative.
IsSuccess(s) == s.tag \in {"Success", "Ignored"}
IsFinished(s) == s.tag \in {"Success", "Ignored", "Error"}

Item == Head(control)
Info == state.info
Doing(step) == control # <<>> /\ Item.step = step
Thens(steps) == Map(LAMBDA s : [step |-> s], steps)

\* Leave a closure: the state goes on to `next` and then to the callers.
Goto(s, next) ==
  /\ state' = s
  /\ control' = next \o Tail(control)
  /\ UNCHANGED <<w, depth, fully>>
Return(s) == Goto(s, <<>>)

\* The links of the chain that are closures of State::then.
ThenSteps ==
  {"enter", "parse", "alias", "preferRelative", "scope", "imports", "browser",
   "dispatch", "context", "fullySpecified", "file", "extensionAlias", "load",
   "dir", "mainField", "mainFile", "inModules", "self", "exports", "findUp"}
Then(step) == Doing(step) /\ state.tag = "Resolving"

\* State::then passes any other state on.
Skip ==
  /\ control # <<>> /\ Item.step \in ThenSteps
  /\ state.tag # "Resolving"
  /\ Return(state)

\* The loop of the plugins: resolve one alternative after the other until
\* one is finished, otherwise end in `last`.  An alternative that is no
\* State::Resolving is a value the loop returns by itself.
\* "off" and "on" say what fully_specified is during the nested call.
AttemptFrom(alternatives, k, mode, last) ==
  << [step |-> "attempt", list |-> alternatives, next |-> k, mode |-> mode,
      last |-> last] >>
Attempt(alternatives, mode, last) == AttemptFrom(alternatives, 1, mode, last)

\* Mutant of Restore: nobody switches fully_specified on again.
RestoreOff(mode) ==
  IF mode = "on" \/ (mode = "off" /\ fully)
  THEN << [step |-> "restore", fully |-> FALSE] >>
  ELSE <<>>
Restore(mode) ==
  IF mode = "on" \/ (mode = "off" /\ fully)
  THEN << [step |-> "restore", fully |-> fully] >>
  ELSE <<>>
FullyIn(mode) ==
  CASE mode = "on" -> TRUE [] mode = "off" -> FALSE [] mode = "keep" -> fully

Nested(i, mode, next) ==
  /\ state' = Resolving(i)
  /\ control' = Thens(<<"enter">>) \o Restore(mode) \o next \o Tail(control)
  /\ fully' = FullyIn(mode)
  /\ UNCHANGED <<w, depth>>

HasNext == Item.next \in DOMAIN Item.list
Alternative == Item.list[Item.next]

\* Mutant of NextAttempt: the loop never gets to the next alternative.
SameAttempt ==
  /\ Doing("attempt")
  /\ IF IsFinished(state) THEN Return(state)
     ELSE IF ~HasNext THEN Return(Item.last)
     ELSE IF Alternative.tag = "Resolving"
     THEN Nested(Alternative.info, Item.mode, <<Item>>)
     ELSE Return(Alternative)

NextAttempt ==
  /\ Doing("attempt")
  /\ \/ /\ IsFinished(state)
        /\ Return(state)
     \/ /\ ~IsFinished(state) /\ ~HasNext
        /\ Return(Item.last)
     \/ /\ ~IsFinished(state) /\ HasNext
        /\ IF Alternative.tag = "Resolving"
           THEN Nested(Alternative.info, Item.mode,
                       AttemptFrom(Item.list, Item.next + 1, Item.mode, Item.last))
           ELSE Return(Alternative)

RestoreFully ==
  /\ Doing("restore")
  /\ fully' = Item.fully
  /\ control' = Tail(control)
  /\ UNCHANGED <<w, state, depth>>

-----------------------------------------------------------------------------
(* Resolver::_resolve *)

\* Mutant of Enter: is_gt for is_ge.
EnterDeeper ==
  /\ Then("enter")
  /\ depth' = depth + 1
  /\ UNCHANGED <<w, fully>>
  /\ IF depth + 1 > MaxDepth
     THEN /\ state' = Error("Overflow")
          /\ control' = Tail(control)
     ELSE /\ state' = state
          /\ control' = Thens(<<"parse", "alias", "preferRelative", "scope",
                                "dispatch", "leave">>) \o Tail(control)

Enter ==
  /\ Then("enter")
  /\ depth' = depth + 1
  /\ UNCHANGED <<w, fully>>
  /\ IF depth + 1 >= MaxDepth
     THEN /\ state' = Error("Overflow")
          /\ control' = Tail(control)
     ELSE /\ state' = state
          /\ control' = Thens(<<"parse", "alias", "preferRelative", "scope",
                                "dispatch", "leave">>) \o Tail(control)

\* Mutants of Leave: only successful calls count down; every call twice.
LeaveFinished ==
  /\ Doing("leave")
  /\ depth' = IF IsFinished(state) THEN depth - 1 ELSE depth
  /\ control' = Tail(control)
  /\ UNCHANGED <<w, state, fully>>
LeaveTwice ==
  /\ Doing("leave")
  /\ depth' = depth - 2
  /\ control' = Tail(control)
  /\ UNCHANGED <<w, state, fully>>

Leave ==
  /\ Doing("leave")
  /\ depth' = depth - 1
  /\ control' = Tail(control)
  /\ UNCHANGED <<w, state, fully>>

\* Without a query, a fragment is first taken for a part of the file name; the
\* kind of such a text is that of its beginning, but . and .. are whole names.
ParsePlugin ==
  /\ Then("parse")
  /\ LET req == Info.req
         names == Extend(IF req.slash THEN Append(req.names, <<>>)
                         ELSE req.names, req.frag)
         kind == IF req.names \in {<<Dot>>, <<Up>>} /\ ~req.slash THEN "normal"
                 ELSE req.kind
         alternatives ==
           IF req.query = "" /\ req.frag # "" /\ req.names # <<>>
           THEN << Resolving(At(Info.path, Req(kind, names))) >>
           ELSE <<>>
     IN Goto(state, Attempt(alternatives, "keep", state))

\* The text of target t starts with the text of target u.
StartsWith(t, u) ==
  /\ t.kind = u.kind
  /\ Len(u.names) <= Len(t.names)
  /\ \A k \in 1..Len(u.names) :
       IF k = Len(u.names) THEN IsPrefix(u.names[k], t.names[k])
       ELSE u.names[k] = t.names[k]

\* The alternatives of an Alias table for a request: the entries it hits,
\* but those whose text it starts with already.  The slash at the end of an
\* alias counts only if nothing of the request follows it.
AliasTargets(table, i) ==
  LET hit(e) == /\ e.from.kind = i.req.kind
                /\ IF e.exact THEN e.from.names = i.req.names
                   ELSE IsPrefix(e.from.names, i.req.names)
      used == Selected(table, LAMBDA e :
                hit(e) /\ (e.to = Ignored \/ ~StartsWith(i.req, e.to)))
      tail(e) == SubSeq(i.req.names, Len(e.from.names) + 1, Len(i.req.names))
      alternative(e) ==
        IF e.to = Ignored THEN Ignored
        ELSE Resolving([i EXCEPT !.req =
               [e.to EXCEPT !.names = @ \o tail(e),
                            !.slash = @ /\ tail(e) = <<>>,
                            !.query = IF @ = "" THEN i.req.query ELSE @,
                            !.frag = IF @ = "" THEN i.req.frag ELSE @]])
  IN Map(alternative, used)

AliasPlugin ==
  /\ Then("alias")
  /\ Goto(state, Attempt(AliasTargets(w.alias, Info), "off", state))

PreferRelativePlugin ==
  /\ Then("preferRelative")
  /\ LET alternatives ==
           IF w.preferRelative /\ Info.req.kind # "relative"
           THEN << Resolving(WithTarget(Info, Req("relative", Info.req.names))) >>
           ELSE <<>>
     IN Goto(state, Attempt(alternatives, "keep", state))

\* Mutant of PackageScope: a description that does not parse counts as none.
ScopeIfReadable ==
  /\ Then("scope")
  /\ LET p == Resolved(Info)
     IN IF HasPkg(p) /\ ~PkgFails(p)
        THEN Goto(state, << [step |-> "imports", dir |-> PkgDir(p)],
                            [step |-> "browser", dir |-> PkgDir(p),
                             self |-> FALSE] >>)
        ELSE Return(state)

\* The closure that looks for the description of the requested path.
PackageScope ==
  /\ Then("scope")
  /\ LET p == Resolved(Info)
     IN IF PkgFails(p) THEN Return(Error("Json"))
        ELSE IF HasPkg(p)
        THEN Goto(state, << [step |-> "imports", dir |-> PkgDir(p)],
                            [step |-> "browser", dir |-> PkgDir(p),
                             self |-> FALSE] >>)
        ELSE Return(state)

Dispatch ==
  /\ Then("dispatch")
  /\ IF IsPathLike(Info)
     THEN Goto(state, Thens(<<"context", "fullySpecified", "file", "dir">>))
     ELSE Goto(state, << [step |-> "modules", rest |-> w.modules,
                          info |-> Info] >>)

-----------------------------------------------------------------------------
(* The plugins that read a description *)

Pkg == w.pkg[Item.dir]

\* check_target: a directory on the way has more steps up than down before it.
\* (FieldMapping has the names that only begin with a dot.)
LeadsOut(names) ==
  \E n \in 1..(Len(names) - 1) :
    Cardinality({k \in 1..n : names[k] = Up})
      > Cardinality({k \in 1..n : names[k] \notin {Up, Dot}})

\* Of the targets that an `imports` entry maps to, only the first is used.
ImportsFieldPlugin ==
  /\ Then("imports")
  /\ IF Info.req.kind # "internal" \/ Pkg.imports = NoField
     THEN Return(state)
     ELSE IF Info.req.names \notin DOMAIN Pkg.imports
     THEN Return(Error("Imports"))
     ELSE LET i == At(Item.dir, Pkg.imports[Info.req.names])
          IN IF ~IsPathLike(i) THEN Nested(i, "off", <<>>)
             ELSE IF IsFile(Resolved(i)) /\ ~LeadsOut(i.req.names)
             THEN Return(Resolving(i))
             ELSE Return(Error("Imports"))

\* An alias of the `browser` field applies to a module by its name and to a
\* path by the file it means, with an extension or without.  One that points
\* to itself ends the search.
BrowserFieldPlugin ==
  /\ Then("browser")
  /\ LET applies(e) ==
           IF Info.req.kind = "normal" /\ ~Item.self
           THEN e.from.kind = "normal" /\ e.from.names = Info.req.names
           ELSE Walk(Item.dir, e.from.names) \in
                  {Extend(Resolved(Info), x) : x \in {""} \cup ToSet(w.extensions)}
         alternative(e) ==
           IF e.to = Ignored THEN Ignored
           ELSE Resolving(WithPath(WithTarget(Info, e.to), Item.dir))
         used == Selected(Pkg.browser, applies)
         tried == Before(used, LAMBDA e : e.to = e.from)
     IN IF w.browserField
        THEN Goto(state, Attempt(Map(alternative, tried), "off", state))
        ELSE Return(state)

\* A target of `exports` has to start with "./" and to stay in the package.
ExportsFieldPlugin ==
  /\ Then("exports")
  /\ LET req == Info.req
         rest == Subpath(req.names)
         key == Extend(Extend(rest, req.query), req.frag)
         targets == Pkg.exports[key]
         alternative(t) == IF t.kind = "relative" /\ ~LeadsOut(t.names)
                           THEN Resolving(At(Item.dir, t)) ELSE Error("Exports")
     IN IF Pkg.exports = NoField THEN Return(state)
        ELSE IF req.slash THEN Return(Error("Exports"))
        ELSE IF /\ rest = <<>>
                /\ ~(IsFile(Resolved(Info)) \/ IsDir(Resolved(Info)))
                /\ Pkg.name # req.names
        THEN Return(Failed(Info))
        ELSE IF key \notin DOMAIN Pkg.exports \/ targets = <<>>
        THEN Return(Error("Exports"))
        ELSE Goto(state, Attempt(Map(alternative, targets), "keep",
                                 Failed(Info)))

\* A main field that points to the directory itself ends the search.
MainFieldPlugin ==
  /\ Then("mainField")
  /\ LET main(t) == Resolving(WithPath(WithTarget(Info, t), Resolved(Info)))
         tried == Before(Pkg.main, LAMBDA t : t.names = <<>>)
     IN IF Item.dir = Resolved(Info)
        THEN Goto(state, Attempt(Map(main, tried), "off", state))
        ELSE Return(state)

MainFilePlugin ==
  /\ Then("mainFile")
  /\ LET main(f) == Resolving(WithPath(WithTarget(Info, Req("relative", <<f>>)),
                                       Resolved(Info)))
     IN Goto(state, Attempt(Map(main, w.mainFiles), "keep", state))

-----------------------------------------------------------------------------
(* resolve.rs: files and directories *)

\* Mutant of Use: the target is kept.
UseWithTarget(i, p) == WithPath(i, p)

\* info.with_path(path).with_target("")
Use(i, p) == WithPath(WithTarget(i, Req("relative", <<>>)), p)
Found(i, p) == Success(Use(i, p))

\* Mutant of ResolveAsContext: what is no directory is looked for as a file.
ContextElseFile ==
  /\ Then("context")
  /\ IF w.toContext /\ IsDir(Resolved(Info))
     THEN Return(Success(At(Resolved(Info), Req("relative", <<>>))))
     ELSE Return(state)

ResolveAsContext ==
  /\ Then("context")
  /\ IF ~w.toContext THEN Return(state)
     ELSE IF IsDir(Resolved(Info))
     THEN Return(Success(At(Resolved(Info), Req("relative", <<>>))))
     ELSE Return(Failed(Info))

\* Only a package as a whole may still be resolved by its main fields and
\* main files.
ResolveAsFullySpecified ==
  /\ Then("fullySpecified")
  /\ LET p == Resolved(Info)
         package == WithPath(WithTarget(Info, Req("relative", <<Dot>>)), p)
     IN IF ~fully THEN Return(state)
        ELSE IF IsFile(p) THEN Return(Found(Info, p))
        ELSE IF IsPathLike(Info) \/ Subpath(Info.req.names) # <<>>
        THEN Return(Failed(Info))
        ELSE Goto(state, Attempt(<<Resolving(package)>>, "off",
                                 Failed(package)))

ResolveAsFile ==
  /\ Then("file")
  /\ IF Info.req.slash THEN Return(state)
     ELSE Goto(state, Map(LAMBDA r : [step |-> "extensionAlias", row |-> r],
                          w.extensionAlias) \o Thens(<<"load">>))

\* A target that ends in row.from is looked for with the extensions row.to,
\* each as it is written.
ExtensionAliasPlugin ==
  /\ Then("extensionAlias")
  /\ LET names == Info.req.names
         applies == /\ Info.req.kind # "normal" /\ names # <<>>
                    /\ Last(Last(names)) = Item.row.from
         next(ext) == [names EXCEPT ![Len(names)] = Append(Front(@), ext)]
         file(ext) == Resolving(Use(Info, Resolved(WithTarget(Info,
                                  [Info.req EXCEPT !.names = next(ext)]))))
     IN IF applies /\ Item.row.to # <<>>
        THEN Goto(state, Attempt(Map(file, Item.row.to), "on", Failed(Info)))
        ELSE Return(state)

\* Mutant of LoadFile: whatever exists is taken for a file.
LoadAny ==
  /\ Then("load")
  /\ LET p == Resolved(Info)
         tried == IF w.enforceExtension THEN w.extensions
                  ELSE <<"">> \o w.extensions
         hits == {k \in 1..Len(tried) : \/ IsFile(Extend(p, tried[k]))
                                        \/ IsDir(Extend(p, tried[k]))}
     IN IF hits = {} THEN Return(state)
        ELSE Return(Found(Info, Extend(p, tried[Min(hits)])))

\* The path itself, unless an extension is enforced, or with an extension.
LoadFile ==
  /\ Then("load")
  /\ LET p == Resolved(Info)
         tried == IF w.enforceExtension THEN w.extensions
                  ELSE <<"">> \o w.extensions
         hits == {k \in 1..Len(tried) : IsFile(Extend(p, tried[k]))}
     IN IF hits = {} THEN Return(state)
        ELSE Return(Found(Info, Extend(p, tried[Min(hits)])))

ResolveAsDir ==
  /\ Then("dir")
  /\ LET p == Resolved(Info)
     IN IF ~IsDir(p) THEN Return(Failed(Info))
        ELSE IF PkgFails(p) THEN Return(Error("Json"))
        ELSE Goto(state, (IF HasPkg(p)
                          THEN << [step |-> "mainField", dir |-> PkgDir(p)] >>
                          ELSE <<>>) \o Thens(<<"mainFile">>))

-----------------------------------------------------------------------------
(* resolve.rs: modules *)

\* The loop over options.modules; a folder name is looked for in the
\* directory of the request and, by the nested calls, in those above it.
ResolveAsModules ==
  /\ Doing("modules")
  /\ IF IsFinished(state) THEN Return(state)
     ELSE IF Item.rest = <<>> THEN Return(Failed(Item.info))
     ELSE LET m == Head(Item.rest)
              from == Item.info.path
              folder == IF m.absolute THEN m.names ELSE from \o m.names
          IN Goto(Resolving(Item.info),
                  << [step |-> "inModules", from |-> from, folder |-> folder] >>
                  \o (IF m.absolute \/ from = <<>> THEN <<>>
                      ELSE << [step |-> "findUp", to |-> DirOf(from)] >>)
                  \o << [step |-> "modules", rest |-> Tail(Item.rest),
                         info |-> Item.info] >>)

FindUp ==
  /\ Then("findUp")
  /\ Goto(Resolving(WithPath(Info, Item.to)), Thens(<<"enter">>))

\* _resolve_as_modules and the head of resolve_node_modules.  Without the
\* folder, a package can still refer to itself by its name.
InModules ==
  /\ Then("inModules")
  /\ LET folder == Item.folder
         scope == PkgDir(folder)
         self == IF HasPkg(folder) THEN << [step |-> "self", dir |-> scope] >>
                 ELSE <<>>
     IN IF PkgFails(folder) THEN Return(Error("Json"))
        ELSE IF IsDir(folder)
        THEN Goto(state, << [step |-> "module", from |-> Item.from,
                             folder |-> folder] >> \o self)
        ELSE IF HasPkg(folder) /\ scope = Item.from THEN Goto(state, self)
        ELSE Return(state)

ResolveSelf ==
  /\ Then("self")
  /\ IF IsResolveSelf(Pkg, Info)
     THEN Goto(state, << [step |-> "exports", dir |-> Item.dir] >>)
     ELSE Return(state)

\* resolve_node_modules: what is found in the folder is final, what is not
\* is looked for further up.
ResolveNodeModules ==
  /\ Then("module")
  /\ LET module == Walk(Item.folder, ModuleName(Info.req.names))
         inFolder == Resolving(WithPath(Info, Item.folder))
         scope == PkgDir(module)
         isOwn == scope = Item.from /\ ~IsResolveSelf(w.pkg[scope], Info)
         fields == (IF isOwn THEN <<>>
                    ELSE << [step |-> "exports", dir |-> scope] >>)
                   \o << [step |-> "imports", dir |-> scope],
                         [step |-> "mainField", dir |-> scope],
                         [step |-> "browser", dir |-> scope, self |-> TRUE] >>
     IN IF ~IsDir(module)
        THEN Goto(inFolder, Thens(<<"file">>)
                            \o << [step |-> "unlessFile", info |-> Info] >>)
        ELSE IF PkgFails(module) THEN Return(Error("Json"))
        ELSE Goto(inFolder,
                  (IF HasPkg(module) THEN fields ELSE <<>>)
                  \o Thens(<<"context", "fullySpecified", "file", "dir",
                             "unlessFailed">>))

UnlessFile ==
  /\ Doing("unlessFile")
  /\ Return(IF IsFinished(state) THEN state ELSE Resolving(Item.info))

\* Mutant of UnlessFailed: the first folder with the package is final.
KeepFailed == Doing("unlessFailed") /\ Return(state)
UnlessFailed ==
  /\ Doing("unlessFailed")
  /\ Return(IF state.tag = "Failed" THEN Resolving(Info) ELSE state)

-----------------------------------------------------------------------------
(* Resolver::resolve *)

\* State::map_failed: only State::Failed is given to the fallback table.
Fallback ==
  /\ Doing("fallback")
  /\ IF state.tag = "Failed"
     THEN Goto(Resolving(Info), Attempt(AliasTargets(w.fallback, Info), "off",
                                        Resolving(Info)))
     ELSE Return(state)

\* SymlinkPlugin, State::map_success
Symlink ==
  /\ Doing("symlink")
  /\ IF state.tag = "Success" /\ w.symlinks /\ Info.path \in DOMAIN w.real
     THEN Return(Success(WithPath(Info, w.real[Info.path])))
     ELSE Return(state)

\* Resource::new takes the description of the result for granted.
MakeResource ==
  /\ Doing("resource")
  /\ IF state.tag = "Success" /\ PkgFails(Info.path)
     THEN Return([tag |-> "Panic"])
     ELSE Return(state)

Init ==
  /\ w \in Worlds
  /\ state = Resolving(At(w.from, w.request))
  /\ control = Thens(<<"enter", "fallback", "symlink", "resource">>)
  /\ depth = 0
  /\ fully = w.fully

Plugins ==
  \/ ParsePlugin \/ AliasPlugin \/ PreferRelativePlugin \/ PackageScope
  \/ ImportsFieldPlugin \/ BrowserFieldPlugin \/ ExportsFieldPlugin
  \/ MainFieldPlugin \/ MainFilePlugin \/ ExtensionAliasPlugin
Methods ==
  \/ Enter \/ Leave \/ Dispatch
  \/ ResolveAsContext \/ ResolveAsFullySpecified \/ ResolveAsFile \/ LoadFile
  \/ ResolveAsDir \/ ResolveAsModules \/ FindUp \/ InModules \/ ResolveSelf
  \/ ResolveNodeModules \/ UnlessFile \/ UnlessFailed
  \/ Fallback \/ Symlink \/ MakeResource
Next == Plugins \/ Methods \/ Skip \/ NextAttempt \/ RestoreFully

\* The call runs on one thread, which goes on until the chain is done.
Spec == Init /\ [][Next]_vars /\ WF_vars(Next)

-----------------------------------------------------------------------------
(* Properties *)

Done == control = <<>>
Tags == {"Resolving", "Failed", "Success", "Ignored", "Error", "Panic"}
Steps == ThenSteps \cup
  {"attempt", "restore", "leave", "modules", "module", "unlessFile",
   "unlessFailed", "fallback", "symlink", "resource"}
Fails == Done /\ state.tag \in {"Resolving", "Failed"}

\* Type invariant: the kinds of State and of links, and the two counters.
TypeOK ==
  /\ state.tag \in Tags
  /\ \A k \in 1..Len(control) : control[k].step \in Steps
  /\ depth \in 0..MaxDepth /\ fully \in BOOLEAN

\* _resolve is never more than MaxDepth calls deep, and at that depth the
\* call is over: a chain of aliases that maps names onto each other ends in
\* Error::Overflow, and nothing on the way back tries something else.
OverflowIsFinal ==
  /\ depth <= MaxDepth
  /\ depth = MaxDepth => state = Error("Overflow")

\* Context::depth counts the calls of _resolve that have not returned, one
\* more after an overflow, so that no call starts with a depth that other
\* calls have used up and decrease never takes the u16 below zero.
DepthMatches ==
  LET open == Cardinality({k \in DOMAIN control : control[k].step = "leave"})
  IN depth = IF state = Error("Overflow") THEN open + 1 ELSE open

\* Every plugin that changes fully_specified for a nested call restores it:
\* when nothing is left to restore it is what the options say, and what is
\* restored last is that too.
FullyRestored ==
  LET pending == {k \in DOMAIN control : control[k].step = "restore"}
  IN /\ pending = {} => fully = w.fully
     /\ \A k \in pending :
          (\A j \in pending : j <= k) => control[k].fully = w.fully

\* State::Error is returned directly (state.rs): no plugin and no loop tries
\* another alternative after an error.
ErrorIsFinal ==
  [][state.tag = "Error" => state' = state]_vars

\* Unless a context is asked for, what resolve returns is a file that exists,
\* and never a directory, whatever aliases, fields, extensions and links led to
\* it.  (ContextIsDir says what it is otherwise.)
ResultIsFile ==
  Done /\ state.tag = "Success" /\ ~w.toContext => IsFile(Info.path)

\* Only requests without a target are left when a file was found, which
\* SymlinkPlugin asserts (symlink.rs:9).
TargetUsedUp == state.tag = "Success" => Info.req.names = <<>>

\* The description of the result can be read, for resolve unwraps it
\* (resource.rs:20).  PackageScope, InModules, ResolveNodeModules and ResolveAsDir
\* look up what is requested, but not the file that is found in the end.
NoPanic == state.tag # "Panic"

\* A package with a description that does not parse is not passed over: when
\* the path requested lies in one and no option rewrites the request, the call
\* fails with that, whatever files, folders of modules and fallbacks there are.
Broken ==
  /\ w.alias = <<>> /\ ~w.preferRelative /\ w.request.frag = ""
  /\ PkgFails(Resolved(At(w.from, w.request)))
BrokenIsError == Done /\ Broken => state.tag = "Error"

\* Every call returns, also when aliases, browser fields or exports refer to
\* each other in a circle.
Returns == <>Done

=============================================================================
