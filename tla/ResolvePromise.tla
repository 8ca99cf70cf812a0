--------------------------- MODULE ResolvePromise ---------------------------
(***************************************************************************)
(* What resolve promises for a request that no option and no field of a    *)
(* description rewrites, stated as a list of the files to try instead of   *)
(* as a chain of calls (the example of lib.rs:7-40).                       *)
(*                                                                         *)
(* A path is taken as a file, with an extension, and as a directory with a *)
(* main field or a main file, which is a path again.  A module is looked   *)
(* for in a folder of modules of the directory of the request, then in all *)
(* folders of the directories above it, and only then in the next folder   *)
(* of the first directory; after that everything above is searched again.  *)
(* Where _resolve calls itself too often, that ends the list.              *)
(***************************************************************************)
EXTENDS Resolve

Plain ==
  /\ w.alias = <<>> /\ w.fallback = <<>> /\ w.extensionAlias = <<>>
  /\ ~w.preferRelative /\ ~w.browserField /\ ~w.toContext /\ ~w.fully
  /\ w.request.kind # "internal" /\ w.request.frag = ""
  /\ \A d \in DOMAIN w.pkg :
       w.pkg[d] # BadJson /\ w.pkg[d].exports = NoField

\* A list of tries: files, and calls that would be one too many.
File(p) == [tag |-> "File", path |-> p]
TooDeep == [tag |-> "TooDeep"]
Nothing == [tag |-> "Nothing"]
IsHit(try) == try = TooDeep \/ IsFile(try.path)

\* The first try that ends the search.
First(tries) ==
  LET hits == {k \in 1..Len(tries) : IsHit(tries[k])}
  IN IF hits = {} THEN Nothing ELSE tries[Min(hits)]

Each(s, Tries(_)) == FlattenSeq([k \in 1..Len(s) |-> Tries(s[k])])

FileTries(p) ==
  Map(LAMBDA x : File(Extend(p, x)),
      (IF w.enforceExtension THEN <<>> ELSE <<"">>) \o w.extensions)

\* Where the directory p leads to: by its main fields, but those after one
\* that points to itself, and by the main files.
Place(p, slash) == [path |-> p, slash |-> slash]
Mains(p) ==
  IF p \notin DOMAIN w.pkg THEN <<>>
  ELSE Map(LAMBDA t : Place(Walk(p, t.names), t.slash),
           Before(w.pkg[p].main, LAMBDA t : t.names = <<>>))
Indexes(p) == Map(LAMBDA f : Place(Walk(p, <<f>>), FALSE), w.mainFiles)

\* A place as a file and as a directory; `inside` says what a directory holds.
PlaceTries(l, inside) ==
  (IF l.slash THEN <<>> ELSE FileTries(l.path))
  \o (IF IsDir(l.path) THEN inside[l.path] ELSE <<>>)

\* What is tried in a directory when n more calls may follow each other.
Inside[n \in 0..MaxDepth] ==
  [p \in w.dirs |->
     Each(Mains(p) \o Indexes(p), LAMBDA l :
            IF n = 0 THEN <<TooDeep>> ELSE PlaceTries(l, Inside[n - 1]))]

\* What a call for a place tries when n calls may still be made.
CallTries(n, l) ==
  IF n = 0 THEN <<TooDeep>> ELSE PlaceTries(l, Inside[n - 1])

\* A folder of modules: the package, if it is there, by its main fields first.
ModuleTries(n, folder) ==
  LET names == w.request.names
      package == Walk(folder, ModuleName(names))
      l == Place(Walk(folder, names), w.request.slash)
  IN IF ~IsDir(folder) THEN <<>>
     ELSE IF ~IsDir(package) THEN IF l.slash THEN <<>> ELSE FileTries(l.path)
     ELSE (IF HasPkg(package) /\ PkgDir(package) = l.path
           THEN Each(Mains(l.path), LAMBDA m : CallTries(n, m)) ELSE <<>>)
          \o PlaceTries(l, Inside[n])

\* The directories from `from` up to the root.
Above == [k \in 1..Len(w.from) + 1 |-> SubSeq(w.from, 1, Len(w.from) + 1 - k)]

\* What a call for the module tries when n calls may still be made and the
\* directory has k names.
Search[n \in 0..MaxDepth] ==
  [k \in 0..Len(w.from) |->
     IF n = 0 THEN <<TooDeep>>
     ELSE Each(w.modules, LAMBDA m :
            IF m.absolute THEN ModuleTries(n - 1, m.names)
            ELSE ModuleTries(n - 1, SubSeq(w.from, 1, k) \o m.names)
                 \o (IF k = 0 THEN <<>> ELSE Search[n - 1][k - 1]))]

Tries ==
  LET i == At(w.from, w.request)
  IN IF IsPathLike(i) THEN CallTries(MaxDepth - 1, Place(Resolved(i), i.req.slash))
     ELSE Search[MaxDepth - 1][Len(w.from)]

\* What is returned for the file p.
Real(p) == IF w.symlinks /\ p \in DOMAIN w.real THEN w.real[p] ELSE p

\* Of the files the algorithm tries, resolve returns the first that exists,
\* and it fails only if none exists: no folder is passed over, an empty
\* package does not stop the search, and nothing else is ever found.  A call
\* too many comes to light only if no file before it exists.  With symlinks, the
\* order is that of the links, and the answer the file they lead to.
FirstFileWins ==
  Done /\ Plain =>
    LET first == First(Tries)
    IN CASE first = Nothing -> Fails
         [] first = TooDeep -> state = Error("Overflow")
         [] OTHER -> state.tag = "Success" /\ Info.path = Real(first.path)

-----------------------------------------------------------------------------
(* What the documentation of the options says *)

\* "Same as `alias`, but only used if default resolving fails"
\* (options.rs:77): a request does not fail while its fallback is a file.
FallbackUsed ==
  Fails =>
    \A t \in ToSet(AliasTargets(w.fallback, At(w.from, w.request))) :
      /\ t # Ignored
      /\ IsPathLike(t.info) => First(FileTries(Resolved(t.info))) = Nothing

\* "Resolve to a context instead of a file." (options.rs:51): with
\* resolve_to_context, a success is a directory.
ContextIsDir ==
  Done /\ state.tag = "Success" /\ w.toContext => IsDir(Info.path)

\* The folders of modules of a directory.
ModuleFolder(p) ==
  \E m \in ToSet(w.modules) :
    IF m.absolute THEN p = m.names ELSE IsSuffix(m.names, p)

\* Where the code departs from that (resolve.rs:219): with resolve_to_context a
\* success is a directory, or a file that lies in a folder of modules itself, in
\* the place of a module (the names of these modules have no scope).  No alias,
\* field or extension leads to any other file.
ContextOrModule ==
  Done /\ state.tag = "Success" /\ w.toContext =>
    \/ IsDir(Info.path)
    \/ \E p \in w.files : Real(p) = Info.path /\ ModuleFolder(DirOf(p))

\* "resolver.resolve(&cwd.join("./src"), "foo");
\* -> <cwd>/node_modules/foo/index.js" (lib.rs:19-21): a module that no
\* option rewrites is found in a folder of modules, or is the package that
\* the request comes from and is named by it.
ModuleInFolder ==
  /\ Done /\ state.tag = "Success" /\ w.request.kind = "normal"
  /\ w.alias = <<>> /\ ~w.browserField
  => \/ \E k \in 1..Len(Above), m \in ToSet(w.modules) :
          IsPrefix(Above[k] \o m.names \o ModuleName(w.request.names), Info.path)
     \/ /\ HasPkg(w.from)
        /\ w.pkg[PkgDir(w.from)].name = ModuleName(w.request.names)
=============================================================================
