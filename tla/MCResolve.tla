----------------------------- MODULE MCResolve -----------------------------
(* Instances of Resolve for TLC: the worlds are combinations of a small     *)
(* disk, a few descriptions, options and requests.                          *)
EXTENDS ResolvePromise

N(x) == <<x>>
Js(x) == <<x, ".js">>
Ts(x) == <<x, ".ts">>
a == N("a")
b == N("b")
x == N("x")
y == N("y")
nm == N("node_modules")
index == N("index")

Relative(names) == Req("relative", names)
Module(names) == Req("normal", names)
Slash(req) == [req EXCEPT !.slash = TRUE]

\* The directories that the files need.
Needed(files, pkg) ==
  UNION {{SubSeq(f, 1, n) : n \in 0..Len(f) - 1} : f \in files}
  \cup UNION {{SubSeq(d, 1, n) : n \in 0..Len(d)} : d \in DOMAIN pkg}

Description ==
  [name |-> NoField, main |-> <<>>, exports |-> NoField,
   imports |-> NoField, browser |-> <<>>]

World(files, pkg, request) ==
  [files |-> files, dirs |-> Needed(files, pkg), pkg |-> pkg,
   real |-> [p \in {} |-> p], from |-> <<a, b>>, request |-> request,
   alias |-> <<>>, fallback |-> <<>>, extensions |-> <<".js", ".ts">>,
   enforceExtension |-> FALSE, extensionAlias |-> <<>>,
   preferRelative |-> FALSE, browserField |-> FALSE, toContext |-> FALSE,
   fully |-> FALSE, symlinks |-> FALSE, mainFiles |-> <<index>>,
   modules |-> << [absolute |-> FALSE, names |-> <<nm>>] >>]

NoPkg == [d \in {} |-> Description]

\* Plain requests: every set of these files, where no file is a directory.
LocalFiles == { <<a, b, Js("x")>>, <<a, b, x>>, <<a, b, x, Js("index")>> }
NearModules ==
  { <<a, b, nm, Js("x")>>, <<a, b, nm, x, Ts("index")>>, <<a, b, nm, x, y>>, <<nm, Ts("x")>> }
PlainFiles ==
  LocalFiles \cup NearModules \cup { <<a, nm, x, Js("y")>>, <<a, nm, x, Js("index")>> }
PlainDisks ==
  {files \in SUBSET PlainFiles :
     \A f, g \in files : f # g => ~IsPrefix(f, g)}

\* Of the files a request must not look at, all are there or none.
DisksFor(request) ==
  IF request.kind = "normal"
  THEN {files \in PlainDisks :
          files \cap LocalFiles \in { {}, { <<a, b, Js("x")>>, <<a, b, x, Js("index")>> } }}
  ELSE {files \in PlainDisks : files \cap NearModules \in { {}, NearModules }}
PlainPkgs ==
  { NoPkg,
    [d \in { <<a, b, nm, x>> } |->
       [Description EXCEPT !.main = << Slash(Relative(<<y>>)), Relative(<<y>>) >>]],
    [d \in { <<a, nm, x>>, <<a>> } |->
       [Description EXCEPT !.name = <<x>>,
                           !.main = << Relative(<<>>), Relative(<<y>>) >>]] }
PlainRequests ==
  { Relative(<<x>>), Slash(Relative(<<x>>)), Relative(<<Up, b, x>>),
    Module(<<x>>), Slash(Module(<<x>>)), Module(<<x, y>>),
    Req("absolute", <<a, nm, x>>) }
PlainWorlds ==
  UNION {{World(files, pkg, request) : files \in DisksFor(request), pkg \in PlainPkgs}
         \cup {[World(files, NoPkg, request) EXCEPT !.enforceExtension = TRUE] :
                 files \in DisksFor(request)} :
         request \in PlainRequests}

\* Descriptions and main files that lead on and round, two folders of modules.
c == N("c")
z == N("z")
NearFiles ==
  { <<a, b, nm, x, y, Js("index")>>, <<a, b, nm, x, y, Js("z")>>,
    <<a, b, nm, x, index, Js("index")>> }
DeepFiles ==
  NearFiles \cup { <<a, b, c, Js("x")>>, <<a, c, x, Js("index")>>, <<a, nm, Js("x")>>, <<c, x, y>> }
DeepPkgs ==
  { NoPkg,
    [d \in { <<a, b, nm, x>>, <<a, b, nm, x, y>>, <<a, c>> } |->
       [Description EXCEPT
          !.main = IF d = <<a, b, nm, x>> THEN << Relative(<<y>>) >> ELSE << Relative(<<z>>) >>]],
    [d \in { <<a, b, nm, x>>, <<a, b, nm, x, y>> } |->
       [Description EXCEPT
          !.main = IF d = <<a, b, nm, x>> THEN << Slash(Relative(<<y>>)) >>
                   ELSE << Relative(<<Js("z")>>), Relative(<<Up>>) >>]] }
Folders(absolute, names) == [absolute |-> absolute, names |-> names]
Target(p) == <<c>> \o p
DeepModules ==
  { << Folders(FALSE, <<nm>>), Folders(FALSE, <<c>>) >>,
    << Folders(TRUE, <<c>>), Folders(FALSE, <<nm>>), Folders(TRUE, <<a, c>>) >> }
DeepWorlds ==
  {[World(files, pkg, Module(<<x>>)) EXCEPT !.modules = modules] :
     files \in SUBSET DeepFiles, pkg \in DeepPkgs, modules \in DeepModules}
  \cup
  {World(files, pkg, request) :
     files \in SUBSET NearFiles, pkg \in DeepPkgs,
     request \in { Relative(<<nm, x>>), Module(<<x, y>>) }}
  \cup
  \* All files are links, each to a file of its own in another tree.
  {[World(files \cup {Target(p) : p \in files}, pkg, Module(<<x>>)) EXCEPT
      !.symlinks = TRUE, !.real = [p \in files |-> Target(p)]] :
     files \in SUBSET (DeepFiles \ { <<a, b, c, Js("x")>> }), pkg \in DeepPkgs}

\* Requests that options and descriptions rewrite.
hx == N("#x")
hy == N("#y")
hz == N("#z")
To(from, to) == [from |-> from, to |-> to, exact |-> FALSE]
Exactly(from, to) == [from |-> from, to |-> to, exact |-> TRUE]

RewriteFiles ==
  { <<a, b, Js("x")>>, <<a, b, Ts("x")>>, <<a, b, Js("y")>>, <<a, b, c, Js("z")>>,
    <<a, b, nm, x, Js("z")>>, <<a, nm, x, Js("index")>>, <<a, nm, x, Js("y")>>,
    <<nm, Js("y")>> }

Project ==
  [Description EXCEPT
     !.name = <<a>>,
     !.exports = [k \in {<<>>, <<y>>} |->
                    IF k = <<>> THEN << Relative(<<c>>), Relative(<<b, Js("y")>>) >>
                    ELSE << Module(<<y>>) >>],
     !.imports = [k \in { <<hx>>, <<hy>>, <<hz>> } |->
                    CASE k = <<hx>> -> Module(<<x>>)
                      [] k = <<hy>> -> Relative(<<b, Js("y")>>)
                      [] k = <<hz>> -> Relative(<<Up, nm, Js("y")>>)],
     !.browser = << To(Module(<<x>>), Module(<<y>>)),
                    To(Relative(<<b, Js("x")>>), Relative(<<b, Js("y")>>)),
                    To(Module(<<a>>), Ignored) >>]
Library ==
  [Description EXCEPT
     !.name = <<x>>,
     !.main = << Relative(<<c>>), Relative(<<y>>) >>,
     !.browser = << To(Relative(<<Js("index")>>), Module(<<x>>)),
                    To(Relative(<<Js("y")>>), Relative(<<Js("y")>>)) >>]
Exporting ==
  [Library EXCEPT
     !.exports = [k \in {<<>>, <<y>>, <<z>>} |->
                    CASE k = <<>> -> << Relative(<<Js("index")>>) >>
                      [] k = <<y>> -> << Relative(<<c>>), Relative(<<y>>),
                                         Relative(<<Up, x, y>>) >>
                      [] k = <<z>> -> << Relative(<<c>>) >>]]
RewritePkgs ==
  { NoPkg,
    [d \in { <<a>> } |-> Project],
    [d \in { <<a>>, <<a, nm, x>> } |-> IF d = <<a>> THEN Project ELSE Library],
    [d \in { <<a, nm, x>> } |-> Exporting],
    [d \in { <<>>, <<a, nm, x>> } |-> IF d = <<>> THEN Description ELSE BadJson] }

RewriteRequests ==
  { Relative(<<x>>), Relative(<<Js("x")>>), Relative(<<c>>), Relative(<<z>>),
    Relative(<<Up, nm, x, y>>),
    Module(<<x>>), Slash(Module(<<x>>)), Module(<<x, y>>), Module(<<x, z>>),
    Module(<<a>>), Module(<<z>>), Req("internal", <<hx>>), Req("internal", <<hy>>),
    Req("internal", <<hz>>),
    [Relative(<<x>>) EXCEPT !.frag = "#h"], [Module(<<x>>) EXCEPT !.query = "?q"] }

Aliases ==
  { <<>>,
    << To(Module(<<x>>), Module(<<y>>)), To(Module(<<y>>), Module(<<x>>)) >>,
    << To(Module(<<x>>), Module(<<z>>)), To(Module(<<x>>), Relative(<<y>>)) >>,
    << Exactly(Module(<<x>>), Ignored), To(Relative(<<x>>), Relative(<<c>>)) >> }
Fallback1 ==
  << To(Module(<<z>>), Module(<<x>>)), To(Relative(<<z>>), Relative(<<x>>)) >>

RewriteWorlds ==
  {[World(RewriteFiles, pkg, request) EXCEPT
      !.alias = alias, !.fully = full, !.preferRelative = prefer,
      !.fallback = Fallback1] :
     pkg \in RewritePkgs, request \in RewriteRequests,
     alias \in Aliases, full \in BOOLEAN, prefer \in BOOLEAN}
  \cup
  {[World(RewriteFiles, pkg, request) EXCEPT
      !.browserField = TRUE, !.fully = full, !.toContext = ctx,
      !.extensionAlias = << [from |-> ".js", to |-> <<".ts", ".js">>] >>,
      !.symlinks = TRUE,
      !.real = [p \in { <<a, b, Js("y")>> } |-> <<nm, Js("y")>>]] :
     pkg \in RewritePkgs, request \in RewriteRequests,
     full \in BOOLEAN, ctx \in BOOLEAN}

AllWorlds == PlainWorlds \cup DeepWorlds \cup RewriteWorlds

\* A few worlds for each statement that the code departs from.
FallbackWorlds ==
  {[World(RewriteFiles, NoPkg, request) EXCEPT
      !.fallback = << To(request, Relative(<<y>>)) >>] :
     request \in {Relative(<<z>>), Relative(<<c>>)}}
\* Four ways to a file whose description nobody looked up: the real path of a
\* symlink, an extension beside a package, imports, a module's subdirectory.
UnreadDeep == RewriteFiles \cup { <<a, b, nm, x, y, Js("z")>> }
LinkedWorld ==
  [World(RewriteFiles, [d \in { <<a, nm, x>> } |-> BadJson], Relative(<<y>>)) EXCEPT
     !.symlinks = TRUE,
     !.real = [p \in { <<a, b, Js("y")>> } |-> <<a, nm, x, Js("y")>>]]
BesideWorld ==
  World(RewriteFiles,
        [d \in { <<a, b>>, <<a, b, x>> } |-> IF d = <<a, b>> THEN BadJson ELSE Library],
        Relative(<<x>>))
ImportedWorld ==
  World(RewriteFiles,
        [d \in { <<a>>, <<a, b, c>> } |->
           IF d = <<a>>
           THEN [Project EXCEPT !.imports =
                   [k \in { <<hy>> } |-> Relative(<<b, c, Js("z")>>)]]
           ELSE BadJson],
        Req("internal", <<hy>>))
BelowModuleWorld ==
  World(UnreadDeep, [d \in { <<a, b, nm, x, y>> } |-> BadJson], Module(<<x, y, z>>))
UnreadWorlds == {LinkedWorld, BesideWorld, ImportedWorld, BelowModuleWorld}
\* A context is asked for: a module that is a file, and one that is a package.
ContextWorlds ==
  {[World(RewriteFiles, NoPkg, Module(<<m>>)) EXCEPT !.toContext = TRUE] : m \in {x, y}}
ModuleWorlds ==
  {World(RewriteFiles, [d \in { <<a>> } |-> Project], Module(<<m>>)) :
     m \in {a, x}}
=============================================================================
