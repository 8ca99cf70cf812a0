---------------------------- MODULE MCEntryCache ----------------------------
(* Instances of EntryCache for TLC: a root, a directory in it, and a file   *)
(* and the package.json of that directory.                                  *)
EXTENDS EntryCache, TLC

CONSTANTS t1, t2, v1

MCThreads == {t1, t2}
MCPaths == {"/", "/d", "/d/f", "/d/package.json"}
MCDirs == {"/", "/d"}
MCDescPaths == {"/d/package.json"}
MCParent == ("/" :> NoPath) @@ ("/d" :> "/") @@ ("/d/f" :> "/d")
            @@ ("/d/package.json" :> "/d")
MCAnc == ("/" :> {"/"}) @@ ("/d" :> {"/", "/d"})
         @@ ("/d/f" :> {"/", "/d", "/d/f"})
         @@ ("/d/package.json" :> {"/", "/d", "/d/package.json"})

\* The directory part of the tree, for the runs about pkg_info alone.
SmallPaths == {"/", "/d", "/d/f"}
SmallParent == ("/" :> NoPath) @@ ("/d" :> "/") @@ ("/d/f" :> "/d")
SmallAnc == ("/" :> {"/"}) @@ ("/d" :> {"/", "/d"})
            @@ ("/d/f" :> {"/", "/d", "/d/f"})

Disk(root, dir, file) ==
  [p \in Paths |-> CASE p = "/" -> root [] p = "/d" -> dir
                     [] p = "/d/f" -> file [] OTHER -> Missing]

\* A description in the root only, or one that does not parse below none.
RaceDisks == {Disk(v1, NoJson, File), Disk(NoJson, BadJson, File)}
\* A description above, in no directory, or one that does not parse; an empty
\* directory, which a change may remove; no directory, which one may make.
AllDisks ==
  {Disk(v1, NoJson, File), Disk(NoJson, NoJson, File),
   Disk(v1, BadJson, File), Disk(BadJson, NoJson, File),
   Disk(v1, v1, Missing), Disk(v1, Missing, Missing)}

\* Who calls what.  Two threads ask for the description of any two paths; one
\* asks several times for what the other asks once, or clears beside it; one is
\* alone.
Plan(one, other) == (t1 :> one) @@ (t2 :> other)
At(o, p) == [op |-> o, path |-> p]
Clear == At("clear", "/")
AllPlans ==
  {Plan(<<At("pkg", "/d/f")>>, <<At("pkg", p)>>) : p \in {"/d", "/d/f"}}
  \cup {Plan(<<At("pkg", "/d/package.json")>>, <<At("pkg", "/d")>>)}
  \cup {Plan(<<At("stat", "/d"), At("stat", "/d"), At("stat", "/d")>>, <<At("stat", "/d")>>)}
  \cup {Plan(<<At("pkg", "/d"), Clear>>, <<At("stat", "/d")>>)}
  \cup {Plan(<<At("pkg", "/d/f"), At("stat", p), At("stat", p), Clear, At("pkg", p), At("stat", p)>>,
             <<>>) : p \in Paths}
RacePlans == {Plan(<<At("pkg", "/d"), Clear>>, <<At("pkg", "/d/f"), At("pkg", "/d/f")>>)}
=============================================================================
