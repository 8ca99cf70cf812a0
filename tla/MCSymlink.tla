----------------------------- MODULE MCSymlink ------------------------------
(* Trees and disks for TLC.  A disk is made from its links: where each of   *)
(* them leads, by name.                                                     *)
EXTENDS Symlink, TLC

CONSTANTS t1, t2, a, b, x

MCThreads == {t1, t2}
MCNames == {a, b, x}
MCGoals == {<<a>>, <<a, b>>}
MCPaths == {<<>>, <<a>>, <<a, b>>}

\* The path of p when its directory has the canonical path canon.
Above(canon, p) == IF canon = Fails THEN Fails ELSE Append(canon, Last(p))

Disk(top, sub) ==
  LET ca == IF top = NoLink THEN <<a>> ELSE top
      cb == IF sub = NoLink THEN Above(ca, <<a, b>>) ELSE IF ca = Fails THEN Fails ELSE sub
  IN [link |-> {p \in {<<a>>, <<a, b>>} : IF p = <<a>> THEN top # NoLink ELSE sub # NoLink},
      canon |-> (<<>> :> <<>>) @@ (<<a>> :> ca) @@ (<<a, b>> :> cb)]

\* The directory, the file below it, both or none are links, or one is broken.
MCDisks ==
  {Disk(top, sub) : top \in {NoLink, <<x>>}, sub \in {NoLink, <<x, x>>}}
  \cup {Disk(Fails, NoLink), Disk(NoLink, Fails)}
=============================================================================
