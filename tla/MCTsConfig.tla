---------------------------- MODULE MCTsConfig -----------------------------
(* Worlds for TLC: chains of tsconfig files, and tables of paths.           *)
EXTENDS TsConfig, TLC

CONSTANTS f1, f2, f3

MCFiles == {f1, f2, f3}
r == <<"r">>
a == <<"a">>
b == <<"b">>
star == <<"*">>
slash == <<"/">>
MCChars == {"r", "a", "b", "*", "/", "."}

NoKeys == [k \in {} |-> Null]
Paths1(k, list) == Obj(k :> List([i \in 1..Len(list) |-> Str(list[i])]))
Options2(base, paths) ==
  Obj("compilerOptions" :> Obj((IF base = NoField THEN NoKeys ELSE "baseUrl" :> base)
                               @@ (IF paths = NoField THEN NoKeys ELSE "paths" :> paths)))

\* What a file says, without its extends.
Says ==
  { Obj(NoKeys),
    Obj("compilerOptions" :> Null),
    Obj("compilerOptions" :> Str(a)),
    Options2(Str(a), NoField),
    Options2(Null, Paths1(a, <<b>>)),
    Options2(Str(b), Paths1(a, <<a>>)),
    Options2(NoField, Paths1(star, <<b>>)) }

WithExtends(j, to) == Obj(("extends" :> to) @@ j.obj)
Json(j) == [t |-> "json", v |-> j]
Other(t) == [t |-> t, v |-> Null]

World(content, lookup, context, target, found) ==
  [root |-> f1, content |-> content, lookup |-> lookup, toContext |-> context,
   dir |-> r, target |-> target, found |-> found, bad |-> {}, ignored |-> {}, plain |-> Failed,
   patterns |-> {a, star}]

Chain3(c1, l1, c2, l2, c3) ==
  World([f \in MCFiles |-> IF f = f1 THEN c1 ELSE IF f = f2 THEN c2 ELSE c3],
        [f \in MCFiles |-> IF f = f1 THEN l1 ELSE IF f = f2 THEN l2 ELSE Failed],
        TRUE, a, {})

Extending == {Json(WithExtends(j, Str(a))) : j \in Says}
Ending == {Json(j) : j \in Says} \cup {Json(WithExtends(j, Null)) : j \in Says}
Broken == {Other("absent"), Other("empty"), Other("malformed"), Json(List(<<>>))}

\* The first file extends: nothing that is there, itself, a second file that
\* extends nothing, or one that extends the first, a third or nothing.
ChainWorlds ==
  LET none == Other("absent")
  IN {Chain3(c1, l1, none, Failed, none) :
        c1 \in Extending, l1 \in {f1, Ignored, Failed, Error}}
     \cup {Chain3(c1, f2, c2, Failed, none) : c1 \in Extending, c2 \in Ending \cup Broken}
     \cup {Chain3(c1, f2, c2, l2, none) :
              c1 \in Extending, c2 \in Extending, l2 \in {f1, Ignored, Failed}}
     \cup {Chain3(c1, f2, c2, f3, c3) :
              c1 \in Extending, c2 \in Extending, c3 \in {Json(j) : j \in Says} \cup Broken}

\* Tables of paths, in one file, and which of the candidates are there.
Tables ==
  { Obj(star :> List(<<Str(star), Str(a \o slash \o star)>>)),
       Obj((star :> List(<<Str(b \o star)>>))
           @@ ((a \o star) :> List(<<Str(star \o slash \o star), Str(slash \o star)>>))
           @@ (a :> List(<<Str(a \o b), Str(star \o b)>>))),
       Obj(((a \o star \o b) :> List(<<Str(star), Str(b \o star)>>))
           @@ ((a \o slash \o star) :> List(<<Str(b), Str(slash \o star)>>))) }
Targets == {a, a \o b, a \o b \o b, a \o slash \o b, <<".", "/", "a">>, <<"a", "a", "b">>}
Places == {a, b, a \o b, a \o slash \o a, b \o slash \o b, b \o a, a \o slash \o b}

\* At most three of the texts are paths that are found, are ignored or fail.
Ignoring == {b, b \o a}
TableWorlds ==
  LET none == Other("absent")
      At(base, x) == Join(IF base = NoField THEN r ELSE Join(r, base.str), x)
  IN {[Chain3(Json(Options2(base, table)), Failed, none, Failed, none) EXCEPT
         !.toContext = FALSE, !.target = target,
         !.found = {At(base, x), slash \o b},
         !.bad = IF y \in Ignoring THEN {} ELSE {At(base, y)},
         !.ignored = IF y \in Ignoring THEN {At(base, y)} ELSE {},
         !.plain = IF target = a THEN Failed ELSE slash \o b] :
        base \in {NoField, Str(b), Str(slash)}, table \in Tables, target \in Targets,
        x \in Places, y \in Places}

MCWorlds == ChainWorlds \cup TableWorlds
=============================================================================
