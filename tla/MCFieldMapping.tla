--------------------------- MODULE MCFieldMapping ---------------------------
(* Worlds for TLC: requests against tables of keys, and against values.      *)
EXTENDS FieldReference

S(text) == [t |-> "str", str |-> text]
A(items) == [t |-> "arr", arr |-> items]
O(pairs) == [t |-> "obj", obj |-> pairs]
None == [t |-> "other"]

Dot == <<".">>
Rel(s) == <<".", "/">> \o s

\* Requests: a module and what follows, a query, a fragment, a scope, a
\* character of two bytes.
Rests == { <<>>, <<"/">>, <<"/", "a">>, <<"/", "a", "/">>, <<"/", "a", "b">>,
           <<"/", "a", "/", "b">>, <<"/", "a", "/", "a", "/", "b">>, <<"/", "*">>,
           <<"/", "a", "$", "b">> }
Ends == { <<>>, <<"?", "a">>, <<"#", "a">>, <<"?", "a", "/">>,
          <<"?", "a", "?", "#", "b", "?">> }
Modules == { <<"m">>, <<"@", "m", "/", "n">> }
Requests == {m \o s \o e : m \in Modules, s \in Rests, e \in Ends}
            \cup { <<"@", "m">>, <<"^", "~", "/", "a">>, <<"m", "^", "~", "/", "a">>,
                   <<"m", "/", "^", "~">>, <<"^", "~", "m", "/", "a">> }

\* Every table of up to three of these keys, in every order.
TableKeys == { Rel(<<>>), Rel(<<"a">>), Rel(<<"a", "/">>), Rel(<<"*">>), Rel(<<"a", "*">>),
               Rel(<<"a", "/", "*">>), Rel(<<"a", "*", "b">>), Rel(<<"a", "/", "*", "b">>) }
To(k) == S(IF EndsWithSlash(k) THEN Rel(<<"c", "/">>) ELSE Rel(<<"c", "*">>))
Table(ks) == O([i \in 1..Len(ks) |-> <<ks[i], To(ks[i])>>])
Tables == {Table(ks) : ks \in {s \in BoundedSeq(TableKeys, 3) : IsInjective(s)}}
          \cup { O(<< <<Rel(<<"*", "*">>), To(Dot)>>, <<Rel(<<"*">>), None>> >>),
                 O(<< <<Dot, To(Dot)>>, <<Rel(<<"*">>), S(<<"b">>)>> >>),
                 O(<< <<Dot, To(Dot)>>, <<<<"b">>, To(Dot)>> >>),
                 O(<< <<<<"a">>, To(Dot)>>, <<Dot, To(Dot)>> >>),
                 O(<< <<<<".", "a">>, To(Dot)>> >>) }

World(fields, idents, roots, names, self, found) ==
  [field : fields, ident : idents, root : roots, names : names, self : self, found : found]

\* What a request is to a few tables, and what a table is to a few requests.
RequestWorlds ==
  World({"exports"}, Requests, {Table(<<Dot, Rel(<<"a", "*">>)>>), Table(<<Rel(<<>>)>>)},
        {{}}, BOOLEAN, {{Rel(<<"c", "a">>)}})
TableWorlds ==
  World({"exports"}, {<<"m">> \o s : s \in Rests}, Tables, {{}}, {TRUE}, {{Rel(<<"c", "a">>)}})

\* Values: targets that are good, wrong, or lead up; arrays and conditions.
TargetTexts == { Rel(<<"a">>), Rel(<<"a", "/">>), <<"a">>, <<"/", "a">>, <<".">>,
           Rel(<<"a", "?", "b", "#", "c">>), <<"c", ":", "/", "a">>,
           Rel(<<".", ".", "/", "a">>), Rel(<<"a", "/", ".", ".", "/", ".", ".", "/", "b">>),
           Rel(<<"a", "/", "b", "/", ".", ".", "/", ".", "/", "c">>) }
Leaves == {S(s) : s \in TargetTexts} \cup {None}
Conditions ==
  {O(<< <<<<"import">>, x>>, <<<<"node">>, y>>, <<<<"default">>, z>> >>) :
     x \in {S(Rel(<<"a">>)), O(<< <<<<"other">>, S(<<"a">>)>> >>), O(<< <<<<"node">>, S(<<"a">>)>> >>)},
     y \in {None, A(<<S(<<"/", "a">>), S(Rel(<<"b">>))>>),
            O(<< <<<<"default">>, S(Rel(<<"a">>))>>, <<<<"import">>, S(<<"a">>)>> >>)},
     z \in {S(Rel(<<"c">>)), O(<< <<<<"import">>, S(Rel(<<"a", "/">>))>> >>)}}
Nested == Leaves \cup Conditions
          \cup {A(<<x, y>>) : x \in Leaves, y \in {S(Rel(<<"b">>)), S(Rel(<<"c">>)), A(<<>>)}}
          \cup {A(<<x, S(Rel(<<"b">>))>>) : x \in Conditions}
          \cup {O(<< <<<<"node">>, x>>, <<<<"import">>, y>> >>) :
                  x \in Conditions, y \in {S(Rel(<<"b">>)), S(<<"a">>)}}
Names == {{}, {<<"import">>}, {<<"node">>}, {<<"import">>, <<"node">>}}
Founds == {{Rel(<<"b">>)}, {Rel(<<"a">>), Rel(<<"c">>), <<"a">>}}

ValueWorlds ==
  World({"exports"}, {<<"m">>, <<"m", "?", "a">>},
        Conditions \cup {S(Rel(<<"a">>)), A(<<S(<<"a">>), S(Rel(<<"b">>))>>), None},
        Names, {TRUE}, Founds)
  \cup World({"exports"}, {<<"m">>}, {O(<< <<Dot, x>> >>) : x \in Nested}, Names, {TRUE}, Founds)
  \cup World({"imports"}, {<<"#", "a">>, <<"#", "a", "b">>, <<"#">>, <<"#", "a", "/">>, <<"m">>},
             {O(<< <<<<"#", "a">>, x>>, <<<<"#", "a", "*">>, S(<<"a", "*">>)>> >>) : x \in Nested}
             \cup {O(<< <<<<"#">>, None>> >>), O(<< <<<<"a">>, None>> >>), None},
             Names, {TRUE}, Founds)

MCWorlds == RequestWorlds \cup TableWorlds \cup ValueWorlds

\* The values of these worlds, and everything inside them.
Inner(v) == CASE v.t = "arr" -> Range(v.arr)
              [] v.t = "obj" -> {Value(v.obj, i) : i \in 1..Len(v.obj)}
              [] OTHER -> {}
Opened(values) == values \cup UNION {Inner(v) : v \in values}
Opened2(values) == Opened(Opened(values))
AllValues == {v \in Opened2(Opened2({x.root : x \in MCWorlds})) : TRUE}

AllNesting[v \in AllValues] == Max({0} \cup {AllNesting[u] + 1 : u \in Inner(v)})

\* TLC evaluates AllValues once, but what a constant is replaced by every time.
MCValues == AllValues
MCNesting == AllNesting
=============================================================================
