------------------------------ MODULE MCFastPath ------------------------------
(* Instances of FastPath for TLC: families of sources and their bindings. *)
EXTENDS FastPath, TLC

Op(kind) == <<<<kind>>>>
Id(name) == <<<<"identifier", name>>>>
Quoted(name) == <<<<"quoted_identifier", name>>>>
Str(text) == <<<<"string", text>>>>
Num(n) == <<<<"number", Integer(n)>>>>
T == Id("true")
F == Id("false")

Group(s) == Op("(") \o s \o Op(")")
Sel(target, field) == target \o Op(".") \o Id(field)
At(target, key) == target \o Op("[") \o key \o Op("]")
Of(a, op, b) == a \o Op(op) \o b
CallOf(name, args) == Id(name) \o Group(args)
Comma(a, b) == Of(a, ",", b)

Dict(fields) == <<"dict", fields>>
List(items) == <<"list", items>>
Yes == Bool(TRUE)
No == Bool(FALSE)
Odd == <<"odd">>

Ample == [max_source_bytes |-> 60, max_depth |-> 12, max_nodes |-> 40]

-----------------------------------------------------------------------------
(* Reads of o.i in every combination of branches *)

P == Id("p")
Inner == Sel(Id("o"), "i")
X == Sel(Inner, "x")
Y == Sel(Inner, "y")

Or(a, b) == Group(Of(a, "||", b))
And(a, b) == Of(a, "&&", b)
If(c, a, b) == Group(c \o Op("?") \o a \o Op(":") \o b)
Loop(kind, name, body) == Id("l") \o Op(".") \o CallOf(kind, Comma(Id(name), body))
Not(a) == Op("!") \o a

Loops ==
  {Loop(kind, "e", body) : kind \in {"all", "exists"},
     body \in {Id("e"), X, And(X, Id("e")), Or(Id("e"), Y), Not(Id("e"))}}
  \cup {Loop("all", "o", Sel(Sel(Id("o"), "i"), "x")),
        Loop("exists", "e", Loop("all", "o", Or(Id("o"), Id("e"))))}

ShortLoops == {Loop("all", "e", X), Loop("exists", "e", Or(Id("e"), Y))}

Parts == {P, X, Y}
Pairs == UNION {{Group(And(a, b)), Or(a, b)} : a \in Parts, b \in {P, Y}}
Ternaries == {If(P, T, X), If(P, X, X), If(P, X, F)}

BranchSources ==
  {And(a, b) : a \in Pairs \cup Loops \cup Ternaries, b \in {X, Y} \cup ShortLoops}
    \cup {Of(a, "||", b) : a \in {P, X} \cup Ternaries, b \in Pairs \cup Loops \cup Ternaries}
    \cup {And(Or(P, X), Or(P, Y)), Of(Group(And(P, X)), "==", Or(P, Y)), Not(X),
          Op("(") \o Id("o") \o Op(")") \o Op(".") \o Quoted("i") \o Op(".") \o Id("y")}

Objects ==
  {Dict([i |-> inner]) :
     inner \in {Dict([x |-> Yes, y |-> No]), Dict([x |-> No, y |-> Yes]), Dict([x |-> Yes]),
                Dict([x |-> Integer(1), y |-> Yes]), Odd}}

Dotted ==
  {<<>>, <<"o", "i">> :> Dict([x |-> No, y |-> No]), <<"o", "i", "y">> :> Yes}

BranchInputs ==
  {(<<"p">> :> p) @@ (<<"l">> :> List(l)) @@ (<<"o">> :> o) @@ dotted :
     p \in {Yes, No}, o \in Objects, dotted \in Dotted,
     l \in {<<>>, <<Yes, No>>, <<Dict([i |-> Dict([x |-> Yes])])>>}}

-----------------------------------------------------------------------------
(* Types, ranges and texts *)

S == Id("s")
K == Id("k")
N == Id("n")
Key == At(Id("m"), K)
Item3 == At(Id("l"), N)
MethodOf(target, name, args) == target \o Op(".") \o CallOf(name, args)
SizeOf(a) == MethodOf(a, "size", <<>>)
Texts2 == Op("[") \o Comma(Str("a"), Str("b")) \o Op("]")
Neg(a) == Op("-") \o a

DataSources ==
  {Of(a, op, b) : op \in {"==", "!="}, a \in {S, K, Key}, b \in {S, Str("a"), Str("ab"), Num(1), Key}}
  \cup {Of(Of(N, op, m), "<", Num(1)) : op \in {"+", "-", "*", "/", "%"}, m \in {Neg(Num(2)), Num(2), Id("z")}}
  \cup {Of(N, op, m) : op \in {"<", "<=", ">", ">=", "=="}, m \in {Num(0), Neg(N), SizeOf(S)}}
  \cup {MethodOf(a, f, b) : f \in {"startsWith", "contains"}, a \in {S, Key}, b \in {Str("a"), S}}
  \cup {MethodOf(S, "matches", Str("re"))}
  \cup {Of(a, "in", list) : a \in {S, Key}, list \in {Op("[") \o Op("]"), Texts2}}
  \cup {Of(SizeOf(a), "==", Num(2)) : a \in {S, Id("l"), Str("ab"), Id("m")}}
  \cup {Of(Item3, "==", Num(1)), Of(Item3, "==", Item3),
        MethodOf(Id("l"), "all", Comma(K, Of(K, ">", Num(0))))}
  \cup {Of(S, "==", Str("a")) \o Op("?") \o a \o Op(":") \o b : a \in {S, Key, Str("b")}, b \in {S, Str("a")}}
  \cup {CallOf("has", Sel(Id("m"), "k")), Of(N, "==", Num(4)), And(N, SizeOf(N)),
        Not(Not(Not(Not(Not(Not(P))))))}

Texts == {"a", "b", "ab", "lone"}

DataInputs ==
  {(<<"s">> :> s) @@ (<<"k">> :> k) @@ (<<"m">> :> m) @@ (<<"n">> :> n)
     @@ (<<"l">> :> List(<<Integer(1), Integer(3)>>)) @@ (<<"z">> :> Integer(0)) :
     s \in {Text(t) : t \in Texts} \cup {Integer(1)},
     k \in {Text("a"), Text("lone"), Integer(0)},
     m \in {Dict([a |-> Text("a"), b |-> Text("lone")]), Dict([a |-> Text("ab"), b |-> Text("a")]),
           List(<<Text("ab")>>)},
     n \in {Integer(v) : v \in {-5, -3, 0, 1, 4, 5}} \cup {Odd}}

-----------------------------------------------------------------------------
(* The grammar: every short sequence of some tokens, macros, and limits *)

RECURSIVE Words(_, _)
Words(tokens, n) ==
  IF n = 0 THEN {<<>>}
  ELSE Words(tokens, n - 1) \cup {w \o t : w \in Words(tokens, n - 1), t \in tokens}

Prefixed == Words({Id("a"), Op("."), Op("?"), Op(":"), Op("-")}, 6)

Balanced == Words({Id("a"), Op("("), Op(")"), Op(","), Op("["), Op("]")}, 5)

A == Id("a")
B == Id("b")

Operations == {"||", "&&", "==", "+", "-", "*"}

\* Three operators without parentheses, prefix operators and conditionals.
Chains ==
  {Of(Of(Of(A, x, B), y, u \o A), z, B) : x \in Operations, y \in Operations, z \in Operations,
     u \in {<<>>, Op("-"), Op("!")}}
  \cup {Of(A, x, B) \o Op("?") \o Of(A, y, B) \o Op(":") \o Of(B, z, A) : x, y, z \in Operations \cup {"?"}}
  \cup {A \o Op("?") \o B \o Op("?") \o A \o Op(":") \o B \o Op(":") \o A,
        A \o Op("?") \o A \o Op(":") \o B \o Op("?") \o A \o Op(":") \o B}

Arguments4 ==
  {<<A>>, <<A, B>>, <<A, A>>, <<A, A, B>>, <<A, B, A>>, <<A, B, A, B>>, <<A, B, A, B, A>>,
   <<Op(".") \o A, B>>, <<Num(1), B>>, <<>>, <<Sel(A, "b")>>, <<A, Sel(A, "b")>>, <<Num(0), Num(1)>>,
   <<Op("[") \o A \o Op("]")>>, <<Op("[") \o A \o Op("]"), B>>, <<Num(1), Str("a")>>}

RECURSIVE Separated(_)
Separated(args) ==
  CASE args = <<>> -> <<>>
    [] Len(args) = 1 -> args[1]
    [] OTHER -> args[1] \o Op(",") \o Separated(Tail(args))

Functions ==
  {"has", "all", "existsOne", "exists_one", "map", "filter", "transformList", "transformMapEntry",
   "optMap", "sortBy", "matches", "f"}

Receivers == {<<>>, A \o Op("."), Str("a") \o Op("."), Op(".")}

Macros ==
  {r \o CallOf(f, Separated(args)) : r \in Receivers, f \in Functions, args \in Arguments4}
  \cup {Id(ns) \o Op(".") \o CallOf(f, Separated(args)) : args \in Arguments4,
          <<ns, f>> \in {"cel"} \X {"bind", "block", "index", "iterVar"}
                          \cup {<<"proto", "getExt">>, <<"proto", "hasExt">>, <<"math", "least">>}}

Entry == Of(A, ":", B)

Brackets ==
  {t \o Op("{") \o e \o Op("}") : t \in {<<>>, A, Sel(A, "b"), A \o Op(".") \o Quoted("b"), Group(A), Num(1)},
     e \in {<<>>, Entry, Entry \o Op(","), Comma(Entry, Op("?") \o Entry), Op(","), Op("?") \o A,
            If(A, B, A), Of(If(A, B, A), ":", B), Quoted("x-y") \o Op(":") \o A, Id("true") \o Op(":") \o A}}
  \cup {t \o Op("[") \o e \o Op("]") : t \in {<<>>, A, Group(A), Neg(Num(2))},
          e \in {<<>>, A, A \o Op(","), Comma(A, Op("?") \o B), Op("?") \o A, Op(",")}}
  \cup {t \o Op(".") \o f : t \in {<<>>, A, Sel(A, "b"), Group(A), Num(1), Neg(Num(LargestInt + 1))},
          f \in {A, T, Id("if"), Op("?") \o A, Quoted("b"), Op("?") \o Quoted("b"), Quoted("b") \o Group(A),
                 Op("?") \o A \o Group(B), <<<<"invalid">>>>, <<>>}}
  \cup {u \o n : u \in {<<>>, Op("-"), Op("-") \o Op("-"), Op("!")},
          n \in {Num(LargestInt), Num(LargestInt + 1), Num(LargestInt + 2), Str("broken"),
                 <<<<"number", <<"double", "inf">>>>>>, <<<<"number", <<"uint", LargestInt + 1>>>>>>}}

Grammatical == Prefixed \cup Balanced \cup Chains \cup Macros \cup Brackets

Tight ==
  [max_source_bytes : {12}, max_depth : 1..3, max_nodes : 1..4]

Nested ==
  {Group(Group(A)), Neg(Neg(Neg(A))), Of(Of(Of(A, "+", B), "+", A), "+", B), Of(A, "+", Of(B, "*", A)),
   Sel(Sel(Sel(A, "b"), "c"), "d"), At(At(A, B), B), At(A, At(A, B)), CallOf("f", Comma(A, Neg(B))),
   MethodOf(A, "all", Comma(B, B)), A \o Op("?") \o B \o Op(":") \o A, Op("[") \o Neg(A) \o Op("]"),
   Of(Of(A, "+", B), "+", Of(Of(Of(A, "+", B), "+", A), "+", Group(B)))}

-----------------------------------------------------------------------------
(* Where the function and the engine differ *)

\* A name of a built-in type that the bindings give a member; an invalid
\* pattern whose error the engine absorbs; a read that only the branch not
\* taken makes.
NetSources ==
  {[tokens |-> tokens, limits |-> Ample] :
     tokens \in {Of(Sel(Id("net"), "IP"), "==", Str("a")), Of(MethodOf(S, "matches", Str("bad")), "||", P),
                 And(If(P, T, X), Y)}}

NetInputs ==
  {(<<"net">> :> Dict([IP |-> Text("a")])) @@ (<<"s">> :> Text("a")) @@ (<<"p">> :> p)
     @@ (<<"o">> :> Dict([i |-> Dict([x |-> Yes, y |-> y])])) : p \in {Yes, No}, y \in {Yes, No}}

\* A text with a lone surrogate, or a dictionary of one, that a program compares
\* with a literal, looks up in a list or tests for a prefix.
SurrogateSources ==
  {[tokens |-> tokens, limits |-> Ample] :
     tokens \in {Of(S, "==", Str("a")), Of(S, "in", Texts2), MethodOf(S, "startsWith", Str("a")),
                 Of(Key, "==", Str("a"))}}

SurrogateInputs ==
  {(<<"s">> :> Text(t)) @@ (<<"k">> :> Text("a")) @@ (<<"m">> :> Dict([a |-> Text(u)])) :
     t \in Texts, u \in {"b", "lone"}}

DifferingSources == NetSources \cup SurrogateSources

DifferingInputsOf(src) == IF src \in NetSources THEN NetInputs ELSE SurrogateInputs

NetTypes == {<<"net", "IP">>, <<"net", "CIDR">>}

-----------------------------------------------------------------------------

MCSources ==
  {[tokens |-> tokens, limits |-> Ample] : tokens \in BranchSources \cup DataSources \cup Grammatical}
    \cup {[tokens |-> tokens, limits |-> limits] : tokens \in Nested, limits \in Tight}

MCInputsOf(src) ==
  CASE src.limits # Ample -> {}
    [] src.tokens \in BranchSources -> BranchInputs
    [] src.tokens \in DataSources -> DataInputs
    [] OTHER -> {}

MCSizes == [t \in Texts |-> IF t = "ab" THEN 2 ELSE 1]

Holds == {<<t, t>> : t \in Texts} \cup {<<"ab", "a">>}

MCRelated ==
  [kind \in {"startsWith", "endsWith", "contains"} |->
     IF kind = "contains" THEN Holds \cup {<<"ab", "b">>} ELSE Holds]

MCMatching == {<<"a", "re">>}
=============================================================================
