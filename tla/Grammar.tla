-------------------------------- MODULE Grammar -------------------------------
(***************************************************************************)
(* What the parser is for: the grammar of CEL by levels, read as the ways a*)
(* sequence of tokens can be divided among the parts of an expression.     *)
(* A reading is the node the tokens stand for, how many nodes it needs, how*)
(* deep expressions are nested in it, and the patterns it has to compile.  *)
(***************************************************************************)
EXTENDS Syntax, FiniteSets, SequencesExt

Levels ==
  <<{"?"}, {"||"}, {"&&"}, {"==", "!=", "<", "<=", ">", ">=", "in"}, {"+", "-"}, {"*", "/", "%"}>>

UnaryLevel == 7

\* The macros on a range: how many arguments, how many of them are variables,
\* and what the others are.
RangeMacros ==
  {<<macro, 2, 1, <<"predicate">>>> : macro \in {"all", "exists", "exists_one", "filter"}}
    \cup {<<macro, 3, 2, <<"predicate">>>> : macro \in {"all", "exists", "exists_one", "existsOne"}}
    \cup {<<"map", 2, 1, <<"transform">>>>, <<"map", 3, 1, <<"predicate", "transform">>>>}
    \cup {<<macro, 3, 2, <<"transform">>>> :
            macro \in {"transformList", "transformMap", "transformMapEntry"}}
    \cup {<<macro, 4, 2, <<"predicate", "transform">>>> :
            macro \in {"transformList", "transformMap", "transformMapEntry"}}

Part(row, part, args) ==
  IF \E i \in DOMAIN row[4] : row[4][i] = part
  THEN args[row[3] + CHOOSE i \in DOMAIN row[4] : row[4][i] = part] ELSE NoNode

\* Variables are distinct names without a dot.
Expanded(row, target, args) ==
  LET variables == [i \in 1..row[3] |-> BindingName(args[i])]
  IN  IF /\ \A i \in 1..row[3] : IsVariable(variables[i])
         /\ Cardinality({variables[i] : i \in 1..row[3]}) = row[3]
      THEN <<"comprehension", ComprehensionKinds[row[1]], target, variables,
             Part(row, "predicate", args), Part(row, "transform", args)>>
      ELSE Invalid

Meant(target, name, args) ==
  LET rows == {row \in RangeMacros : <<row[1]>> = name /\ row[2] = Len(args)}
  IN  IF target # NoNode /\ rows # {} THEN Expanded(CHOOSE row \in rows : TRUE, target, args)
      ELSE Lowered(target, name, args)

-----------------------------------------------------------------------------
(* Readings *)

NodesIn(readings) == FoldLeft(LAMBDA n, r : n + r.nodes, 0, readings)

PatternsIn(readings) == FoldLeft(LAMBDA all, r : all \o r.patterns, <<>>, readings)

\* Parts at the same level, and parts that are expressions of their own.
Whole(node, flat, nested) ==
  [node |-> node,
   nodes |-> NodesIn(flat \o nested) + 1,
   depth |-> Max({0} \cup {flat[i].depth : i \in DOMAIN flat}
                         \cup {nested[i].depth + 1 : i \in DOMAIN nested}),
   patterns |-> PatternsIn(flat \o nested) \o PatternOf(node)]

Leaf(node) == Whole(node, <<>>, <<>>)

Nodes(readings) == [i \in DOMAIN readings |-> readings[i].node]

\* A part that is no node of its own.
Piece(item, readings) ==
  [node |-> item, nodes |-> NodesIn(readings), patterns |-> PatternsIn(readings),
   depth |-> Max({readings[i].depth : i \in DOMAIN readings})]

Upto(s, i) == SubSeq(s, 1, i - 1)

From(s, i) == SubSeq(s, i + 1, Len(s))

Between(s, i, j) == SubSeq(s, i + 1, j - 1)

\* Where a token of one of the kinds is, not first.
Places(s, kinds) == {i \in 2..Len(s) : s[i][1] \in kinds}

Begins(s, kind) == s # <<>> /\ s[1][1] = kind

Ends(s, kind) == s # <<>> /\ s[Len(s)][1] = kind

IsField(token) ==
  \/ token[1] = "identifier" /\ token[2] \notin DOMAIN Keywords
  \/ token[1] = "quoted_identifier"

RECURSIVE Readings(_, _), Rows(_, _)

Values(s) == {Piece(<<r.node, FALSE>>, <<r>>) : r \in Readings(s, 1)}

Entries(s) ==
  UNION {{Piece(<<k.node, v.node, FALSE>>, <<k, v>>) :
            k \in Readings(Upto(s, i), 1), v \in Readings(From(s, i), 1)} : i \in Places(s, {":"})}

Fields(s) ==
  IF Len(s) > 2 /\ s[1][1] \in {"identifier", "quoted_identifier"} /\ s[2][1] = ":"
  THEN {Piece(<<s[1][2], v.node, FALSE>>, <<v>>) : v \in Readings(From(s, 2), 1)} ELSE {}

Optional(item) == [item EXCEPT !.node[Len(item.node)] = TRUE]

Required(kind, s) ==
  CASE kind = "args" -> Readings(s, 1)
    [] kind = "list" -> Values(s)
    [] kind = "map" -> Entries(s)
    [] kind = "message" -> Fields(s)

ItemsOf(kind, s) ==
  IF kind # "args" /\ Begins(s, "?") THEN {Optional(item) : item \in Required(kind, Tail(s))}
  ELSE Required(kind, s)

\* Items between commas.
Rows(kind, s) ==
  {<<item>> : item \in ItemsOf(kind, s)}
    \cup UNION {{<<item>> \o rest : item \in ItemsOf(kind, Upto(s, i)), rest \in Rows(kind, From(s, i))} :
                  i \in Places(s, {","})}

\* What brackets enclose; arguments have no comma after the last.
Enclosed(kind, s) ==
  CASE s = <<>> -> {<<>>}
    [] kind # "args" /\ Ends(s, ",") -> Rows(kind, Front(s))
    [] OTHER -> Rows(kind, s)

Conditionals(s) ==
  UNION {UNION {{Whole(<<"?:", c.node, y.node, n.node>>, <<c>>, <<y, n>>) :
                   c \in Readings(Upto(s, i), 2), y \in Readings(Between(s, i, j), 1),
                   n \in Readings(From(s, j), 1)} : j \in Places(s, {":"})} : i \in Places(s, {"?"})}

\* Operators of a level associate to the left.
Binaries(s, level) ==
  UNION {{Whole(<<"binary", s[i][1], l.node, r.node>>, <<l>>, <<r>>) :
            l \in Readings(Upto(s, i), level), r \in Readings(From(s, i), level + 1)} :
           i \in Places(s, Levels[level])}

Unaries(s) ==
  IF Begins(s, "-") \/ Begins(s, "!")
  THEN {Whole(<<"unary", s[1][1], r.node>>, <<>>, <<r>>) : r \in Readings(Tail(s), UnaryLevel)}
  ELSE {}

Calls(targets, target, name, s) ==
  {r \in {Whole(Meant(target, name, Nodes(args)), targets, args) : args \in Enclosed("args", s)} :
     r.node # Invalid}

\* Selections and calls: the field or function name is at place i + 1 of s, or
\* after a question mark.
Selections(s) ==
  UNION {{Whole(<<"select", t.node, <<s[Len(s)][2]>>,
                  s[Len(s)][1] = "identifier" /\ QualifiedName(t.node) # <<>>, FALSE>>, <<t>>, <<>>) :
            t \in Readings(Upto(s, i), 8)} : i \in {i \in Places(s, {"."}) : i = Len(s) - 1 /\ IsField(s[i + 1])}}
  \cup
  UNION {{Whole(<<"select", t.node, <<s[Len(s)][2]>>, FALSE, TRUE>>, <<t>>, <<>>) :
            t \in Readings(Upto(s, i), 8)} :
           i \in {i \in Places(s, {"."}) : i = Len(s) - 2 /\ s[i + 1][1] = "?" /\ IsField(s[i + 2])}}

MemberCalls(s) ==
  UNION {UNION {Calls(<<t>>, t.node, <<s[i + 1][2]>>, SubSeq(s, i + 3, Len(s) - 1)) :
                  t \in Readings(Upto(s, i), 8)} :
           i \in {i \in Places(s, {"."}) : /\ i < Len(s) - 2 /\ Ends(s, ")") /\ s[i + 2][1] = "("
                                           /\ s[i + 1][1] = "identifier" /\ IsField(s[i + 1])}}

Indexes(s) ==
  UNION {{Whole(<<"index", t.node, k.node, optional>>, <<t>>, <<k>>) :
            t \in Readings(Upto(s, i), 8),
            k \in Readings(SubSeq(s, IF optional THEN i + 2 ELSE i + 1, Len(s) - 1), 1)} :
           <<i, optional>> \in
             {c \in Places(s, {"["}) \X BOOLEAN : Ends(s, "]") /\ c[2] = (s[c[1] + 1][1] = "?")}}

Messages(s) ==
  UNION {UNION {{Whole(<<"message", QualifiedName(t.node), Nodes(fields)>>, <<t>>, fields) :
                   fields \in Enclosed("message", Between(s, i, Len(s)))} :
                  t \in {t \in Readings(Upto(s, i), 8) : QualifiedName(t.node) # <<>>}} :
           i \in {i \in Places(s, {"{"}) : Ends(s, "}")}}

Name(s) ==
  CASE Len(s) = 1 /\ s[1][1] = "identifier" -> <<s[1][2]>>
    [] Len(s) = 2 /\ s[1][1] = "." /\ s[2][1] = "identifier" -> <<".", s[2][2]>>
    [] OTHER -> <<>>

Names(s) == IF Name(s) = <<>> \/ Last(Name(s)) \in Reserved THEN {} ELSE {Name(s)}

GlobalCalls(s) ==
  UNION {UNION {Calls(<<>>, NoNode, name, Between(s, i, Len(s))) : name \in Names(Upto(s, i))} :
           i \in {i \in Places(s, {"("}) \cap 2..3 : Ends(s, ")")}}

LiteralsOf(s) ==
  CASE s = <<<<"-">>, LeastMagnitude>> -> {Leaf(Least)}
    [] Len(s) # 1 -> {}
    [] s[1][1] = "number" -> IF Representable(s[1][2]) THEN {Leaf(s[1][2])} ELSE {}
    [] s[1][1] \in {"string", "bytes"} -> IF s[1][2] \in Undecodable THEN {} ELSE {Leaf(s[1])}
    [] s[1][1] = "identifier" /\ s[1][2] \in DOMAIN Keywords -> {Leaf(Keywords[s[1][2]])}
    [] OTHER -> {}

Bracketed(s) ==
  CASE Begins(s, "(") /\ Ends(s, ")") ->
         {[r EXCEPT !.depth = @ + 1] : r \in Readings(Between(s, 1, Len(s)), 1)}
    [] Begins(s, "[") /\ Ends(s, "]") ->
         {Whole(<<"list", Nodes(items)>>, <<>>, items) : items \in Enclosed("list", Between(s, 1, Len(s)))}
    [] Begins(s, "{") /\ Ends(s, "}") ->
         {Whole(<<"map", Nodes(items)>>, <<>>, items) : items \in Enclosed("map", Between(s, 1, Len(s)))}
    [] OTHER -> {}

Readings(s, level) ==
  CASE s = <<>> -> {}
    [] level = 1 -> Readings(s, 2) \cup Conditionals(s)
    [] level \in 2..6 -> Readings(s, level + 1) \cup Binaries(s, level)
    [] level = UnaryLevel -> Readings(s, 8) \cup Unaries(s)
    [] OTHER ->
         LiteralsOf(s) \cup {Leaf(<<"ident", name>>) : name \in Names(s)} \cup GlobalCalls(s)
           \cup Bracketed(s) \cup Selections(s) \cup MemberCalls(s) \cup Indexes(s) \cup Messages(s)

Within(reading, limits) == reading.nodes <= limits.max_nodes /\ reading.depth < limits.max_depth
=============================================================================
