---------------------------- MODULE PlainTypeScript ---------------------------
(***************************************************************************)
(* The TypeScript fast path (index.ts, PlainCompiler): a plan becomes one  *)
(* JavaScript expression, in which every read is guarded where it stands.  *)
(* JavaScript numbers hold integers exactly up to LargestExact only.       *)
(***************************************************************************)
EXTENDS PlainPlans

\* emit returned null: the plan is refused.
Null == <<"null">>

\* guard: a read whose value is checked to have the expected type.
Guard(read, expected) == IF read = Null THEN Null ELSE <<"guard", read, expected>>

Build(kind, left, right) ==
  IF left = Null \/ right = Null THEN Null ELSE <<kind, left, right>>

BuildOne(kind, operand, argument) ==
  IF operand = Null THEN Null ELSE <<kind, operand, argument>>

\* A loop variable of the scope, or a property of the bindings.
NameRead(name, scopes) ==
  IF IsLocal(name, scopes) THEN <<"local", scopes[Innermost(name, scopes)].value>>
  ELSE <<"binding", name>>

RECURSIVE JsEmit(_, _, _)

EmitEntry(node, expected, scopes) ==
  CASE FirstType(Infer(node[3]), "string", "") = "string" ->
         Guard(Build("entry", JsEmit(node[2], "object", scopes), JsEmit(node[3], "string", scopes)),
               expected)
    [] Infer(node[3]) = "int" ->
         Guard(Build("item", JsEmit(node[2], "list", scopes), JsEmit(node[3], "int", scopes)),
               expected)
    [] OTHER -> Null

EmitEither(condition, yes, no) ==
  IF condition = Null \/ yes = Null \/ no = Null THEN Null ELSE <<"?:", condition, yes, no>>

EmitSame(node, type, scopes) ==
  IF type = "list" THEN Null
  ELSE Build(node[1], JsEmit(node[2], type, scopes), JsEmit(node[3], type, scopes))

\* The variable of the loop is fresh: here, how many loops are around it.
EmitEvery(node, scopes) ==
  Build(node[1], JsEmit(node[2], "list", scopes),
        JsEmit(node[4], "bool",
               Append(scopes, [name |-> node[3], value |-> Len(scopes) + 1])))

EmitCount(node, scopes) ==
  CASE Infer(node) = "string" -> BuildOne("size", JsEmit(node, "string", scopes), <<>>)
    [] Infer(node) = "none" -> BuildOne("size", JsEmit(node, "any", scopes), <<>>)
    [] OTHER -> Null

\* The kind of node is one whose value can have the expected type.
Yields(node, expected) ==
  CASE node[1] \in Literals -> node[1] = expected
    [] node[1] \in {"ident", "select", "index"} -> TRUE
    [] node[1] = "?:" -> expected \notin {"object", "list", "any"}
    [] OTHER -> node[1] # "list" /\ Infer(node) = expected

JsEmit(node, expected, scopes) ==
  CASE ~Yields(node, expected) -> Null
    [] node[1] \in Literals -> node
    [] node[1] = "ident" -> Guard(NameRead(node[2], scopes), expected)
    [] node[1] = "select" ->
         Guard(BuildOne("property", JsEmit(node[2], "object", scopes), node[3]), expected)
    [] node[1] = "index" -> EmitEntry(node, expected, scopes)
    [] node[1] = "?:" ->
         EmitEither(JsEmit(node[2], "bool", scopes), JsEmit(node[3], expected, scopes),
                    JsEmit(node[4], expected, scopes))
    [] node[1] \in {"&&", "||"} ->
         Build(node[1], JsEmit(node[2], "bool", scopes), JsEmit(node[3], "bool", scopes))
    [] node[1] \in {"==", "!="} ->
         EmitSame(node, FirstType(Infer(node[2]), Infer(node[3]), "string"), scopes)
    [] node[1] \in Ordering \cup Arithmetic ->
         Build(node[1], JsEmit(node[2], "int", scopes), JsEmit(node[3], "int", scopes))
    [] node[1] = "neg" -> BuildOne("neg", JsEmit(node[2], "int", scopes), <<>>)
    [] node[1] = "!" -> BuildOne("!", JsEmit(node[2], "bool", scopes), <<>>)
    [] node[1] = "size" -> EmitCount(node[2], scopes)
    [] node[1] = "in" ->
         IF node[3][1] # "list" THEN Null
         ELSE BuildOne("in", JsEmit(node[2], "string", scopes), node[3])
    [] node[1] \in Quantifiers -> EmitEvery(node, scopes)
    [] node[1] = "matches" -> BuildOne("matches", JsEmit(node[2], "string", scopes), node[3])
    [] OTHER -> Build(node[1], JsEmit(node[2], "string", scopes), JsEmit(node[3], "string", scopes))

\* compileFastPath refuses results of other types.
JsCompile(plan) ==
  IF Infer(plan) \in {"bool", "string"} THEN JsEmit(plan, Infer(plan), <<>>) ELSE Null

-----------------------------------------------------------------------------
(* The compiled function *)

\* bailSignal, and the errors the matcher throws.
Bailed == <<"bail">>
Thrown == {Bailed, Error}

\* The checks of guard; a value that is not there is undefined and has no type.
Accepts(value, expected) ==
  CASE expected = "any" -> TRUE
    [] expected = "object" -> value[1] = "dict"
    [] expected = "int" -> IsInt(value) /\ Exact(value[2])
    [] expected = "string" -> IsText(value) /\ ~IsIllFormed(value)
    [] OTHER -> value[1] = expected

Guarded(value, expected) ==
  IF value \in Thrown \/ Accepts(value, expected) THEN value ELSE Bailed

\* checkedInt of the helpers.
ExactInt(n) == IF Exact(n) THEN Integer(n) ELSE Bailed

JsApplied(op, l, r) ==
  CASE l \in Thrown -> l
    [] r \in Thrown -> r
    [] op = "entry" -> IF r[2] \in DOMAIN l[2] THEN l[2][r[2]] ELSE Missing
    [] op = "item" -> IF r[2] + 1 \in DOMAIN l[2] THEN l[2][r[2] + 1] ELSE Missing
    [] op \in {"==", "!="} -> Bool((l = r) = (op = "=="))
    [] op \in Ordering -> Bool(Ordered(op, l[2], r[2]))
    [] op \in Arithmetic ->
         IF op \in {"/", "%"} /\ r[2] = 0 THEN Bailed ELSE ExactInt(Calculated(op, l[2], r[2]))
    [] op \in Predicates -> Bool(<<l[2], r[2]>> \in Related[op])

JsAppliedTo(op, v, argument) ==
  CASE v \in Thrown -> v
    [] op = "property" -> IF argument \in DOMAIN v[2] THEN v[2][argument] ELSE Missing
    [] op = "!" -> Bool(~v[2])
    [] op = "neg" -> ExactInt(-v[2])
    [] op = "size" -> IF IsIllFormed(v) \/ Sized(v) = Error THEN Bailed ELSE Sized(v)
    [] op = "in" -> Member(v, Tail(argument))
    [] op = "matches" -> Matched(v, argument)

\* every and some stop at the first element that decides or throws.
FirstThat(results, kind) ==
  LET stops == {i \in DOMAIN results : results[i] \in Thrown \cup {Bool(kind = "exists")}}
  IN  IF stops = {} THEN Bool(kind = "all")
      ELSE results[CHOOSE i \in stops : \A j \in stops : i <= j]

RECURSIVE JsValue(_, _, _)

OverItems(e, list, locals, b) ==
  IF list \in Thrown THEN list
  ELSE FirstThat([i \in DOMAIN list[2] |-> JsValue(e[3], Append(locals, list[2][i]), b)], e[1])

JsEither(condition, e, locals, b) ==
  CASE condition \in Thrown -> condition
    [] condition = Bool(TRUE) -> JsValue(e[3], locals, b)
    [] OTHER -> JsValue(e[4], locals, b)

JsShort(left, e, locals, b) ==
  IF left \in Thrown \cup {Bool(e[1] = "||")} THEN left ELSE JsValue(e[3], locals, b)

JsValue(e, locals, b) ==
  CASE e[1] \in Literals -> e
    [] e[1] = "local" -> locals[e[2]]
    [] e[1] = "binding" -> IF <<e[2]>> \in DOMAIN b THEN b[<<e[2]>>] ELSE Missing
    [] e[1] = "guard" -> Guarded(JsValue(e[2], locals, b), e[3])
    [] e[1] = "?:" -> JsEither(JsValue(e[2], locals, b), e, locals, b)
    [] e[1] \in {"&&", "||"} -> JsShort(JsValue(e[2], locals, b), e, locals, b)
    [] e[1] \in Quantifiers -> OverItems(e, JsValue(e[2], locals, b), locals, b)
    [] e[1] \in {"property", "!", "neg", "size", "in", "matches"} ->
         JsAppliedTo(e[1], JsValue(e[2], locals, b), e[3])
    [] OTHER -> JsApplied(e[1], JsValue(e[2], locals, b), JsValue(e[3], locals, b))

\* evaluate calls the function only when no name of the bindings has a dot.
JsCall(code, b) ==
  IF \E names \in DOMAIN b : Len(names) > 1 THEN Bailed ELSE JsValue(code, <<>>, b)
=============================================================================
