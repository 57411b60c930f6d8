------------------------------ MODULE PlainPlans ------------------------------
(***************************************************************************)
(* The plain-data subset of CEL: which programs have a plan (fast_plan.zig)*)
(* and what the engine computes for them (eval.zig).  A plan is the tuple  *)
(* its JSON text spells: the kind of node and then its parts.  Texts are   *)
(* names of strings; what the subset asks of them is given by tables.      *)
(***************************************************************************)
EXTENDS Syntax

CONSTANTS
  LargestExact,     \* max_safe_integer, 2^53 - 1
  max_plan_depth,   \* max_depth of fast_plan.zig
  IllFormed,        \* texts that hold a lone surrogate
  SizeOfText,       \* SizeOfText[t]: code points of t
  Related,          \* Related[kind]: the <<receiver, argument>> for which startsWith,
                    \* endsWith or contains holds
  Matching,         \* the <<text, pattern>> RE2 matches
  InvalidPatterns,  \* patterns RE2 refuses
  TypeNames,        \* qualified names of built-in types, such as net.IP
  NoNames           \* texts that only a quoted identifier can have

\* Not a value: the key, index or binding does not exist, or an error.
Missing == <<"missing">>
Error == <<"error">>

Literals == {"bool", "int", "string"}
Ordering == {"<", "<=", ">", ">="}
Arithmetic == {"+", "-", "*", "/", "%"}
Predicates == {"startsWith", "endsWith", "contains"}
Quantifiers == {"all", "exists"}

Fits(n) == n \in -(LargestInt + 1)..LargestInt
Exact(n) == n \in -LargestExact..LargestExact

-----------------------------------------------------------------------------
(* fast_plan.emit *)

Unsupported == <<"unsupported">>

\* A valid identifier: not absolute, not made of several names.
IsPlainName(name) == Len(name) = 1 /\ name[1] \notin NoNames

IsTextList(items) == \A i \in DOMAIN items : items[i][1][1] = "string" /\ ~items[i][2]

\* A plan has plans for all its operands.
PlanOf(operands, plan) == IF Unsupported \in operands THEN Unsupported ELSE plan

RECURSIVE Write(_, _)

WriteCall(target, name, args, depth) ==
  LET receiver == Write(target, depth + 1)
  IN  CASE target = NoNode -> Unsupported
        [] name = "size" /\ args = <<>> -> PlanOf({receiver}, <<"size", receiver>>)
        [] Len(args) # 1 -> Unsupported
        [] name = "matches" ->
             IF args[1][1] # "string" THEN Unsupported
             ELSE PlanOf({receiver}, <<"matches", receiver, args[1][2]>>)
        [] name \in Predicates ->
             LET argument == Write(args[1], depth + 1)
             IN  PlanOf({receiver, argument}, <<name, receiver, argument>>)
        [] OTHER -> Unsupported

WritePair(kind, left, right, depth) ==
  LET l == Write(left, depth + 1)
      r == Write(right, depth + 1)
  IN  PlanOf({l, r}, <<kind, l, r>>)

WriteConditional(node, depth) ==
  LET parts == [i \in 2..4 |-> Write(node[i], depth + 1)]
  IN  PlanOf({parts[i] : i \in 2..4}, <<"?:", parts[2], parts[3], parts[4]>>)

WriteQuantifier(kind, target, name, predicate, depth) ==
  LET range == Write(target, depth + 1)
      test == Write(predicate, depth + 1)
  IN  IF IsPlainName(name) THEN PlanOf({range, test}, <<kind, range, name[1], test>>)
      ELSE Unsupported

WriteUnary(kind, operand) == PlanOf({operand}, <<kind, operand>>)

WriteSelect(target, name) == PlanOf({target}, <<"select", target, name>>)

\* The plan of a node at a depth of the plan.
Write(node, depth) ==
  CASE depth >= max_plan_depth -> Unsupported
    [] node[1] = "int" -> IF Exact(node[2]) THEN node ELSE Unsupported
    [] node[1] \in {"bool", "string"} -> node
    [] node[1] = "ident" -> IF IsPlainName(node[2]) THEN <<"ident", node[2][1]>> ELSE Unsupported
    [] node[1] = "select" ->
         IF node[5] \/ ~IsPlainName(node[3]) THEN Unsupported
         ELSE WriteSelect(Write(node[2], depth + 1), node[3][1])
    [] node[1] = "binary" -> WritePair(node[2], node[3], node[4], depth)
    [] node[1] = "?:" -> WriteConditional(node, depth)
    [] node[1] = "index" /\ ~node[4] -> WritePair("index", node[2], node[3], depth)
    [] node[1] = "list" ->
         IF IsTextList(node[2]) THEN <<"list">> \o [i \in DOMAIN node[2] |-> node[2][i][1][2]]
         ELSE Unsupported
    [] node[1] = "comprehension" ->
         IF Len(node[4]) = 1 /\ node[6] = NoNode /\ node[2] \in Quantifiers
         THEN WriteQuantifier(node[2], node[3], node[4][1], node[5], depth) ELSE Unsupported
    [] node[1] = "unary" ->
         WriteUnary(IF node[2] = "-" THEN "neg" ELSE "!", Write(node[3], depth + 1))
    [] node[1] = "call" -> WriteCall(node[2], node[3][1], node[4], depth)
    [] OTHER -> Unsupported

Emission(root) == Write(root, 0)

\* _qualified_name: the names of a chain of selections of a plan, or none.
RECURSIVE Qualified(_)
Qualified(node) ==
  CASE node[1] = "ident" -> <<node[2]>>
    [] node[1] = "select" ->
         IF Qualified(node[2]) = <<>> THEN <<>> ELSE Append(Qualified(node[2]), node[3])
    [] OTHER -> <<>>

RECURSIVE Infer(_)

\* _infer and inferPlainType: the type a node has whatever the bindings are.
Infer(node) ==
  CASE node[1] \in Literals \cup {"list"} -> node[1]
    [] node[1] \in Arithmetic \cup {"size", "neg"} -> "int"
    [] node[1] = "?:" -> IF Infer(node[3]) # "none" THEN Infer(node[3]) ELSE Infer(node[4])
    [] node[1] \in {"==", "!=", "&&", "||", "!", "in", "matches"} \cup Ordering
                     \cup Predicates \cup Quantifiers -> "bool"
    [] OTHER -> "none"

\* The first type that is known, or the default.
FirstType(a, b, default) == IF a # "none" THEN a ELSE IF b # "none" THEN b ELSE default

-----------------------------------------------------------------------------
(* What the engine computes *)

IsBool(v) == v[1] = "bool"
IsInt(v) == v[1] = "int"
IsText(v) == v[1] = "string"

IsIllFormed(v) == IsText(v) /\ v[2] \in IllFormed

OrError(v) == IF v = Missing THEN Error ELSE v

Bounded(n) == IF Fits(n) THEN Integer(n) ELSE Error

Magnitude(n) == IF n < 0 THEN -n ELSE n

\* Division truncates toward zero.
Quotient(a, b) ==
  IF (a < 0) = (b < 0) THEN Magnitude(a) \div Magnitude(b)
  ELSE -(Magnitude(a) \div Magnitude(b))

Calculated(op, a, b) ==
  CASE op = "+" -> a + b
    [] op = "-" -> a - b
    [] op = "*" -> a * b
    [] op = "/" -> Quotient(a, b)
    [] op = "%" -> a - b * Quotient(a, b)

Ordered(op, a, b) ==
  CASE op = "<" -> a < b
    [] op = "<=" -> a <= b
    [] op = ">" -> a > b
    [] op = ">=" -> a >= b

\* Two results of which both are needed.  A combination the subset leaves to
\* the engine counts as an error: no plan computes it.
Combined(op, l, r) ==
  CASE l[1] \in {"error", "odd"} \/ r[1] \in {"error", "odd"} -> Error
    [] op \in {"==", "!="} -> Bool((l = r) = (op = "=="))
    [] op \in Ordering /\ IsInt(l) /\ IsInt(r) -> Bool(Ordered(op, l[2], r[2]))
    [] op \in Arithmetic /\ IsInt(l) /\ IsInt(r) ->
         IF op \in {"/", "%"} /\ r[2] = 0 THEN Error ELSE Bounded(Calculated(op, l[2], r[2]))
    [] op \in Predicates /\ IsText(l) /\ IsText(r) -> Bool(<<l[2], r[2]>> \in Related[op])
    [] op = "index" /\ l[1] = "dict" /\ IsText(r) /\ r[2] \in DOMAIN l[2] -> l[2][r[2]]
    [] op = "index" /\ l[1] = "list" /\ IsInt(r) /\ r[2] + 1 \in DOMAIN l[2] -> l[2][r[2] + 1]
    [] OTHER -> Error

Negated(v) == IF IsBool(v) THEN Bool(~v[2]) ELSE Error

\* in, for a list of string literals.
Member(v, texts) ==
  IF v = Error THEN v ELSE Bool(\E i \in DOMAIN texts : v = Text(texts[i]))

Selected(v, field) ==
  IF v[1] = "dict" /\ field \in DOMAIN v[2] THEN v[2][field] ELSE Error

\* && and ||: a decisive operand wins over an error of the other.
Joined(op, l, r) ==
  CASE l = Bool(op = "||") -> l
    [] r = Bool(op = "||") -> r
    [] IsBool(l) /\ IsBool(r) -> r
    [] OTHER -> Error

\* all and exists: a decisive element wins over errors of others.
Quantified(kind, tests) ==
  CASE \E i \in DOMAIN tests : tests[i] = Bool(kind = "exists") -> Bool(kind = "exists")
    [] \A i \in DOMAIN tests : IsBool(tests[i]) -> Bool(kind = "all")
    [] OTHER -> Error

Matched(v, pattern) ==
  IF IsText(v) /\ pattern \notin InvalidPatterns
  THEN Bool(<<v[2], pattern>> \in Matching) ELSE Error

Sized(v) ==
  CASE IsText(v) -> Integer(SizeOfText[v[2]])
    [] v[1] = "list" -> Integer(Len(v[2]))
    [] OTHER -> Error

IsLocal(name, locals) == \E i \in DOMAIN locals : locals[i].name = name

\* The innermost variable called name.
Innermost(name, locals) ==
  CHOOSE i \in DOMAIN locals :
    /\ locals[i].name = name
    /\ \A j \in (i + 1)..Len(locals) : locals[j].name # name

\* resolve: a chain that is a binding's dotted name, or a type's name, means
\* that binding or type, unless a local variable has the name it starts with.
Resolved(names, locals, b) ==
  CASE names = <<>> -> Missing
    [] names[1] # "." /\ IsLocal(<<names[1]>>, locals) ->
         IF Len(names) = 1 THEN locals[Innermost(names, locals)].value ELSE Missing
    [] names[1] = "." -> IF Tail(names) \in DOMAIN b THEN b[Tail(names)] ELSE Missing
    [] names \in DOMAIN b -> b[names]
    [] names \in TypeNames -> <<"type", names>>
    [] OTHER -> Missing

RECURSIVE Meaning(_, _, _)

Tests(node, list, locals, b) ==
  [i \in DOMAIN list[2] |->
     Meaning(node[5], Append(locals, [name |-> node[4][1], value |-> list[2][i]]), b)]

OfQuantifier(node, list, locals, b) ==
  IF list[1] = "list" /\ Len(node[4]) = 1 THEN Quantified(node[2], Tests(node, list, locals, b))
  ELSE Error

OfBinary(op, left, right, locals, b) ==
  CASE op \in {"&&", "||"} -> Joined(op, Meaning(left, locals, b), Meaning(right, locals, b))
    [] op = "in" ->
         IF right[1] = "list" /\ IsTextList(right[2])
         THEN Member(Meaning(left, locals, b), [i \in DOMAIN right[2] |-> right[2][i][1][2]])
         ELSE Error
    [] OTHER -> Combined(op, Meaning(left, locals, b), Meaning(right, locals, b))

OfCall(target, name, args, locals, b) ==
  CASE target = NoNode -> Error
    [] name = "size" /\ args = <<>> -> Sized(Meaning(target, locals, b))
    [] name = "matches" /\ Len(args) = 1 /\ args[1][1] = "string" ->
         Matched(Meaning(target, locals, b), args[1][2])
    [] name \in Predicates /\ Len(args) = 1 ->
         Combined(name, Meaning(target, locals, b), Meaning(args[1], locals, b))
    [] OTHER -> Error

\* The engine's result for a node under the loop variables and the bindings b;
\* nodes that no plan holds count as errors.
Meaning(node, locals, b) ==
  CASE node[1] \in Literals -> node
    [] node[1] = "ident" -> OrError(Resolved(node[2], locals, b))
    [] node[1] = "select" /\ ~node[5] /\ Len(node[3]) = 1 ->
         IF Resolved(QualifiedName(node), locals, b) # Missing
         THEN Resolved(QualifiedName(node), locals, b)
         ELSE Selected(Meaning(node[2], locals, b), node[3][1])
    [] node[1] = "binary" -> OfBinary(node[2], node[3], node[4], locals, b)
    [] node[1] = "index" /\ ~node[4] ->
         Combined("index", Meaning(node[2], locals, b), Meaning(node[3], locals, b))
    [] node[1] = "?:" ->
         CASE Meaning(node[2], locals, b) = Bool(TRUE) -> Meaning(node[3], locals, b)
           [] Meaning(node[2], locals, b) = Bool(FALSE) -> Meaning(node[4], locals, b)
           [] OTHER -> Error
    [] node[1] = "unary" /\ node[2] = "!" -> Negated(Meaning(node[3], locals, b))
    [] node[1] = "unary" /\ node[2] = "-" -> Combined("-", Integer(0), Meaning(node[3], locals, b))
    [] node[1] = "call" -> OfCall(node[2], node[3][1], node[4], locals, b)
    [] node[1] = "comprehension" /\ node[2] \in Quantifiers ->
         OfQuantifier(node, Meaning(node[3], locals, b), locals, b)
    [] OTHER -> Error

RECURSIVE Converts(_)

\* A value of the host becomes a value of CEL; a lone surrogate, also in a key,
\* and an integer that does not fit raise instead.
Converts(v) ==
  CASE IsText(v) -> ~IsIllFormed(v)
    [] IsInt(v) -> Fits(v[2])
    [] v[1] = "list" -> \A i \in DOMAIN v[2] : Converts(v[2][i])
    [] v[1] = "dict" -> \A key \in DOMAIN v[2] : key \notin IllFormed /\ Converts(v[2][key])
    [] OTHER -> TRUE

AllConvert(b) == \A name \in DOMAIN b : Converts(b[name])

\* Program.evaluate without the fast path: every binding is converted before
\* anything is evaluated.
EngineResult(root, b) == IF AllConvert(b) THEN Meaning(root, <<>>, b) ELSE Error
=============================================================================
