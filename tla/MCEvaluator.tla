----------------------------- MODULE MCEvaluator ------------------------------
(* Instances of Evaluator for TLC: families of small programs. *)
EXTENDS Evaluator, CelSemantics

Values == INSTANCE CelEquality

MCEqual(a, b, levels) == Values!EqualValues(a, b, levels)
MCLookup(entries, key, levels) == Values!LookupKey(entries, key, levels)
MCFlattened(out, items, nested, levels, max) ==
  Values!FlattenedInto(out, items, nested, levels, max)

-----------------------------------------------------------------------------
(* Nodes *)

L(value) == [op |-> "literal", value |-> value]
Ident(name) == [op |-> "ident", name |-> name, local |-> FALSE, absolute |-> FALSE]
\* An overload that declares the type of its result, and one that declares dyn.
Declared(parameters, type, returns) ==
  [parameters |-> parameters, result |-> type, returns |-> returns]
Overload(parameters, returns) == Declared(parameters, "dyn", returns)
Calls(args, overloads) == [op |-> "custom", args |-> args, overloads |-> overloads]
Function(args, returns) == Calls(args, <<Overload([i \in DOMAIN args |-> "dyn"], returns)>>)
Logic(or, left, right) == [op |-> "logic", or |-> or, left |-> left, right |-> right]
If(condition, yes, no) == [op |-> "conditional", condition |-> condition, yes |-> yes, no |-> no]
Not(n) == [op |-> "not", args |-> <<n>>]
Minus(n) == [op |-> "minus", args |-> <<n>>]
Two(operator, left, right) == [op |-> "binary", operator |-> operator, args |-> <<left, right>>]
BuiltIn(name, args) == [op |-> "call", name |-> name, args |-> args]
Math(name, args) == [op |-> "math", name |-> name, args |-> args]
Part(optional, key, value) == [optional |-> optional, key |-> key, value |-> value]
ListOf(args) == [op |-> "list", items |-> [i \in DOMAIN args |-> Part(FALSE, 0, args[i])]]
MapOf(parts) == [op |-> "map", items |-> parts]
OrElseOf(payload, target, fallback) ==
  [op |-> "or_else", payload |-> payload, target |-> target, fallback |-> fallback]
IndexOf(optional, target, key) ==
  [op |-> "index", optional |-> optional, target |-> target, key |-> key]
Field(optional, presence, target, field) ==
  [op |-> "select", optional |-> optional, presence |-> presence, target |-> target, field |-> field]
SortBy(target, variable, body) ==
  [op |-> "sort_by", target |-> target, variable |-> variable, body |-> body]
OptMap(flat, target, variable, body) ==
  [op |-> "optional_map", flat |-> flat, target |-> target, variable |-> variable, body |-> body]
Bind(name, initializer, body) ==
  [op |-> "local_bind", name |-> name, initializer |-> initializer, body |-> body]
Slots(slots, body) == [op |-> "block", slots |-> slots, body |-> body]
Slot(index) == [op |-> "block_index", index |-> index]
Comprehension(kind, target, key_name, value_name, predicate, transform) ==
  [op |-> "comprehension", kind |-> kind, target |-> target, key_name |-> key_name,
   value_name |-> value_name, predicate |-> predicate, transform |-> transform]

T == L(Bool(TRUE))
F == L(Bool(FALSE))
One == L(Integer(1))
Missing == Ident("u")
Divides == Function(<<>>, Error("DivideByZero"))
Throws == Function(<<>>, Error("HostFunctionError"))

Leaves == {T, F, One, Missing, Throws}

MCBindings == <<[name |-> "g", value |-> Integer(1)], [name |-> "x", value |-> Bool(TRUE)]>>

-----------------------------------------------------------------------------
(* Operators and errors *)

LogicPrograms ==
  {<<Logic(o, 2, 3), a, Logic(q, 4, 5), b, c>> :
      o, q \in BOOLEAN, a, b \in Leaves, c \in Leaves \cup {Divides}}
  \cup {<<Logic(o, 3, 2), a, Logic(q, 4, 5), b, c>> :
      o, q \in BOOLEAN, a, b \in Leaves, c \in Leaves \cup {Divides}}
  \cup {<<If(2, 3, 4), Logic(o, 5, 6), a, Not(7), b, c, a>> :
      o \in BOOLEAN, a \in Leaves, b \in Leaves, c \in Leaves}
  \cup {<<ListOf(<<2, 3>>), a, ListOf(<<4, 5>>), b, Function(<<6>>, Bool(TRUE)), a>> :
      a, b \in Leaves}
  \cup {<<OptMap(flat, 2, "x", 3), L(t), Logic(FALSE, 4, 5), Ident("x"), a>> :
      flat \in BOOLEAN, a \in Leaves,
      t \in {Optional(<<>>), Optional(<<Integer(1)>>), Optional(<<Bool(TRUE)>>), Bool(TRUE)}}
  \cup {<<OptMap(TRUE, 2, "x", 3), L(Optional(<<Integer(1)>>)),
          L(Optional(<<List(<<Integer(1), Integer(2)>>)>>))>>}
  \cup {<<Two("+", 2, 3), Ident("g"), Minus(4), L(v)>> :
      v \in {Integer(-4), Integer(-3), Integer(-1), Integer(3), Bool(TRUE)}}

-----------------------------------------------------------------------------
(* Comprehensions *)

Elements == {Bool(TRUE), Bool(FALSE), Integer(1)}

Lists == UNION {[1..n -> Elements] : n \in 0..3}

LoopPrograms ==
  {<<Comprehension(kind, 2, "x", "", 3, 0), L(List(s)), If(4, 5, 6), Ident("x"), a, b>> :
      kind \in {"all", "exists", "exists_one", "list"}, s \in Lists,
      a \in {T, Missing, Throws}, b \in {F, Divides}}
  \cup {<<Comprehension(kind, 2, "i", "v", p, 3), L(List(s)), Two("+", 4, 5), Ident("i"),
          Ident("v"), Logic(TRUE, 7, 8), Ident("v"), T>> :
      kind \in {"list"}, p \in {0, 6},
      s \in UNION {[1..n -> {Integer(0), Integer(2), Bool(FALSE)}] : n \in 0..3}}
  \cup {<<Comprehension(kind, 2, "x", "", 3, 0), L(List(<<List(s), List(<<Bool(TRUE)>>)>>)),
          Comprehension(kind, 4, "x", "", 4, 0), Ident("x")>> :
      kind \in {"all", "exists", "exists_one", "list"}, s \in Lists}
  \cup {<<Comprehension(kind, 2, "x", "", 3, 0), a, T>> :
      kind \in {"all", "list"}, a \in Leaves}

-----------------------------------------------------------------------------
(* Bindings and slots *)

\* x is bound once or twice and used twice, in every position.
BindPrograms ==
  {<<Bind("x", 2, 3), a, use, Ident("x"), Ident("x")>> :
      a \in Leaves \cup {Divides},
      use \in {Logic(FALSE, 4, 5), Logic(TRUE, 4, 5), ListOf(<<4, 5>>),
               ListOf(<<4, 2>>), If(4, 2, 5)}}
  \cup {<<Bind("x", 2, 3), a, Bind("x", 4, 5), Two("+", 6, 7), body, Ident("x"), One,
          Ident("x")>> :
      a \in {One, T, Throws}, body \in {ListOf(<<6, 8>>), Comprehension("list", 2, "x", "", 0, 6)}}
  \cup {<<Bind("y", 2, 3), Logic(TRUE, 4, 5), Comprehension(kind, 6, "x", "", 7, 0), Ident("x"),
          a, L(List(s)), Logic(FALSE, 4, 8), Ident("y")>> :
      kind \in {"all", "exists"}, a \in Leaves,
      s \in {<<>>, <<Bool(TRUE)>>, <<Bool(TRUE), Bool(FALSE)>>, <<Bool(FALSE), Bool(TRUE)>>}}
  \cup {<<Bind("x", 2, 3), One, [Ident("x") EXCEPT !.absolute = TRUE]>>,
        <<Bind("x", 2, 3), One, [Ident("y") EXCEPT !.local = TRUE]>>}

\* A block of three slots, each a constant or a use of slots, whose body uses
\* three of them; nodes 2 to 4 are the initializers.
SlotNodes(i) == {One, Divides, Slot(0), Slot(1), Slot(2), Logic(TRUE, 8, 9)}

BlockPrograms ==
  {<<Slots(<<2, 3, 4>>, 5), a, b, c, ListOf(<<6, 7, 6>>), Slot(i), Slot(j), Slot(k), T>> :
      a \in SlotNodes(0), b \in SlotNodes(1), c \in {One, Slot(0), Slot(1), Slot(2)},
      i \in {0, 1}, j \in {2, 3}, k \in {0, 2}}
  \cup {<<Slots(<<2>>, 3), One, Bind("x", 4, 5), Slot(0), Slots(<<6, 7>>, 8), a,
          Two("+", 9, 10), Slot(1), Ident("x"), Slot(0)>> : a \in Leaves}

\* The slots that slot i of such a block refers to.
Refers(p, i) ==
  LET node == p[i + 2]
      indexes(k) == IF p[k].op = "block_index" THEN {p[k].index} ELSE {}
  IN  IF node.op = "logic" THEN indexes(node.left) \cup indexes(node.right) ELSE indexes(i + 2)

DependsOnItself(p) ==
  /\ p[1].op = "block" /\ Len(p[1].slots) = 3
  /\ \E S \in SUBSET {0, 1, 2} : S # {} /\ \A i \in S : Refers(p, i) \cap S # {}

-----------------------------------------------------------------------------
(* Values: maps, selection, indexing, sorting, calls *)

KeyValue(k, v) == [key |-> k, value |-> v]
Keys == {Bool(TRUE), Integer(0), Integer(1), Unsigned(1), Double(2), Double(1), Text("a"), Text("b")}
SomeMaps == {Map(<<>>), Map(<<KeyValue(Integer(1), Text("a")), KeyValue(Text("b"), Bool(TRUE))>>),
             Map(<<KeyValue(Text("a"), Integer(1)), KeyValue(Text("b"), Integer(2))>>),
             Map(<<KeyValue(Text("b"), Integer(2)), KeyValue(Text("a"), Unsigned(1))>>)}
SomeLists == {List(<<>>), List(<<Integer(1), Text("b")>>),
              List(<<Map(<<KeyValue(Text("a"), Integer(1))>>), Unsigned(1)>>)}
SomeValues == SomeMaps \cup SomeLists \cup {Bool(TRUE)}
Targets == SomeValues \cup {None} \cup {Optional(<<v>>) : v \in SomeValues}

\* Two entries, with every pair of keys, an optional value and failing parts.
MapPrograms ==
  {<<MapOf(<<Part(FALSE, 2, 3), Part(o, 4, 5)>>), L(k), One, L(m), x>> :
      o \in BOOLEAN, k \in Keys, m \in Keys \cup {List(<<>>)},
      x \in {One, L(None), L(Optional(<<Bool(TRUE)>>)), Missing}}
  \cup {<<MapOf(<<Part(FALSE, 2, 3)>>), a, b>> : a, b \in Leaves}
  \cup {<<[op |-> "list", items |-> <<Part(TRUE, 0, 2), Part(o, 0, 3)>>], a, b>> :
      o \in BOOLEAN, a, b \in {One, L(None), L(Optional(<<Integer(1)>>)), Missing, Throws}}

AccessPrograms ==
  {<<Two("+", 2, 3), [op |-> "variable", name |-> n], Ident("g")>> : n \in {"g", "x", "u"}}
  \cup {<<IndexOf(o, 2, 3), L(t), k>> :
      o \in BOOLEAN, t \in Targets, k \in {L(v) : v \in Keys \cup {List(<<>>), Integer(-1)}} \cup {Missing}}
  \cup {<<Field(o, h, 2, f), L(t)>> :
      o, h \in BOOLEAN, t \in Targets, f \in {"a", "c"}}
  \cup {<<IndexOf(FALSE, 2, 4), Field(TRUE, FALSE, 3, "a"), a, b>> : a, b \in Leaves}
  \cup {<<OrElseOf(p, 2, 3), L(t), b>> :
      p \in BOOLEAN, t \in {None, Optional(<<Integer(1)>>), Bool(TRUE)}, b \in Leaves \cup {L(None)}}

\* Operators on every pair of numbers and on other values.
OperatorPrograms ==
  {<<Two(o, 2, 3), L(Integer(x)), L(Integer(y))>> :
      o \in {"+", "-", "*", "/", "%", "<"}, x, y \in -4..3}
  \cup {<<Two(o, 2, 3), L(Unsigned(x)), L(Unsigned(y))>> :
      o \in {"+", "-", "*", "/", "%"}, x, y \in {0, 3, 7}}
  \cup {<<Two(o, 2, 3), L(x), L(y)>> :
      o \in {"==", "!=", "in", "<", "+"}, x \in Targets \cup Keys, y \in Targets \cup {Integer(1), Text("a")}}

Times == {Timestamp(s, n) : s \in MinSeconds..MaxSeconds, n \in 0..(NanosPerSecond - 1)}
Durations == {Duration(n) : n \in -(MaxInt + 1)..MaxInt}

\* Arithmetic, order and conversion of all times, and the order of some.
TimePrograms ==
  {<<Two(o, 2, 3), L(x), L(y)>> : o \in {"+", "-"}, x, y \in Times \cup Durations}
  \cup {<<Two(o, 2, 3), L(x), L(y)>> : o \in {"<", "=="}, x, y \in Times}
  \cup {<<Two(o, 2, 3), L(x), L(y)>> :
      o \in {"+", "<", "=="}, x, y \in {Timestamp(1, 1), Duration(1), Integer(1)}}
  \cup {<<BuiltIn(name, <<2>>), L(v)>> :
      name \in {"timestamp", "duration", "int", "optional.ofNonZeroValue"},
      v \in Times \cup {Duration(0), Duration(-1)} \cup {Integer(n) : n \in -4..3}}
  \cup {<<BuiltIn("sort", <<2>>), L(List(s))>> :
      s \in [1..3 -> {Timestamp(-1, 0), Timestamp(-2, 1), Timestamp(1, 0)}]
            \cup [1..2 -> {Duration(-1), Duration(1), Timestamp(1, 1)}]}

Ints == {Integer(n) : n \in -4..3}
Uints == {Unsigned(n) : n \in 0..7}
Mixed == {Integer(1), Unsigned(1), Double(2), Double(-1), Bool(TRUE)}

\* The math library on all ints and uints.
MathPrograms ==
  {<<Math(name, <<2, 3>>), L(x), L(y)>> :
      name \in {"bitShiftLeft", "bitShiftRight"}, x \in Ints \cup Uints, y \in Ints}
  \cup {<<Math(name, <<2, 3>>), L(x), L(y)>> : name \in {"bitAnd", "bitOr", "bitXor"}, x, y \in Ints}
  \cup {<<Math(name, <<2, 3>>), L(x), L(y)>> : name \in {"bitAnd", "bitOr", "bitXor"}, x, y \in Uints}
  \cup {<<Math(name, <<2, 3>>), L(x), L(y)>> :
      name \in {"bitAnd", "bitShiftLeft", "abs", "greatest", "least"}, x, y \in Mixed}
  \cup {<<Math(name, <<2>>), L(x)>> :
      name \in {"floor", "ceil", "round", "trunc", "abs", "sign", "bitNot", "bitOr"},
      x \in Ints \cup Uints \cup {Double(h) : h \in -5..5} \cup {Bool(TRUE)}}
  \cup {<<Math(name, <<2>>), L(x)>> :
      name \in {"greatest", "least"},
      x \in {List(s) : s \in UNION {[1..n -> Mixed] : n \in 0..3}} \cup Mixed}
  \cup {<<Math("least", <<2, 3, 2>>), a, b>> : a, b \in Leaves}
  \cup {<<Math("greatest", <<>>)>>, <<Math("least", <<2, 2, 2, 2>>), One>>}

\* Sorting, the other calls on lists and optionals, and overloads.
SortPrograms ==
  {<<SortBy(2, "x", 3), L(List(s)), key, Two("<", 5, 6), Ident("x"), One, a>> :
      s \in {<<>>} \cup [1..3 -> {Integer(0), Integer(1), Integer(2)}],
      a \in {One}, key \in {If(4, 7, 5), Ident("x")}}
  \cup {<<SortBy(2, "x", 3), L(v), a>> :
      v \in {Bool(TRUE), List(<<Integer(1), Integer(2)>>)}, a \in Leaves \cup {L(Text("a"))}}
  \cup {<<BuiltIn("sort", <<2>>), L(List(s))>> :
      s \in UNION {[1..n -> {Text("a"), Text("b"), Bool(FALSE), Bool(TRUE)}] : n \in 0..2}}

CallPrograms ==
  {<<BuiltIn(name, <<2>>), L(v)>> :
      name \in {"lists.range", "optional.of", "optional.ofNonZeroValue", "optional.unwrap", "reverse",
               "flatten", "first", "last", "hasValue", "value", "size"},
      v \in Targets \cup {Integer(-1), Integer(0), Integer(2), Text("a"),
                         List(<<None, Optional(<<Integer(1)>>)>>), List(<<None, Integer(1)>>)}}
  \cup {<<BuiltIn(type, <<2>>), L(v)>> :
      type \in {"dyn", "int", "uint", "double", "bool"},
      v \in {Double(h) : h \in -9..17} \cup {Integer(-4), Integer(3), Unsigned(0), Unsigned(4), Bool(TRUE), None}
           \cup {List(<<>>)}}
  \cup {<<BuiltIn("dyn", <<2>>), L(Text("a"))>>}
  \cup {<<BuiltIn("hasValue", <<2, 3>>), L(t), L(Double(2))>> : t \in {None, Optional(<<Integer(1)>>), Bool(TRUE)}}
  \cup {<<BuiltIn("optional.none", <<>>)>>}
  \cup {<<BuiltIn("slice", <<2, 3, 4>>), L(List(<<Integer(1), Integer(2)>>)), L(Integer(i)), L(Integer(j))>> :
      i, j \in -1..2}
  \cup {<<BuiltIn("flatten", <<2, 3>>),
          L(List(<<Integer(1), List(<<List(<<Integer(2)>>), Text("a")>>)>>)), L(Integer(n))>> : n \in -1..2}
  \cup {<<Calls(<<2>>, <<Declared(<<"int">>, t, r)>>), L(v)>> :
          r \in {Integer(1), Bool(TRUE), Double(1), Error("HostFunctionError")},
          t \in {"int", "bool"}, v \in {Integer(1), Bool(TRUE)}}
  \cup {<<Calls(<<2>>, <<Overload(<<"int">>, r), Overload(<<t>>, Bool(FALSE))>>), L(v)>> :
      t \in {"dyn", "bool"}, v \in {Integer(1), Bool(TRUE), List(<<Integer(1), Integer(2)>>)},
      r \in {NoResult, Bool(TRUE), List(<<Integer(1), Integer(1)>>), Error("HostFunctionError")}}

\* Comprehensions over maps, and those that build maps.
MapLoopPrograms ==
  {<<Comprehension(kind, 2, "k", v, 0, 3), L(t), body, Ident("k"), Ident("v"), One>> :
      kind \in {"list", "map", "map_entries"}, v \in {"v", ""}, t \in SomeMaps \cup SomeLists,
      body \in {Ident("k"), Ident("v"), MapOf(<<Part(FALSE, 4, 5)>>), MapOf(<<Part(FALSE, 6, 4)>>),
               MapOf(<<>>)}}
  \cup {<<Comprehension(kind, 2, "k", "v", 3, 0), L(t), Two("==", 4, 5), Ident("k"), a>> :
      kind \in {"all", "exists", "exists_one", "list"}, t \in SomeMaps, a \in {Ident("v"), L(Text("a"))}}
  \cup {<<Comprehension("map", 2, "k", "v", 3, 4), L(t), If(5, 6, 7), Ident("k"),
          Two("==", 4, 8), a, T, L(Text("a"))>> : t \in SomeMaps, a \in {Missing, F, Throws}}

MCMinSeconds == -2

MCPrograms ==
  TimePrograms \cup MathPrograms \cup MapPrograms \cup AccessPrograms \cup OperatorPrograms \cup SortPrograms \cup CallPrograms
  \cup MapLoopPrograms \cup LogicPrograms \cup LoopPrograms \cup BindPrograms \cup BlockPrograms

\* Ample limits, and limits that stop some of these programs.
MCLimits ==
  {[max_steps |-> s, max_depth |-> 9, max_collection_size |-> 3] : s \in {2, 10, 60}}
  \cup {[max_steps |-> 60, max_depth |-> d, max_collection_size |-> 3] : d \in {2, 4}}
  \cup {[max_steps |-> 60, max_depth |-> 9, max_collection_size |-> c] : c \in {1, 2}}

-----------------------------------------------------------------------------

\* The machine computes the meaning of the program, or stops at a limit: the
\* order of evaluation, memoized bindings, saved errors and limits never show
\* in a result, and no charge takes more than is left.
ComputesMeaning ==
  /\ WithinBudget
  /\ result # NoResult /\ ~IsLimit(result) /\ ~DependsOnItself(program) =>
       result = Meaning(program, 1, <<>>)
=============================================================================
