----------------------------- MODULE CelSemantics -----------------------------
(***************************************************************************)
(* What a CEL expression means, without steps, costs or memory: each kind  *)
(* of expression by the results of its parts.  Bindings and slots mean     *)
(* their initializers, evaluated in the scope where the binding starts.    *)
(* p is a program as in Evaluator; a scope here holds the initializers     *)
(* themselves.  Programs whose slots depend on themselves mean nothing.    *)
(*                                                                         *)
(* Values are equal when their canonical forms are: a number is its        *)
(* magnitude whatever its type, a map the set of its entries.              *)
(***************************************************************************)
EXTENDS CelValues, FiniteSets, FiniteSetsExt
LOCAL INSTANCE SequencesExt
LOCAL INSTANCE Functions

CONSTANTS GlobalBindings, LargestInt, FirstSecond, LastSecond, SecondLength

InScope(kind, name, value, slots) ==
  [kind |-> kind, name |-> name, value |-> value, slots |-> slots]

First(results, Test(_)) == results[Min({i \in DOMAIN results : Test(results[i])})]

Some(results, Test(_)) == \E i \in DOMAIN results : Test(results[i])

-----------------------------------------------------------------------------
(* Values *)

RECURSIVE Canonical(_)

Canonical(r) ==
  CASE IsNumeric(r) -> <<"number", Halves(r)>>
    [] IsList(r) \/ IsOptional(r) -> <<r[1], [i \in DOMAIN r[2] |-> Canonical(r[2][i])]>>
    [] IsMap(r) -> <<"map", {<<Canonical(e.key), Canonical(e.value)>> : e \in Range(r[2])}>>
    [] OTHER -> r

Same(a, b) == Canonical(a) = Canonical(b)

\* The entry of a map with a key, if there is one.
WithKey(entries, key) == {e \in Range(entries) : Same(e.key, key)}
ValueAt(entries, key) == (CHOOSE e \in WithKey(entries, key) : TRUE).value

RECURSIVE Flat(_, _)

Flat(items, n) ==
  FlattenSeq([i \in DOMAIN items |-> IF n > 0 /\ IsList(items[i]) THEN Flat(items[i][2], n - 1)
                                     ELSE <<items[i]>>])

\* Operators and calls on values mean what CelOperations computes, with equality
\* and lookup by canonical form.
Free(r) == [cost |-> 0, result |-> r]
FreeEqual(a, b, levels) == Free(Bool(Same(a, b)))
FreeLookup(entries, key, levels) ==
  Free(IF WithKey(entries, key) = {} THEN NoResult ELSE ValueAt(entries, key))
FreeFlattened(out, items, n, levels, max) == {Free(List(Flat(items, n)))}

Operations == INSTANCE CelOperations
  WITH MaxInt <- LargestInt, MinSeconds <- FirstSecond, MaxSeconds <- LastSecond,
       NanosPerSecond <- SecondLength, Equal <- FreeEqual, Lookup <- FreeLookup, Flattened <- FreeFlattened

NoMatch == Error("NoMatchingOverload")

InRange(type, n) ==
  CASE type = "int" /\ n \in -(LargestInt + 1)..LargestInt -> Integer(n)
    [] type = "uint" /\ n \in 0..(2 * LargestInt + 1) -> Unsigned(n)
    [] OTHER -> Error("Overflow")

\* x = q * y + r, with a remainder smaller than y that has the sign of x.
Remainder(x, y) ==
  CHOOSE r \in -(LargestInt + 1)..(2 * LargestInt + 1) :
    /\ \E q \in -(2 * LargestInt + 1)..(2 * LargestInt + 1) : x = q * y + r
    /\ -(IF y < 0 THEN -y ELSE y) < r /\ r < (IF y < 0 THEN -y ELSE y)
    /\ r = 0 \/ (r < 0 <=> x < 0)

\* Time is a line of instants; a timestamp is one of those there are.
Instant(t) == t[2][1] * SecondLength + t[2][2]

TimestampAt(instant) ==
  LET all == {Timestamp(s, n) : s \in FirstSecond..LastSecond, n \in 0..(SecondLength - 1)}
      there == {t \in all : Instant(t) = instant}
  IN  IF there = {} THEN Error("Overflow") ELSE CHOOSE t \in there : TRUE

DurationOf(n) == IF n \in -(LargestInt + 1)..LargestInt THEN Duration(n) ELSE Error("Overflow")

\* What lies between two times, or so long after or before one.
TimeValue(operator, a, b) ==
  LET signed == IF operator = "+" THEN b[2] ELSE -b[2] IN
  CASE a[1] = "duration" /\ b[1] = "duration" -> DurationOf(a[2] + signed)
    [] a[1] = "timestamp" /\ b[1] = "duration" -> TimestampAt(Instant(a) + signed)
    [] operator = "+" /\ a[1] = "duration" /\ b[1] = "timestamp" -> TimestampAt(Instant(b) + a[2])
    [] operator = "-" /\ a[1] = "timestamp" /\ b[1] = "timestamp" ->
         DurationOf(Instant(a) - Instant(b))
    [] OTHER -> NoMatch

\* The earlier of two timestamps is the one with the smaller second, then fraction.
Earlier(a, b) == a[2][1] < b[2][1] \/ (a[2][1] = b[2][1] /\ a[2][2] < b[2][2])

BinaryValue(operator, a, b) ==
  LET integers == a[1] = b[1] /\ a[1] \in {"int", "uint"} IN
  CASE operator = "==" -> Bool(Same(a, b))
    [] operator = "!=" -> Bool(~Same(a, b))
    [] operator = "in" /\ IsList(b) -> Bool(\E item \in Range(b[2]) : Same(a, item))
    [] operator = "in" /\ IsMap(b) -> Bool(WithKey(b[2], a) # {})
    [] operator \in {"/", "%"} /\ integers /\ b[2] = 0 -> Error("DivisionByZero")
    [] operator = "%" /\ integers /\ b[2] # 0 -> InRange(a[1], Remainder(a[2], b[2]))
    [] operator = "/" /\ integers /\ b[2] # 0 ->
         InRange(a[1], CHOOSE q \in -(2 * LargestInt + 2)..(2 * LargestInt + 2) :
                         a[2] = q * b[2] + Remainder(a[2], b[2]))
    [] operator \in {"+", "-"} /\ IsTime(a) /\ IsTime(b) -> TimeValue(operator, a, b)
    [] operator = "<" /\ a[1] = "timestamp" /\ b[1] = "timestamp" -> Bool(Earlier(a, b))
    [] OTHER -> Operations!Binary(operator, a, b, 1, 2^10).result

\* The items by their keys: an item comes after those with a smaller key, and
\* after those before it with the same one.
InOrder(items, keys) ==
  LET Preceding(i) == {j \in DOMAIN items : \/ Operations!Before(keys[j], keys[i])
                                            \/ Same(keys[j], keys[i]) /\ j < i}
      At(k) == CHOOSE i \in DOMAIN items : Cardinality(Preceding(i)) = k - 1
  IN  IF items = <<>> THEN List(items)
      ELSE IF \E k \in Range(keys) : k[1] # keys[1][1] \/ ~Operations!Ordered(k, k) THEN NoMatch
      ELSE List([k \in DOMAIN items |-> items[At(k)]])

\* A double without its fraction, if it lies between the limits of the type.
Rounded(type, h) ==
  LET low == IF type = "int" THEN -(2 * LargestInt + 1) ELSE 0
      high == IF type = "int" THEN 2 * LargestInt + 1 ELSE 4 * LargestInt + 3
      n == CHOOSE n \in -h..h \cup h..-h :
             \E fraction \in {-1, 0, 1} : h = 2 * n + fraction /\ n * fraction >= 0
  IN  IF h \in low..high THEN InRange(type, n) ELSE Error("Overflow")

CallValue(name, a) ==
  IF name = "sort" /\ Len(a) = 1 /\ IsList(a[1]) THEN InOrder(a[1][2], a[1][2])
  ELSE IF name \in {"int", "uint"} /\ a[1][1] = "double" THEN Rounded(name, a[1][2])
  ELSE IF name \in {"int", "uint"} /\ IsNumeric(a[1]) THEN InRange(name, a[1][2])
  ELSE (CHOOSE e \in Operations!Called(name, a, 1, 2^10) : TRUE).result

-----------------------------------------------------------------------------
(* The math library, by arithmetic *)

Cycle == 2 * LargestInt + 2

\* The number of a type that is n modulo the width.
Wrapped(type, n) ==
  IF type = "uint" THEN Unsigned(n % Cycle)
  ELSE Integer(CHOOSE v \in -(LargestInt + 1)..LargestInt : (v - n) % Cycle = 0)

Distance(n) == IF n < 0 THEN -n ELSE n

RECURSIVE Common(_, _)

\* The number with the ones that two naturals share.
Common(x, y) ==
  IF x = 0 \/ y = 0 THEN 0 ELSE (x % 2) * (y % 2) + 2 * Common(x \div 2, y \div 2)

PairValue(name, a, b) ==
  LET x == a[2] % Cycle
      y == b[2] % Cycle
  IN  CASE name = "bitAnd" -> Wrapped(a[1], Common(x, y))
        [] name = "bitOr" -> Wrapped(a[1], x + y - Common(x, y))
        [] name = "bitXor" -> Wrapped(a[1], x + y - 2 * Common(x, y))
        [] name = "bitShiftLeft" -> Wrapped(a[1], x * 2^b[2])
        [] name = "bitShiftRight" -> Wrapped(a[1], x \div 2^b[2])

\* The whole number nearest to h/2 in a direction; "round" goes away from zero
\* when two are equally near.
Nearest(name, h) ==
  CHOOSE n \in -(Distance(h))..Distance(h) :
    /\ 2 * n - h \in {-1, 0, 1}
    /\ name = "floor" => 2 * n <= h
    /\ name = "ceil" => 2 * n >= h
    /\ name = "trunc" => Distance(2 * n) <= Distance(h)
    /\ name = "round" => Distance(2 * n) >= Distance(h)

\* The first item that no other is beyond.
ExtremeOf(name, items) ==
  LET Beyond(a, b) == IF name = "greatest" THEN Halves(a) > Halves(b) ELSE Halves(a) < Halves(b)
      best == {i \in DOMAIN items : \A j \in DOMAIN items : ~Beyond(items[j], items[i])}
  IN  IF items = <<>> THEN Error("InvalidArgument")
      ELSE IF \E i \in DOMAIN items : ~IsNumeric(items[i]) THEN NoMatch
      ELSE items[Min(best)]

MathValue(name, a) ==
  LET whole == a # <<>> /\ a[1][1] \in {"int", "uint"}
      double == a # <<>> /\ a[1][1] = "double"
      shift == name \in {"bitShiftLeft", "bitShiftRight"}
      paired == name \in {"bitAnd", "bitOr", "bitXor"} \/ shift
      fitting == Len(a) = 2 /\ whole /\ a[2][1] = (IF shift THEN "int" ELSE a[1][1])
  IN  CASE name \in {"greatest", "least"} ->
             ExtremeOf(name, IF Len(a) = 1 /\ IsList(a[1]) THEN a[1][2] ELSE a)
        [] paired /\ fitting ->
             IF shift /\ a[2][2] < 0 THEN Error("InvalidArgument") ELSE PairValue(name, a[1], a[2])
        [] Len(a) = 1 /\ whole /\ name = "bitNot" -> Wrapped(a[1][1], -1 - a[1][2])
        [] Len(a) = 1 /\ whole /\ name = "abs" -> InRange(a[1][1], Distance(a[1][2]))
        [] Len(a) = 1 /\ whole /\ name = "sign" ->
             InRange(a[1][1], IF a[1][2] = 0 THEN 0 ELSE a[1][2] \div Distance(a[1][2]))
        [] Len(a) = 1 /\ double /\ name = "abs" -> Double(Distance(a[1][2]))
        [] Len(a) = 1 /\ double /\ name = "sign" ->
             Double(IF a[1][2] = 0 THEN 0 ELSE 2 * (a[1][2] \div Distance(a[1][2])))
        [] Len(a) = 1 /\ double /\ name \in {"floor", "ceil", "trunc", "round"} ->
             Double(2 * Nearest(name, a[1][2]))
        [] OTHER -> NoMatch

-----------------------------------------------------------------------------
(* Selection *)

\* What is selected from an optional, or optionally, is optional.
Optionally(optional, there, value, error) ==
  IF optional THEN (IF there THEN Optional(<<value>>) ELSE None)
  ELSE IF there THEN value ELSE Error(error)

SelectedValue(input, node) ==
  LET target == IF IsOptional(input) THEN input[2][1] ELSE input
      key == Text(node.field)
      there == WithKey(target[2], key) # {}
  IN  IF input = None THEN (IF node.presence THEN Bool(FALSE) ELSE None)
      ELSE IF ~IsMap(target) THEN NoMatch
      ELSE IF node.presence THEN Bool(there)
      ELSE Optionally(node.optional \/ IsOptional(input), there, ValueAt(target[2], key), "NoSuchKey")

IndexedValue(input, key, node) ==
  LET target == IF IsOptional(input) THEN input[2][1] ELSE input
      optional == node.optional \/ IsOptional(input)
      index == Halves(key) \div 2
  IN  CASE IsMap(target) /\ optional /\ ~IsKey(key) /\ ~IsNumeric(key) -> NoMatch
        [] IsMap(target) /\ (~optional \/ IsKey(key) \/ IsNumeric(key)) ->
             Optionally(optional, WithKey(target[2], key) # {}, ValueAt(target[2], key), "NoSuchKey")
        [] IsList(target) /\ IsNumeric(key) ->
             IF Halves(key) % 2 = 1 THEN Error("IndexOutOfBounds")
             ELSE Optionally(optional, index + 1 \in DOMAIN target[2], target[2][index + 1],
                             "IndexOutOfBounds")
        [] OTHER -> NoMatch

-----------------------------------------------------------------------------
(* Expressions *)

\* A conjunction (decisive = false) or disjunction of results: the first that
\* decides or is fatal; else an error among them, picked by Pick; else neutral.
Junction(results, or, Pick(_)) ==
  LET Ends(r) == r = Bool(or) \/ IsFatal(r)
      errors == {i \in DOMAIN results : IsError(results[i])}
  IN  IF Some(results, Ends) THEN First(results, Ends)
      ELSE IF errors # {} THEN results[Pick(errors)]
      ELSE Bool(~or)

\* A function of results all of which are needed: the first error, or Value.
Needed(results, value) ==
  IF Some(results, IsError) THEN First(results, IsError) ELSE value

\* The map of entries, if each key is of the right kind and differs from those
\* before it; an error among the entries stands where it occurs.
MapFrom(entries) ==
  LET Problem(i) ==
        CASE IsError(entries[i].key) -> entries[i].key
          [] ~IsError(entries[i].key) /\ ~IsKey(entries[i].key) -> NoMatch
          [] IsKey(entries[i].key) ->
               IF IsError(entries[i].value) THEN entries[i].value
               ELSE IF \E j \in 1..(i - 1) : Same(entries[j].key, entries[i].key)
               THEN Error("DuplicateKey")
               ELSE NoResult
      problems == {i \in DOMAIN entries : Problem(i) # NoResult}
  IN  IF problems = {} THEN Map(entries) ELSE Problem(Min(problems))

\* The elements or entries of a literal: an optional one is there if it has a value.
Present(item, r) ==
  IF ~item.optional \/ IsError(r) THEN <<r>>
  ELSE IF ~IsOptional(r) THEN <<NoMatch>>
  ELSE r[2]

GlobalValue(name) ==
  LET named == {k \in DOMAIN GlobalBindings : GlobalBindings[k].name = name}
  IN  IF named = {} THEN Error("UndeclaredReference") ELSE GlobalBindings[Min(named)].value

\* The overload of a registered function that fits the arguments, if one does,
\* has to return what it declares.
CustomValue(overloads, a) ==
  LET fitting == {o \in Range(overloads) : Operations!Fits(o, a)}
      only == CHOOSE o \in fitting : TRUE
  IN  IF Cardinality({k \in DOMAIN overloads : Operations!Fits(overloads[k], a)}) # 1 THEN NoMatch
      ELSE IF only.returns = NoResult THEN Error("MissingFunction")
      ELSE IF ~IsError(only.returns) /\ ~Operations!OfType(only.result, only.returns) THEN NoMatch
      ELSE only.returns

StrictValue(node, a) ==
  CASE node.op = "not" -> IF IsBool(a[1]) THEN Bool(~a[1][2]) ELSE NoMatch
    [] node.op = "minus" -> IF IsInt(a[1]) THEN InRange("int", -a[1][2]) ELSE NoMatch
    [] node.op = "binary" -> BinaryValue(node.operator, a[1], a[2])
    [] node.op = "custom" -> CustomValue(node.overloads, a)
    [] node.op = "math" -> MathValue(node.name, a)
    [] node.op = "call" -> CallValue(node.name, a)

RECURSIVE Meaning(_, _, _)

\* The meaning of entry j of the scope (of its slot i).
MeaningOfEntry(p, scope, j, i) ==
  CASE scope[j].kind = "value" -> scope[j].value
    [] scope[j].kind = "lazy" -> Meaning(p, scope[j].slots[1], SubSeq(scope, 1, j - 1))
    [] scope[j].kind = "block" ->
         IF i >= Len(scope[j].slots) THEN Error("UndeclaredReference")
         ELSE Meaning(p, scope[j].slots[i + 1], SubSeq(scope, 1, j))

MeaningOfName(p, node, scope) ==
  LET named == {j \in DOMAIN scope : ~node.absolute /\ scope[j].name = node.name}
  IN  IF named # {} THEN MeaningOfEntry(p, scope, Max(named), 0)
      ELSE IF node.local THEN Error("UndeclaredReference")
      ELSE GlobalValue(node.name)

MeaningOfLoop(p, node, scope, target) ==
  LET items == target[2]
      item(i) == IF IsMap(target) THEN items[i].key ELSE items[i]
      key(i) == IF IsMap(target) THEN items[i].key ELSE Integer(i - 1)
      value(i) == IF IsMap(target) THEN items[i].value ELSE items[i]
      named(name, v) == InScope("value", name, v, <<>>)
      local(i) ==
        IF node.value_name = "" THEN Append(scope, named(node.key_name, item(i)))
        ELSE scope \o <<named(node.key_name, key(i)), named(node.value_name, value(i))>>
      tests == [i \in DOMAIN items |->
                  IF node.predicate = 0 THEN Bool(TRUE)
                  ELSE Boolean(Meaning(p, node.predicate, local(i)))]
      held == SetToSortSeq({i \in DOMAIN items : tests[i] = Bool(TRUE)}, <)
      \* What element i adds: the error of its test or transformation, or a result.
      part(i) == IF IsError(tests[i]) THEN tests[i]
                 ELSE IF node.transform = 0 THEN item(i)
                 ELSE Meaning(p, node.transform, local(i))
      entry(i) == <<[key |-> key(i), value |-> part(i)]>>
      entries(i) == IF IsError(part(i)) THEN entry(i)
                    ELSE IF IsMap(part(i)) THEN part(i)[2]
                    ELSE <<[key |-> NoMatch, value |-> NoMatch]>>
      used == SetToSortSeq({i \in DOMAIN items : tests[i] # Bool(FALSE)}, <)
  IN  CASE node.kind = "all" -> Junction(tests, FALSE, Max)
        [] node.kind = "exists" -> Junction(tests, TRUE, Max)
        [] node.kind = "exists_one" -> Needed(tests, Bool(Len(held) = 1))
        [] node.kind = "list" ->
             LET parts == [k \in DOMAIN used |-> part(used[k])] IN Needed(parts, List(parts))
        [] node.kind = "map" -> MapFrom(FlattenSeq([k \in DOMAIN used |-> entry(used[k])]))
        [] node.kind = "map_entries" -> MapFrom(FlattenSeq([k \in DOMAIN used |-> entries(used[k])]))

\* Elements and entries that are not there are left out.
MeaningOfList(p, node, scope) ==
  LET parts == FlattenSeq([k \in DOMAIN node.items |->
                 Present(node.items[k], Meaning(p, node.items[k].value, scope))])
  IN  Needed(parts, List(parts))

MeaningOfMap(p, node, scope) ==
  LET key(k) == Meaning(p, node.items[k].key, scope)
      present(k) == Present(node.items[k], Meaning(p, node.items[k].value, scope))
      \* The key counts also where the entry is not there.
      entries(k) == IF IsKey(key(k)) THEN [i \in DOMAIN present(k) |-> [key |-> key(k), value |-> present(k)[i]]]
                    ELSE <<[key |-> key(k), value |-> NoMatch]>>
  IN  MapFrom(FlattenSeq([k \in DOMAIN node.items |-> entries(k)]))

MeaningOfSort(p, node, scope, items) ==
  LET key(i) == Meaning(p, node.body, Append(scope, InScope("value", node.variable, items[i], <<>>)))
      keys == FoldLeft(LAMBDA done, i : Append(done, key(i)), <<>>, [i \in DOMAIN items |-> i])
  IN  Needed(keys, InOrder(items, keys))

Meaning(p, n, scope) ==
  LET node == p[n]
      M(k) == Meaning(p, k, scope)
      In(k, entry) == Meaning(p, k, Append(scope, entry))
  IN  CASE node.op = "literal" -> node.value
        [] node.op = "ident" -> MeaningOfName(p, node, scope)
        [] node.op = "block_index" ->
             LET blocks == {j \in DOMAIN scope : scope[j].kind = "block"}
             IN  IF blocks = {} THEN Error("UndeclaredReference")
                 ELSE MeaningOfEntry(p, scope, Max(blocks), node.index)
        [] node.op = "variable" -> GlobalValue(node.name)
        [] node.op \in {"not", "minus", "binary", "custom", "math", "call"} ->
             LET a == [k \in DOMAIN node.args |-> M(node.args[k])]
             IN  Needed(a, StrictValue(node, a))
        [] node.op = "logic" ->
             Junction(<<Boolean(M(node.left)), Boolean(M(node.right))>>, node.or, Min)
        [] node.op = "conditional" ->
             LET c == Boolean(M(node.condition))
             IN  IF IsError(c) THEN c ELSE M(IF c[2] THEN node.yes ELSE node.no)
        [] node.op = "optional_map" ->
             LET target == M(node.target)
                 body == In(node.body, InScope("value", node.variable, target[2][1], <<>>))
             IN  CASE IsError(target) -> target
                   [] ~IsError(target) /\ ~IsOptional(target) -> NoMatch
                   [] IsOptional(target) /\ target[2] = <<>> -> target
                   [] OTHER -> IF IsError(body) \/ (node.flat /\ IsOptional(body)) THEN body
                               ELSE IF node.flat THEN NoMatch
                               ELSE Optional(<<body>>)
        [] node.op = "or_else" ->
             LET target == M(node.target)
                 other == M(node.fallback)
             IN  IF IsError(target) THEN target
                 ELSE IF IsOptional(target) /\ target # None
                 THEN (IF node.payload THEN target[2][1] ELSE target)
                 ELSE IF IsError(other) \/ (target = None /\ (node.payload \/ IsOptional(other)))
                 THEN other
                 ELSE NoMatch
        [] node.op = "index" ->
             LET target == M(node.target)
             IN  IF IsError(target) \/ target = None THEN target
                 ELSE IF IsError(M(node.key)) THEN M(node.key)
                 ELSE IndexedValue(target, M(node.key), node)
        [] node.op = "select" ->
             LET target == M(node.target)
             IN  IF IsError(target) THEN target ELSE SelectedValue(target, node)
        [] node.op = "list" -> MeaningOfList(p, node, scope)
        [] node.op = "map" -> MeaningOfMap(p, node, scope)
        [] node.op = "sort_by" ->
             LET target == M(node.target)
             IN  IF IsError(target) THEN target
                 ELSE IF ~IsList(target) THEN NoMatch
                 ELSE MeaningOfSort(p, node, scope, target[2])
        [] node.op = "local_bind" ->
             In(node.body, InScope("lazy", node.name, NoResult, <<node.initializer>>))
        [] node.op = "block" -> In(node.body, InScope("block", "", NoResult, node.slots))
        [] node.op = "comprehension" ->
             LET target == M(node.target)
             IN  IF IsError(target) THEN target
                 ELSE IF ~IsList(target) /\ ~IsMap(target) THEN NoMatch
                 ELSE MeaningOfLoop(p, node, scope, target)
=============================================================================
