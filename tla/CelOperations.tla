------------------------------ MODULE CelOperations -----------------------------
(***************************************************************************)
(* Operators and built-in calls on values that have been evaluated         *)
(* (eval.zig: binary, select, sortList, call), each with the work it       *)
(* charges: an effect is [cost, result], and an operation that stops at a  *)
(* limit half way is one whose cost exceeds what is left.  levels is how   *)
(* much deeper an operation may nest: the evaluation of an operand has     *)
(* shown that it is at least 1.  max is limits.max_collection_size.        *)
(*                                                                         *)
(* Doubles are keys, indexes, operands of comparisons and of the math      *)
(* library; arithmetic is that of int, uint, timestamps and durations.     *)
(***************************************************************************)
EXTENDS MathLibrary, FiniteSets
LOCAL INSTANCE SequencesExt

CONSTANTS
  MinSeconds, MaxSeconds,     \* the seconds of timestamps
  NanosPerSecond,
  Equal(_, _, _),             \* equal(a, b) at a level: an effect with a bool
  Lookup(_, _, _),            \* lookup(entries, key) at a level; NoResult when there is none
  Flattened(_, _, _, _, _)    \* flattenList into, of, nested lists, at a level, with max: a set

ASSUME SecondsAssumption ==
  MinSeconds \in Int /\ MaxSeconds \in Int /\ NanosPerSecond \in Nat \ {0}

Costs(cost, r) == [cost |-> cost, result |-> r]
After(cost, effect) == Costs(cost + effect.cost, effect.result)
NoOverload == Costs(0, Error("NoMatchingOverload"))

-----------------------------------------------------------------------------
(* Arithmetic and comparison *)

Ranged(a, n) ==
  IF IsInt(a) /\ n \in -(MaxInt + 1)..MaxInt THEN Integer(n)
  ELSE IF ~IsInt(a) /\ n \in 0..(2 * MaxInt + 1) THEN Unsigned(n)
  ELSE Error("Overflow")

Magnitude(n) == IF n < 0 THEN -n ELSE n

\* Division truncates towards zero; the least int divided by -1 overflows, and
\* leaves no remainder.
Quotient(x, y) ==
  LET q == Magnitude(x) \div Magnitude(y) IN IF (x < 0) = (y < 0) THEN q ELSE -q

Divided(operator, a, b) ==
  IF b[2] = 0 THEN Error("DivisionByZero")
  ELSE IF operator = "/" THEN Ranged(a, Quotient(a[2], b[2]))
  ELSE Ranged(a, a[2] - b[2] * Quotient(a[2], b[2]))

Arithmetic(operator, a, b) ==
  CASE operator = "+" -> Ranged(a, a[2] + b[2])
    [] operator = "-" -> Ranged(a, a[2] - b[2])
    [] operator = "*" -> Ranged(a, a[2] * b[2])
    [] operator \in {"/", "%"} -> Divided(operator, a, b)

Negated(a) == IF IsInt(a) THEN Ranged(a, -a[2]) ELSE Error("NoMatchingOverload")

\* toNanos, and the nanoseconds of a duration.
Nanos(r) == IF r[1] = "duration" THEN r[2] ELSE r[2][1] * NanosPerSecond + r[2][2]

\* fromNanos: the fraction of a second is never negative.
FromNanos(n) ==
  IF n \div NanosPerSecond \notin MinSeconds..MaxSeconds THEN Error("Overflow")
  ELSE Timestamp(n \div NanosPerSecond, n % NanosPerSecond)

Lasting(n) == IF n \in -(MaxInt + 1)..MaxInt THEN Duration(n) ELSE Error("Overflow")

Temporal(operator, a, b) ==
  LET n == IF operator = "+" THEN Nanos(a) + Nanos(b) ELSE Nanos(a) - Nanos(b)
      kinds == <<a[1], b[1]>>
  IN  CASE kinds = <<"duration", "duration">> -> Lasting(n)
        [] kinds = <<"timestamp", "duration">> -> FromNanos(n)
        [] kinds = <<"duration", "timestamp">> /\ operator = "+" -> FromNanos(n)
        [] kinds = <<"timestamp", "timestamp">> /\ operator = "-" -> Lasting(n)
        [] OTHER -> Error("NoMatchingOverload")

\* Strings are ordered by what Rank says of them.
Rank(s) == CASE s = "a" -> 1 [] s = "b" -> 2 [] s = "c" -> 3

\* The order of two values of one kind, or of two numbers.
Before(a, b) ==
  IF IsNumeric(a) THEN Halves(a) < Halves(b)
  ELSE IF IsTime(a) THEN Nanos(a) < Nanos(b)
  ELSE IF IsString(a) THEN Rank(a[2]) < Rank(b[2])
  ELSE ~a[2] /\ b[2]

Ordered(a, b) == \/ IsNumeric(a) /\ IsNumeric(b)
                 \/ a[1] = b[1] /\ a[1] \in {"bool", "string", "timestamp", "duration"}

\* a in a list: the comparisons up to the first that is true or fails.
InList(a, items, levels) ==
  FoldLeft(LAMBDA e, item : IF e.result # Bool(FALSE) THEN e
                            ELSE After(e.cost, Equal(a, item, levels)),
           Costs(0, Bool(FALSE)), items)

\* Found or not, unless the lookup fails.
Presence(found) ==
  Costs(found.cost, IF IsError(found.result) THEN found.result ELSE Bool(found.result # NoResult))

Unequal(same) ==
  Costs(same.cost, IF IsError(same.result) THEN same.result ELSE Bool(~same.result[2]))

Binary(operator, a, b, levels, max) ==
  CASE operator = "==" -> Equal(a, b, levels)
    [] operator = "!=" -> Unequal(Equal(a, b, levels))
    [] operator = "in" -> IF IsMap(b) THEN Presence(Lookup(b[2], a, levels))
                          ELSE IF IsList(b) THEN InList(a, b[2], levels)
                          ELSE NoOverload
    [] operator = "<" -> IF Ordered(a, b) THEN Costs(IF IsString(a) THEN 1 ELSE 0, Bool(Before(a, b)))
                         ELSE NoOverload
    [] operator = "+" /\ IsList(a) /\ IsList(b) ->
         LET n == Len(a[2]) + Len(b[2])
         IN  IF n > max THEN Costs(0, Error("CollectionLimitExceeded"))
             ELSE Costs(n, List(a[2] \o b[2]))
    [] operator \in {"+", "-"} /\ IsTime(a) /\ IsTime(b) -> Costs(0, Temporal(operator, a, b))
    [] OTHER -> IF a[1] = b[1] /\ a[1] \in {"int", "uint"} THEN Costs(0, Arithmetic(operator, a, b))
                ELSE NoOverload

-----------------------------------------------------------------------------
(* Selection and indexing *)

\* What an optional selection makes of a lookup, and what any other does.
Chosen(found, optional) ==
  Costs(found.cost,
        IF IsError(found.result) THEN found.result
        ELSE IF optional THEN Optional(IF found.result = NoResult THEN <<>> ELSE <<found.result>>)
        ELSE IF found.result = NoResult THEN Error("NoSuchKey")
        ELSE found.result)

\* Selection from an optional is selection from its payload, and optional.
Selected(input, field, optional, presence, levels) ==
  LET target == IF IsOptional(input) /\ input # None THEN input[2][1] ELSE input
      found == Lookup(target[2], Text(field), levels)
  IN  IF input = None THEN Costs(0, IF presence THEN Bool(FALSE) ELSE None)
      ELSE IF ~IsMap(target) THEN NoOverload
      ELSE IF presence THEN Presence(found)
      ELSE Chosen(found, optional \/ IsOptional(input))

\* A fractional index is an error even where one out of bounds is none.
IndexedList(items, key, optional) ==
  IF ~IsNumeric(key) THEN Error("NoMatchingOverload")
  ELSE IF Halves(key) % 2 # 0 THEN Error("IndexOutOfBounds")
  ELSE IF Halves(key) \div 2 \in 0..(Len(items) - 1)
  THEN LET item == items[Halves(key) \div 2 + 1] IN IF optional THEN Optional(<<item>>) ELSE item
  ELSE IF optional THEN None
  ELSE Error("IndexOutOfBounds")

\* target[key]: target is the payload if the target was an optional.
Indexed(target, key, optional, levels) ==
  IF IsMap(target)
  THEN IF optional /\ ~IsKey(key) /\ ~IsNumeric(key) THEN NoOverload
       ELSE Chosen(Lookup(target[2], key, levels), optional)
  ELSE IF IsList(target) THEN Costs(0, IndexedList(target[2], key, optional))
  ELSE NoOverload

\* Entries added to a map one by one, up to the first that fails: its key has to
\* be of the right kind, the map not full, and the key new.  result is the error.
Extended(entries, new, levels, max) ==
  LET Failure(s, entry, found) ==
        IF ~IsKey(entry.key) THEN Costs(0, Error("NoMatchingOverload"))
        ELSE IF Len(s.entries) >= max THEN Costs(0, Error("CollectionLimitExceeded"))
        ELSE IF found.result # NoResult /\ ~IsError(found.result)
        THEN Costs(found.cost, Error("DuplicateKey"))
        ELSE found
      Add(s, entry) ==
        LET failure == Failure(s, entry, Lookup(s.entries, entry.key, levels))
        IN  [cost |-> s.cost + failure.cost, result |-> failure.result,
             entries |-> Append(s.entries, entry)]
  IN  FoldLeft(LAMBDA s, entry : IF s.result # NoResult THEN s ELSE Add(s, entry),
               [cost |-> 0, result |-> NoResult, entries |-> entries], new)

-----------------------------------------------------------------------------
(* Calls of registered functions *)

\* matchesType of a parameter or result: a primitive type or dyn.
OfType(type, r) == type \in {"dyn", r[1]}

\* An overload is checked up to its first parameter that does not match.
Mismatches(overload, a) == {i \in DOMAIN a : ~OfType(overload.parameters[i], a[i])}

Fits(overload, a) == Len(overload.parameters) = Len(a) /\ Mismatches(overload, a) = {}

CheckCost(overload, a) ==
  1 + (IF Len(overload.parameters) # Len(a) THEN 0
       ELSE IF Fits(overload, a) THEN Len(a)
       ELSE Min(Mismatches(overload, a)))

\* customCall, its arguments evaluated: the one overload that fits is called with
\* copies of the arguments, and what it returns is copied and has to be of the
\* declared type, which a checked program expects too.  One that was declared
\* only returns NoResult.
Custom(overloads, a, left, limits) ==
  LET fitting == {k \in DOMAIN overloads : Fits(overloads[k], a)}
      ambiguous == {k \in fitting : \E j \in fitting : j < k}
      last == IF ambiguous = {} THEN Len(overloads) ELSE Min(ambiguous)
      checked == MapThenSumSet(LAMBDA k : CheckCost(overloads[k], a), 1..last)
      selected == overloads[Min(fitting)]
      returned == selected.returns
      copied == checked + ShapeOfArguments(a).nodes
      stopped == Exceeded(ShapeOfArguments(a), left - checked, limits)
      stoppedAfter == Exceeded(Shape(returned), left - copied, limits)
  IN  IF Cardinality(fitting) # 1 THEN {Costs(checked, Error("NoMatchingOverload"))}
      ELSE IF returned = NoResult THEN {Costs(checked, Error("MissingFunction"))}
      ELSE IF stopped # {} THEN {Costs(checked, Error(e)) : e \in stopped}
      ELSE IF IsError(returned) THEN {Costs(copied, returned)}
      ELSE IF stoppedAfter # {} THEN {Costs(copied, Error(e)) : e \in stoppedAfter}
      ELSE {Costs(copied + Shape(returned).nodes + 1,
                  IF OfType(selected.result, returned) THEN returned ELSE Error("NoMatchingOverload"))}

-----------------------------------------------------------------------------
(* Built-in calls *)

\* mathCall: the items of a single list are compared and paid for one by one.
MathCall(operation, a, max) ==
  LET items == a[1][2] IN
  IF operation \in Extrema /\ Len(a) = 1 /\ IsList(a[1])
  THEN IF Len(items) > max THEN Costs(0, Error("CollectionLimitExceeded"))
       ELSE Costs(Len(items), Extremum(operation, items))
  ELSE Costs(0, MathResult(operation, a))

Log2(n) == IF n = 1 THEN 0 ELSE Max({k \in 1..n : 2^k <= n})

\* The items by their keys, equal ones in their order.  How many comparisons the
\* heap sort of the standard library makes is left open; a comparison costs
\* nothing when it holds, else what equality costs, and strings one more.
Sorted(items, keys) ==
  LET n == Len(items)
      kinds == {k[1] : k \in Range(keys)}
      Precedes(i, j) == Before(keys[i], keys[j]) \/ (~Before(keys[j], keys[i]) /\ i < j)
      Arranged(order) == List([i \in 1..n |-> items[order[i]]])
      comparison == IF "string" \in kinds THEN 3 ELSE 1
  IN  IF n = 0 THEN {Costs(0, List(items))}
      ELSE IF Cardinality(kinds) # 1 \/ ~Ordered(keys[1], keys[1]) THEN {NoOverload}
      ELSE {Costs(n * 3 * (Log2(n) + 1) + c, Arranged(order)) :
              c \in IF n = 1 THEN {0} ELSE 0..(n * n * comparison),
              order \in {SetToSortSeq(DOMAIN items, Precedes)}}

Truncated(h) == WithoutFraction("trunc", h)

\* convert, of anything but strings: int excludes both of its ends as doubles.
Converted(type, a) ==
  CASE type \in {"dyn", a[1]} -> a
    [] type = "timestamp" /\ IsInt(a) ->
         IF a[2] \in MinSeconds..MaxSeconds THEN Timestamp(a[2], 0) ELSE Error("Overflow")
    [] type = "int" /\ a[1] = "timestamp" -> Integer(a[2][1])
    [] type = "int" /\ a[1] = "uint" -> Ranged(Integer(0), a[2])
    [] type = "int" /\ a[1] = "double" ->
         IF a[2] <= -2 * (MaxInt + 1) \/ a[2] >= 2 * (MaxInt + 1) THEN Error("Overflow")
         ELSE Integer(Truncated(a[2]))
    [] type = "uint" /\ a[1] = "int" -> Ranged(Unsigned(0), a[2])
    [] type = "uint" /\ a[1] = "double" ->
         IF a[2] < 0 \/ a[2] >= 2 * (2 * MaxInt + 2) THEN Error("Overflow")
         ELSE Unsigned(Truncated(a[2]))
    [] type = "double" /\ a[1] \in {"int", "uint"} -> Double(2 * a[2])
    [] OTHER -> Error("NoMatchingOverload")

Conversions == {"dyn", "int", "uint", "double", "bool", "timestamp", "duration"}

Slice(items, from, to) ==
  IF from < 0 \/ to < from \/ Len(items) < to THEN Error("InvalidArgument")
  ELSE List(SubSeq(items, from + 1, to))

ListMethods == {"slice", "flatten", "reverse", "sort"}

\* A list method pays for the list first.
ListMethod(name, items, a, levels, max) ==
  CASE name = "reverse" /\ a = <<>> -> {Costs(0, List(Reverse(items)))}
    [] name = "sort" /\ a = <<>> -> Sorted(items, items)
    [] name = "slice" /\ Len(a) = 2 /\ IsInt(a[1]) /\ IsInt(a[2]) ->
         {Costs(0, Slice(items, a[1][2], a[2][2]))}
    [] name = "flatten" /\ a = <<>> -> Flattened(<<>>, items, 1, levels, max)
    [] name = "flatten" /\ Len(a) = 1 /\ IsInt(a[1]) ->
         IF a[1][2] < 0 THEN {Costs(0, Error("InvalidArgument"))}
         ELSE Flattened(<<>>, items, a[1][2], levels, max)
    [] OTHER -> {NoOverload}

\* unwrap: what is present, up to the first element that is no optional.
Unwrapped(items) ==
  LET bad == {i \in DOMAIN items : ~IsOptional(items[i])}
      present == SelectSeq(items, LAMBDA item : item # None)
  IN  IF bad = {} THEN Costs(Len(items), List([i \in DOMAIN present |-> present[i][2][1]]))
      ELSE Costs(Min(bad), Error("NoMatchingOverload"))

Count(n, max) ==
  IF n < 0 THEN Costs(0, Error("InvalidArgument"))
  ELSE IF n > max THEN Costs(0, Error("CollectionLimitExceeded"))
  ELSE Costs(n, List([i \in 1..n |-> Integer(i - 1)]))

IsZero(r) ==
  CASE IsBool(r) -> ~r[2]
    [] IsNumeric(r) \/ r[1] = "duration" -> r[2] = 0
    [] r[1] = "timestamp" -> r = Timestamp(MinSeconds, 0)
    [] IsList(r) \/ IsMap(r) -> r[2] = <<>>
    [] OTHER -> FALSE

Within(items, max, effects) ==
  IF Len(items) > max THEN {Costs(0, Error("CollectionLimitExceeded"))} ELSE effects

\* A call by its name; the first of a is the receiver of a method.
Called(name, a, levels, max) ==
  LET n == Len(a)
      items == a[1][2]
      After1(effects) == {After(Len(items), e) : e \in effects}
  IN  CASE name = "lists.range" -> IF IsInt(a[1]) THEN {Count(a[1][2], max)} ELSE {NoOverload}
        [] name = "optional.none" -> {Costs(0, None)}
        [] name = "optional.of" -> {Costs(0, Optional(a))}
        [] name = "optional.ofNonZeroValue" -> {Costs(0, IF IsZero(a[1]) THEN None ELSE Optional(a))}
        [] name \in {"optional.unwrap", "unwrapOpt"} ->
             IF IsList(a[1]) THEN Within(items, max, {Unwrapped(items)}) ELSE {NoOverload}
        [] name \in ListMethods /\ IsList(a[1]) ->
             Within(items, max, After1(ListMethod(name, items, Tail(a), levels, max)))
        [] name = "hasValue" /\ IsOptional(a[1]) ->
             IF a[1] = None THEN {Costs(0, Bool(FALSE))}
             ELSE IF n = 1 THEN {Costs(0, Bool(TRUE))}
             ELSE {Equal(items[1], a[2], levels)}
        [] name = "value" /\ IsOptional(a[1]) ->
             {Costs(0, IF a[1] = None THEN Error("NoSuchKey") ELSE items[1])}
        [] name = "first" /\ IsList(a[1]) ->
             {Costs(0, Optional(IF items = <<>> THEN <<>> ELSE <<items[1]>>))}
        [] name = "last" /\ IsList(a[1]) ->
             {Costs(0, Optional(IF items = <<>> THEN <<>> ELSE <<items[Len(items)]>>))}
        [] name = "size" ->
             {IF IsString(a[1]) THEN Costs(1, Integer(1))
              ELSE IF IsList(a[1]) \/ IsMap(a[1]) THEN Costs(0, Integer(Len(items)))
              ELSE NoOverload}
        [] name \in Conversions -> {Costs(IF IsString(a[1]) THEN 1 ELSE 0, Converted(name, a[1]))}
        [] OTHER -> {NoOverload}
=============================================================================
