------------------------------ MODULE CelValues -------------------------------
(***************************************************************************)
(* The values and errors the evaluator tells apart (value.zig, errors.zig, *)
(* and fatal, boolean and materialize of eval.zig).  A result is a tuple   *)
(* whose first component is its tag; a list, map or optional also carries  *)
(* its shape, from which the work of copying it out follows without        *)
(* recursion.                                                              *)
(***************************************************************************)
EXTENDS Integers, Sequences
LOCAL INSTANCE SequencesExt

NoResult == <<"none">>
Bool(b) == <<"bool", b>>
Integer(n) == <<"int", n>>
Unsigned(n) == <<"uint", n>>
Double(h) == <<"double", h>>    \* the double h/2
Duration(n) == <<"duration", n>>    \* nanoseconds
Timestamp(s, n) == <<"timestamp", <<s, n>>>>    \* seconds and nanoseconds
Text(s) == <<"string", s>>      \* every string has length 1
Error(e) == <<"error", e>>

IsBool(r) == r[1] = "bool"
IsInt(r) == r[1] = "int"
IsString(r) == r[1] = "string"
IsList(r) == r[1] = "list"
IsMap(r) == r[1] = "map"
IsOptional(r) == r[1] = "optional"
IsError(r) == r[1] = "error"
IsNumeric(r) == r[1] \in {"int", "uint", "double"}

IsTime(r) == r[1] \in {"timestamp", "duration"}

\* The kinds of values that may be keys of a map.
IsKey(r) == r[1] \in {"bool", "int", "uint", "string"}

\* A number in halves.
Halves(r) == IF r[1] = "double" THEN r[2] ELSE 2 * r[2]

\* Errors that no operator absorbs.
FatalErrors == {"OutOfMemory", "CostLimitExceeded", "DepthLimitExceeded",
                "CollectionLimitExceeded", "RegexLimitExceeded",
                "ProtobufLimitExceeded", "HostFunctionError"}

IsFatal(r) == IsError(r) /\ r[2] \in FatalErrors

LimitErrors == {"CostLimitExceeded", "DepthLimitExceeded", "CollectionLimitExceeded"}

IsLimit(r) == IsError(r) /\ r[2] \in LimitErrors

\* boolean: a result used as a condition.
Boolean(r) ==
  IF IsBool(r) \/ IsError(r) THEN r ELSE Error("NoMatchingOverload")

\* nodes: lists, maps and optionals inside; height: how deep they nest, scalars
\* included; longest: the longest list or map.
Shape(r) ==
  IF IsList(r) \/ IsMap(r) \/ IsOptional(r) THEN r[3]
  ELSE [nodes |-> 0, height |-> 1, longest |-> 0]

Bigger(m, n) == IF m > n THEN m ELSE n

ShapeOf(items, length) ==
  FoldLeft(LAMBDA s, item :
             [nodes |-> s.nodes + Shape(item).nodes,
              height |-> Bigger(s.height, 1 + Shape(item).height),
              longest |-> Bigger(s.longest, Shape(item).longest)],
           [nodes |-> 1, height |-> 1, longest |-> length], items)

List(items) == <<"list", items, ShapeOf(items, Len(items))>>

\* A map is a sequence of [key, value], in the order they were added.
Map(entries) ==
  <<"map", entries, ShapeOf([i \in DOMAIN entries |-> entries[i].value], Len(entries))>>

\* An optional holds no item or one.
Optional(items) == <<"optional", items, ShapeOf(items, 0)>>
None == Optional(<<>>)

\* materialize copies values out of the evaluation within the limits.  When
\* several limits are exceeded the order of the copy decides which is reported.
Exceeded(shape, left, limits) ==
  {e \in LimitErrors :
     \/ e = "DepthLimitExceeded" /\ shape.height > limits.max_depth
     \/ e = "CollectionLimitExceeded" /\ shape.longest > limits.max_collection_size
     \/ e = "CostLimitExceeded" /\ shape.nodes > left}

\* The arguments of a call are copied one by one.
ShapeOfArguments(args) ==
  LET shape == ShapeOf(args, 0)
  IN  [shape EXCEPT !.nodes = @ - 1, !.height = @ - 1]

Materialized(r, left, limits) ==
  LET exceeded == Exceeded(Shape(r), left, limits)
  IN  IF exceeded = {} THEN {r} ELSE {Error(e) : e \in exceeded}
=============================================================================
