-------------------------- MODULE ConformanceVerdicts --------------------------
(***************************************************************************)
(* What a test says of a package that is right, without codecs: the value  *)
(* each JSON value denotes, with maps as sets of entries and messages by   *)
(* their content, the type each JSON type denotes, and the verdict on a    *)
(* test, the same for every engine.                                        *)
(***************************************************************************)
EXTENDS ConformanceCases

-----------------------------------------------------------------------------
(* Values *)

KnownKinds ==
  {"nullValue", "boolValue", "int64Value", "uint64Value", "doubleValue", "stringValue",
   "bytesValue", "ipValue", "cidrValue", "optionalValue", "enumValue", "typeValue",
   "objectValue", "listValue", "mapValue"}

HasUnknownKind(json) == ~(Kinds(json) \subseteq KnownKinds)

\* The value that a JSON value denotes, before the limits of CEL.
RECURSIVE Denoted(_)
Denoted(json) ==
  LET kind == json[1]
      message == json[2]
      body == message[2]
  IN  CASE kind = "nullValue" -> <<"null">>
        [] kind = "optionalValue" ->
             <<"optional", IF "value" \in json[2] THEN {Denoted(json[3])} ELSE {}>>
        [] kind = "enumValue" -> <<"enum", json[2], IF Len(json) = 3 THEN json[3] ELSE 0>>
        [] kind = "ipValue" -> <<"ip", Addresses[json[2]]>>
        [] kind = "cidrValue" -> <<"cidr", Prefixes[json[2]]>>
        [] kind = "listValue" -> <<"list", [i \in DOMAIN json[2] |-> Denoted(json[2][i])]>>
        [] kind = "mapValue" ->
             <<"map", {<<Denoted(json[2][i][1]), Denoted(json[2][i][2])>> : i \in DOMAIN json[2]}>>
        [] kind = "objectValue" /\ message[1] = "Timestamp" -> <<"timestamp", body[2], body[3]>>
        [] kind = "objectValue" /\ message[1] = "Duration" ->
             <<"duration", body[2] * NanosPerSecond + body[3]>>
        [] kind = "objectValue" /\ message[1] = "Int64Value" -> <<"wrapper", body[2]>>
        [] kind = "objectValue" /\ message[1] = "TestMessage" ->
             <<"message", {<<f[1], f[3]>> : f \in {g \in body[2] : g[3] # 0}}>>
        [] OTHER -> json

\* The JSON value is a CEL value: limits, texts and keys are right.
RECURSIVE Proper(_)
Proper(json) ==
  LET kind == json[1]
      Key(i) == json[2][i][1]
  IN  CASE kind = "int64Value" -> json[2] \in Ints
        [] kind = "uint64Value" -> json[2] \in 0 .. UIntMax
        [] kind = "bytesValue" -> json[2] # "malformed"
        [] kind = "ipValue" -> json[2] \in DOMAIN Addresses
        [] kind = "cidrValue" -> json[2] \in DOMAIN Prefixes
        [] kind = "typeValue" -> json[2] # ""
        [] kind = "optionalValue" ->
             json[2] \subseteq {"value"} /\ (json[2] = {} \/ Proper(json[3]))
        [] kind = "enumValue" ->
             /\ json[2] \in QualifiedNames
             /\ Len(json) = 3 => json[3] \in -(EnumMax + 1) .. EnumMax
        [] kind = "listValue" -> \A i \in DOMAIN json[2] : Proper(json[2][i])
        [] kind = "mapValue" ->
             /\ \A i \in DOMAIN json[2] :
                  /\ Proper(Key(i)) /\ Proper(json[2][i][2])
                  /\ Key(i)[1] \in {"boolValue", "int64Value", "uint64Value", "stringValue"}
             /\ \A i, j \in DOMAIN json[2] :
                  LET numbers == {"int64Value", "uint64Value"}
                  IN  /\ i # j => Key(i) # Key(j)
                      /\ i # j /\ {Key(i)[1], Key(j)[1]} \subseteq numbers => Key(i)[2] # Key(j)[2]
        [] OTHER -> TRUE

\* An evaluated value denotes a message of a wrapper type no more.
RECURSIVE Unwrapped(_)
Unwrapped(v) ==
  CASE v[1] = "wrapper" -> <<"int64Value", v[2]>>
    [] v[1] = "optional" -> <<"optional", {Unwrapped(w) : w \in v[2]}>>
    [] v[1] = "list" -> <<"list", [i \in DOMAIN v[2] |-> Unwrapped(v[2][i])]>>
    [] v[1] = "map" -> <<"map", {<<e[1], Unwrapped(e[2])>> : e \in v[2]}>>
    [] OTHER -> v

\* A duration of a message may lie beyond the durations of CEL.
RECURSIVE Overflows(_)
Overflows(v) ==
  CASE v[1] = "duration" -> v[2] \notin Ints
    [] v[1] = "optional" -> \E w \in v[2] : Overflows(w)
    [] v[1] = "list" -> \E i \in DOMAIN v[2] : Overflows(v[2][i])
    [] v[1] = "map" -> \E e \in v[2] : Overflows(e[2])
    [] OTHER -> FALSE

-----------------------------------------------------------------------------
(* Types *)

RECURSIVE TypeDenoted(_)
TypeDenoted(json) ==
  CASE json[1] = "primitive" -> <<Primitives[json[2]]>>
    [] json[1] = "wrapper" -> <<"wrapper", <<Primitives[json[2]]>>>>
    [] json = <<"wellKnown", "TIMESTAMP">> -> <<"google.protobuf.Timestamp">>
    [] json = <<"wellKnown", "DURATION">> -> <<"google.protobuf.Duration">>
    [] json = <<"wellKnown", "ANY">> -> <<"dyn">>
    [] json = <<"wellKnown", "LIST_VALUE">> -> <<"listType", <<"dyn">>>>
    [] json = <<"wellKnown", "STRUCT">> -> <<"mapType", <<"string">>, <<"dyn">>>>
    [] json[1] = "null" -> <<"null_type">>
    [] json[1] = "messageType" -> <<json[2]>>
    [] json[1] \in {"listType", "mapType", "type"} ->
         [i \in DOMAIN json |-> IF i = 1 THEN json[1] ELSE TypeDenoted(json[i])]
    [] json[1] = "abstractType" ->
         <<"abstractType", json[2], [i \in DOMAIN json[3] |-> TypeDenoted(json[3][i])]>>
    [] OTHER -> json

-----------------------------------------------------------------------------
(* Verdicts *)

Declared(test, what, name) ==
  {i \in DOMAIN test.typeEnv : test.typeEnv[i][1] = what /\ test.typeEnv[i][2] = name}

IllTyped(test) ==
  \/ test.expr[1] = "mistyped"
  \/ test.expr[1] = "var" /\ Declared(test, "ident", test.expr[2]) = {}
  \/ test.expr[1] = "call" /\ Declared(test, "function", test.expr[2]) = {}

Ambiguous(test) ==
  \E i, j \in DOMAIN test.typeEnv :
    /\ i # j /\ test.typeEnv[i][1] = "function" /\ test.typeEnv[j][1] = "function"
    /\ test.typeEnv[i][3] = test.typeEnv[j][3]

TypeOfTest(test, strong) ==
  LET i == CHOOSE j \in DOMAIN test.typeEnv : test.typeEnv[j][2] = test.expr[2]
  IN  CASE test.expr[1] = "var" -> TypeDenoted(test.typeEnv[i][3])
        [] test.expr[1] = "call" -> TypeDenoted(test.typeEnv[i][4].resultType)
        [] test.expr[1] = "enum" -> IF strong THEN <<test.expr[2]>> ELSE <<"int">>
        [] test.expr[1] = "fails" -> <<"int">>
        [] test.expr[1] = "literal" ->
             CASE test.expr[2][1] = "null" -> <<"null_type">>
               [] test.expr[2][1] = "list" -> <<"listType", <<"dyn">>>>
               [] test.expr[2][1] = "map" -> <<"mapType", <<"dyn">>, <<"dyn">>>>
               [] OTHER -> <<test.expr[2][1]>>

\* A literal of an expression, as the JSON that denotes it.
RECURSIVE AsJson(_)
AsJson(v) ==
  CASE v[1] = "null" -> <<"nullValue">>
    [] v[1] = "int" -> <<"int64Value", v[2]>>
    [] v[1] = "bool" -> <<"boolValue", v[2]>>
    [] v[1] = "string" -> <<"stringValue", v[2]>>
    [] v[1] = "list" -> <<"listValue", [i \in DOMAIN v[2] |-> AsJson(v[2][i])]>>
    [] v[1] = "map" ->
         <<"mapValue", [i \in DOMAIN v[2] |-> <<AsJson(v[2][i][1]), AsJson(v[2][i][2])>>]>>

Bound(test) == {test.bindings[x][2] : x \in DOMAIN test.bindings}

\* The value of the expression: no value when the evaluation fails.
Values(test, strong) ==
  LET given(x) == Unwrapped(Denoted(test.bindings[x][2]))
  IN  CASE test.expr[1] = "literal" -> {Denoted(AsJson(test.expr[2]))}
        [] test.expr[1] = "enum" ->
             {IF strong THEN test.expr ELSE <<"int64Value", test.expr[3]>>}
        [] test.expr[1] = "var" /\ test.expr[2] \in DOMAIN test.bindings ->
             {v \in {given(test.expr[2])} : ~Overflows(v)}
        [] OTHER -> {}

Failed(in_phase) == <<"failed", in_phase>>
Passed == <<"passed", "">>

Verdict(test, strong, in_mode) ==
  LET checked == IsChecked(test, in_mode)
      mistyped == /\ checked /\ ~Missing(ExpectedType(test))
                  /\ TypeOfTest(test, strong) # TypeDenoted(ExpectedType(test)[1])
      value == Values(test, strong)
  IN  CASE Reasons(test, in_mode) # {} -> <<"unsupported", "">>
        [] test.expr[1] = "syntax" \/ Ambiguous(test) \/ (checked /\ IllTyped(test)) -> Failed("compile")
        [] test.checkOnly -> IF mistyped THEN Failed("check") ELSE Passed
        [] \E json \in Bound(test) : HasUnknownKind(json) -> <<"unsupported", "">>
        [] \E json \in Bound(test) : ~Proper(json) -> Failed("inputs")
        [] mistyped -> Failed("check")
        [] value = {} -> IF ExpectsError(test) THEN Passed ELSE Failed("evaluate")
        [] OTHER -> IF ~ExpectsError(test) /\ value = {Denoted(ExpectedValue(test))} THEN Passed
                    ELSE Failed("compare")
=============================================================================
