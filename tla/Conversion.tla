------------------------------ MODULE Conversion ------------------------------
(***************************************************************************)
(* Values at the boundary between Python and the engine, and what the      *)
(* engine makes of a binding.  CEL values are tuples that begin with their *)
(* type: <<"null">>, <<"bool", b>>, <<"int", n>>, <<"uint", n>>,           *)
(* <<"double", d>>, <<"string", s>>, <<"bytes", s>>, <<"list", items>>,    *)
(* <<"map", entries>>, <<"type", name>>, <<"enum", type, n>>,              *)
(* <<"optional", items>> with at most one item, <<"message", type, data>>, *)
(* <<"timestamp", s, n>>, <<"duration", n>>, <<"ip", t>> and <<"cidr", t>>.*)
(* Budgets and borrowed references are the subject of BorrowedInputs.      *)
(***************************************************************************)
EXTENDS HostValues

-----------------------------------------------------------------------------
(* From Python *)

KeyTypes == {"bool", "int", "uint", "string"}

\* int64 and uint64 keys are equal when their numbers are.
SameKey(a, b) ==
  IF a[1] \in {"int", "uint"} THEN b[1] \in {"int", "uint"} /\ a[2] = b[2]
  ELSE a[1] = b[1] /\ a[2] = b[2]

ValidateMapKeys(keys) ==
  LET checked ==
        [i \in DOMAIN keys |->
           IF keys[i][1] \notin KeyTypes THEN Raise("TypeError")
           ELSE IF \E j \in 1 .. i - 1 : SameKey(keys[j], keys[i]) THEN Raise("ValueError")
           ELSE None]
  IN  IF SomeRaised(checked) THEN FirstRaised(checked) ELSE None

\* Entries whose keys and values are converted in turn, and the check of keys.
Entries(entries, needs_validation) ==
  LET Key(entry) == IF Raised(entry[1]) \/ entry[1][1] \in KeyTypes THEN entry[1]
                    ELSE Raise("TypeError")
      valid == IF needs_validation THEN ValidateMapKeys(Mapped(Head, entries)) ELSE None
  IN  PairsThen(Mapped(LAMBDA e : <<Key(e), e[2]>>, entries),
                LAMBDA es : Then(valid, LAMBDA none : <<"map", es>>))

RECURSIVE FromPython(_)
FromPython(x) ==
  CASE x[1] = "None" -> <<"null">>
    [] x[1] = "bool" -> x
    [] x[1] = "int" -> IF x[2] \in Ints THEN x ELSE Raise("OverflowError")
    [] x[1] = "float" -> <<"double", x[2]>>
    [] x[1] = "str" -> <<"string", x[2]>>
    [] x[1] = "bytes" -> x
    [] x[1] = "list" ->
         AllThen(Mapped(FromPython, x[2]), LAMBDA items : <<"list", items>>)
    [] x[1] = "dict" ->
         Entries(MappedPairs(FromPython, x[2]),
                 \E i \in DOMAIN x[2] : x[2][i][1][1] \notin {"str", "int", "bool"})
    [] x[1] = "CELMap" -> Entries(MappedPairs(FromPython, x[2]), TRUE)
    [] x[1] = "IPAddress" -> <<"ip", x[2]>>
    [] x[1] = "CIDR" -> <<"cidr", x[2]>>
    [] x[1] = "OptionalValue" ->
         IF x[2] THEN Then(FromPython(x[3]), LAMBDA v : <<"optional", <<v>>>>)
         ELSE <<"optional", <<>>>>
    [] x[1] = "UInt" -> <<"uint", x[2]>>
    [] x[1] = "CELType" ->
         IF x[3] # <<>> \/ x[4] # "concrete" THEN Raise("TypeError") ELSE <<"type", x[2]>>
    [] x[1] = "EnumValue" -> <<"enum", x[2], x[3]>>
    [] x[1] = "Message" -> <<"message", x[2], x[3]>>
    [] x[1] = "Duration" -> <<"duration", x[2]>>
    [] x[1] = "Timestamp" -> <<"timestamp", x[2], x[3]>>
    [] OTHER -> Raise("TypeError")

-----------------------------------------------------------------------------
(* To Python *)

\* A map goes to a dict unless True or False would fall on 1 or 0.
Confusable(entries) ==
  \E i, j \in DOMAIN entries :
    /\ entries[i][1][1] = "bool" /\ entries[j][1][1] = "int"
    /\ entries[j][1][2] = IF entries[i][1][2] THEN 1 ELSE 0

\* PyDict_SetItem: a key equal to one the dict has, True == 1, replaces its value.
RECURSIVE DictOf(_, _)
DictOf(entries, dict) ==
  IF entries = <<>> THEN dict
  ELSE LET entry == Head(entries)
           same == {i \in DOMAIN dict : PythonKey(dict[i][1]) = PythonKey(entry[1])}
       IN  DictOf(Tail(entries),
                  IF same = {} THEN Append(dict, entry)
                  ELSE [i \in DOMAIN dict |->
                          IF i \in same THEN <<dict[i][1], entry[2]>> ELSE dict[i]])

RECURSIVE ToPython(_)
ToPython(v) ==
  CASE v[1] = "null" -> None
    [] v[1] = "bool" -> v
    [] v[1] = "int" -> v
    [] v[1] = "uint" -> UInt(<<"int", v[2]>>)
    [] v[1] = "double" -> <<"float", v[2]>>
    [] v[1] = "string" -> <<"str", v[2]>>
    [] v[1] = "bytes" -> v
    [] v[1] = "ip" -> IPAddress(<<"str", v[2]>>)
    [] v[1] = "cidr" -> CIDR(<<"str", v[2]>>)
    [] v[1] = "optional" ->
         OptionalValue(<<"bool", v[2] # <<>>>>, IF v[2] = <<>> THEN None ELSE ToPython(v[2][1]))
    [] v[1] = "type" -> CELType(<<"str", v[2]>>, <<>>, "concrete")
    [] v[1] = "duration" -> Duration(<<"int", v[2]>>)
    [] v[1] = "timestamp" -> Timestamp(<<"int", v[2]>>, <<"int", v[3]>>)
    [] v[1] = "enum" -> EnumValue(<<"str", v[2]>>, <<"int", v[3]>>)
    [] v[1] = "message" -> Message(<<"str", v[2]>>, v[3])
    [] v[1] = "list" -> <<"list", Mapped(ToPython, v[2])>>
    [] v[1] = "map" ->
         With(MappedPairs(ToPython, v[2]), LAMBDA entries :
           IF Confusable(v[2]) THEN CELMap(entries) ELSE <<"dict", DictOf(entries, <<>>)>>)

-----------------------------------------------------------------------------
(* In the engine *)

\* A message of a well-known type becomes the value it stands for.
AdaptedMessage(type_name, data) ==
  CASE type_name = "Timestamp" -> <<"timestamp", data[1], data[2]>>
    [] type_name = "Duration" ->
         LET nanoseconds == data[1] * NanosPerSecond + data[2]
         IN  IF nanoseconds \in Ints THEN <<"duration", nanoseconds>>
             ELSE Raise("EvaluationError")
    [] type_name = "Int64Value" -> <<"int", data[1]>>
    [] OTHER -> <<"message", type_name, data>>

\* adapt and materialize: messages of well-known types, at any depth.
RECURSIVE Materialized(_)
Materialized(v) ==
  CASE v[1] \in {"list", "optional"} ->
         AllThen(Mapped(Materialized, v[2]), LAMBDA items : <<v[1], items>>)
    [] v[1] = "map" -> PairsThen(MappedPairs(Materialized, v[2]), LAMBDA es : <<"map", es>>)
    [] v[1] = "message" -> AdaptedMessage(v[2], v[3])
    [] OTHER -> v
=============================================================================
