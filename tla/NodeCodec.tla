------------------------------- MODULE NodeCodec -------------------------------
(***************************************************************************)
(* The values of the Node adapter: typed JSON to the values that the       *)
(* package's converter hands the engine, and back.  JavaScript's own       *)
(* objects in between are left out: a value is a CEL value at once, and a  *)
(* value that the classes of the package or the converter refuse raises    *)
(* "InputError".                                                           *)
(***************************************************************************)
EXTENDS Transport

InputError == Raise("InputError")
UnsupportedError == Raise("UnsupportedError")

\* The keys of a Map are primitives or objects; each UInt is an object of its own.
SameMapKey(a, b) == a = b /\ a[1] \in {"null", "bool", "int", "string"}

RECURSIVE decodeValue(_)
RECURSIVE DecodedEntries(_, _)
decodeValue(value) ==
  LET kind == value[1]
  IN  CASE kind = "nullValue" -> <<"null">>
        [] kind = "boolValue" -> <<"bool", value[2]>>
        [] kind = "int64Value" -> <<"int", value[2]>>
        [] kind = "uint64Value" -> 
             IF value[2] \in 0 .. UIntMax THEN <<"uint", value[2]>> ELSE InputError
        [] kind = "doubleValue" -> <<"double", value[2]>>
        [] kind = "stringValue" -> <<"string", value[2]>>
        [] kind = "bytesValue" -> IF value[2] = "malformed" THEN InputError ELSE <<"bytes", value[2]>>
        [] kind = "ipValue" ->
             IF value[2] \in DOMAIN Addresses THEN <<"ip", Addresses[value[2]]>> ELSE InputError
        [] kind = "cidrValue" ->
             IF value[2] \in DOMAIN Prefixes THEN <<"cidr", Prefixes[value[2]]>> ELSE InputError
        [] kind = "optionalValue" ->
             IF value[2] \ {"value"} # {} THEN InputError
             ELSE IF value[2] = {} THEN <<"optional", <<>>>>
             ELSE Then(decodeValue(value[3]), LAMBDA v : <<"optional", <<v>>>>)
        [] kind = "enumValue" ->
             LET number == IF Len(value) = 3 THEN value[3] ELSE 0
             IN  IF value[2] \in QualifiedNames /\ number \in -(EnumMax + 1) .. EnumMax
                 THEN <<"enum", value[2], number>> ELSE InputError
        [] kind = "typeValue" -> IF value[2] = "" THEN InputError ELSE <<"type", value[2]>>
        [] kind = "messageValue" -> <<"message", value[2], value[3]>>
        [] kind = "listValue" ->
             AllThen(Mapped(decodeValue, value[2]), LAMBDA items : <<"list", items>>)
        [] kind = "mapValue" -> DecodedEntries(value[2], <<>>)
        [] OTHER -> UnsupportedError

DecodedEntries(entries, result) ==
  IF entries = <<>> THEN <<"map", result>>
  ELSE LET key == decodeValue(Head(entries)[1])
           value == decodeValue(Head(entries)[2])
       IN  IF Raised(key) THEN key
           ELSE IF \E i \in DOMAIN result : SameMapKey(result[i][1], key) THEN InputError
           ELSE IF Raised(value) THEN value
           ELSE DecodedEntries(Tail(entries), Append(result, <<key, value>>))

\* nativeMap: keys are converted first; they are compared when one is a number.
RECURSIVE FromJavaScript(_)
FromJavaScript(v) ==
  LET keys == Mapped(Head, v[2])
      numeric_keys == \E i \in DOMAIN keys : keys[i][1] \in {"int", "uint"}
      refused(key) == key[1] \notin KeyTypes \/ Raised(FromJavaScript(key))
  IN  CASE v[1] = "int" -> IF v[2] \in Ints THEN v ELSE InputError
        [] v[1] \in {"list", "optional"} -> AllThen(Mapped(FromJavaScript, v[2]), LAMBDA items : v)
        [] v[1] = "map" ->
             IF \/ \E i \in DOMAIN keys : refused(keys[i])
                \/ numeric_keys /\ Raised(ValidateMapKeys(keys))
             THEN InputError
             ELSE PairsThen(MappedPairs(FromJavaScript, v[2]), LAMBDA entries : v)
        [] OTHER -> v

RECURSIVE encodeValue(_)
encodeValue(v) ==
  CASE v[1] = "null" -> <<"nullValue">>
    [] v[1] = "bool" -> <<"boolValue", v[2]>>
    [] v[1] = "uint" -> <<"uint64Value", v[2]>>
    [] v[1] = "int" -> <<"int64Value", v[2]>>
    [] v[1] = "double" -> <<"doubleValue", v[2]>>
    [] v[1] = "string" -> <<"stringValue", v[2]>>
    [] v[1] = "bytes" -> <<"bytesValue", v[2]>>
    [] v[1] = "ip" -> <<"ipValue", v[2]>>
    [] v[1] = "cidr" -> <<"cidrValue", v[2]>>
    [] v[1] = "optional" ->
         IF v[2] = <<>> THEN <<"optionalValue", {}>>
         ELSE <<"optionalValue", {"value"}, encodeValue(v[2][1])>>
    [] v[1] = "enum" -> <<"enumValue", v[2], v[3]>>
    [] v[1] = "type" -> <<"typeValue", v[2]>>
    [] v[1] = "timestamp" -> <<"timestampValue", v[2], v[3]>>
    [] v[1] = "duration" -> <<"durationValue", v[2]>>
    [] v[1] = "message" -> <<"messageValue", v[2], v[3]>>
    [] v[1] = "list" -> <<"listValue", Mapped(encodeValue, v[2])>>
    [] v[1] = "map" -> <<"mapValue", MappedPairs(encodeValue, v[2])>>
=============================================================================
