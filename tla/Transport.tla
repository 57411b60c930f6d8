------------------------------- MODULE Transport -------------------------------
(***************************************************************************)
(* The typed JSON in which the conformance corpus writes values and types, *)
(* in which the runner and the Node adapter exchange them, and in which    *)
(* results are compared.  A JSON value is a tuple that begins with its key *)
(* in the corpus, as in <<"int64Value", n>> and <<"mapValue", entries>>.   *)
(*                                                                         *)
(* A message is <<type, body>>: its JSON body may spell one number as a    *)
(* number or as a text, its data does not keep the spelling.  Messages are *)
(* those of the protobuf library; four types stand for all.                *)
(***************************************************************************)
EXTENDS Conversion

CONSTANTS
  ProtoSecondsMax,   \* the seconds of a protobuf Duration
  MessageFields      \* the fields of the test message

-----------------------------------------------------------------------------
(* Messages *)

SameSign(s, n) == ~(s > 0 /\ n < 0) /\ ~(s < 0 /\ n > 0)

\* json_format.ParseDict
ParsedBody(type_name, body) ==
  CASE type_name = "Timestamp" /\ body[1] = "time" ->
         IF body[2] \in -SecondsMax .. SecondsMax THEN <<"data", <<body[2], body[3]>>>>
         ELSE Raise("ParseError")
    [] type_name = "Duration" /\ body[1] = "span" ->
         IF body[2] \in -ProtoSecondsMax .. ProtoSecondsMax /\ SameSign(body[2], body[3])
         THEN <<"data", <<body[2], body[3]>>>> ELSE Raise("ParseError")
    [] type_name = "Int64Value" /\ body[1] \in {"number", "text"} -> <<"data", <<body[2]>>>>
    [] type_name = "TestMessage" /\ body[1] = "fields" ->
         IF \A f \in body[2] : f[1] \in MessageFields
         THEN <<"data", {<<f[1], f[3]>> : f \in {g \in body[2] : g[3] # 0}}>>
         ELSE Raise("ParseError")
    [] OTHER -> Raise("ParseError")

\* json_format.MessageToDict
BodyOf(type_name, data) ==
  CASE type_name = "Timestamp" -> <<"time", data[1], data[2]>>
    [] type_name = "Duration" ->
         IF SameSign(data[1], data[2]) THEN <<"span", data[1], data[2]>> ELSE Raise("ValueError")
    [] type_name = "Int64Value" -> <<"text", data[1]>>
    [] type_name = "TestMessage" -> <<"fields", {<<f[1], "text", f[2]>> : f \in data}>>

MessageTypes == {"Timestamp", "Duration", "Int64Value", "TestMessage"}

decode_message(json) ==
  IF json[1] \notin MessageTypes THEN Raise("KeyError")
  ELSE LET parsed == ParsedBody(json[1], json[2])
       IN  IF Raised(parsed) THEN parsed ELSE Message(<<"str", json[1]>>, parsed[2])

encode_message(message) ==
  LET body == BodyOf(message[2], message[3])
  IN  IF Raised(body) THEN body ELSE <<message[2], body>>

Abs(n) == IF n < 0 THEN -n ELSE n

WholeSeconds(nanoseconds) ==
  LET seconds == Abs(nanoseconds) \div NanosPerSecond
  IN  IF nanoseconds < 0 THEN -seconds ELSE seconds

encode_temporal(value) ==
  IF value[1] = "Timestamp" THEN encode_message(<<"Message", "Timestamp", <<value[2], value[3]>>>>)
  ELSE LET seconds == WholeSeconds(value[2])
       IN  encode_message(<<"Message", "Duration", <<seconds, value[2] - seconds * NanosPerSecond>>>>)

messages_equal(left, right) ==
  LET a == decode_message(left)
      b == decode_message(right)
  IN  a[2] = b[2] /\ encode_message(a) = encode_message(b)

-----------------------------------------------------------------------------
(* The Python codec *)

Object(json) == IF Raised(json) THEN json ELSE <<"objectValue", json>>

RECURSIVE decode_value(_)
decode_value(value) ==
  LET kind == value[1]
  IN  CASE kind = "nullValue" -> None
        [] kind = "boolValue" -> <<"bool", value[2]>>
        [] kind = "int64Value" -> <<"int", value[2]>>
        [] kind = "uint64Value" -> UInt(<<"int", value[2]>>)
        [] kind = "doubleValue" -> <<"float", value[2]>>
        [] kind = "stringValue" -> <<"str", value[2]>>
        [] kind = "bytesValue" ->
             IF value[2] = "malformed" THEN Raise("ValueError") ELSE <<"bytes", value[2]>>
        [] kind = "ipValue" -> IPAddress(<<"str", value[2]>>)
        [] kind = "cidrValue" -> CIDR(<<"str", value[2]>>)
        [] kind = "optionalValue" ->
             IF value[2] \ {"value"} # {} THEN Raise("ValueError")
             ELSE IF value[2] = {} THEN OptionalNone
             ELSE Then(decode_value(value[3]), OptionalOf)
        [] kind = "enumValue" ->
             EnumValue(<<"str", value[2]>>, <<"int", IF Len(value) = 3 THEN value[3] ELSE 0>>)
        [] kind = "typeValue" -> Concrete(value[2], <<>>)
        [] kind = "objectValue" -> decode_message(value[2])
        [] kind = "listValue" ->
             AllThen(Mapped(decode_value, value[2]), LAMBDA items : <<"list", items>>)
        [] kind = "mapValue" -> PairsThen(MappedPairs(decode_value, value[2]), CELMap)
        [] OTHER -> Raise("UnsupportedValueError")

RECURSIVE encode_value(_)
encode_value(value) ==
  LET kind == value[1]
  IN  CASE kind = "None" -> <<"nullValue">>
        [] kind = "bool" -> <<"boolValue", value[2]>>
        [] kind = "int" -> <<"int64Value", value[2]>>
        [] kind = "UInt" -> <<"uint64Value", value[2]>>
        [] kind = "IPAddress" -> <<"ipValue", value[2]>>
        [] kind = "CIDR" -> <<"cidrValue", value[2]>>
        [] kind = "OptionalValue" ->
             IF value[2] THEN <<"optionalValue", {"value"}, encode_value(value[3])>>
             ELSE <<"optionalValue", {}>>
        [] kind = "EnumValue" -> <<"enumValue", value[2], value[3]>>
        [] kind = "CELType" -> <<"typeValue", value[2]>>
        [] kind \in {"Timestamp", "Duration"} -> Object(encode_temporal(value))
        [] kind = "Message" -> Object(encode_message(value))
        [] kind = "float" -> <<"doubleValue", value[2]>>
        [] kind = "str" -> <<"stringValue", value[2]>>
        [] kind = "bytes" -> <<"bytesValue", value[2]>>
        [] kind = "list" -> <<"listValue", Mapped(encode_value, value[2])>>
        [] kind \in {"CELMap", "dict"} -> <<"mapValue", MappedPairs(encode_value, value[2])>>

\* Entries of the result are matched to those expected in turn, and used up.
RECURSIVE values_equal(_, _)
RECURSIVE Matched(_, _)
values_equal(actual, expected) ==
  LET kind == actual[1]
  IN  /\ kind = expected[1]
      /\ CASE kind = "optionalValue" ->
                /\ actual[2] = expected[2]
                /\ actual[2] = {"value"} => values_equal(actual[3], expected[3])
           [] kind = "enumValue" ->
                /\ actual[2] = expected[2]
                /\ actual[3] = IF Len(expected) = 3 THEN expected[3] ELSE 0
           [] kind = "objectValue" -> messages_equal(actual[2], expected[2])
           [] kind = "listValue" ->
                /\ Len(actual[2]) = Len(expected[2])
                /\ \A i \in DOMAIN actual[2] : values_equal(actual[2][i], expected[2][i])
           [] kind = "mapValue" ->
                Len(actual[2]) = Len(expected[2]) /\ Matched(actual[2], expected[2])
           [] OTHER -> actual = expected

Matched(unmatched, entries) ==
  \/ entries = <<>>
  \/ LET found ==
           {i \in DOMAIN unmatched :
              /\ values_equal(unmatched[i][1], Head(entries)[1])
              /\ values_equal(unmatched[i][2], Head(entries)[2])}
         first == CHOOSE i \in found : \A j \in found : i <= j
     IN  /\ found # {}
         /\ Matched([i \in 1 .. Len(unmatched) - 1 |-> unmatched[IF i < first THEN i ELSE i + 1]],
                    Tail(entries))

-----------------------------------------------------------------------------
(* Between the runner and an adapter *)

\* Messages travel as their data.
RECURSIVE transport(_)
transport(value) ==
  LET kind == value[1]
  IN  CASE kind = "objectValue" ->
             Then(decode_message(value[2]), LAMBDA m : <<"messageValue", m[2], m[3]>>)
        [] kind = "listValue" ->
             AllThen(Mapped(transport, value[2]), LAMBDA items : <<"listValue", items>>)
        [] kind = "mapValue" ->
             PairsThen(MappedPairs(transport, value[2]), LAMBDA es : <<"mapValue", es>>)
        [] kind = "optionalValue" /\ value[2] = {"value"} ->
             Then(transport(value[3]), LAMBDA v : <<"optionalValue", {"value"}, v>>)
        [] OTHER -> value

RECURSIVE normalize(_)
normalize(value) ==
  LET kind == value[1]
  IN  CASE kind = "timestampValue" ->
             Object(encode_temporal(Timestamp(<<"int", value[2]>>, <<"int", value[3]>>)))
        [] kind = "durationValue" -> Object(encode_temporal(Duration(<<"int", value[2]>>)))
        [] kind = "messageValue" -> Object(encode_message(<<"Message", value[2], value[3]>>))
        [] kind = "listValue" -> <<"listValue", Mapped(normalize, value[2])>>
        [] kind = "mapValue" -> <<"mapValue", MappedPairs(normalize, value[2])>>
        [] kind = "optionalValue" /\ value[2] = {"value"} ->
             <<"optionalValue", {"value"}, normalize(value[3])>>
        [] OTHER -> value
=============================================================================
