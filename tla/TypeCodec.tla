------------------------------- MODULE TypeCodec -------------------------------
(***************************************************************************)
(* Types in the corpus's JSON, as in <<"listType", <<"primitive",          *)
(* "INT64">>>>, and the CELType values of declarations and result types.   *)
(* decodeType and encodeType of the Node adapter are the same functions.   *)
(***************************************************************************)
EXTENDS HostValues

Primitives == [BOOL |-> "bool", INT64 |-> "int", STRING |-> "string"]

PrimitiveOf(name) == CHOOSE key \in DOMAIN Primitives : Primitives[key] = name

Dyn == Concrete("dyn", <<>>)

WellKnown ==
  [TIMESTAMP |-> Concrete("google.protobuf.Timestamp", <<>>),
   DURATION |-> Concrete("google.protobuf.Duration", <<>>),
   ANY |-> Dyn,
   LIST_VALUE |-> Concrete("list", <<Dyn>>),
   STRUCT |-> Concrete("map", <<Concrete("string", <<>>), Dyn>>)]

RECURSIVE decode_type(_)
decode_type(source) ==
  LET kind == source[1]
      Constructed(name, parameters) == AllThen(parameters, LAMBDA ps : Concrete(name, ps))
  IN  CASE kind = "typeParam" -> TypeParameter(source[2])
        [] kind = "abstractType" ->
             AllThen(Mapped(decode_type, source[3]), LAMBDA ps : Abstract(source[2], ps))
        [] kind = "primitive" -> Concrete(Primitives[source[2]], <<>>)
        [] kind = "wrapper" -> Concrete("wrapper", <<Concrete(Primitives[source[2]], <<>>)>>)
        [] kind = "wellKnown" /\ source[2] \in DOMAIN WellKnown -> WellKnown[source[2]]
        [] kind = "dyn" -> Dyn
        [] kind = "null" -> Concrete("null_type", <<>>)
        [] kind = "listType" -> Constructed("list", <<decode_type(source[2])>>)
        [] kind = "mapType" ->
             Constructed("map", <<decode_type(source[2]), decode_type(source[3])>>)
        [] kind = "type" ->
             Constructed("type", IF Len(source) = 2 THEN <<decode_type(source[2])>> ELSE <<>>)
        [] kind = "messageType" -> Concrete(source[2], <<>>)
        [] OTHER -> Raise("ValueError")

RECURSIVE encode_type(_)
encode_type(value) ==
  LET name == value[2]
      parameters == value[3]
  IN  CASE value[4] = "parameter" -> <<"typeParam", name>>
        [] value[4] = "abstract" ->
             <<"abstractType", name, Mapped(encode_type, parameters)>>
        [] OTHER ->
      CASE \E key \in DOMAIN Primitives : Primitives[key] = name -> <<"primitive", PrimitiveOf(name)>>
        [] name = "wrapper" -> <<"wrapper", PrimitiveOf(parameters[1][2])>>
        [] name = "google.protobuf.Timestamp" -> <<"wellKnown", "TIMESTAMP">>
        [] name = "google.protobuf.Duration" -> <<"wellKnown", "DURATION">>
        [] name = "dyn" -> <<"dyn">>
        [] name = "null_type" -> <<"null">>
        [] name = "list" -> <<"listType", encode_type(parameters[1])>>
        [] name = "map" -> <<"mapType", encode_type(parameters[1]), encode_type(parameters[2])>>
        [] name = "type" ->
             IF parameters = <<>> THEN <<"type">> ELSE <<"type", encode_type(parameters[1])>>
        [] OTHER -> <<"messageType", name>>

\* The reasons a type cannot be declared: every type found inside is searched,
\* and none is a reason.
RECURSIVE unsupported_type(_)
unsupported_type(source) ==
  CASE source[1] = "abstractType" -> UNION {unsupported_type(source[3][i]) : i \in DOMAIN source[3]}
    [] source[1] \in {"listType", "mapType", "type"} ->
         UNION {unsupported_type(source[i]) : i \in 2 .. Len(source)}
    [] OTHER -> {}
=============================================================================
