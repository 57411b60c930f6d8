----------------------------- MODULE MCConformance -----------------------------
(***************************************************************************)
(* Corpora for ConformanceRun, with the cases of ConformanceCases and the  *)
(* verdicts of ConformanceVerdicts.                                        *)
(***************************************************************************)
EXTENDS ConformanceRun, ConformanceVerdicts, TLC

MCPolicy ==
  [fieldReasons |-> [disableMacros |-> "macro_configuration", locale |-> "locale"],
   matcherReasons |-> [anyUnknowns |-> "unknown", unknown |-> "unknown"],
   exprValueReasons |-> [error |-> "error_value", unknown |-> "unknown"],
   valueReasons |-> <<>>]

MCAddresses == ("10.0.0.1" :> "10.0.0.1") @@ ("::0" :> "::") @@ ("::" :> "::")
MCPrefixes == ("10.0.0.0/8" :> "10.0.0.0/8")

MCNoOutcome == Outcome(<<>>, "input_error", <<>>, <<>>)

-----------------------------------------------------------------------------
(* Values *)

I64(n) == <<"int64Value", n>>
U64(n) == <<"uint64Value", n>>
Truth(b) == <<"boolValue", b>>
Text(s) == <<"stringValue", s>>
Null == <<"nullValue">>
List(items) == <<"listValue", items>>
Dict(entries) == <<"mapValue", entries>>
Some(v) == <<"optionalValue", {"value"}, v>>
Nothing == <<"optionalValue", {}>>
Msg(type, body) == <<"objectValue", <<type, body>>>>
Span(s, n) == Msg("Duration", <<"span", s, n>>)
Time(s, n) == Msg("Timestamp", <<"time", s, n>>)
Fields(spelling, n) == Msg("TestMessage", <<"fields", {<<"f", spelling, n>>}>>)
NoFields == Msg("TestMessage", <<"fields", {}>>)
Wrapped(n) == Msg("Int64Value", <<"number", n>>)

\* Pairs of what a case binds and what it expects of the identity.
Kinded ==
  LET atoms ==
        {Null, Truth(TRUE), Truth(FALSE), I64(0), I64(1), I64(IntMax), I64(-IntMax - 1), U64(0), U64(1),
         U64(UIntMax), <<"doubleValue", <<"num", 1>>>>, <<"doubleValue", <<"NaN">>>>,
         <<"doubleValue", <<"Infinity">>>>, Text("a"), <<"bytesValue", "a">>, <<"typeValue", "int">>,
         <<"enumValue", "E", 0>>, <<"enumValue", "E", EnumMax>>, <<"ipValue", "::">>,
         <<"cidrValue", "10.0.0.0/8">>, Nothing, Some(Null), Some(Nothing), List(<<>>), Dict(<<>>)}
  IN  {<<v, v>> : v \in atoms} \cup {<<I64(1), e>> : e \in atoms} \cup {<<e, Truth(TRUE)>> : e \in atoms}

Temporal ==
  LET spans == {Span(0, 1), Span(0, -1), Span(-1, -1), Span(1, 1), Span(2, 0), Span(-2, 0), Span(-1, 0)}
      times == {Time(0, 1), Time(-1, 1), Time(SecondsMax, 1), Time(-SecondsMax, 0)}
  IN  {<<v, v>> : v \in spans \cup times} \cup {<<Span(-1, -1), e>> : e \in spans \cup times}
        \cup {<<List(<<v, Span(0, -1)>>), List(<<v, Span(0, -1)>>)>> : v \in spans}

Messages ==
  {<<Fields("number", 1), e>> : e \in {Fields("text", 1), Fields("number", 2), NoFields, I64(1)}}
    \cup {<<NoFields, Fields("number", 0)>>, <<Wrapped(1), I64(1)>>, <<Wrapped(1), Wrapped(1)>>,
          <<Some(Wrapped(1)), Some(I64(1))>>, <<Dict(<<<<Text("a"), Wrapped(1)>>>>), Dict(<<<<Text("a"), I64(1)>>>>)>>,
          <<List(<<Fields("text", 1)>>), List(<<Fields("number", 1)>>)>>}

\* Maps whose keys a dict would confuse, and their entries in another order.
Maps ==
  LET keys == {Truth(TRUE), Truth(FALSE), I64(1), I64(0), U64(1), Text("a")}
      entry(k) == <<k, Text(IF k[1] = "boolValue" THEN "b" ELSE "n")>>
      both == {<<a, b>> \in keys \X keys : a # b /\ {a, b} # {I64(1), U64(1)}}
  IN  UNION {LET m == Dict(<<entry(p[1]), entry(p[2])>>)
             IN  {<<m, m>>, <<m, Dict(<<entry(p[2]), entry(p[1])>>)>>, <<m, Dict(<<entry(p[1])>>)>>,
                  <<m, Dict(<<<<p[1], entry(p[2])[2]>>, <<p[2], entry(p[1])[2]>>>>)>>} : p \in both}
        \cup {<<List(<<Dict(<<entry(a), entry(b)>>)>>), List(<<Dict(<<entry(b), entry(a)>>)>>)>> :
                a \in {Truth(TRUE)}, b \in {I64(1), U64(1), I64(0)}}

\* Inputs that are not CEL values, of kinds the packages do not know, or refused.
Odd ==
  {<<v, Truth(TRUE)>> : v \in
     {I64(IntMax + 1), U64(UIntMax + 1), U64(-1), <<"bytesValue", "malformed">>, <<"ipValue", "1">>,
      <<"cidrValue", "10">>, <<"typeValue", "">>, <<"enumValue", "e.", 1>>, <<"enumValue", "E", EnumMax + 1>>,
      <<"optionalValue", {"other"}>>, <<"optionalValue", {"value", "other"}, Null>>,
      <<"mystery">>, List(<<Null, <<"mystery">>>>), Some(<<"mystery">>),
      Dict(<<<<I64(1), Null>>, <<U64(1), Null>>>>), Dict(<<<<U64(1), Null>>, <<U64(1), Null>>>>),
      Dict(<<<<Text("a"), Null>>, <<Text("a"), I64(1)>>>>), Dict(<<<<Null, Null>>>>),
      Dict(<<<<<<"doubleValue", <<"num", 1>>>>, Null>>>>), Dict(<<<<I64(1), <<"mystery">>>>>>)}}
    \cup {<<<<"enumValue", "E">>, <<"enumValue", "E", 0>>>>, <<<<"enumValue", "E", 0>>, <<"enumValue", "E">>>>,
          <<<<"ipValue", "::0">>, <<"ipValue", "::">>>>}

-----------------------------------------------------------------------------
(* Tests *)

Var == <<"var", "x">>
Ident(type) == <<"ident", "x", type>>
DynType == <<"dyn">>

Plain ==
  [section |-> "s", name |-> <<"t">>, expr |-> Var, bindings |-> <<>>, typeEnv |-> <<>>,
   matcher |-> <<"none">>, typedResult |-> <<>>, disableCheck |-> FALSE, checkOnly |-> FALSE,
   disableMacros |-> FALSE, locale |-> FALSE]

Identity(v, e) ==
  [Plain EXCEPT !.bindings = [x |-> <<"value", v>>], !.typeEnv = <<Ident(DynType)>>,
                !.matcher = <<"value", e>>]

ValueTests == {Identity(p[1], p[2]) : p \in Kinded \cup Temporal \cup Messages \cup Maps \cup Odd}

IntType == <<"primitive", "INT64">>

Types ==
  {IntType, <<"primitive", "BOOL">>, <<"wrapper", "INT64">>, <<"wellKnown", "TIMESTAMP">>,
   <<"wellKnown", "DURATION">>, <<"wellKnown", "ANY">>, <<"wellKnown", "LIST_VALUE">>,
   <<"wellKnown", "STRUCT">>, DynType, <<"null">>, <<"listType", DynType>>, <<"listType", IntType>>,
   <<"mapType", <<"primitive", "STRING">>, DynType>>, <<"mapType", DynType, <<"primitive", "STRING">>>>,
   <<"type">>, <<"type", IntType>>, <<"messageType", "M">>, <<"typeParam", "T">>,
   <<"abstractType", "O", <<>>>>, <<"abstractType", "O", <<IntType>>>>}

Deduced(type) == <<[result |-> <<>>, deducedType |-> <<type>>]>>

TypeTests ==
  {[Identity(Null, Null) EXCEPT !.typeEnv = <<Ident(p[1])>>, !.typedResult = Deduced(p[2]),
                                !.checkOnly = c] : p \in Types \X Types, c \in {TRUE}}

Overload(name, id, result) ==
  <<"function", name, id, [params |-> <<IntType>>, resultType |-> result, member |-> FALSE]>>

Exprs ==
  {<<"syntax">>, <<"mistyped">>, <<"fails">>, Var, <<"enum", "E", 1>>, <<"call", "g">>,
   <<"literal", <<"int", 1>>>>,
   <<"literal", <<"map", <<<<<<"bool", TRUE>>, <<"int", 0>>>>, <<<<"int", 1>>, <<"int", 1>>>>>>>>>>}

FlagTests ==
  {[Identity(v, e) EXCEPT !.expr = expr, !.matcher = m, !.disableCheck = d, !.checkOnly = c, !.typedResult = t] :
     v \in {I64(1), Span(2, 0), <<"mystery">>}, e \in {Null}, expr \in Exprs, d, c \in BOOLEAN,
     m \in {<<"value", I64(1)>>, <<"evalError">>, <<"unknown">>}, t \in {<<>>, Deduced(IntType)}}

OtherTests ==
  {[Plain EXCEPT !.expr = <<"call", "g">>, !.checkOnly = TRUE, !.typedResult = t,
                 !.typeEnv = <<Overload("g", i, IntType), Overload("g", "j", IntType)>>] :
     i \in {"i", "j"}, t \in {<<>>, Deduced(IntType), Deduced(DynType)}}
    \cup {[Identity(I64(1), I64(1)) EXCEPT !.bindings = [x |-> <<b>>]] : b \in {"error", "unknown"}}
    \cup {[Identity(I64(1), I64(1)) EXCEPT !.locale = TRUE], [Identity(I64(1), I64(1)) EXCEPT !.disableMacros = TRUE],
          [Plain EXCEPT !.expr = <<"literal", <<"bool", TRUE>>>>],
          [Identity(I64(1), I64(1)) EXCEPT !.matcher = <<"none">>,
             !.typedResult = <<[result |-> <<I64(1)>>, deducedType |-> <<>>]>>],
          [Identity(I64(1), I64(1)) EXCEPT !.matcher = <<"anyEvalErrors">>]}

-----------------------------------------------------------------------------
(* Corpora *)

File(name, kind, tests) ==
  [name |-> name, kind |-> kind, tests |-> tests, intact |-> TRUE, count |-> Len(tests)]

OneTest(test) == [files |-> <<File("f", "core", <<test>>)>>, total |-> 1]

Small ==
  {Identity(I64(1), I64(1)), Identity(I64(1), I64(0)), Identity(<<"mystery">>, Null),
   [Identity(I64(1), I64(1)) EXCEPT !.locale = TRUE, !.name = <<"u">>]}

Three == {<<a, b, c>> : a, b, c \in Small}

EnumTest(section) ==
  [Identity(Null, <<"enumValue", "E", 1>>) EXCEPT !.expr = <<"enum", "E", 1>>, !.section = section]

\* Several tests, many of one name, in two files.
Larger ==
  {[files |-> <<File("f", "core", <<t[1], t[2]>>), File(f, "extension", <<t[3]>>)>>, total |-> 3] :
     t \in Three, f \in {"f", "g"}}
    \cup {[files |-> <<File(f, "core", <<EnumTest("strong_proto2"), EnumTest("legacy")>>)>>, total |-> 2] :
            f \in {"enums", "f"}}

\* What the runner refuses.
Spoiled ==
  LET good == CHOOSE c \in Larger : Len(c.files) = 2
  IN  {[good EXCEPT !.total = 4], [good EXCEPT !.total = 2],
       [good EXCEPT !.files[2].intact = FALSE], [good EXCEPT !.files[1].count = 1],
       [good EXCEPT !.files[2].count = 2]}

MCCorpora ==
  {OneTest(t) : t \in ValueTests \cup TypeTests \cup FlagTests \cup OtherTests} \cup Larger \cup Spoiled

\* The report itself, one in another order, one with a result changed, left out
\* or added, one with another count.
MCBaselines(r) ==
  {r, [r EXCEPT !.summary["core"]["passed"] = 9],
   [r EXCEPT !.results = [i \in DOMAIN r.results |-> r.results[Len(r.results) + 1 - i]]]}
    \cup {[r EXCEPT !.results[i].status = s] : i \in DOMAIN r.results, s \in Statuses}
    \cup {[r EXCEPT !.results = Append(r.results, [r.results[i] EXCEPT !.kind = "new", !.id = <<"new">>])] : i \in {1}}
    \cup {[r EXCEPT !.results = [j \in 1 .. Len(r.results) - 1 |-> r.results[IF j < i THEN j ELSE j + 1]]] :
            i \in DOMAIN r.results}
=============================================================================
