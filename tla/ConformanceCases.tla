--------------------------- MODULE ConformanceCases ---------------------------
(***************************************************************************)
(* What is done with one test of the conformance corpus: the reasons not   *)
(* to run it, its execution by the Python and the Node package, and the    *)
(* comparison of the outcome with the test.                                *)
(*                                                                         *)
(* A test is a record of the corpus's fields; a field that may be missing  *)
(* is a sequence of at most one item.  An expression is <<"syntax">>, which*)
(* does not parse, <<"mistyped">>, which fails its check and its evaluation*)
(* alike, <<"fails">>, which is an int by its type and fails, <<"literal", *)
(* v>>, <<"enum", type, n>>, a variable <<"var", x>> or a call of a        *)
(* declared function <<"call", f>>.  The engine that runs it is the subject*)
(* of other modules.                                                       *)
(***************************************************************************)
EXTENDS NodeCodec, TypeCodec, FiniteSets

CONSTANT Policy   \* unsupported.json, whose reasons by file and by fragment are none

Missing(field) == field = <<>>

-----------------------------------------------------------------------------
(* Selection *)

\* The keys of a value's JSON at any depth.
RECURSIVE Kinds(_)
Kinds(value) ==
  {value[1]} \cup
  CASE value[1] = "listValue" -> UNION {Kinds(value[2][i]) : i \in DOMAIN value[2]}
    [] value[1] = "mapValue" ->
         UNION {Kinds(value[2][i][1]) \cup Kinds(value[2][i][2]) : i \in DOMAIN value[2]}
    [] value[1] = "optionalValue" /\ Len(value) = 3 -> Kinds(value[3])
    [] OTHER -> {}

Listed(reasons, present) == {reasons[k] : k \in present \cap DOMAIN reasons}

value_reasons(value) == Listed(Policy.valueReasons, Kinds(value))

DeclaredTypes(test) ==
  LET TypesOf(d) == IF d[1] = "function"
                    THEN {d[4].params[i] : i \in DOMAIN d[4].params} \cup {d[4].resultType}
                    ELSE {d[3]}
  IN  UNION {TypesOf(test.typeEnv[i]) : i \in DOMAIN test.typeEnv}

SetFields(test) ==
  (IF test.disableMacros THEN {"disableMacros"} ELSE {})
    \cup (IF test.locale THEN {"locale"} ELSE {})

unsupported_reasons(test) ==
  LET values == {test.bindings[x] : x \in DOMAIN test.bindings}
      results == IF Missing(test.typedResult) THEN {} ELSE {test.typedResult[1].result}
      deduced == IF Missing(test.typedResult) THEN {} ELSE {test.typedResult[1].deducedType}
      Each(optionals) == {o[1] : o \in {p \in optionals : ~Missing(p)}}
  IN  Listed(Policy.fieldReasons, SetFields(test))
        \cup Listed(Policy.matcherReasons, {test.matcher[1]})
        \cup UNION {unsupported_type(t) : t \in DeclaredTypes(test) \cup Each(deduced)}
        \cup Listed(Policy.exprValueReasons, {b[1] : b \in values})
        \cup UNION {value_reasons(b[2]) : b \in {c \in values : c[1] = "value"}}
        \cup (IF test.matcher[1] = "value" THEN value_reasons(test.matcher[2]) ELSE {})
        \cup UNION {value_reasons(r) : r \in Each(results)}

\* The reasons of a case; a case without reasons is run.
Reasons(test, mode) ==
  unsupported_reasons(test)
    \cup (IF mode = "evaluation" /\ test.checkOnly THEN {"check_only"} ELSE {})

IsChecked(test, mode) == mode = "full" /\ (~test.disableCheck \/ ~Missing(test.typedResult))

-----------------------------------------------------------------------------
(* The packages *)

\* Environment: it refuses to declare an overload twice.
Environment(strong_enums, variables, functions) ==
  IF \E i, j \in DOMAIN functions : i # j /\ functions[i][5] = functions[j][5]
  THEN Raise("CompileError")
  ELSE <<"environment", strong_enums, variables, functions>>

TypeOfLiteral(v) == CASE v[1] = "map" -> Concrete("map", <<Dyn, Dyn>>)
                      [] v[1] = "list" -> Concrete("list", <<Dyn>>)
                      [] v[1] = "null" -> Concrete("null_type", <<>>)
                      [] OTHER -> Concrete(v[1], <<>>)

ResultType(environment, source) ==
  LET variables == environment[3]
      functions == environment[4]
      called == {i \in DOMAIN functions : functions[i][2] = source[2]}
  IN  CASE source[1] = "fails" -> Concrete("int", <<>>)
        [] source[1] = "literal" -> TypeOfLiteral(source[2])
        [] source[1] = "enum" -> Concrete(IF environment[2] THEN source[2] ELSE "int", <<>>)
        [] source[1] = "var" /\ source[2] \in DOMAIN variables -> variables[source[2]]
        [] source[1] = "call" /\ called # {} -> functions[CHOOSE i \in called : TRUE][4]
        [] OTHER -> Raise("CompileError")

\* Environment.compile and Program: an expression, with its type when checked.
Compile(environment, source, check) ==
  LET type == ResultType(environment, source)
  IN  IF source[1] = "syntax" \/ (check /\ Raised(type)) THEN Raise("CompileError")
      ELSE <<"program", source, IF check THEN <<type>> ELSE <<>>, environment>>

\* A value does not depend on whether the program was checked.
Evaluate(program, activation) ==
  LET source == program[2]
      strong_enums == program[4][2]
  IN  CASE source[1] = "literal" -> source[2]
        [] source[1] = "enum" -> IF strong_enums THEN source ELSE <<"int", source[3]>>
        [] source[1] = "var" /\ source[2] \in DOMAIN activation -> Materialized(activation[source[2]])
        [] OTHER -> Raise("EvaluationError")

\* Program.evaluate: the bindings are converted, all of them, before it runs.
PythonEvaluate(program, bindings) ==
  EachThen(Mapped(FromPython, bindings), LAMBDA converted :
    Then(Evaluate(program, converted), ToPython))

-----------------------------------------------------------------------------
(* Execution *)

Outcome(id, outcome, value, checked_type) ==
  [id |-> id, outcome |-> outcome, value |-> value, checked_type |-> checked_type]

Variables(test) ==
  LET idents == {i \in DOMAIN test.typeEnv : test.typeEnv[i][1] = "ident"}
  IN  [x \in {test.typeEnv[i][2] : i \in idents} |->
         decode_type(test.typeEnv[CHOOSE i \in idents : test.typeEnv[i][2] = x][3])]

Functions(test) ==
  LET declared == SelectSeq(test.typeEnv, LAMBDA d : d[1] = "function")
  IN  [i \in DOMAIN declared |->
         LET overload == declared[i][4]
         IN  Function(<<"str", declared[i][2]>>,
                      Mapped(decode_type, overload.params),
                      decode_type(overload.resultType), declared[i][3], overload.member)]

DecodedBindings(test) == Mapped(LAMBDA b : decode_value(b[2]), test.bindings)

\* What the except clauses after the evaluation make of an exception; "raised"
\* stands for one that none of them catches, which ends the run.
Excepted(exception) ==
  CASE exception = "UnsupportedValueError" -> "unsupported"
    [] exception = "EvaluationError" -> "eval_error"
    [] exception \in {"TypeError", "ValueError", "OverflowError"} -> "input_error"
    [] OTHER -> "raised"

EncodedType(program) == Mapped(encode_type, program[3])

\* The part after the compilation.
EvaluatedPython(id, test, program) ==
  LET Encoded(value) == IF Raised(value) THEN Outcome(id, "raised", <<>>, <<>>)
                        ELSE Outcome(id, "value", <<value>>, EncodedType(program))
      type == EncodedType(program)
      bindings == DecodedBindings(test)
      actual == EachThen(bindings, LAMBDA decoded : PythonEvaluate(program, decoded))
  IN  With(actual, LAMBDA result :
        IF ~Raised(result) THEN With(encode_value(result), Encoded)
        ELSE Outcome(id, Excepted(result[2]), <<>>,
                     IF result[2] = "EvaluationError" THEN type ELSE <<>>))

Undeclarable(test) == SomeRaised(Variables(test)) \/ SomeRaised(Functions(test))

\* The program of a test, checked or not, or a CompileError.
CompiledTest(test, strong_enums, check) ==
  Then(Environment(strong_enums, Variables(test), Functions(test)),
       LAMBDA environment : Compile(environment, test.expr, check))

execute_python(id, test, strong_enums, mode) ==
  With(CompiledTest(test, strong_enums, IsChecked(test, mode)), LAMBDA program :
    IF Undeclarable(test) THEN Outcome(id, "raised", <<>>, <<>>)
    ELSE IF Raised(program) THEN Outcome(id, "compile_error", <<>>, <<>>)
    ELSE IF test.checkOnly THEN Outcome(id, "checked", <<>>, EncodedType(program))
    ELSE EvaluatedPython(id, test, program))

\* What travels to the Node adapter for a case; a message that is none raises.
Request(id, test, strong_enums, mode) ==
  LET bindings == Mapped(LAMBDA b : transport(b[2]), test.bindings)
  IN  EachThen(bindings, LAMBDA bound :
        <<"request", id, [test EXCEPT !.bindings = bound], strong_enums, IsChecked(test, mode)>>)

\* The part of the adapter's run after the compilation.
EvaluatedByNode(id, test, program) ==
  LET Plain(outcome) == Outcome(id, outcome, <<>>, <<>>)
      Ran(result) ==
        IF Raised(result) THEN Outcome(id, "eval_error", <<>>, EncodedType(program))
        ELSE Outcome(id, "value", <<encodeValue(result)>>, EncodedType(program))
      Converted(inputs) ==
        IF SomeRaised(inputs) THEN Plain("input_error") ELSE With(Evaluate(program, inputs), Ran)
      Decoded(inputs) ==
        IF UnsupportedError \in {inputs[x] : x \in DOMAIN inputs} THEN Plain("unsupported")
        ELSE IF SomeRaised(inputs) THEN Plain("input_error")
        ELSE With(Mapped(FromJavaScript, inputs), Converted)
  IN  With(Mapped(decodeValue, test.bindings), Decoded)

\* run of node.mjs, without the cache of environments.
AnsweredByNode(request) ==
  LET id == request[2]
      test == request[3]
  IN  With(CompiledTest(test, request[4], request[5]), LAMBDA program :
        IF Undeclarable(test) THEN Outcome(id, "input_error", <<>>, <<>>)
        ELSE IF Raised(program) THEN Outcome(id, "compile_error", <<>>, <<>>)
        ELSE IF test.checkOnly THEN Outcome(id, "checked", <<>>, EncodedType(program))
        ELSE EvaluatedByNode(id, test, program))

\* The runner's normalize on an outcome.
Normalized(outcome) ==
  [outcome EXCEPT !.value = Mapped(normalize, outcome.value)]

-----------------------------------------------------------------------------
(* Comparison *)

Entry(status, reasons, phase, checkedType) ==
  [status |-> status, reasons |-> reasons, phase |-> phase, checkedType |-> checkedType]

ExpectsError(test) == test.matcher[1] \in {"evalError", "anyEvalErrors"}

ExpectedType(test) == IF Missing(test.typedResult) THEN <<>> ELSE test.typedResult[1].deducedType

ExpectedValue(test) ==
  IF ~Missing(test.typedResult) /\ ~Missing(test.typedResult[1].result)
  THEN test.typedResult[1].result[1]
  ELSE IF test.matcher[1] = "value" THEN test.matcher[2] ELSE <<"boolValue", TRUE>>

TypeDiffers(test, outcome) ==
  \/ Missing(outcome.checked_type)
  \/ /\ ~Missing(ExpectedType(test))
     /\ decode_type(outcome.checked_type[1]) # decode_type(ExpectedType(test)[1])

compare(test, outcome, mode) ==
  LET checked == IsChecked(test, mode)
      checkedType == IF checked THEN outcome.checked_type ELSE <<>>
  IN  CASE outcome.outcome = "unsupported" ->
             Entry("unsupported", {"binding_representation"}, "", <<>>)
        [] outcome.outcome = "compile_error" -> Entry("failed", {}, "compile", <<>>)
        [] outcome.outcome = "input_error" -> Entry("failed", {}, "inputs", <<>>)
        [] OTHER ->
      CASE checked /\ ~Missing(ExpectedType(test)) /\ Raised(decode_type(ExpectedType(test)[1])) ->
             Entry("raised", {}, "", <<>>)
        [] checked /\ TypeDiffers(test, outcome) -> Entry("failed", {}, "check", <<>>)
        [] outcome.outcome = "checked" -> Entry("passed", {}, "", checkedType)
        [] outcome.outcome = "eval_error" ->
             IF ExpectsError(test) THEN Entry("passed", {}, "", checkedType)
             ELSE Entry("failed", {}, "evaluate", checkedType)
        [] outcome.outcome = "value" ->
             IF ~ExpectsError(test) /\ values_equal(outcome.value[1], ExpectedValue(test))
             THEN Entry("passed", {}, "", checkedType)
             ELSE Entry("failed", {}, "compare", checkedType)
=============================================================================
