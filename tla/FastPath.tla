------------------------------- MODULE FastPath -------------------------------
(***************************************************************************)
(* Program.evaluate with plain data, in both bindings: the program's plan  *)
(* is compiled to a function of the host language when it is first needed; *)
(* a call runs it, and goes to the engine when there is no such function   *)
(* or the function bails out.                                              *)
(***************************************************************************)
EXTENDS PlainPython, PlainTypeScript, Grammar

CONSTANTS
  Sources,        \* [tokens, limits]: sources and the limits they are compiled under
  InputsOf(_)     \* the bindings a program of a source is called with

VARIABLES
  host,      \* the binding: "python" or "typescript"
  source,    \* what is compiled
  program,   \* what it was compiled to
  fast,      \* _fast: <<"unset">>, <<"refused">>, or the function
  call       \* the last call: its bindings, who answered, and the answer

vars == <<host, source, program, fast, call>>

Uncompiled == [node |-> NoNode, patterns |-> <<>>, error |-> "uncompiled"]

Unset == <<"unset">>

Refused == <<"refused">>

Function(code) == <<"function", code>>

\* What _fastPath stores: a function, unless there is no plan or it is refused.
CompiledFrom(plan) ==
  CASE plan = Unsupported -> Refused
    [] host = "python" ->
         LET code == PyCompile(plan) IN IF code.out = None THEN Refused ELSE Function(code)
    [] host = "typescript" ->
         LET code == JsCompile(plan) IN IF code = Null THEN Refused ELSE Function(code)

FastPathOf == IF fast = Unset THEN CompiledFrom(Emission(program.node)) ELSE fast

FastResult(function, b) ==
  IF host = "python" THEN PyCall(function[2], b) ELSE JsCall(function[2], b)

NoCall == [bindings |-> <<>>, by |-> "nobody", result |-> <<>>]

Answered(by, b, result) == [bindings |-> b, by |-> by, result |-> result]

Init ==
  /\ host \in {"python", "typescript"}
  /\ source \in Sources
  /\ program = Uncompiled
  /\ fast = Unset
  /\ call = NoCall

\* compile: no program when it raises.
Compile ==
  /\ program.error # "none"
  /\ program' = Parse(source)
  /\ UNCHANGED <<host, source, fast, call>>

\* has_fast_path and hasFastPath compile too.
HasFastPath ==
  /\ program.error = "none" /\ call = NoCall
  /\ fast' = FastPathOf
  /\ UNCHANGED <<host, source, program, call>>

\* evaluate: the compiled function answers, or the engine does.
AnsweredFast(function, b) ==
  /\ function # Refused
  /\ \E result \in {FastResult(function, b)} :
       /\ result # Bail
       /\ call' = Answered("function", b, result)

AnsweredByEngine(function, b) ==
  /\ function # Refused => FastResult(function, b) = Bail
  /\ call' = Answered("engine", b, EngineResult(program.node, b))

Evaluate(b) ==
  /\ program.error = "none" /\ call = NoCall
  /\ \E function \in {FastPathOf} :
       /\ fast' = function
       /\ AnsweredFast(function, b) \/ AnsweredByEngine(function, b)
  /\ UNCHANGED <<host, source, program>>

\* The caller has the answer.
Return ==
  /\ call # NoCall
  /\ call' = NoCall
  /\ UNCHANGED <<host, source, program, fast>>

Next == Compile \/ HasFastPath \/ Return \/ \E b \in InputsOf(source) : Evaluate(b)

Spec == Init /\ [][Next]_vars

-----------------------------------------------------------------------------
(* Properties *)

IsValue(result) == result[1] \in {"bool", "string"}

Mentioned == {source.tokens[i][2] : i \in
                {k \in DOMAIN source.tokens :
                   source.tokens[k][1] \in {"identifier", "quoted_identifier"}}}

\* The documented difference: bindings that a program does not use are never read.
Used(b) == Restrict(b, {name \in DOMAIN b : name[1] \in Mentioned})

\* A source has at most one reading in the grammar of CEL.  It is compiled to
\* the node and the patterns of that reading if it is within the limits of
\* nodes and nesting, and to nothing otherwise, with the limit as the error.
ParsedAsWritten ==
  LET readings == Readings(source.tokens, 1)
  IN  program # Uncompiled /\ fast = Unset /\ call = NoCall /\ program.error # "SourceLimitExceeded" =>
        IF readings = {} THEN program.error # "none"
        ELSE \E reading \in readings :
               /\ readings = {reading}
               /\ IF Within(reading, source.limits)
                  THEN program = [node |-> reading.node, patterns |-> reading.patterns, error |-> "none"]
                  ELSE program.error \in {"DepthLimitExceeded", "NodeLimitExceeded"}

\* Bindings without which the program has no result.
Needed(b) ==
  {name \in DOMAIN b : Meaning(program.node, <<>>, Restrict(b, DOMAIN b \ {name})) = Error}

\* What a function may pass over: an entry or item that it does not read and, the
\* known difference (see ResultUnchanged), in Python a text in a program that has
\* text literals or a list of them, which may be empty.
PassedOver(value) ==
  \/ value[1] \in {"dict", "list"}
  \/ /\ host = "python" /\ IsText(value)
     /\ \E i \in DOMAIN source.tokens : source.tokens[i][1] \in {"string", "in"}

\* Whatever value a compiled function answers, in Python or JavaScript, the
\* engine would have answered for the bindings the program uses: for every way a
\* read can be missing, of another type, out of range, or shadowed by a loop
\* variable or a dotted name of the bindings.  Used bindings that do not convert
\* make the engine raise: then a function answers only if it does not need them
\* or may pass over them, no more than the program means for the data it read,
\* and never an ill-formed text.
FunctionsAgree ==
  LET used == Used(call.bindings)
  IN  call.by = "function" /\ IsValue(call.result) =>
        /\ AllConvert(used) => call.result = EngineResult(program.node, used)
        /\ ~AllConvert(used) =>
             /\ \A name \in Needed(used) : Converts(used[name]) \/ PassedOver(used[name])
             /\ ~IsIllFormed(call.result)
             /\ call.result = Meaning(program.node, <<>>, used)

\* A read made in a right operand or in a loop, which may not run, is never
\* reused after it: without conditionals no local variable lacks its value.
ReadsInScope ==
  call.result = Unbound => \E i \in DOMAIN source.tokens : source.tokens[i] = <<"?">>

\* With plain data a call has the result it has without, given the bindings
\* that the program uses: whatever a function has no answer for goes to the
\* engine.
ResultUnchanged ==
  call.by = "function" => call.result = EngineResult(program.node, Used(call.bindings))
=============================================================================
