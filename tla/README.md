# Verification of the CEL engine and its bindings

This directory holds TLA+ models of the CEL (Common Expression Language) engine in `src/src/*.zig` and of its Python and
TypeScript bindings, the TLC configurations that check them, and TLAPS proofs about them. The repository is the
reference: a definition models the code named for it in `PROJECT.json` under `map`.

1. [The system](#the-system)
2. [Models](#models): what each module stands for and how it corresponds to the code
3. [Runs](#runs): what is checked, with which bounds, and where the code and its documentation disagree
4. [Fairness](#fairness)
5. [Proofs](#proofs)
6. [What is not modelled](#what-is-not-modelled)
7. [Plan](#plan)

## The system

A CEL *program* is compiled once from source text in an *environment* (declared variables, functions, protobuf
descriptors, container, limits) and evaluated many times with *bindings*. The engine is sequential and allocates per
call; what is shared between calls, and what the host languages do during a call, is where the hard behaviour is.

| Component | Source | State it keeps | Operations |
|---|---|---|---|
| Parser | `syntax.zig` | current token, depth, node count, literal patterns | tokenize, precedence climbing, macro expansion, limits |
| Type checker | `checker.zig`, `types.zig`, `functions.zig` | type variables (`Term`), trail of changes, step and depth budgets | unify, join, overload selection with rollback, finish |
| Program and environment | `program.zig`, `root.zig` | arenas, registry reference, literal regex cache | compile, clone, deinit, evaluate |
| Evaluator | `eval.zig`, `value.zig`, `errors.zig` | budget, depth, scopes, lazy bindings, dynamic regexes | one case per node kind, built-in calls |
| Regular expressions | `regex.zig`, `re2.cc` | cache of compiled patterns and failures, memory limit | get, matches, deinit |
| Names | `names.zig` | none | qualified name matching by container prefixes |
| Libraries | `strings.zig`, `string_format.zig`, `math.zig`, `encoders.zig`, `network.zig`, `network_functions.zig`, `temporal.zig`, `temporal.cc` | none | pure functions with charges and width limits |
| Protobuf | `proto.zig`, `protobuf.cc` | reference-counted registry, per-evaluation native scope | register, retain, adapt, construct |
| Fast plans | `fast_plan.zig`, `plain.py`, `index.ts` | compiled function | plan, compile, run, bail out to the engine |
| Python binding | `python.zig`, `cel/*.py` | thread-local callback frames, borrowed references, conversion budgets, capsules | compile, evaluate, callbacks, destructors |
| TypeScript binding | `node.zig`, `index.ts` | shared encoder, active converter per environment, handles | compile, evaluate, callbacks, finalizers |
| Conformance runner | `conformance/*.py`, `node.mjs`, `node-types.mjs` | corpus, selected cases, outcomes, report | load, select, execute or request, receive, compare, report, compare reports |

### How the components interact

- `Program.compile` clones the environment into an arena of its own and retains the descriptor registry, then parses,
  checks, and compiles every literal pattern into a cache that all later evaluations read without a lock.
- `Program.evaluate` gets an arena and bindings it borrows. The engine calls host functions through a pointer and a
  context (`Function.implementation`); the binding finds the converter of the evaluation in progress from there: through
  a thread-local list in Python, through `EnvHandle.active` in Node.
- Host code runs in the middle of an evaluation in three ways: a host function is called; a getter of the bindings runs
  while they are converted (Node); a finalizer or another thread runs while the GIL is free (Python). Each may evaluate
  again, with the same program or environment.
- The conformance runner evaluates each test of a corpus in its own process with the Python package, or sends all of
  them as typed JSON to an adapter, a process that uses the Node package, and judges the answers that come back.
- A fast path bypasses the engine entirely; the engine's only part in it is the plan, and matching literal patterns.

### What makes each component correct

| Component | What has to hold |
|---|---|
| Callback routing | A callback converts with the evaluation that called it, whatever else runs on its thread, below it, or on other threads; no pointer to a popped frame survives an error. |
| Shared encoder | Bindings flattened for one evaluation are not overwritten by another one that starts before they were read. |
| Inputs | Every buffer a value points into lives as long as the evaluation; every reference taken is released once, on every error path. |
| Parser | Every source reads as the grammar of CEL says, with macros expanded, and is refused exactly when it has no reading within the limits. |
| Evaluator | The meaning of an expression does not depend on the order errors and decisive operands come in; limits and host errors are never absorbed; initializers run at most once and end; the depth is balanced. |
| `distinct` | The hash agrees with equality for every pair of numbers. |
| Regex caches | Every compiled pattern is freed once; the shared cache is immutable; answers do not depend on what is cached. |
| Type variables | Unification is most general, failed attempts leave no trace, types are finite. |
| Fast path | What the compiled function answers is what the engine computes. |
| Conformance runner | Every test gets the verdict that follows from the test and the meaning of its values alone, whichever package runs it, however its values travel and whatever the adapter does; the exit status and the comparison of reports tell what happened. |

`PROJECT.json` lists the hazards behind these under `hazards`, each at its line.

## Models

### Callbacks: `CallbackRouting`, `CallbackFrames`, `NodeEvaluation`

`CallbackRouting` is the abstract promise of both bindings: a stack of evaluations for each thread, and a host call that
is served by the innermost evaluation of its thread with the environment the function is registered in.

`CallbackFrames` is the Python implementation. `slot[t][i]` is activation `i` of `evaluate` on the machine stack of
thread `t`; `callback_frame[t]` is the thread-local list head; `pending[t]` says that a Python exception is set. The
actions are the steps of `evaluate` (`Enter` links the frame before the bindings convert; `Fail`; `Leave` unlinks it, as
its `defer` does on every path), of the engine calling a function (`Call`), of the loop in `invokeCallback` one frame at
a time (`WalkFound`, `WalkNext`, `WalkFailed`), of the callable (`CallReturn`, `CallRaise`) and of Python handling the
exception (`Catch`). The GIL is left out: all interleavings of threads are allowed. `Evaluated` is the set of pairs
(environment of the program, environment of the call); the public class always passes equal ones, the native function
takes any.

`NodeEvaluation` is `Program.evaluate` of `index.ts` with `evaluateImpl` and `invokeFunction` of `node.zig`: one thread,
nested calls from getters, deferred values and host functions; the shared `PlainEncoder` with its busy flag, its
`finally`; `EnvHandle.active` with its save and restore. Both refine `CallbackRouting`
(`ImplementsRouting`), which is how the two bindings are known to promise the same.

### Inputs: `BorrowedInputs`

The Python heap as sets of objects with containers, and the conversion of bindings and callback results
(`fromPython`, `borrowBytes`, `copyBytes`) as a worklist. `taken` counts the references of the binding only; what the
host refers to follows Python's rules, and an object without a reference is gone at once. Host code runs whenever no
evaluation is in native code: it may drop what it holds and change containers.

### Evaluator: `CelValues`, `MathLibrary`, `CelOperations`, `CelEquality`, `Evaluator`, `CelSemantics`

`Evaluator` is `Context.eval` as a machine: `frames` is the recursion (one frame per call of `eval`, with the
arguments it has so far), `cells` the lazy bindings of `cel.bind` and `cel.block`, `remaining` and `depth` the budgets.
Each kind of node is an action or a few: a list, a map or a comprehension takes a step per element.

`CelOperations` is what happens once the operands are there: `binary`, `select`, indexing, `sortList`, overloads of
registered functions, the calls on lists and optionals, arithmetic on timestamps and durations, and conversions of numbers
and times. An *effect* is what an operation charges with its result, so that a limit may stop it at any of its charges.
`MathLibrary` is `math.zig`: the bits of a number are the set of the positions of its ones, so that shifts, complements and
combinations are set operations; widths and the range of timestamps are parameters. `CelEquality` is what recurses over values (`equal`, `lookup`, `flattenList`), with
charges and depth; it is given to `CelOperations` by constant operators, so that `Evaluator` can be proved about. Doubles
are counted in halves and every string has one code point. How many comparisons the heap sort of the standard library makes is left open.

`CelSemantics` states what an expression means, by recursion on the tree and without budgets, memoization or order; the
machine computes it or stops at a limit. Equality is there equality of canonical forms, a map is a set of entries, sorting
puts an item after those with a smaller key, division is defined by its remainder, conversion and rounding by distance, a shift as multiplication modulo the width, a
timestamp as a point on the line of instants; for the
rest it uses `CelOperations` with free equality and lookup.

### Numbers and `distinct`: `Numbers`, `Distinct`

`Numbers` models equality across int, uint and double, and the hash, at width `Width` with doubles of `Precision` bits;
doubles are counted in halves. `Distinct` is the loop of `list.distinct` with its chained buckets and its charges, one
item and one comparison at a time.

### Regular expressions and lifetimes: `RegexCache`, `Lifetimes`

`RegexCache` is the literal cache of a program from compilation to `deinit`, dynamic caches of concurrent evaluations,
the heap of RE2 programs, failing allocations at each of them, and matching with its cost. RE2 is an outcome per
pattern. `Deinit` requires what the code documents as the duty of its callers: no evaluation is in progress.

`Lifetimes` is what the bindings do about that duty. It extends `RegexCache`, whose caches belong to the program
`Program`, with the environments and programs that host languages hold: a *handle* is a Python capsule or a Node
external, in one of the stages of `compile`, `clone` and their failures, and its registry of protobuf descriptors counts
references. A release is two steps, the decrement and then the deletion by whoever took the count to zero, since programs
on several threads share a registry. `Forget` is the host dropping its last reference to a handle, `Finalize` the
destructor of the capsule or the finalizer of Node, at any later time. What keeps a handle alive is what the code keeps:
the capsule reference a running call holds, and the environment a program refers to. `Lifetimes` has no guard that says a
program in use is not finalized; that this follows is what `NothingDangles` and `ImplementsRegexCache` say.

### Type variables: `Unification`, `Solutions`

Terms in one store, with parents, ranks, bindings and the trail. Operations are those the checker performs:
`combine`, `join`, the call of a host function with its overloads (counted, tried, joined, applied) and `finish`, in any order
and with any pair of terms, which over-approximates what inference asks for. `equations`, `refuted` and `committed` are
history variables: they record what was unified so that properties can say what it should have achieved. Terms of the
initial store, like all others, are made of older ones (`InferredAssumption`): a term is given its parameters when it is made.

`Solutions` says what unification is for. A solution gives every variable a type (`Denoted` extends it to all terms);
`MostGeneral` says that the links and bindings of the store (`Substitution`) have the solutions the recorded equations have, and that what
was refuted has none of them. `Ending[n]` are the terms from which every path through links, bindings and parameters is shorter than
`n`; `TypesAreFinite` says that these are all terms, that is, that no type contains itself.

A step is one operation as a whole. `unify`, `occurs`, `instantiate` and `finish` call themselves with a depth that `max_depth`
bounds; here they are functions of what is left of it (`Unify[n]` is `unify` with `depth = max_depth - n`), so that they can be
proved about, and each takes and returns the whole state of the checker, with the error it ended with. Their loops over
parameters are functions of the number of rounds. Types of declarations are nested sets, one for each depth (`Types`);
names are a constant, of which only those that `unify` compares with are told apart. Of `Functions`, those with the right
number of parameters are the overloads; functions of other names would only take steps of the budget.

### Parser and fast path: `Syntax`, `Grammar`, `PlainPlans`, `PlainPython`, `PlainTypeScript`, `FastPath`

`Syntax` is the recursive descent of `syntax.zig` over a sequence of tokens: the parser is a record (position, depth,
number of nodes, patterns to compile, what was parsed last, error) that `Expression`, `Primary`, `Operators`, `Infix`,
`Ternary`, `Selection`, `Items` and `Arguments` pass on; `Lowered` is the macros. Names, numbers and texts are one token
each. `Grammar` is what a parser is for, without its order of work: `Readings` are the trees that the levels of the
grammar allow for a sequence when it is divided at every possible place, with the macros as a table and, for each tree,
the nodes it needs and how deep it nests. `ParsedAsWritten` says that a source has at most one reading, and that the parser returns it
if it is within the limits, and otherwise fails.

`PlainPlans` says which syntax trees have a plan (`Write`, `Emission`) and what the engine computes for a tree (`Meaning`) once every binding
has been converted (`Converts`, `EngineResult`: one ill-formed text or integer beyond 64 bits anywhere in them is an error). `PlainPython` is the compiler of
`plain.py` with its cache of object reads: the identity of the dict that `objects` names is kept, because the cache of a
second branch is the very dict that is restored after it; `PyCall` runs the emitted lines, with locals that may be
unset. `PlainTypeScript` is the compiler and the guards of `index.ts`. `FastPath` composes them, from source to answer: a
source is parsed, the function of its plan is compiled on first use, answers, or bails out to the engine. Texts are names of strings, and what predicates, patterns
and sizes say of them are tables. In the reference, a combination that the subset leaves to the engine counts as
an error, so that a function that answered there would be caught.

### Conformance: `HostValues`, `Conversion`, `Transport`, `NodeCodec`, `TypeCodec`, `ConformanceCases`, `ConformanceRun`, `ConformanceVerdicts`

`HostValues` is the value classes of the Python package with what their constructors refuse; `Conversion` is
`fromPython` and `toPython` of `python.zig` value by value, with the check of map keys and the choice between `dict` and
`CELMap`, and what the engine makes of a message of a well-known type. `Transport` is the typed JSON of the corpus:
`decode_value`, `encode_value`, `values_equal`, the messages, and `transport` and `normalize` between runner and
adapter. `NodeCodec` is the other side, `decodeValue` and `encodeValue` of `node.mjs` with `node.zig`'s conversion, and
`TypeCodec` the types. Integers, timestamps, durations and enum numbers keep their limits, scaled down.
Values are tuples that begin with their kind, so that `True` and `1`, or `1` and `UInt(1)`, differ or agree exactly
where they do in Python, in CEL and in JavaScript.

`ConformanceCases` is what is done with one test: the reasons not to run it, `execute_python`, the adapter's `run`, and
`compare`; an exception that no clause catches is the outcome `raised`, which ends the run. `ConformanceRun` is the run,
one case at a time, with one action per step of `load_cases`, `run` and `main` of both scripts; what is done with a case
is given to it by operators, its CONSTANTS, of which it assumes that every single case comes out right (`CasesAssumption`);
TLC evaluates this on every case of the corpora. The adapter is not trusted: it may answer, lose, repeat or exchange
outcomes, refuse its input, fail, or never answer. `ConformanceVerdicts` says what a test means without any codec: the
value JSON denotes, with maps as sets of entries, and the verdict.

## Runs

| Run | States | What it shows |
|---|---|---|
| `callback_frames` | 66 049 | Two threads, two environments with functions and one without, three nested evaluations, programs of one environment evaluated with another: lists, routing, exceptions, refinement, and the walk ends. Three is enough for a frame to be skipped between two of its own environment. |
| `node_evaluation` | 30 230 | Four nested evaluations with and without functions; getters, callbacks and errors at every step. |
| `evaluator` | 574 229 | Every tree of two nested operators over values, errors and throwing functions; every binary operator, index, selection, conversion and call over values of every kind and the ends of the number types; the math library on all ints and uints of 3 bits, so that shifts by the width and the least int occur; times that cross the first and the last second and differences that no duration holds; lists, maps, sorting by keys, overloads and functions that return what they did not declare; comprehensions of every kind over lists of up to three elements and over maps, nested, with one and two variables; shadowed names, forward and self-referring slots; each with ample and tight limits. |
| `distinct_exact` | 75 151 | All lists of two numbers at width 3 with exact doubles, and lists of three at the boundaries of the types. |
| `program_lifetimes` | 764 025 | An environment with descriptors, the program with the caches and another one; two concurrent evaluations, which make three requests together; literal, computed, invalid, limited and long patterns; a cache of one pattern beside two literals; allocation failing at every point; the host forgets and finalizers run at every point. |
| `unification` | 200 192 | Any two operations on stores of two variables, primitive and compound types, exact and gradual, under a tight depth and budget. |
| `borrowed_inputs` | 359 376 | Two evaluations, one text of each size, a list that may contain itself, a dict, one callback each; budgets that run out. |
| `fast_path` | 230 824 | All sequences of up to six tokens of names, dots, question marks, colons and signs, and of up to five tokens of names, commas and brackets; chains of three operators with unary operators and conditionals; every macro with right and wrong arguments; literals, brackets, items and messages; nested expressions at limits of one to four nodes and one to three levels. Of those with bindings: reads of one object in all combinations of operands, branches and loops, and every operator on values of the right type, a wrong one, out of range, missing, shadowed and dotted, among them texts and integers that do not convert. |
| `conformance` | 101 518 | Some 1 300 corpora of one to three tests in two files: every kind of value alone and in lists, maps and optionals, at and beyond its limits, as binding and as expected value; types; every field of a test; in both modes and both packages, with every misbehaviour of the adapter and baselines that are changed or in another order. |

Three runs end in a violation: there the code does not do what a document, comment or test of the repository says.
`findings` in `PROJECT.json` quotes each.

| Run | What the code does |
|---|---|
| `distinct_rounded` | An int beyond the precision of doubles equals a double and hashes apart from it: a long list keeps both where a short one keeps one. |
| `unification_cyclic` | A bound variable unifies through `dyn` or null with a type that contains it; inference then fails with a depth error in a shallow expression. |
| `fast_path_differs` | A function compiled for plain data raises where the engine absorbs the error, reads `net.IP` from the bindings where the engine means the type, and in Python reuses a read of the branch that did not run, or answers for a text with a lone surrogate beside a literal (`s == "a"`, `s in ["a", "b"]`, `s.startsWith("a")`, `m[k] == "a"`), where the engine converts the bindings first and raises. TLC reports the first of the seven programs; each of them differs when it is the only one in `Sources`. |

`DistinctExact` assumes `Precision = Width`, that is, doubles that represent every integer; `DistinctRounded` is the
same module without the assumption. TLC enumerates the solutions of `MostGeneral` over
`Solutions` when at most `MaxVariables` variables are constrained, in the run five types and three variables; the proof bounds neither. `FunctionsAgree` compares the values
that a function returns with the engine's result for the bindings that the program mentions (`Used`), since both bindings document
that unused ones are never read. The engine fails on any of them that does not convert. Then the function may not answer where it needs such a text or integer
(`Needed`: without it the program has no result), except for entries it does not read and for the known difference, Python programs with
text literals or a list of them (`PassedOver`); where it answers, it is held to the meaning of the program for the data as they are (Python compares
a lone surrogate code point by code point) and to results without a lone surrogate. `ResultUnchanged`, which `fast_path_differs` violates, allows neither that nor an error the engine absorbs. Deadlock is checked except in modules whose system stops: an evaluation, a compilation or a
bounded number of operations is over.

Every property of a passing run has a mutant: a definition marked *Faulty* in its module, which changes one mapped
definition as a plausible bug would and makes the property fail.

## Fairness

- `WalkEnds` assumes weak fairness of the three steps of the walk in `invokeCallback` per thread. The loop takes no lock
  and calls nothing that waits; nothing is assumed of callbacks, which may never return.
- `RunEnds` assumes weak fairness of the runner, whose steps include stopping an adapter after 120 seconds. Nothing is
  assumed of the adapter.
- `Terminates` assumes weak fairness of the evaluator's steps. `evaluate` runs on one thread without waiting, and host
  functions return at once in this model. The budget makes it end.

All other properties are safety properties.

## Proofs

All theorems are for every value of the constants that meets the named assumptions of the modules, and use nothing else.

### Callback frames

`CallbackFramesProofs` proves, for every set of threads and environments, every `Evaluated` and every `MaxDepth`:

| Theorem | Statement |
|---|---|
| `TypeCorrect` | `Spec => []TypeOK` |
| `FramesAlwaysMatchStack` | `Spec => []FramesMatchStack`: each list holds exactly the frames of its thread's running evaluations |
| `RoutingIsSound` | `Spec => []RoutedToOwner`: a callback runs with a frame of its environment. No run checks it, since `ImplementsRouting` says more |
| `PublicRouting` | `Spec => []RoutedToCaller` |
| `NoPendingWork` | `Spec => []NoWorkWithPendingException` |

They rest on the assumptions on the constants in `CallbackFrames` (`EnvsAssumption`, `DepthAssumption`,
`NullAssumption`) and nothing else (`CallbackFramesProofs`). The properties are not inductive by themselves; the inductive invariant is

    Inv == TypeOK /\ StackInv /\ HeadInv /\ WalkInv /\ RoutedToOwner

`StackInv` says what is above and below the top of a machine stack: above it memory is popped, below it every
activation waits in a callback, and the `previous` of a frame is the next frame down. That is what makes
unlinking correct: the head must become the innermost frame of a stack one lower. `HeadInv` says the same of the head,
and `WalkInv` says that a walk in progress points at null or a frame of its own thread, so that it can only find a live
one. `UpdateInv` is the core lemma: replacing the top activation by another one with the same frame preserves
everything but its phase, so the steps of a walk or a callback need only say what they change. `Enter` and `Leave`, which
change the depth, are proved apart. `RoutedToCaller` needs one more conjunct (`CallerInv`): in an evaluation with the
environment of its program the walk's cursor is its own frame, since it starts at the head and the head is the caller's.

### Routing

`CallbackFramesProofs` and `NodeEvaluationProofs` prove that the two bindings implement `CallbackRouting`
(`Spec => ImplementsRouting`), by the refinement mapping `Stack`: the evaluations on the machine stack of a thread, with
what each of them is doing, whatever lists, frames and saved pointers the binding finds them with. Every action maps to
one of the abstract actions or to a stutter (the steps of a walk that passes a frame, the phases of the encoder, which
nothing abstract distinguishes).

- For Python the abstract `Call` serves a host call by the innermost evaluation of its environment in one step, the
  walk finds it in several. `Inv` above is not enough: it says that the walk finds a frame of the environment, not that
  it is the innermost. `PassedInv` adds that every evaluation above the cursor of a walk was passed, and that none of
  them was started with the environment the walk looks for.
- For Node the innermost evaluation is `EnvHandle.active`, by `ActiveInv` below.

Both begin with what the mapping needs of sequences of records: pushing, dropping and replacing the last one.

### Shared encoder

`NodeEvaluationProofs` proves `TypeCorrect` (`TypeOK`), `EncodersAreSound` (`EncoderSound`) and `CallersServe`
(`ServedByCaller`), for all environments and any depth of nesting, from

    Inv == Typed /\ PhaseInv /\ EncoderInv /\ ActiveInv /\ ConverterInv

Evaluations below the top wait in a getter, a deferred value or a host function (`PhaseInv`). At most one of them owns
the encoder, exactly while it is busy (`EncoderInv`). `ActiveInv` says which evaluation `EnvHandle.active` of each
environment refers to, and what each evaluation will restore when it returns: the evaluation of the same environment next
below it. `ServedByCaller` is not inductive without the latter, since one return after another has to bring back older
converters. `ConverterInv` says that a host function in progress got the converter of its caller. `Typed` is the types alone;
that the saved pointers lead down the stack, the rest of `TypeOK`, is read off `EncoderInv` and `ActiveInv`.

### Regular expressions and lifetimes

The first half of `LifetimesProofs` proves, of `RegexCache` on its own, `TypeCorrect`, `HeapIsOwned` (`HeapOwned`),
`ProgramsLive` (`MatchesLiveProgram`) and `AnswersAlwaysAgree` (`AnswersAgree`), for every number of evaluations and every limit, from

    Inv == StoreInv /\ RequestInv /\ PhaseInv /\ BudgetInv /\ AnswerInv

`StoreInv` says that the heap is the disjoint union of what the literal cache, the dynamic caches and a request in
progress own; `RequestInv` what a request has found at each of its stages, in particular that a program it matches with
is in a cache; `PhaseInv` relates the phase of the program to its literal cache, `BudgetInv` bounds a request's charges,
and `AnswerInv` says that answers given so far agree with the outcome of the pattern.

The second half proves `LifetimesTypeCorrect`, `RegistryIsOwned` (`RegistryOwned`), `NothingEverDangles`
(`NothingDangles`), `HostsKeepPrecondition` (`ImplementsRegexCache`) and, by it, that the theorems about caches hold of
the composition (`HostedCaches`). The invariant is `Inv` with

    HandleInv == LifetimesTypeOK /\ HomeInv /\ HostInv /\ StepInv /\ RegistryInv

`HomeInv` says that a program has an environment of its own or that of a handle that was made, `HostInv` that whatever
an object of the host, a program or a call in progress refers to has not been finalized, `StepInv` ties the phase of the caches to
the stage of `Program`, and `RegistryInv` says that a registry's count is the number of its owners. The refinement holds because a running evaluation keeps its program reachable (`HostInv`), and a
finalizer runs only for a handle that is not.

### Inputs

`BorrowedInputsProofs` proves `BudgetsHold` (`TypeOK`), `ReferencesAreOwned` (`OwnedExactly`) and `InputsStayAlive`
(`InputsAlive`), for any objects, containers that hold each other in any way, limits and number of evaluations, from

    Inv == TypeOK /\ PhaseInv /\ GilInv /\ OwnedInv /\ PendingInv

`OwnedInv` says that `taken` counts the places where a call has to release the object: the list of borrowed objects and
the result of a callback. A place may be listed more than once and lists of several calls may hold the same object, so that
references are counted by their places; releasing the first of a list moves the others, which the proof shows by
a bijection (`ReferencesWithTail`). `PhaseInv` says that values point into listed objects only, so that by `OwnedInv` they
are alive whatever the host does (`OwnedIsAlive`): the theorem about life rests on the one about counting.
What is still to be converted has no reference; `PendingInv` says that it is alive, and is kept because by `GilInv` only one evaluation
runs between two points where host code may, and such an evaluation takes references and releases none until it has
converted (`AliveGrows`). `Reachable` is a least set by definition, which needs no induction.

### Evaluator

`EvaluatorProofs` proves `DepthIsBalanced` (`DepthBalanced`), `FatalErrorsAreFinal` (`FatalIsFinal`) and
`BindingsAreInitializedOnce` (`InitializedOnce`) for every program, every activation and all limits, whatever equality and
lookup do. The invariant of the first two, and of `TypeCorrect` (`TypeOK`), is small: `frames` is a stack of frames
with their results, `depth` its height, and no higher than the limit. Every step of the machine is a call of `eval`, a return from it or the loop of
the innermost frame going on (`EvalCalled`, `Returned`, `WentOn`), so these keep it. `OnlyPropagates` says that a frame
that was told a fatal error has no other step than to return it; this is where each kind of node has to look at what its
children returned.

The third needs what a binding sees. The assumption on `Programs` is that nodes refer to nodes of their program
(`WellFormed`). The invariant is

    ScopeInv == Inv /\ program \in Programs /\ Sound(program, frames, cells)

`Sound` says that every scope, of a call in progress or kept by a cell, refers to cells that exist (`IsScope`); that the
cells there were when a call started refer to each other only (`Closed`), so that the cells the call made can go when it
returns; that the cell a call initializes has a result, the mark of `force`; and that inner calls started with at least as
many cells as outer ones and initialize others (`Nested`). A cell is initialized only without a result, so no
call in progress has it (`SoundWentOn`): this is where the mark is needed. `Unmoved`, the step property, follows with it.

### Numbers and `distinct`

`DistinctProofs` proves `ChainsAlwaysComplete` (`ChainsComplete`) for lists of any length, every width and precision, and
`HashingDoesNotShow`:

    Spec => [](Comparable => AgreesWithEquality)

`Comparable` says that the list is short, or has no doubles, or has only integers that some double represents. It cannot be
left out, as the run `distinct_rounded` shows. The invariant of the chains is

    ItemsInv == TypeInv /\ ChainsInv /\ WalkInv

`ChainsInv` says that a bucket holds the newest kept item of its hash and `next` of each item the newest older one, so that no
item of the hash lies between two links; `WalkInv`, that the items of the hash after the one the walk has reached were
compared and differ. With `KeptInv`, that the items kept so far are those a comparison with all would keep, this gives
the second theorem, once hashes agree with equality (`HashesAlike`); that they do for `Comparable` lists is shown type by
type, from exact integers being what conversion to a double leaves alone. `Kept` is a recursive function over the list. Where
the argument needs induction (a chain reaches its items) it takes the least counterexample of a set of numbers.

### Conformance

`ConformanceProofs` proves `EveryCaseIsJudged` (`EveryCaseJudged`), `ExitStatusIsHonest` (`ExitStatusHonest`) and
`ChangesAreNoticed` (`ChangesNoticed`) for any corpora, numbers of files and tests, and adapters that answer, lose, repeat,
exchange or refuse anything. They say what the run adds to single cases: that a case is right by itself
(`CasesAssumption`) is assumed, and evaluated by TLC on the corpora of the run. The other assumptions are that what is left of a
test's name when `#` and a number are appended tells names apart (`CorporaAssumption`), and that what stands for an
unreadable input has the identifier of no case (`NoOutcomeAssumption`).

    LoadInv == CasesInv /\ SupportedInv /\ FilesInv
    RunInv  == OutcomesInv /\ ComparedInv /\ ReportInv /\ AbortInv

`LoadInv` says that the cases loaded so far are those of the tests seen, in their order, with identifiers that differ
(`IdentifiersDiffer`, from the count of occurrences), and the supported ones a subsequence. `OutcomesInv` says that in each
phase outcomes are either in place, case by case, or of an adapter that will be found out; `ComparedInv` that the comparisons
made have the verdicts of their tests, `ReportInv` that the report has, and `AbortInv` that only an adapter's answer ends a
run early. `ChangesNoticed` rests on what `differences` returns for two reports whose identifiers differ (`ProblemsInv`).

### Type variables

`UnificationProofs` proves, for any stores, overloads, depth and budget, `TypeCorrect` (`TypeOK`), `ForestStaysBalanced`
(`ForestBalanced`), `FailuresAreUndone` (`FailedAttemptsUndone`), `UnificationIsMostGeneral` (`MostGeneral`) and
`PreciseTypesStayFinite` (`PreciseTypesAreFinite`). Stores are assumed to begin with free variables and terms made of older ones
(`InferredAssumption`), as those of `check` do. The first three rest on

    IInv == Good(Now) /\ changes = <<>> /\ remaining <= max_check_steps

`Good` says that terms are linked and bound as `TypeOK` has it (`Shaped`) and trees are balanced (`Balanced`). Each function
that calls itself has a contract, proved by induction on the depth that is left, and each loop by induction on its rounds:

- `Later(s0, s)`: what `unify` leaves is a good store whose trail *explains* it (`Trail`). A term that differs from what it was
  has a change after the checkpoint, and the first of them recorded what it was. `RolledBack` follows: undoing the changes in
  reverse gives every old term its old contents, and new terms those they were made with, which is a good store again.
- `Reached(R, s0, s)`: only terms of `R` and new ones changed, if `R` is *closed*, that is, what terms of `R` lead to is in `R`.
  So what the results of overloads join to, while the search goes on, is apart from the arguments (`JoinedApart`): these joins
  do commit, yet a search that finds none or several overloads changes no term that was there (`MatchingKeeps`).
- `OccursFinds`: when the search for a variable ends without finding it, there is a closed set of terms without the variable in
  which every path ends (`Grounded`). The balance of trees rests on it: `unify` takes two roots,
  then unifies their bindings, and only then links one to the other. That they are roots still, with their ranks, holds because
  the bindings do not reach them: both were searched for before.

In `unify` of a variable that is bound with a named term there is no such search, and unifying its binding may link the
variable to another. What is then bound is no root, and its binding is not looked at again; the trees stay as they are.

The last two theorems are about what the answers mean, and need more than that the store is well formed:

    Meant == General(terms, equations) /\ (refuted # NoPair => Excludes(terms, equations, refuted))

`General` says that, if the equations are between *certain* terms (those that, with all they are made of, are not
gradual), paths through certain terms end (`Ends`) and what the store says of variables has the solutions of the equations;
`Excludes`, that the refuted pair has none of them. Other terms may contain themselves, and the invariant says nothing of
them. Solutions here are any functions of terms, in two classes that make the argument work in both directions:

- What follows *from* the store is shown for all functions that give terms made of the same the same (`Congruent`) and variables
  what they are linked to (`Respects`). These are weak enough that every acyclic store has one whose values are heights
  (`HeightModel`), where a named term is higher than what it is made of.
- What follows *from the equations* is shown for functions that are also free, that is, equal terms are made of equal
  ones, and well-founded (`Solution`), as types are. `DenotedSolution` shows that those `MostGeneral` speaks of are such.

`UnifyResolves` is the contract of `unify`, by induction on the depth that is left: on a region of exact, acyclic terms,
success adds exactly the one equation (`Solving`), keeps the region acyclic and returns a term that is the same as either
(`Same`); `TypeMismatch` means that no solution of the region makes the two the same (`Refuting`). Of other errors it says
nothing: they stop the operation and are rolled back. Three places are not routine:

- `occurs` that answers *yes* refutes, since the variable is strictly inside the term in every well-founded function
  (`OccursRefutes`). `occurs` that answers *no* gives a closed set without the variable, so that binding keeps paths finite.
- A variable that is bound already is unified with a named term without a search. If the recursive call, on its binding and the term,
  succeeds, the region it leaves has heights, in which the binding and the term are as high as the variable. These two with all
  that is lower are a closed set without the variable, and the call did nothing outside it (`RegionUnder`): binding the variable to
  the result makes no cycle.
- Two bound variables are searched for in each other's bindings *before* these are unified, and merged afterwards. That the
  searches still hold then is what the closed sets are for (`ResolvesApart`).

From the contract follow those of `combine`, `join` and the call of a function, whose rejected overloads leave
unlinked terms behind that say nothing (`GeneralAdds`). `MeantMostGeneral` and `MeantFinite` then read the two
properties off the invariant; `EndingAll` has to show that steps enough to exhaust a finite set reach every term whose paths end.

### Only model-checked

Liveness (`WalkEnds`, `RunEnds`, `Terminates`) and everything that needs `ENABLED`, which the prover does not handle. What
recursive operators compute, which would need induction over data: `ComputesMeaning` (`CelSemantics` and `CelEquality`),
`ParsedAsWritten`, `FunctionsAgree` and `ReadsInScope` (`Syntax` and `Grammar`, `PlainPlans` and the compilers), and the cases that
`CasesAssumption` is about (the codecs).
Two references share operators with the model they judge, so that these parts compare with themselves: `CelSemantics` takes
arithmetic with `+`, `-` and `*`, the calls on lists and which parameters fit (`Fits`) from `CelOperations`, and `Grammar` takes the macros without a range
from `Lowered`. Errors, scopes, order of evaluation, shifts and the ranges of times, and precedence, nesting and
limits are stated independently.
That charges stay within the budget (`WithinBudget`, a part of `ComputesMeaning`) needs that no operation has a negative
cost; costs are sums over values whose sizes are recursive.

## What is not modelled

`PROJECT.json` gives the reason for each component. In short: the characters of a source (lexing, escapes, digits, UTF-8),
inference over the tree, name resolution with containers, protobuf, and the libraries of strings, encoders and
networks are left out; missing from `Evaluator` are messages and enums, qualified names and type names, arithmetic of
doubles with its infinities and NaN, operations on texts and conversions of them, and the calendar and zones of
timestamps; RE2, Abseil, protobuf,
CPython and V8 are external; wording and layout of messages are left out everywhere. Allocation failure is modelled where
something outside an arena is owned (`RegexCache`, `Lifetimes`, `BorrowedInputs`), since an arena frees what a failed call
allocated.

The fast path is compared without limits: a compiled function charges no cost. Holes of sparse JavaScript arrays
and the nesting limit of CPython's compiler are not represented.

`RegexCache` caches every literal that compiles. A literal longer than the limit of patterns is not cached, and matching
it as a literal then fails as an invalid argument rather than at the limit; no such literal is in the runs.
`Lifetimes` has the evaluations of one program; those of others touch nothing that is shared but the registry. The scope of
messages an evaluation builds is not in it, and arenas are taken as freed with their owner.

Of the conformance runner, the third adapter, written in Zig (`zig.zig`, `zig_codec.zig`), is left out, as are the JavaScript
objects between `node.mjs` and the native module, the nesting limits of JSON, the environment cache of `node.mjs`, and tests
with two bad bindings at once. Policies have no reasons by file or expression. The corpora of the run leave out inputs
for which the packages are known to differ, all of them in how a test that is no valid test is reported:

- a test of a type that is not supported gets no reason of its own, so that `decode_type` ends a Python run with
  `ValueError` where the adapter reports an input error, and so does an `objectValue` binding that is malformed;
- a binding named `objectValue` is taken for a message by `transport`, which only adapters see;
- the second test named `x` of a section and one named `x#2` get the same identifier;
- a map that has both a repeated key and an unsupported value is unsupported for Python and an input error for Node.

## Plan

Next, in this order:

1. *Evaluator*, the rest: qualified names with containers and shadowing, messages as records of fields with presence,
   strings, infinities and NaN.
2. *Libraries*: charges of `strings.zig`, calendar and zones of `temporal.zig`, addresses of `network.zig`.
3. *Checker*: inference over the tree on top of `Unification`, with overloads and their rollback.
4. *Proofs*: that charges of the evaluator stay within the budget, and what recursive operators compute as functions over depth,
   the way `unify` is treated.
