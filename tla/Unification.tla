---------------------------- MODULE Unification ----------------------------
(***************************************************************************)
(* The type variables of the checker (checker.zig: Term, unify, occurs,    *)
(* combine, join, rollback and the overloads of host functions).           *)
(*                                                                         *)
(* Terms live in one store and refer to each other by index.  A variable   *)
(* is a term without a name; variables that were unified form trees of     *)
(* parents, whose root may be bound to a named term.  Every change of a    *)
(* variable is recorded so that a failed attempt can be undone.            *)
(*                                                                         *)
(* The functions that call themselves are recursive in the depth that is   *)
(* left until max_depth: Unify[n] is unify with depth = max_depth - n.     *)
(***************************************************************************)
EXTENDS Naturals, Sequences

CONSTANTS
  Inferred,         \* the stores of terms to begin with
  Functions,        \* the overloads of a host function: parameters and result
  Names,            \* names of types
  Nullable,         \* those of messages and abstract types
  max_depth,        \* Checker.max_depth
  max_check_steps,  \* Checker.remaining at first
  MaxOperations     \* bound on the operations of one check

ASSUME LimitsAssumption ==
  max_depth \in Nat /\ max_check_steps \in Nat /\ MaxOperations \in Nat

VARIABLES
  terms,        \* the store
  remaining,    \* Checker.remaining
  changes,      \* Checker.changes: variables with their previous contents
  status,       \* "checking", "finished", or the error the check ended with
  operations,   \* number of operations so far
  equations,    \* pairs of terms that were unified
  refuted,      \* the pair the last operation failed to unify, or NoPair
  committed     \* whether the last operation bound variables for good

vars == <<terms, remaining, changes, status, operations, equations, refuted, committed>>

Nothing == 0
NoPair == <<Nothing, Nothing>>
NoName == "variable"

ASSUME NamesAssumption == {NoName, "dyn", "null_type", "type", "wrapper"} \subseteq Names

Named(name, parameters) ==
  [name |-> name, parameters |-> parameters, binding |-> Nothing, parent |-> Nothing, rank |-> 0]
Variable == Named(NoName, <<>>)

Terms == [name : Names, parameters : Seq(Nat), binding : Nat, parent : Nat, rank : Nat]

\* Before anything is unified variables are free; terms are made of older ones,
\* and a wrapper wraps a type.
ASSUME InferredAssumption ==
  \A store \in Inferred :
    /\ store \in Seq(Terms)
    /\ \A t \in DOMAIN store :
         /\ store[t] = Named(store[t].name, store[t].parameters)
         /\ store[t].name = NoName => store[t].parameters = <<>>
         /\ store[t].name = "wrapper" => store[t].parameters # <<>>
         /\ \A i \in DOMAIN store[t].parameters : store[t].parameters[i] \in 1..(t - 1)

\* What a function of the checker works on: the store, and the variables that
\* stand for the type parameters of a declaration.
Changes == [variable : Nat, previous : Terms]
Formals == [parameter : Nat, term : Nat]
Stores == [terms : Seq(Terms), remaining : Nat, changes : Seq(Changes), variables : SUBSET Formals]

Store(t, left, trail) == [terms |-> t, remaining |-> left, changes |-> trail, variables |-> {}]

\* What it returns: a term, a Boolean or a type, or an error.
Returns(s, x) == [s |-> s, error |-> "none", is |-> x]
Fails(s, error) == [s |-> s, error |-> error, is |-> Nothing]
Then(r, F(_, _)) == IF r.error = "none" THEN F(r.s, r.is) ELSE r

\* Step by step for 1..n, and what each of them returned.
After(step, r, i) ==
  Then(r, LAMBDA s, done :
    Then(step[[s |-> s, i |-> i]], LAMBDA u, x : Returns(u, Append(done, x))))

Each(step, s, n) ==
  LET upto[i \in 0..n] == IF i = 0 THEN Returns(s, <<>>) ELSE After(step, upto[i - 1], i)
  IN  upto[n]

Steps == [s : Stores, i : Nat]

Tick(s, F(_)) ==
  IF s.remaining = 0 THEN Fails(s, "CheckLimitExceeded")
  ELSE F([s EXCEPT !.remaining = @ - 1])

TooDeep(questions) == [q \in questions |-> Tick(q.s, LAMBDA s : Fails(s, "DepthLimitExceeded"))]

NewTerm(s, term) ==
  Tick(s, LAMBDA u : Returns([u EXCEPT !.terms = Append(@, term)], Len(s.terms) + 1))

Representative(store) ==
  LET f[t \in DOMAIN store] == IF store[t].parent = Nothing THEN t ELSE f[store[t].parent] IN f

Peek(store) ==
  LET f[t \in DOMAIN store] ==
        LET r == Representative(store)[t] IN
        IF store[r].binding = Nothing THEN r ELSE f[store[r].binding]
  IN  f

IsVariable(store, t) == store[t].name = NoName

-----------------------------------------------------------------------------
(* occurs *)

Searches == [s : Stores, variable : Nat, input : Nat]
Search(s, variable, input) == [s |-> s, variable |-> variable, input |-> input]

\* In one of the terms, looked at in turn until it is found.
OccursAfter(occurs, r, variable, input) ==
  Then(r, LAMBDA s, found : IF found THEN Returns(s, TRUE) ELSE occurs[Search(s, variable, input)])

OccursInAny(occurs, s, variable, inputs) ==
  LET upto[i \in 0..Len(inputs)] ==
        IF i = 0 THEN Returns(s, FALSE) ELSE OccursAfter(occurs, upto[i - 1], variable, inputs[i])
  IN  upto[Len(inputs)]

OccursIn(occurs, s, variable, t) ==
  IF variable = t THEN Returns(s, TRUE)
  ELSE IF s.terms[t].binding # Nothing THEN occurs[Search(s, variable, s.terms[t].binding)]
  ELSE OccursInAny(occurs, s, variable, s.terms[t].parameters)

OccursWith(occurs) ==
  [q \in Searches |-> Tick(q.s, LAMBDA s :
     OccursIn(occurs, s, q.variable, Representative(s.terms)[q.input]))]

Occurs[n \in 0..max_depth] ==
  IF n = 0 THEN TooDeep(Searches) ELSE OccursWith(Occurs[n - 1])

\* Continues unless the variable occurs in the input.
Absent(occurs, s, variable, input, F(_)) ==
  Then(occurs[Search(s, variable, input)],
       LAMBDA u, found : IF found THEN Fails(u, "TypeMismatch") ELSE F(u))

-----------------------------------------------------------------------------
(* unify *)

Pairs == [s : Stores, left : Nat, right : Nat]
Pair(s, left, right) == [s |-> s, left |-> left, right |-> right]

\* self.changes.append before a variable is written.
Recorded(s, v) == [s EXCEPT !.changes = Append(@, [variable |-> v, previous |-> s.terms[v]])]

Bound(s, v, merged) == [Recorded(s, v) EXCEPT !.terms[v].binding = merged]

\* Faulty: the other variable always goes under the first.
MergedUnranked(s, a, b, constraint) ==
  [Recorded(Recorded(s, a), b) EXCEPT !.terms = [@ EXCEPT
     ![b].parent = a,
     ![a].binding = constraint,
     ![a].rank = IF s.terms[a].rank = s.terms[b].rank THEN @ + 1 ELSE @]]

Root(s, a, b) == IF s.terms[a].rank < s.terms[b].rank THEN b ELSE a
Leaf(s, a, b) == IF s.terms[a].rank < s.terms[b].rank THEN a ELSE b

\* The variable of the lower rank goes under the other.
Merged(s, a, b, constraint) ==
  [Recorded(Recorded(s, Root(s, a, b)), Leaf(s, a, b)) EXCEPT !.terms = [@ EXCEPT
     ![Leaf(s, a, b)].parent = Root(s, a, b),
     ![Root(s, a, b)].binding = constraint,
     ![Root(s, a, b)].rank = IF s.terms[a].rank = s.terms[b].rank THEN @ + 1 ELSE @]]

\* Faulty: a variable may be bound to a term that contains it.
BindsUnchecked(occurs, s, a, b) == Returns(s, b)

\* An unbound variable must not occur in the term it is bound to.
BindsTo(occurs, s, a, b) == Absent(occurs, s, a, b, LAMBDA u : Returns(u, b))

\* Faulty: of two bindings only the first is kept.
UnifyLoosely(unify, s, a, b) ==
  Returns(Merged(s, a, b, IF s.terms[a].binding # Nothing THEN s.terms[a].binding ELSE s.terms[b].binding),
          Root(s, a, b))

UnifyApart(unify, s, a, b) ==
  LET x == s.terms[a].binding
      y == s.terms[b].binding
  IN  Then(IF x # Nothing /\ y # Nothing THEN unify[Pair(s, x, y)]
           ELSE Returns(s, IF x # Nothing THEN x ELSE y),
           LAMBDA u, constraint : Returns(Merged(u, a, b, constraint), Root(u, a, b)))

\* Two variables neither of which occurs in the binding of the other.
UnifyVariables(unify, occurs, s, a, b) ==
  LET x == s.terms[a].binding
      y == s.terms[b].binding
      second(u) == IF y = Nothing THEN UnifyApart(unify, u, a, b)
                   ELSE Absent(occurs, u, a, y, LAMBDA w : UnifyApart(unify, w, a, b))
  IN  IF x = Nothing THEN second(s) ELSE Absent(occurs, s, b, x, second)

UnifyVariable(unify, occurs, s, a, b) ==
  Then(IF s.terms[a].binding # Nothing THEN unify[Pair(s, s.terms[a].binding, b)]
       ELSE BindsTo(occurs, s, a, b),
       LAMBDA u, merged : Returns(Bound(u, a, merged), a))

UnifyAll(unify, s, xs, ys) ==
  Each([q \in Steps |-> unify[Pair(q.s, xs[q.i], ys[q.i])]], s, Len(xs))

UnifyNamed(unify, s, a, b) ==
  LET x == s.terms[a]
      y == s.terms[b]
  IN  IF x.name = "dyn" THEN Returns(s, a)
      ELSE IF y.name = "dyn" THEN Returns(s, b)
      ELSE IF x.name = "wrapper"
      THEN IF y.name = "null_type" THEN Returns(s, a)
           ELSE Then(unify[Pair(s, x.parameters[1], IF y.name = "wrapper" THEN y.parameters[1] ELSE b)],
                     LAMBDA u, t : NewTerm(u, Named("wrapper", <<t>>)))
      ELSE IF y.name = "wrapper" THEN unify[Pair(s, b, a)]
      ELSE IF x.name = "null_type" /\ y.name \in Nullable THEN Returns(s, b)
      ELSE IF y.name = "null_type" /\ x.name \in Nullable THEN Returns(s, a)
      ELSE IF x.name # y.name THEN Fails(s, "TypeMismatch")
      ELSE IF x.name = "type" THEN NewTerm(s, Named("type", <<>>))
      ELSE IF Len(x.parameters) # Len(y.parameters) THEN Fails(s, "TypeMismatch")
      ELSE Then(UnifyAll(unify, s, x.parameters, y.parameters),
                LAMBDA u, ts : NewTerm(u, Named(x.name, ts)))

UnifyIn(unify, occurs, s, a, b) ==
  IF a = b THEN Returns(s, a)
  ELSE IF IsVariable(s.terms, a) /\ IsVariable(s.terms, b) THEN UnifyVariables(unify, occurs, s, a, b)
  ELSE IF IsVariable(s.terms, a) THEN UnifyVariable(unify, occurs, s, a, b)
  ELSE IF IsVariable(s.terms, b) THEN unify[Pair(s, b, a)]
  ELSE UnifyNamed(unify, s, a, b)

UnifyWith(unify, occurs) ==
  [q \in Pairs |-> Tick(q.s, LAMBDA s :
     UnifyIn(unify, occurs, s, Representative(s.terms)[q.left], Representative(s.terms)[q.right]))]

Unify[n \in 0..max_depth] ==
  IF n = 0 THEN TooDeep(Pairs) ELSE UnifyWith(Unify[n - 1], Occurs[n - 1])

UnifyWhole(s, a, b) == Unify[max_depth][Pair(s, a, b)]

-----------------------------------------------------------------------------
(* combine, join and rollback *)

Undone(s, checkpoint, v) == {i \in (checkpoint + 1)..Len(s.changes) : s.changes[i].variable = v}

\* Faulty: undoes the changes in the order they were made.
RollbackForward(s, checkpoint) ==
  LET last(I) == CHOOSE i \in I : \A j \in I : j <= i
  IN  [s EXCEPT !.terms = [v \in DOMAIN s.terms |->
                             IF Undone(s, checkpoint, v) = {} THEN s.terms[v]
                             ELSE s.changes[last(Undone(s, checkpoint, v))].previous],
                !.changes = SubSeq(@, 1, checkpoint)]

\* What a variable was before the first of them.
Original(s, checkpoint, v) ==
  LET undone == Undone(s, checkpoint, v)
      first == CHOOSE i \in undone : \A j \in undone : i <= j
  IN  IF undone = {} THEN s.terms[v] ELSE s.changes[first].previous

\* Undoes the changes after the checkpoint, the last one first.
Rollback(s, checkpoint) ==
  [s EXCEPT !.terms = [v \in DOMAIN s.terms |-> Original(s, checkpoint, v)],
            !.changes = SubSeq(@, 1, checkpoint)]

\* Faulty: a later failure will undo this success too.
CommittedLater(s) == s

Committed(s) == [s EXCEPT !.changes = <<>>]

\* The end of an attempt: its changes stay for good, or are undone.
Settled(checkpoint, r) ==
  IF r.error = "none" THEN Returns(Committed(r.s), r.is)
  ELSE Fails(Rollback(r.s, checkpoint), r.error)

CombineIn(s, a, b) == Settled(0, UnifyWhole(s, a, b))

\* What does not unify joins to dyn.
OrDyn(r) == IF r.error = "TypeMismatch" THEN NewTerm(r.s, Named("dyn", <<>>)) ELSE r

JoinIn(s, a, b) == OrDyn(CombineIn(s, a, b))

-----------------------------------------------------------------------------
(* Overloads *)

\* A type in a declaration is a type parameter, or a name with types.
Parameter(p) == [parameter |-> p, name |-> NoName, parameters |-> <<>>]
Type(name, parameters) == [parameter |-> Nothing, name |-> name, parameters |-> parameters]

\* Types of n levels.  Types of more than max_depth + 1 levels exceed the depth
\* limit like those of so many.
TypesOver(types) ==
  {type \in [parameter : Nat, name : Names, parameters : Seq(types)] :
     /\ type.parameter = Nothing => type.name # NoName
     /\ type.name = "wrapper" => type.parameters # <<>>}

Types[n \in 0..(max_depth + 1)] == IF n = 0 THEN {} ELSE TypesOver(Types[n - 1])

Overload == [parameters : Seq(Types[max_depth + 1]), result : Types[max_depth + 1]]

ASSUME FunctionsAssumption == Functions \in Seq(Overload)

Declarations(n) == [s : Stores, type : Types[n + 1]]

\* Every occurrence of a type parameter becomes the same new variable.
InstantiateParameter(s, p) ==
  IF \E x \in s.variables : x.parameter = p
  THEN Returns(s, (CHOOSE x \in s.variables : x.parameter = p).term)
  ELSE Then(NewTerm(s, Variable), LAMBDA u, t :
         Returns([u EXCEPT !.variables = @ \cup {[parameter |-> p, term |-> t]}], t))

InstantiateAll(instantiate, s, types) ==
  Each([q \in Steps |-> instantiate[[s |-> q.s, type |-> types[q.i]]]], s, Len(types))

InstantiateWith(instantiate, n) ==
  [q \in Declarations(n) |->
     IF q.type.parameter # Nothing THEN InstantiateParameter(q.s, q.type.parameter)
     ELSE Then(InstantiateAll(instantiate, q.s, q.type.parameters), LAMBDA u, ts :
            NewTerm(u, Named(q.type.name, ts)))]

Instantiate[n \in 0..max_depth] ==
  IF n = 0 THEN [q \in Declarations(0) |-> Fails(q.s, "DepthLimitExceeded")]
  ELSE InstantiateWith(Instantiate[n - 1], n)

\* The function's parameters and result with new variables, the parameters
\* unified with the arguments.
Applied(s, function, arguments) ==
  Then(InstantiateAll(Instantiate[max_depth], [s EXCEPT !.variables = {}],
                      Append(function.parameters, function.result)),
       LAMBDA u, formals :
         Then(UnifyAll(Unify[max_depth], u, arguments, formals),
              LAMBDA w, ts : Returns(w, formals)))

Inputs == [s : Stores, input : Nat]

FinishAll(finish, s, inputs) ==
  Each([q \in Steps |-> finish[[s |-> q.s, input |-> inputs[q.i]]]], s, Len(inputs))

\* The type of a term; a variable that is not bound is dyn.
FinishIn(finish, s, t) ==
  Then(FinishAll(finish, s, s.terms[t].parameters), LAMBDA u, ts :
    Returns(u, Type(IF IsVariable(s.terms, t) THEN "dyn" ELSE s.terms[t].name, ts)))

FinishWith(finish) ==
  [q \in Inputs |-> Tick(q.s, LAMBDA s : FinishIn(finish, s, Peek(s.terms)[q.input]))]

Finish[n \in 0..max_depth] ==
  IF n = 0 THEN TooDeep(Inputs) ELSE FinishWith(Finish[n - 1])

FinishWhole(s, t) == Finish[max_depth][[s |-> s, input |-> t]]

\* matchFunction: the result type if the function accepts the arguments, which
\* are left as they were.
Tried(s, function, arguments) ==
  LET r == Then(Applied(s, function, arguments), LAMBDA u, formals : FinishWhole(u, formals[Len(formals)]))
  IN  [s |-> Rollback(r.s, Len(s.changes)), error |-> r.error, is |-> r.is]

\* applyFunction
Apply(s, function, arguments) == Settled(Len(s.changes), Applied(s, function, arguments))

\* fromType: the result of one more overload joins those of the others.
Joined(s, result, type) ==
  Then(Instantiate[max_depth][[s |-> [s EXCEPT !.variables = {}], type |-> type]],
       LAMBDA u, t : IF result = Nothing THEN Returns(u, t) ELSE JoinIn(u, result, t))

\* The overloads that accept the arguments, and the join of their results.
Found(accepted, result) == [accepted |-> accepted, result |-> result]

MatchingNext(r, candidate, found) ==
  IF r.error = "TypeMismatch" THEN Returns(r.s, found)
  ELSE Then(r, LAMBDA s, type :
         Then(Joined(s, found.result, type), LAMBDA u, joined :
           Returns(u, Found(Append(found.accepted, candidate), joined))))

MatchingAfter(r, candidate, arguments) ==
  Then(r, LAMBDA s, found : MatchingNext(Tried(s, candidate, arguments), candidate, found))

Matching(s, candidates, arguments) ==
  LET upto[i \in 0..Len(candidates)] ==
        IF i = 0 THEN Returns(s, Found(<<>>, Nothing)) ELSE MatchingAfter(upto[i - 1], candidates[i], arguments)
  IN  upto[Len(candidates)]

\* The functions of so many parameters; each of all functions takes a step.
OverloadsAfter(r, function, arity) ==
  Then(r, LAMBDA s, found : Tick(s, LAMBDA u :
    Returns(u, IF Len(function.parameters) = arity THEN Append(found, function) ELSE found)))

Overloads(s, arity) ==
  LET upto[i \in 0..Len(Functions)] ==
        IF i = 0 THEN Returns(s, <<>>) ELSE OverloadsAfter(upto[i - 1], Functions[i], arity)
  IN  upto[Len(Functions)]

\* customOverloads: a single overload is applied, of several those that match.
CallAmong(s, candidates, arguments) ==
  IF candidates = <<>> THEN Fails(s, "TypeMismatch")
  ELSE IF Len(candidates) = 1 THEN Apply(s, candidates[1], arguments)
  ELSE Then(Matching(s, candidates, arguments), LAMBDA u, found :
         IF found.accepted = <<>> THEN Fails(u, "TypeMismatch")
         ELSE IF Len(found.accepted) = 1 THEN Apply(u, found.accepted[1], arguments)
         ELSE Returns(u, <<>>))

CallIn(s, arguments) ==
  Then(Overloads(s, Len(arguments)), LAMBDA u, candidates : CallAmong(u, candidates, arguments))

-----------------------------------------------------------------------------
(* The checker *)

Now == Store(terms, remaining, changes)

Init ==
  /\ terms \in Inferred
  /\ remaining = max_check_steps
  /\ changes = <<>>
  /\ status = "checking"
  /\ operations = 0
  /\ equations = {} /\ refuted = NoPair
  /\ committed = FALSE

Moved(r) ==
  /\ terms' = r.s.terms /\ remaining' = r.s.remaining /\ changes' = r.s.changes
  /\ operations' = operations + 1

Became(r) ==
  /\ Moved(r)
  /\ status' = IF r.error = "none" THEN "checking" ELSE r.error

Ready == status = "checking" /\ operations < MaxOperations

\* Where two types must agree; the first error ends the check.
Combine(a, b) ==
  /\ Ready
  /\ \E r \in {CombineIn(Now, a, b)} :
       /\ Became(r)
       /\ equations' = IF r.error = "none" THEN equations \cup {<<a, b>>} ELSE equations
       /\ refuted' = IF r.error = "TypeMismatch" THEN <<a, b>> ELSE NoPair
       /\ committed' = (r.error = "none")

\* Where elements of a list or map meet.
Join(a, b) ==
  /\ Ready
  /\ \E combined \in {CombineIn(Now, a, b)} :
       /\ Became(OrDyn(combined))
       /\ equations' = IF combined.error = "none" THEN equations \cup {<<a, b>>} ELSE equations
       /\ refuted' = IF combined.error = "TypeMismatch" THEN <<a, b>> ELSE NoPair
       /\ committed' = (combined.error = "none")

\* A call of a host function; only an overload that is applied binds variables.
Call(arguments) ==
  /\ Ready
  /\ \E r \in {CallIn(Now, arguments)} :
       /\ Became(r)
       /\ committed' = (r.error = "none" /\ r.is # <<>>)
       /\ equations' = IF committed'
                       THEN equations \cup {<<arguments[i], r.is[i]>> : i \in DOMAIN arguments}
                       ELSE equations
       /\ refuted' = NoPair

\* The type of the whole expression.
Finishes(t) ==
  /\ status = "checking"
  /\ \E r \in {FinishWhole(Now, t)} :
       /\ Moved(r)
       /\ status' = IF r.error = "none" THEN "finished" ELSE r.error
  /\ committed' = FALSE
  /\ UNCHANGED <<equations, refuted>>

Next ==
  \/ \E a, b \in DOMAIN terms : Combine(a, b) \/ Join(a, b) \/ Call(<<a, b>>)
  \/ \E a \in DOMAIN terms : Call(<<a>>) \/ Finishes(a)

Spec == Init /\ [][Next]_vars

-----------------------------------------------------------------------------
(* Properties *)

Variables == {t \in DOMAIN terms : IsVariable(terms, t)}

\* Type invariant: terms are made of older ones; only variables are linked and
\* bound, and only to named terms, so that no chain of bindings has a variable
\* in it.
TypeOK ==
  /\ remaining \in 0..max_check_steps
  /\ changes = <<>>
  /\ \A t \in DOMAIN terms :
       /\ \A i \in DOMAIN terms[t].parameters : terms[t].parameters[i] \in 1..(t - 1)
       /\ t \notin Variables => terms[t].parent = Nothing /\ terms[t].binding = Nothing
       /\ terms[t].parent \in Variables \cup {Nothing}
       /\ terms[t].binding \in (DOMAIN terms \ Variables) \cup {Nothing}

\* Ranks grow along parents, and a variable of a rank has one of every lower
\* rank right under it: a tree of rank k has at least 2^k variables, so that
\* joining many elements one by one makes no long chains, although unify looks
\* for the roots of two variables before it unifies their bindings.
ForestBalanced ==
  \A v \in Variables :
    /\ terms[v].parent # Nothing => terms[terms[v].parent].rank > terms[v].rank
    /\ \A k \in 0..(terms[v].rank - 1) : \E w \in Variables : terms[w].parent = v /\ terms[w].rank = k

\* "Failed aggregate joins do not retain speculative variable constraints": an
\* operation that does not succeed leaves every variable as it was, however many
\* were bound before the types turned out to differ, and so does the search for
\* the overloads of a function when none or several match.
FailedAttemptsUndone ==
  [][~committed' => \A t \in DOMAIN terms : terms'[t] = terms[t]]_vars
=============================================================================
