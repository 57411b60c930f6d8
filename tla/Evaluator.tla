------------------------------ MODULE Evaluator -------------------------------
(***************************************************************************)
(* The tree evaluator (eval.zig: Context.eval, force, comprehension), one  *)
(* step at a time.  frames is the machine stack of eval: each frame is one *)
(* call of eval and holds the results its children have returned so far.   *)
(* A step starts the evaluation of one child or finishes one node.         *)
(*                                                                         *)
(* A program is a sequence of nodes whose first is the root; nodes name    *)
(* their children by index.  A scope, a linked list in the code, is a      *)
(* sequence with the innermost entry last.  Every identifier has length 1, *)
(* so that comparing it with a scope entry costs 1, and with a binding 2.  *)
(* What an operator or a call computes is in CelOperations.                *)
(***************************************************************************)
EXTENDS CelOperations

CONSTANTS
  Programs,  \* the programs that are evaluated
  Limits,    \* the [max_steps, max_depth, max_collection_size] they are given
  Bindings   \* the activation: a sequence of [name, value]

\* A node refers to nodes of its program; predicate and transform may be missing.
NodeIn(node, nodes) ==
  /\ node.op \in {"not", "minus", "binary", "custom", "math", "call"} => node.args \in Seq(nodes)
  /\ node.op = "logic" => {node.left, node.right} \subseteq nodes
  /\ node.op = "conditional" => {node.condition, node.yes, node.no} \subseteq nodes
  /\ node.op = "optional_map" => {node.target, node.body} \subseteq nodes
  /\ node.op = "or_else" => {node.target, node.fallback} \subseteq nodes
  /\ node.op = "index" => {node.target, node.key} \subseteq nodes
  /\ node.op = "select" => node.target \in nodes
  /\ node.op \in {"list", "map"} => \A k \in 1..Len(node.items) : node.items[k].value \in nodes
  /\ node.op = "map" => \A k \in 1..Len(node.items) : node.items[k].key \in nodes
  /\ node.op \in {"list", "map"} => Len(node.items) \in Nat
  /\ node.op = "sort_by" => {node.target, node.body} \subseteq nodes
  /\ node.op = "local_bind" => {node.initializer, node.body} \subseteq nodes
  /\ node.op = "block" => node.slots \in Seq(nodes) /\ node.body \in nodes
  /\ node.op = "block_index" => node.index \in Nat
  /\ node.op = "comprehension" =>
       {node.target} \cup ({node.predicate, node.transform} \ {0}) \subseteq nodes

WellFormed(p) == 1 \in DOMAIN p /\ \A n \in DOMAIN p : NodeIn(p[n], DOMAIN p)

ASSUME ProgramsAssumption == \A p \in Programs : WellFormed(p)

ASSUME LimitsAssumption == \A l \in Limits : l.max_depth \in Nat /\ l.max_steps \in Nat

VARIABLES
  program,    \* the program
  limits,     \* its limits
  remaining,  \* Context.remaining
  depth,      \* Context.depth
  frames,     \* the calls of eval in progress, outermost first
  cells,      \* the LazyBindings of the scopes that are live
  result      \* what evaluate returned, or NoResult

vars == <<program, limits, remaining, depth, frames, cells, result>>

-----------------------------------------------------------------------------
(* Frames, scopes and lazy bindings *)

\* The loop of a comprehension, a list, a map or a sort: elements done, matches,
\* saved_error, what was collected, and whether the transform is being evaluated.
LoopStart ==
  [i |-> 0, matches |-> 0, saved |-> NoResult, out |-> <<>>, transforming |-> FALSE]

\* cell: the lazy binding this call initializes, or 0; base: the number of
\* cells there were when it started.
NewFrame(node, scope, cell, base) ==
  [node |-> node, scope |-> scope, cell |-> cell, base |-> base,
   args |-> <<>>, loop |-> LoopStart]

Value(name, value) == [kind |-> "value", name |-> name, value |-> value, first |-> 0, size |-> 0]
Lazy(name, cell) == [kind |-> "lazy", name |-> name, value |-> NoResult, first |-> cell, size |-> 1]
Block(cell, size) == [kind |-> "block", name |-> "", value |-> NoResult, first |-> cell, size |-> size]

NewCell(initializer, scope) ==
  [initializer |-> initializer, scope |-> scope, result |-> NoResult]

Top == frames[Len(frames)]
Node == program[Top.node]
Args == Top.args

Below == SubSeq(frames, 1, Len(frames) - 1)

WithTop(frame) == [frames EXCEPT ![Len(frames)] = frame]

Running(ops) == frames # <<>> /\ Node.op \in ops

\* The last child that was evaluated failed.
Raised == Args # <<>> /\ IsError(Args[Len(Args)])

-----------------------------------------------------------------------------
(* Calls and returns of eval *)

\* What a call of eval returns goes to the binding it initializes and to the
\* frame that called it; the outermost call's result is materialized.
Deliver(stack, heap, left, cell, r) ==
  /\ cells' = IF cell = 0 THEN heap ELSE [heap EXCEPT ![cell].result = r]
  /\ remaining' = left
  /\ IF stack = <<>>
     THEN /\ frames' = stack
          /\ result' \in IF IsError(r) THEN {r}
                         ELSE Materialized(r, left, limits)
     ELSE /\ frames' = [stack EXCEPT ![Len(stack)].args = Append(@, r)]
          /\ result' = result

\* Faulty: one level more than the limit.
OneDeeper == depth > limits.max_depth

TooDeep == depth >= limits.max_depth

\* A call of eval: the charge, the depth check, and the new frame.
Eval(stack, heap, left, node, scope, cell) ==
  /\ IF left < 1
     THEN depth' = depth /\ Deliver(stack, heap, left, cell, Error("CostLimitExceeded"))
     ELSE IF TooDeep
     THEN depth' = depth /\ Deliver(stack, heap, left - 1, cell, Error("DepthLimitExceeded"))
     ELSE /\ depth' = depth + 1
          /\ frames' = Append(stack, NewFrame(node, scope, cell, Len(heap)))
          /\ cells' = heap
          /\ remaining' = left - 1
          /\ result' = result
  /\ UNCHANGED <<program, limits>>

Child(node) == Eval(frames, cells, remaining, node, Top.scope, 0)

\* A child that sees one name more.
ChildWith(node, left, name, value) ==
  Eval(frames, cells, left, node, Append(Top.scope, Value(name, value)), 0)

Size == limits.max_collection_size
Levels == limits.max_depth - depth

\* Faulty: the depth is not restored when the call fails.
DepthKeptOnError(r) == IF IsError(r) THEN depth ELSE depth - 1

\* defer: the depth is restored whatever the call returns.
DepthAfter(r) == depth - 1

\* eval returns; what the frame allocated on the machine stack is gone.
FinishAt(left, r) ==
  /\ depth' = DepthAfter(r)
  /\ Deliver(Below, SubSeq(cells, 1, Top.base), left, Top.cell, r)
  /\ UNCHANGED <<program, limits>>

Finish(r) == FinishAt(remaining, r)

\* charge(cost), then r.
FinishFor(cost, r) ==
  IF cost > remaining THEN Finish(Error("CostLimitExceeded")) ELSE FinishAt(remaining - cost, r)

\* One of the things an operation may charge and return.
FinishWith(effects) == \E e \in effects : FinishFor(e.cost, e.result)

Loop == Top.loop

\* Faulty: the saved error is lost with the next element.
NextItemAnew(loop) ==
  [loop EXCEPT !.i = @ + 1, !.transforming = FALSE, !.saved = NoResult]

NextItem(loop) == [loop EXCEPT !.i = @ + 1, !.transforming = FALSE]

\* The loop of the node goes on in state loop, with these results.
Continue(left, loop, args) ==
  /\ frames' = WithTop([Top EXCEPT !.args = args, !.loop = loop])
  /\ remaining' = left
  /\ UNCHANGED <<program, limits, depth, cells, result>>

\* Faulty: no result is placed while the initializer runs.
ForceUnmarked(left, c) ==
  IF cells[c].result # NoResult
  THEN FinishAt(left, cells[c].result)
  ELSE Eval(frames, cells, left, cells[c].initializer, cells[c].scope, c)

\* Faulty: a reference to a slot under initialization waits for it.
ForceOrWait(left, c) ==
  IF \E i \in DOMAIN frames : frames[i].cell = c
  THEN UNCHANGED vars
  ELSE IF cells[c].result # NoResult
  THEN FinishAt(left, cells[c].result)
  ELSE Eval(frames, [cells EXCEPT ![c].result = Error("UndeclaredReference")], left,
            cells[c].initializer, cells[c].scope, c)

\* force
ForceBinding(left, c) ==
  IF cells[c].result # NoResult
  THEN FinishAt(left, cells[c].result)
  ELSE Eval(frames, [cells EXCEPT ![c].result = Error("UndeclaredReference")], left,
            cells[c].initializer, cells[c].scope, c)

Init ==
  /\ program \in Programs
  /\ limits \in Limits
  /\ remaining = limits.max_steps
  /\ depth = 0
  /\ frames = <<>>
  /\ cells = <<>>
  /\ result = NoResult

\* evaluate: context.eval(root, null)
Start ==
  /\ frames = <<>> /\ result = NoResult
  /\ Eval(frames, cells, remaining, 1, <<>>, 0)

-----------------------------------------------------------------------------
(* Errors *)

\* Faulty: fatal errors are absorbed like all others.
AbsorbsAny ==
  \/ Node.op = "logic"
  \/ /\ Node.op = "comprehension"
     /\ Node.kind \in {"all", "exists"}
     /\ Len(Args) = 2

\* Logical operators, and the predicates of all and exists, go on after an
\* error of a child unless it is fatal.
Absorbs ==
  /\ ~IsFatal(Args[Len(Args)])
  /\ \/ Node.op = "logic"
     \/ /\ Node.op = "comprehension"
        /\ Node.kind \in {"all", "exists"}
        /\ Len(Args) = 2

\* try: the error of a child is the error of the node.
Propagate ==
  /\ frames # <<>> /\ Raised /\ ~Absorbs
  /\ Finish(Args[Len(Args)])

-----------------------------------------------------------------------------
(* Leaves *)

Literal ==
  /\ Running({"literal"}) /\ Args = <<>>
  /\ Finish(Node.value)

\* The bindings of a name.
Named(name) == {k \in DOMAIN Bindings : Bindings[k].name = name}

\* variable: a name the checker has resolved to a binding.
Variable ==
  /\ Running({"variable"}) /\ Args = <<>>
  /\ FinishFor(Len(Bindings), IF Named(Node.name) = {} THEN Error("UndeclaredReference")
                              ELSE Bindings[Min(Named(Node.name))].value)

\* The last of the scope entries in S.
Innermost(S) == {j \in S : \A k \in S : k <= j}

\* A local name: the innermost entry of that name, unless the name is absolute.
Matches(name) ==
  {j \in DOMAIN Top.scope : ~Node.absolute /\ Top.scope[j].name = name}

\* Every entry that is passed costs 1, and 1 more when it has a name.
WalkCost(j) ==
  Len(Top.scope) - j + 1 + Cardinality({k \in j..Len(Top.scope) : Top.scope[k].name # ""})

LocalIdent ==
  /\ Running({"ident"}) /\ Args = <<>>
  /\ \E j \in Innermost(Matches(Node.name)) :
       IF WalkCost(j) > remaining
       THEN Finish(Error("CostLimitExceeded"))
       ELSE IF Top.scope[j].kind = "lazy"
       THEN ForceBinding(remaining - WalkCost(j), Top.scope[j].first)
       ELSE FinishAt(remaining - WalkCost(j), Top.scope[j].value)

\* resolve, of a bare name without a container: the bindings in order.
GlobalIdent ==
  /\ Running({"ident"}) /\ Args = <<>>
  /\ Matches(Node.name) = {}
  /\ LET walked == IF Node.absolute THEN 0 ELSE WalkCost(1)
     IN  IF Named(Node.name) = {} \/ Node.local
         THEN FinishFor(walked + (IF Node.local THEN 0 ELSE 2 * Len(Bindings)),
                        Error("UndeclaredReference"))
         ELSE FinishFor(walked + 2 * Min(Named(Node.name)),
                        Bindings[Min(Named(Node.name))].value)

\* cel.index: a slot of the innermost block.
Blocks == {j \in DOMAIN Top.scope : Top.scope[j].kind = "block"}

BlockIndex ==
  /\ Running({"block_index"}) /\ Args = <<>>
  /\ \/ /\ Blocks = {}
        /\ FinishFor(Len(Top.scope), Error("UndeclaredReference"))
     \/ \E j \in Innermost(Blocks) :
          LET block == Top.scope[j]
              cost == Len(Top.scope) - j + 1
          IN  IF cost > remaining
              THEN Finish(Error("CostLimitExceeded"))
              ELSE IF Node.index >= block.size
              THEN FinishAt(remaining - cost, Error("UndeclaredReference"))
              ELSE ForceBinding(remaining - cost, block.first + Node.index)

\* The initializer that a name or a slot forced has returned.
Forced ==
  /\ Running({"ident", "block_index"}) /\ Args # <<>> /\ ~Raised
  /\ Finish(Args[1])

-----------------------------------------------------------------------------
(* Operators *)

\* !, -, binary operators and calls: the operands from left to right, then the
\* result.
Strict == {"not", "minus", "binary", "custom", "math", "call"}

\* What is checked before the first argument of a registered function, and of one
\* of the math library.
Checked ==
  CASE Node.op \in {"custom", "math"} /\ Len(Node.args) > Size -> "CollectionLimitExceeded"
    [] Node.op \in {"custom", "math"} /\ Len(Node.args) > remaining -> "CostLimitExceeded"
    [] OTHER -> "ok"

Prepaid == IF Args = <<>> /\ Node.op \in {"custom", "math"} THEN Len(Node.args) ELSE 0

Operand ==
  /\ Running(Strict) /\ ~Raised
  /\ Len(Args) < Len(Node.args)
  /\ IF Args = <<>> /\ Checked # "ok" THEN Finish(Error(Checked))
     ELSE Eval(frames, cells, remaining - Prepaid, Node.args[Len(Args) + 1], Top.scope, 0)

Effects ==
  CASE Node.op = "not" ->
         {Costs(0, IF IsBool(Args[1]) THEN Bool(~Args[1][2]) ELSE Error("NoMatchingOverload"))}
    [] Node.op = "minus" -> {Costs(0, Negated(Args[1]))}
    [] Node.op = "binary" -> {Binary(Node.operator, Args[1], Args[2], Levels, Size)}
    [] Node.op = "custom" -> Custom(Node.overloads, Args, remaining, limits)
    [] Node.op = "math" -> {MathCall(Node.name, Args, Size)}
    [] Node.op = "call" -> Called(Node.name, Args, Levels, Size)

Apply ==
  /\ Running(Strict) /\ ~Raised
  /\ Len(Args) = Len(Node.args)
  /\ FinishWith(Effects)

\* or and orValue: the argument is evaluated unless the receiver has a value; any
\* other receiver has no such method, which is found after the argument.
OrElse ==
  /\ Running({"or_else"}) /\ ~Raised
  /\ \/ Args = <<>> /\ Child(Node.target)
     \/ /\ Len(Args) = 1
        /\ IF IsOptional(Args[1]) /\ Args[1] # None
           THEN Finish(IF Node.payload THEN Args[1][2][1] ELSE Args[1])
           ELSE Child(Node.fallback)
     \/ /\ Len(Args) = 2
        /\ Finish(IF IsOptional(Args[1]) /\ (Node.payload \/ IsOptional(Args[2])) THEN Args[2]
                  ELSE Error("NoMatchingOverload"))

\* && and ||: the right operand is evaluated unless the left one decides; an
\* error, or an operand that is no bool, counts unless the other decides.
Decisive == Bool(Node.or)

LogicOperand ==
  /\ Running({"logic"}) /\ (Raised => Absorbs)
  /\ \/ Args = <<>> /\ Child(Node.left)
     \/ Len(Args) = 1 /\ Args[1] # Decisive /\ Child(Node.right)

LogicResult ==
  /\ Running({"logic"}) /\ (Raised => Absorbs)
  /\ \/ Len(Args) = 1 /\ Args[1] = Decisive /\ Finish(Decisive)
     \/ Len(Args) = 2 /\ Args[2] = Decisive /\ Finish(Decisive)
     \/ /\ Len(Args) = 2 /\ Args[2] # Decisive
        /\ Finish(IF IsError(Boolean(Args[1])) THEN Boolean(Args[1]) ELSE Boolean(Args[2]))

\* condition ? yes : no
Conditional ==
  /\ Running({"conditional"}) /\ ~Raised
  /\ \/ Args = <<>> /\ Child(Node.condition)
     \/ /\ Len(Args) = 1
        /\ IF IsBool(Args[1]) THEN Child(IF Args[1][2] THEN Node.yes ELSE Node.no)
           ELSE Finish(Boolean(Args[1]))
     \/ Len(Args) = 2 /\ Finish(Args[2])

\* optMap and optFlatMap: the body sees the payload, if there is one.
OptionalMap ==
  /\ Running({"optional_map"}) /\ ~Raised
  /\ \/ Args = <<>> /\ Child(Node.target)
     \/ /\ Len(Args) = 1
        /\ IF ~IsOptional(Args[1]) THEN Finish(Error("NoMatchingOverload"))
           ELSE IF Args[1][2] = <<>> THEN Finish(Args[1])
           ELSE ChildWith(Node.body, remaining, Node.variable, Args[1][2][1])
     \/ /\ Len(Args) = 2
        /\ Finish(IF ~Node.flat THEN Optional(<<Args[2]>>)
                  ELSE IF IsOptional(Args[2]) THEN Args[2]
                  ELSE Error("NoMatchingOverload"))

\* target[key]; nothing is evaluated for the key of an optional that is none.
Index ==
  /\ Running({"index"}) /\ ~Raised
  /\ \/ Args = <<>> /\ Child(Node.target)
     \/ Len(Args) = 1 /\ (IF Args[1] = None THEN Finish(None) ELSE Child(Node.key))
     \/ /\ Len(Args) = 2
        /\ LET target == IF IsOptional(Args[1]) THEN Args[1][2][1] ELSE Args[1]
           IN  FinishWith({Indexed(target, Args[2], Node.optional \/ IsOptional(Args[1]), Levels)})

\* target.field, and has(target.field)
Select ==
  /\ Running({"select"}) /\ ~Raised
  /\ \/ Args = <<>> /\ Child(Node.target)
     \/ /\ Args # <<>>
        /\ FinishWith({Selected(Args[1], Node.field, Node.optional, Node.presence, Levels)})

-----------------------------------------------------------------------------
(* Lists, maps and sorting *)

\* The elements of a list or the entries of a map, one after the other.
Literals == Node.items
Entry == Literals[Loop.i + 1]

ItemStart ==
  /\ Running({"list", "map"}) /\ Args = <<>> /\ Loop.i < Len(Literals)
  /\ IF Len(Literals) > Size THEN Finish(Error("CollectionLimitExceeded"))
     ELSE Child(IF Node.op = "map" THEN Entry.key ELSE Entry.value)

MapValue ==
  /\ Running({"map"}) /\ ~Raised /\ Len(Args) = 1 /\ Loop.i < Len(Literals)
  /\ IF IsKey(Args[1]) THEN Child(Entry.value) ELSE Finish(Error("NoMatchingOverload"))

\* Entries join the map the loop has built; it goes on unless one of them fails.
JoinMap(new, args) ==
  \E map \in {Extended(Loop.out, new, Levels, Size)} :
    IF map.cost > remaining \/ map.result # NoResult THEN FinishFor(map.cost, map.result)
    ELSE Continue(remaining - map.cost, NextItem([Loop EXCEPT !.out = map.entries]), args)

\* A value joins the list, or with its key the map.
Collect(r) ==
  IF Node.op = "map" THEN JoinMap(<<[key |-> Args[1], value |-> r]>>, <<>>)
  ELSE Continue(remaining, NextItem([Loop EXCEPT !.out = Append(@, r)]), <<>>)

\* An optional element joins when it has a value.
ItemDone ==
  /\ Running({"list", "map"}) /\ ~Raised
  /\ Len(Args) = (IF Node.op = "map" THEN 2 ELSE 1)
  /\ LET r == Args[Len(Args)] IN
     IF ~Entry.optional THEN Collect(r)
     ELSE IF ~IsOptional(r) THEN Finish(Error("NoMatchingOverload"))
     ELSE IF r = None THEN Continue(remaining, NextItem(Loop), <<>>)
     ELSE Collect(r[2][1])

Collected ==
  /\ Running({"list", "map"}) /\ Args = <<>> /\ Loop.i = Len(Literals)
  /\ Finish(IF Node.op = "map" THEN Map(Loop.out) ELSE List(Loop.out))

\* sortBy: the keys of all elements, then the elements in their order.  The list
\* is paid for before the first key.
SortTarget ==
  /\ Running({"sort_by"}) /\ ~Raised
  /\ \/ Args = <<>> /\ Child(Node.target)
     \/ Len(Args) = 1 /\ ~IsList(Args[1]) /\ Finish(Error("NoMatchingOverload"))

SortCharge == IF Loop.i = 0 THEN Len(Args[1][2]) ELSE 0

SortKey ==
  /\ Running({"sort_by"}) /\ Len(Args) = 1 /\ IsList(Args[1])
  /\ Loop.i < Len(Args[1][2])
  /\ IF Len(Args[1][2]) > Size THEN Finish(Error("CollectionLimitExceeded"))
     ELSE IF SortCharge > remaining THEN Finish(Error("CostLimitExceeded"))
     ELSE ChildWith(Node.body, remaining - SortCharge, Node.variable, Args[1][2][Loop.i + 1])

SortKeyDone ==
  /\ Running({"sort_by"}) /\ ~Raised /\ Len(Args) = 2
  /\ Continue(remaining, NextItem([Loop EXCEPT !.out = Append(@, Args[2])]), <<Args[1]>>)

SortDone ==
  /\ Running({"sort_by"}) /\ Len(Args) = 1 /\ IsList(Args[1])
  /\ Loop.i = Len(Args[1][2])
  /\ FinishWith(Sorted(Args[1][2], Loop.out))

-----------------------------------------------------------------------------
(* Bindings *)

\* cel.bind: the initializer is evaluated when the name is first used.
LocalBind ==
  /\ Running({"local_bind"}) /\ ~Raised
  /\ \/ /\ Args = <<>>
        /\ Eval(frames, Append(cells, NewCell(Node.initializer, Top.scope)), remaining,
                Node.body, Append(Top.scope, Lazy(Node.name, Len(cells) + 1)), 0)
     \/ Args # <<>> /\ Finish(Args[1])

\* cel.block: every slot sees the scope of the block and all of its slots.
BlockBody ==
  /\ Running({"block"}) /\ ~Raised
  /\ \/ /\ Args = <<>>
        /\ LET n == Len(Node.slots)
               local == Append(Top.scope, Block(Len(cells) + 1, n))
           IN  IF n > limits.max_collection_size THEN Finish(Error("CollectionLimitExceeded"))
               ELSE IF n > remaining THEN Finish(Error("CostLimitExceeded"))
               ELSE Eval(frames, cells \o [i \in 1..n |-> NewCell(Node.slots[i], local)],
                         remaining - n, Node.body, local, 0)
     \/ Args # <<>> /\ Finish(Args[1])

-----------------------------------------------------------------------------
(* Comprehensions *)

Items == Args[1][2]
At == Items[Loop.i + 1]

\* What the loop runs over: elements, or the keys of a map.
Item == IF IsMap(Args[1]) THEN At.key ELSE At
ItemKey == IF IsMap(Args[1]) THEN At.key ELSE Integer(Loop.i)
ItemValue == IF IsMap(Args[1]) THEN At.value ELSE At

\* The variables of the element at hand: its index or key and its value, or one.
LoopScope ==
  IF Node.value_name = "" THEN Append(Top.scope, Value(Node.key_name, Item))
  ELSE Top.scope \o <<Value(Node.key_name, ItemKey), Value(Node.value_name, ItemValue)>>

NextElement(left, loop) == Continue(left, loop, <<Args[1]>>)

Building == {"list", "map", "map_entries"}

\* The predicate holds: count the element, or add it or its transformation.
Match(left) ==
  LET counted == [Loop EXCEPT !.matches = @ + 1] IN
  IF Node.kind \notin Building THEN NextElement(left, NextItem(counted))
  ELSE IF Node.kind = "list" /\ Len(Loop.out) >= Size
  THEN FinishAt(left, Error("CollectionLimitExceeded"))
  ELSE IF Node.transform = 0
  THEN NextElement(left, NextItem([counted EXCEPT !.out = Append(@, Item)]))
  ELSE Eval(WithTop([Top EXCEPT !.args = <<Args[1]>>,
                                !.loop = [counted EXCEPT !.transforming = TRUE]]),
            cells, left, Node.transform, LoopScope, 0)

ComprehensionTarget ==
  /\ Running({"comprehension"}) /\ ~Raised
  /\ \/ Args = <<>> /\ Child(Node.target)
     \/ /\ Len(Args) = 1 /\ ~IsList(Args[1]) /\ ~IsMap(Args[1])
        /\ Finish(Error("NoMatchingOverload"))

InLoop == Running({"comprehension"}) /\ Args # <<>> /\ (IsList(Args[1]) \/ IsMap(Args[1]))

Element ==
  /\ InLoop /\ Len(Args) = 1 /\ Loop.i < Len(Items)
  /\ IF remaining < 1 THEN Finish(Error("CostLimitExceeded"))
     ELSE IF Node.predicate = 0 THEN Match(remaining - 1)
     ELSE Eval(frames, cells, remaining - 1, Node.predicate, LoopScope, 0)

\* The predicate was evaluated; of the errors all and exists go on after, the
\* last one is saved.
Predicate ==
  /\ InLoop /\ Len(Args) = 2 /\ ~Loop.transforming /\ (Raised => Absorbs)
  /\ LET matched == Boolean(Args[2]) IN
     IF IsError(matched)
     THEN IF Node.kind \in {"all", "exists"}
          THEN NextElement(remaining, NextItem([Loop EXCEPT !.saved = matched]))
          ELSE Finish(matched)
     ELSE IF Node.kind = "all" /\ ~matched[2] THEN Finish(Bool(FALSE))
     ELSE IF Node.kind = "exists" /\ matched[2] THEN Finish(Bool(TRUE))
     ELSE IF matched[2] THEN Match(remaining)
     ELSE NextElement(remaining, NextItem(Loop))

\* A list gets the transformed element, a map its entry or all of its entries.
Transformed ==
  /\ InLoop /\ Len(Args) = 2 /\ Loop.transforming /\ ~Raised
  /\ \/ /\ Node.kind = "list"
        /\ NextElement(remaining, NextItem([Loop EXCEPT !.out = Append(@, Args[2])]))
     \/ /\ Node.kind = "map"
        /\ JoinMap(<<[key |-> ItemKey, value |-> Args[2]]>>, <<Args[1]>>)
     \/ /\ Node.kind = "map_entries"
        /\ IF IsMap(Args[2]) THEN JoinMap(Args[2][2], <<Args[1]>>)
           ELSE Finish(Error("NoMatchingOverload"))

Exhausted ==
  /\ InLoop /\ Len(Args) = 1 /\ Loop.i = Len(Items)
  /\ Finish(IF Loop.saved # NoResult THEN Loop.saved
            ELSE CASE Node.kind = "all" -> Bool(TRUE)
                   [] Node.kind = "exists" -> Bool(FALSE)
                   [] Node.kind = "exists_one" -> Bool(Loop.matches = 1)
                   [] Node.kind = "list" -> List(Loop.out)
                   [] Node.kind \in {"map", "map_entries"} -> Map(Loop.out))

-----------------------------------------------------------------------------

Next ==
  \/ Start \/ Propagate
  \/ Literal \/ Variable \/ LocalIdent \/ GlobalIdent \/ BlockIndex \/ Forced
  \/ Operand \/ Apply \/ OrElse
  \/ LogicOperand \/ LogicResult
  \/ Conditional \/ OptionalMap \/ Index \/ Select
  \/ ItemStart \/ MapValue \/ ItemDone \/ Collected
  \/ SortTarget \/ SortKey \/ SortKeyDone \/ SortDone
  \/ LocalBind \/ BlockBody
  \/ ComprehensionTarget \/ Element \/ Predicate \/ Transformed \/ Exhausted

Spec == Init /\ [][Next]_vars

\* evaluate runs on without waiting.
FairSpec == Spec /\ WF_vars(Next)

-----------------------------------------------------------------------------
(* Properties *)

\* Type invariant: calls are nested no deeper than the limit and see cells that
\* are there.
TypeOK ==
  /\ limits \in Limits
  /\ depth \in 0..limits.max_depth
  /\ \A i \in DOMAIN frames :
       /\ frames[i].node \in DOMAIN program
       /\ frames[i].cell \in 0..frames[i].base
       /\ frames[i].base \in 0..Len(cells)
  /\ \A c \in DOMAIN cells : cells[c].initializer \in DOMAIN program

\* Every charge is checked before it is made: what is left is never less than
\* nothing, which would wrap, nor more than at first.
WithinBudget == remaining \in 0..limits.max_steps

\* The depth that is checked counts the calls of eval in progress, whichever of
\* them have failed and had their errors absorbed: the limit neither creeps up
\* on a long evaluation nor lets one nest deeper.
DepthBalanced == depth = Len(frames)

\* What the innermost frame was told last, or what evaluate returned.
Outcome ==
  IF frames = <<>> THEN result
  ELSE IF Args = <<>> THEN NoResult
  ELSE Args[Len(Args)]

\* A fatal error, of a limit or of a host function, is never absorbed by an
\* operator, memoized away or replaced by another error, at any depth: once one
\* is returned, it is all that is returned until evaluate returns it.
FatalIsFinal == [][IsFatal(Outcome) => Outcome' = Outcome]_vars

\* The initializer of a binding or slot is evaluated at most once for each
\* evaluation of its binding, also when slots refer to each other or to
\* themselves: no two calls initialize the same cell, and a cell whose result
\* is there, with no call in progress for it, keeps it while its binding lives.
InitializedOnce ==
  [][/\ \A i, j \in DOMAIN frames :
          frames[i].cell # 0 /\ frames[i].cell = frames[j].cell => i = j
     /\ \A c \in DOMAIN cells \cap DOMAIN cells' :
          /\ cells[c].result # NoResult
          /\ \A i \in DOMAIN frames : frames[i].cell # c
          => cells'[c].result = cells[c].result]_vars

\* Every evaluation returns within its limits, whatever the program, slots that
\* refer to themselves included.
Terminates == <>(result # NoResult)
=============================================================================
