---------------------------- MODULE EvaluatorProofs ----------------------------
(***************************************************************************)
(* The depth of the evaluator, the finality of fatal errors and the single *)
(* initialization of bindings, for every program, every activation and all *)
(* limits.                                                                 *)
(***************************************************************************)
EXTENDS Evaluator, SequenceTheorems, TLAPS

\* Results of children, whatever they are.
IsArgs(args) == \E S : args \in Seq(S)

IsFrame(frame) == "args" \in DOMAIN frame /\ IsArgs(frame.args)

IsStack(stack) ==
  /\ \E S : stack \in Seq(S)
  /\ \A i \in 1..Len(stack) : IsFrame(stack[i])

\* The inductive invariant: the depth counts the frames of a stack, within the
\* limit.
Inv ==
  /\ IsStack(frames) /\ depth = Len(frames)
  /\ limits \in Limits /\ depth <= limits.max_depth

-----------------------------------------------------------------------------
(* Stacks *)

\* The empty sequence, a sequence of one and a longer one hold results.
LEMMA SomeArgs ==
  /\ IsArgs(<<>>)
  /\ \A r : IsArgs(<<r>>)
  /\ \A args, r : IsArgs(args) => /\ IsArgs(Append(args, r))
                                  /\ Append(args, r) # <<>>
                                  /\ Append(args, r)[Len(Append(args, r))] = r
<1>1. IsArgs(<<>>)
  <2>1. <<>> \in Seq({})
    OBVIOUS
  <2>2. QED
    BY <2>1 DEF IsArgs
<1>2. ASSUME NEW r PROVE IsArgs(<<r>>)
  <2>1. <<r>> \in Seq({r})
    OBVIOUS
  <2>2. QED
    BY <2>1 DEF IsArgs
<1>3. ASSUME NEW args, NEW r, IsArgs(args)
      PROVE  /\ IsArgs(Append(args, r))
             /\ Append(args, r) # <<>>
             /\ Append(args, r)[Len(Append(args, r))] = r
  <2>1. PICK S : args \in Seq(S)
    BY <1>3 DEF IsArgs
  <2>2. args \in Seq(S \cup {r})
    BY <2>1
  <2>3. /\ Append(args, r) \in Seq(S \cup {r})
        /\ Append(args, r) # <<>>
        /\ Append(args, r)[Len(Append(args, r))] = r
    BY <2>2
  <2>4. QED
    BY <2>3 DEF IsArgs
<1>4. QED
  BY <1>1, <1>2, <1>3

\* A frame on top of a stack.
LEMMA Pushed ==
  ASSUME NEW stack, IsStack(stack), NEW frame, IsFrame(frame)
  PROVE  IsStack(Append(stack, frame)) /\ Len(Append(stack, frame)) = Len(stack) + 1
<1>1. PICK S : stack \in Seq(S)
  BY DEF IsStack
<1>2. stack \in Seq(S \cup {frame})
  BY <1>1
<1>3. /\ Append(stack, frame) \in Seq(S \cup {frame})
      /\ Len(Append(stack, frame)) = Len(stack) + 1
      /\ \A i \in 1..Len(stack) : Append(stack, frame)[i] = stack[i]
      /\ Append(stack, frame)[Len(stack) + 1] = frame
  BY <1>2
<1>4. ASSUME NEW i \in 1..(Len(stack) + 1) PROVE IsFrame(Append(stack, frame)[i])
  <2>1. CASE i = Len(stack) + 1
    BY <1>3, <2>1
  <2>2. CASE i # Len(stack) + 1
    <3>1. i \in 1..Len(stack)
      BY <1>1, <2>2
    <3>2. QED
      BY <3>1, <1>3 DEF IsStack
  <2>3. QED
    BY <2>1, <2>2
<1>5. QED
  BY <1>3, <1>4 DEF IsStack

\* A stack without its top.
LEMMA Popped ==
  ASSUME NEW stack, IsStack(stack), stack # <<>>
  PROVE  /\ IsStack(SubSeq(stack, 1, Len(stack) - 1))
         /\ Len(SubSeq(stack, 1, Len(stack) - 1)) = Len(stack) - 1
<1>1. PICK S : stack \in Seq(S)
  BY DEF IsStack
<1>2. Len(stack) \in Nat \ {0}
  BY <1>1
<1>3. /\ SubSeq(stack, 1, Len(stack) - 1) \in Seq(S)
      /\ Len(SubSeq(stack, 1, Len(stack) - 1)) = Len(stack) - 1
      /\ \A i \in 1..(Len(stack) - 1) : SubSeq(stack, 1, Len(stack) - 1)[i] = stack[i]
  <2> DEFINE n == Len(stack) - 1
  <2>1. n \in Nat /\ \A i \in 1..n : stack[i] \in S
    BY <1>1, <1>2
  <2> HIDE DEF n
  <2>2. /\ SubSeq(stack, 1, n) \in Seq(S)
        /\ Len(SubSeq(stack, 1, n)) = IF 1 <= n THEN n - 1 + 1 ELSE 0
        /\ \A i \in 1..(n - 1 + 1) : SubSeq(stack, 1, n)[i] = stack[1 + i - 1]
    BY <2>1, SubSeqProperties
  <2>3. /\ SubSeq(stack, 1, n) \in Seq(S)
        /\ Len(SubSeq(stack, 1, n)) = n
        /\ \A i \in 1..n : SubSeq(stack, 1, n)[i] = stack[i]
    BY <2>1, <2>2
  <2>4. QED
    BY <2>3 DEF n
<1>4. \A i \in 1..(Len(stack) - 1) : i \in 1..Len(stack)
  BY <1>2
<1>5. QED
  BY <1>3, <1>4 DEF IsStack

\* A stack with another frame on top.
LEMMA Replaced ==
  ASSUME NEW stack, IsStack(stack), stack # <<>>, NEW frame, IsFrame(frame),
         NEW other, other = [stack EXCEPT ![Len(stack)] = frame]
  PROVE  /\ IsStack(other)
         /\ Len(other) = Len(stack)
         /\ other # <<>>
         /\ other[Len(other)] = frame
<1>1. PICK S : stack \in Seq(S)
  BY DEF IsStack
<1>2. stack \in Seq(S \cup {frame}) /\ Len(stack) \in Nat \ {0}
  BY <1>1
<1>3. /\ other \in Seq(S \cup {frame})
      /\ Len(other) = Len(stack)
      /\ \A i \in 1..Len(stack) : other[i] = IF i = Len(stack) THEN frame ELSE stack[i]
  BY <1>2
<1>4. other[Len(stack)] = frame /\ other # <<>>
  BY <1>2, <1>3
<1>5. \A i \in 1..Len(stack) : IsFrame(other[i])
  BY <1>3 DEF IsStack
<1>6. QED
  BY <1>3, <1>4, <1>5 DEF IsStack

\* A frame that has been told one more result, and one whose loop went on.
LEMMA FrameUpdates ==
  ASSUME NEW frame, IsFrame(frame)
  PROVE  /\ \A r : LET told == [frame EXCEPT !.args = Append(@, r)]
                   IN  IsFrame(told) /\ told.args # <<>> /\ told.args[Len(told.args)] = r
         /\ \A args, loop : IsArgs(args) => IsFrame([frame EXCEPT !.args = args, !.loop = loop])
<1>1. ASSUME NEW r
      PROVE  LET told == [frame EXCEPT !.args = Append(@, r)]
             IN  IsFrame(told) /\ told.args # <<>> /\ told.args[Len(told.args)] = r
  <2> DEFINE told == [frame EXCEPT !.args = Append(@, r)]
  <2>1. "args" \in DOMAIN told /\ told.args = Append(frame.args, r)
    BY DEF IsFrame
  <2> HIDE DEF told
  <2>2. IsFrame(told) /\ told.args # <<>> /\ told.args[Len(told.args)] = r
    BY <2>1, SomeArgs DEF IsFrame
  <2>3. QED
    BY <2>2 DEF told
<1>2. ASSUME NEW args, NEW loop, IsArgs(args)
      PROVE  IsFrame([frame EXCEPT !.args = args, !.loop = loop])
  <2> DEFINE new == [frame EXCEPT !.args = args, !.loop = loop]
  <2>1. "args" \in DOMAIN new /\ new.args = args
    BY DEF IsFrame
  <2> HIDE DEF new
  <2>2. IsFrame(new)
    BY <2>1, <1>2 DEF IsFrame
  <2>3. QED
    BY <2>2 DEF new
<1>3. QED
  BY <1>1, <1>2
-----------------------------------------------------------------------------
(* Calls and returns of eval *)

\* A result is delivered: the stack keeps its height, and a fatal result is the
\* outcome.
LEMMA Delivered ==
  ASSUME NEW stack, IsStack(stack), NEW heap, NEW left, NEW cell, NEW r,
         Deliver(stack, heap, left, cell, r)
  PROVE  /\ IsStack(frames') /\ Len(frames') = Len(stack)
         /\ IsFatal(r) => Outcome' = r
<1>1. CASE stack = <<>>
  <2>1. frames' = <<>>
    BY <1>1 DEF Deliver
  <2>2. IsFatal(r) => result' = r
    BY <1>1 DEF Deliver, IsFatal
  <2>3. QED
    BY <1>1, <2>1, <2>2 DEF Outcome
<1>2. CASE stack # <<>>
  <2> DEFINE told == [stack[Len(stack)] EXCEPT !.args = Append(@, r)]
  <2>1. frames' = [stack EXCEPT ![Len(stack)] = told]
    BY <1>2 DEF Deliver
  <2>2. IsFrame(stack[Len(stack)])
    BY <1>2 DEF IsStack
  <2>3. IsFrame(told) /\ told.args # <<>> /\ told.args[Len(told.args)] = r
    BY <2>2, FrameUpdates
  <2> HIDE DEF told
  <2>4. \A other : other = [stack EXCEPT ![Len(stack)] = told] =>
          /\ IsStack(other) /\ Len(other) = Len(stack)
          /\ other # <<>> /\ other[Len(other)] = told
    BY <1>2, <2>3, Replaced
  <2>5. IsStack(frames') /\ Len(frames') = Len(stack) /\ frames' # <<>> /\ frames'[Len(frames')] = told
    BY <2>1, <2>4
  <2>6. Outcome' = r
    BY <2>3, <2>5 DEF Outcome, Args, Top
  <2>7. QED
    BY <2>5, <2>6
<1>3. QED
  BY <1>1, <1>2

\* A call of eval pushes a frame and deepens, or does neither.
LEMMA EvalCalled ==
  ASSUME NEW stack, IsStack(stack), depth = Len(stack), limits \in Limits, depth <= limits.max_depth,
         NEW heap, NEW left, NEW node, NEW scope, NEW cell,
         Eval(stack, heap, left, node, scope, cell)
  PROVE  Inv'
<1>3. limits' = limits /\ limits.max_depth \in Nat /\ depth \in Nat
  <2>1. \E S : stack \in Seq(S)
    BY DEF IsStack
  <2>2. QED
    BY <2>1, LimitsAssumption DEF Eval
<1>1. CASE left < 1 \/ TooDeep
  <2>1. depth' = depth /\ IsStack(frames') /\ Len(frames') = Len(stack)
    BY <1>1, Delivered DEF Eval
  <2>2. QED
    BY <1>3, <2>1 DEF Inv
<1>2. CASE ~(left < 1) /\ ~TooDeep
  <2> DEFINE frame == NewFrame(node, scope, cell, Len(heap))
  <2>1. frames' = Append(stack, frame) /\ depth' = depth + 1
    BY <1>2 DEF Eval
  <2>2. IsFrame(frame)
    BY SomeArgs DEF NewFrame, IsFrame
  <2> HIDE DEF frame
  <2>3. IsStack(frames') /\ Len(frames') = Len(stack) + 1
    BY <2>1, <2>2, Pushed
  <2>4. QED
    BY <1>2, <1>3, <2>1, <2>3 DEF Inv, TooDeep
<1>4. QED
  BY <1>1, <1>2

\* A return pops the frame, restores the depth, and passes a fatal result on.
LEMMA Returned ==
  ASSUME Inv, frames # <<>>, NEW left, NEW r, FinishAt(left, r)
  PROVE  Inv' /\ (IsFatal(r) => Outcome' = r)
<1>1. IsStack(Below) /\ Len(Below) = Len(frames) - 1
  BY Popped DEF Inv, Below
<1>2. /\ depth' = depth - 1 /\ limits' = limits
      /\ \E heap, cell : Deliver(Below, heap, left, cell, r)
  BY DEF FinishAt, DepthAfter
<1>3. IsStack(frames') /\ Len(frames') = Len(Below) /\ (IsFatal(r) => Outcome' = r)
  BY <1>1, <1>2, Delivered
<1>4. depth \in Nat /\ limits.max_depth \in Nat
  <2>1. \E S : frames \in Seq(S)
    BY DEF Inv, IsStack
  <2>2. QED
    BY <2>1, LimitsAssumption DEF Inv
<1>5. QED
  BY <1>1, <1>2, <1>3, <1>4 DEF Inv

\* The other ways to go on.
LEMMA WentOn ==
  ASSUME Inv, frames # <<>>
  PROVE  /\ \A r : Finish(r) => Inv'
         /\ \A cost, r : FinishFor(cost, r) => Inv'
         /\ \A effects : FinishWith(effects) => Inv'
         /\ \A heap, left, node, scope, cell : Eval(frames, heap, left, node, scope, cell) => Inv'
         /\ \A node : Child(node) => Inv'
         /\ \A node, left, name, value : ChildWith(node, left, name, value) => Inv'
         /\ \A left, c : ForceBinding(left, c) => Inv'
         /\ \A left, loop, args : IsArgs(args) /\ Continue(left, loop, args) => Inv'
<1>1. \A left, r : FinishAt(left, r) => Inv'
  BY Returned
<1>2. \A heap, left, node, scope, cell : Eval(frames, heap, left, node, scope, cell) => Inv'
  BY EvalCalled DEF Inv
<1>3. \A r : Finish(r) => Inv'
  BY <1>1 DEF Finish
<1>4. \A cost, r : FinishFor(cost, r) => Inv'
  BY <1>1, <1>3 DEF FinishFor
<1>5. \A effects : FinishWith(effects) => Inv'
  BY <1>4 DEF FinishWith
<1>6. \A node : Child(node) => Inv'
  BY <1>2 DEF Child
<1>7. \A node, left, name, value : ChildWith(node, left, name, value) => Inv'
  BY <1>2 DEF ChildWith
<1>8. \A left, c : ForceBinding(left, c) => Inv'
  BY <1>1, <1>2 DEF ForceBinding
<1>9. ASSUME NEW left, NEW loop, NEW args, IsArgs(args), Continue(left, loop, args) PROVE Inv'
  <2> DEFINE frame == [Top EXCEPT !.args = args, !.loop = loop]
  <2>1. IsFrame(Top)
    BY DEF Inv, IsStack, Top
  <2>2. IsFrame(frame)
    BY <2>1, <1>9, FrameUpdates
  <2>3. frames' = [frames EXCEPT ![Len(frames)] = frame] /\ depth' = depth /\ limits' = limits
    BY <1>9 DEF Continue, WithTop
  <2> HIDE DEF frame
  <2>4. IsStack(frames') /\ Len(frames') = Len(frames)
    BY <2>2, <2>3, Replaced DEF Inv
  <2>5. QED
    BY <2>3, <2>4 DEF Inv
<1>10. QED
  BY <1>2, <1>3, <1>4, <1>5, <1>6, <1>7, <1>8, <1>9
\* An element that matches.
LEMMA MatchKeepsInv ==
  ASSUME Inv, frames # <<>>, NEW left, Match(left)
  PROVE  Inv'
<1>1. CASE Node.kind \in Building /\ ~(Node.kind = "list" /\ Len(Loop.out) >= Size) /\ Node.transform # 0
  <2> DEFINE loop == [Loop EXCEPT !.matches = @ + 1]
             frame == [Top EXCEPT !.args = <<Args[1]>>, !.loop = [loop EXCEPT !.transforming = TRUE]]
  <2>1. IsFrame(Top)
    BY DEF Inv, IsStack, Top
  <2>2. IsFrame(frame)
    BY <2>1, SomeArgs, FrameUpdates
  <2>3. Eval([frames EXCEPT ![Len(frames)] = frame], cells, left, Node.transform, LoopScope, 0)
    BY <1>1 DEF Match, WithTop
  <2> HIDE DEF frame
  <2> DEFINE stack == [frames EXCEPT ![Len(frames)] = frame]
  <2>4. IsStack(stack) /\ Len(stack) = Len(frames)
    BY <2>2, Replaced DEF Inv
  <2>5. Eval(stack, cells, left, Node.transform, LoopScope, 0)
    BY <2>3
  <2> HIDE DEF stack
  <2>6. QED
    BY <2>4, <2>5, EvalCalled DEF Inv
<1>2. CASE ~(Node.kind \in Building /\ ~(Node.kind = "list" /\ Len(Loop.out) >= Size) /\ Node.transform # 0)
  <2>1. \A r : FinishAt(left, r) => Inv'
    BY Returned
  <2>2. \A loop : NextElement(left, loop) => Inv'
    BY WentOn, SomeArgs DEF NextElement
  <2>3. QED
    BY <1>2, <2>1, <2>2 DEF Match
<1>3. QED
  BY <1>1, <1>2

-----------------------------------------------------------------------------
(* The depth *)

\* Every step keeps the invariant.
LEMMA StepKeepsInv ==
  ASSUME Inv, [Next]_vars
  PROVE  Inv'
<1> USE WentOn
<1>1. CASE UNCHANGED vars
  BY <1>1 DEF Inv, vars
<1>2. CASE Start
  BY <1>2, EvalCalled DEF Inv, Start
<1>3. CASE Propagate
  BY <1>3 DEF Propagate
<1>4. CASE Literal
  BY <1>4 DEF Literal, Running
<1>5. CASE Variable
  BY <1>5 DEF Variable, Running
<1>6. CASE LocalIdent
  <2>1. \A left, r : FinishAt(left, r) => Inv'
    BY <1>6, Returned DEF LocalIdent, Running
  <2>2. QED
    BY <1>6, <2>1 DEF LocalIdent, Running
<1>7. CASE GlobalIdent
  BY <1>7 DEF GlobalIdent, Running
<1>8. CASE BlockIndex
  <2>1. \A left, r : FinishAt(left, r) => Inv'
    BY <1>8, Returned DEF BlockIndex, Running
  <2>2. QED
    BY <1>8, <2>1 DEF BlockIndex, Running
<1>9. CASE Forced
  BY <1>9 DEF Forced, Running
<1>10. CASE Operand
  BY <1>10 DEF Operand, Running
<1>11. CASE Apply
  BY <1>11 DEF Apply, Running
<1>12. CASE OrElse
  BY <1>12 DEF OrElse, Running
<1>13. CASE LogicOperand
  BY <1>13 DEF LogicOperand, Running
<1>14. CASE LogicResult
  BY <1>14 DEF LogicResult, Running
<1>15. CASE Conditional
  BY <1>15 DEF Conditional, Running
<1>16. CASE OptionalMap
  BY <1>16 DEF OptionalMap, Running
<1>17. CASE Index
  BY <1>17 DEF Index, Running
<1>18. CASE Select
  BY <1>18 DEF Select, Running
<1>19. CASE ItemStart
  BY <1>19 DEF ItemStart, Running
<1>20. CASE MapValue
  BY <1>20 DEF MapValue, Running
<1>21. CASE ItemDone
  <2>1. frames # <<>>
    BY <1>21 DEF ItemDone, Running
  <2>2. \A r : Collect(r) => Inv'
    BY <2>1, SomeArgs DEF Collect, JoinMap
  <2>3. QED
    BY <1>21, <2>1, <2>2, SomeArgs DEF ItemDone
<1>22. CASE Collected
  BY <1>22 DEF Collected, Running
<1>23. CASE SortTarget
  BY <1>23 DEF SortTarget, Running
<1>24. CASE SortKey
  BY <1>24 DEF SortKey, Running
<1>25. CASE SortKeyDone
  BY <1>25, SomeArgs DEF SortKeyDone, Running
<1>26. CASE SortDone
  BY <1>26 DEF SortDone, Running
<1>27. CASE LocalBind
  BY <1>27 DEF LocalBind, Running
<1>28. CASE BlockBody
  BY <1>28 DEF BlockBody, Running
<1>29. CASE ComprehensionTarget
  BY <1>29 DEF ComprehensionTarget, Running
<1>30. CASE Element
  <2>1. frames # <<>>
    BY <1>30 DEF Element, InLoop, Running
  <2>2. \A left : Match(left) => Inv'
    BY <2>1, MatchKeepsInv
  <2>3. QED
    BY <1>30, <2>1, <2>2 DEF Element
<1>31. CASE Predicate
  <2>1. frames # <<>>
    BY <1>31 DEF Predicate, InLoop, Running
  <2>2. \A left : Match(left) => Inv'
    BY <2>1, MatchKeepsInv
  <2>3. QED
    BY <1>31, <2>1, <2>2, SomeArgs DEF Predicate, NextElement
<1>32. CASE Transformed
  <2>1. frames # <<>>
    BY <1>32 DEF Transformed, InLoop, Running
  <2>2. \A new : JoinMap(new, <<Args[1]>>) => Inv'
    BY <2>1, SomeArgs DEF JoinMap
  <2>3. QED
    BY <1>32, <2>1, <2>2, SomeArgs DEF Transformed, NextElement
<1>33. CASE Exhausted
  BY <1>33 DEF Exhausted, InLoop, Running
<1>34. QED
  BY <1>1, <1>2, <1>3, <1>4, <1>5, <1>6, <1>7, <1>8, <1>9, <1>10, <1>11, <1>12, <1>13, <1>14,
     <1>15, <1>16, <1>17, <1>18, <1>19, <1>20, <1>21, <1>22, <1>23, <1>24, <1>25, <1>26, <1>27,
     <1>28, <1>29, <1>30, <1>31, <1>32, <1>33 DEF Next

\* Initially nothing runs.
LEMMA InitInv == Init => Inv
<1>1. <<>> \in Seq({}) /\ Len(<<>>) = 0
  OBVIOUS
<1>2. IsStack(<<>>)
  BY <1>1 DEF IsStack
<1>3. QED
  BY <1>1, <1>2, LimitsAssumption DEF Init, Inv

\* The depth that is checked is the number of calls of eval in progress, for
\* every program, whatever fails in it (Context.eval's defer).
THEOREM DepthIsBalanced == Spec => []DepthBalanced
<1>1. Inv => DepthBalanced
  BY DEF Inv, DepthBalanced
<1>2. QED
  BY InitInv, StepKeepsInv, <1>1, PTL DEF Spec

-----------------------------------------------------------------------------
(* Fatal errors *)

\* Nothing but Propagate happens while the outcome is fatal.
LEMMA OnlyPropagates ==
  ASSUME Next, IsFatal(Outcome)
  PROVE  Propagate /\ Args # <<>> /\ Outcome = Args[Len(Args)]
<1>1. ~IsFatal(NoResult)
  BY DEF NoResult, IsFatal, IsError
<1>2. \A r : IsFatal(r) => IsError(r) /\ ~IsList(r) /\ ~IsMap(r)
  BY DEF IsFatal, IsError, IsList, IsMap
<1> DEFINE Stopped == frames = <<>> /\ result # NoResult
           Raising == /\ frames # <<>> /\ Args # <<>> /\ Raised /\ ~Absorbs
                      /\ ~IsList(Args[Len(Args)]) /\ ~IsMap(Args[Len(Args)])
<1>3. Stopped \/ Raising
  BY <1>1, <1>2 DEF Outcome, Raised, Absorbs
<1>4. frames # <<>> => Args # <<>> /\ Outcome = Args[Len(Args)]
  BY <1>1 DEF Outcome
<1>5. ~Start
  BY <1>3 DEF Start
<1>6. ~Literal
  BY <1>3 DEF Literal, Running
<1>7. ~Variable
  BY <1>3 DEF Variable, Running
<1>8. ~LocalIdent
  BY <1>3 DEF LocalIdent, Running
<1>9. ~GlobalIdent
  BY <1>3 DEF GlobalIdent, Running
<1>10. ~BlockIndex
  BY <1>3 DEF BlockIndex, Running
<1>11. ~Forced
  BY <1>3 DEF Forced, Running
<1>12. ~Operand
  BY <1>3 DEF Operand, Running
<1>13. ~Apply
  BY <1>3 DEF Apply, Running
<1>14. ~OrElse
  BY <1>3 DEF OrElse, Running
<1>15. ~LogicOperand
  BY <1>3 DEF LogicOperand, Running
<1>16. ~LogicResult
  BY <1>3 DEF LogicResult, Running
<1>17. ~Conditional
  BY <1>3 DEF Conditional, Running
<1>18. ~OptionalMap
  BY <1>3 DEF OptionalMap, Running
<1>19. ~Index
  BY <1>3 DEF Index, Running
<1>20. ~Select
  BY <1>3 DEF Select, Running
<1>21. ~ItemStart
  BY <1>3 DEF ItemStart, Running
<1>22. ~MapValue
  BY <1>3 DEF MapValue, Running
<1>23. ~ItemDone
  BY <1>3 DEF ItemDone, Running
<1>24. ~Collected
  BY <1>3 DEF Collected, Running
<1>25. ~SortTarget
  BY <1>3 DEF SortTarget, Running
<1>26. ~SortKey
  BY <1>3 DEF SortKey, Running
<1>27. ~SortKeyDone
  BY <1>3 DEF SortKeyDone, Running
<1>28. ~SortDone
  BY <1>3 DEF SortDone, Running
<1>29. ~LocalBind
  BY <1>3 DEF LocalBind, Running
<1>30. ~BlockBody
  BY <1>3 DEF BlockBody, Running
<1>31. ~ComprehensionTarget
  BY <1>3 DEF ComprehensionTarget, Running
<1>32. ~Element
  BY <1>3 DEF Element, Running, InLoop
<1>33. ~Predicate
  BY <1>3 DEF Predicate, Running, InLoop
<1>34. ~Transformed
  BY <1>3 DEF Transformed, Running, InLoop
<1>35. ~Exhausted
  BY <1>3 DEF Exhausted, Running, InLoop
<1>36. Propagate
  BY <1>5, <1>6, <1>7, <1>8, <1>9, <1>10, <1>11, <1>12, <1>13, <1>14, <1>15, <1>16, <1>17,
     <1>18, <1>19, <1>20, <1>21, <1>22, <1>23, <1>24, <1>25, <1>26, <1>27, <1>28, <1>29,
     <1>30, <1>31, <1>32, <1>33, <1>34, <1>35 DEF Next
<1>37. frames # <<>>
  BY <1>36 DEF Propagate
<1>38. QED
  BY <1>4, <1>36, <1>37

\* A fatal error is the outcome of every step until evaluate returns it: no
\* operator absorbs it, at any depth of any program (fatal of eval.zig).
THEOREM FatalErrorsAreFinal == Spec => FatalIsFinal
<1>1. ASSUME Inv, [Next]_vars, IsFatal(Outcome) PROVE Outcome' = Outcome
  <2>1. CASE UNCHANGED vars
    BY <2>1 DEF vars, Outcome, Args, Top
  <2>2. CASE Next
    <3>1. Propagate /\ Args # <<>> /\ Outcome = Args[Len(Args)]
      BY <1>1, <2>2, OnlyPropagates
    <3>2. frames # <<>> /\ FinishAt(remaining, Outcome)
      BY <3>1 DEF Propagate, Finish
    <3>3. QED
      BY <1>1, <3>2, Returned
  <2>3. QED
    BY <1>1, <2>1, <2>2
<1>2. QED
  BY InitInv, StepKeepsInv, <1>1, PTL DEF Spec, FatalIsFinal


-----------------------------------------------------------------------------
(* Scopes and lazy bindings *)

IsLoop(loop) == "i" \in DOMAIN loop /\ loop.i \in Nat

\* A scope whose bindings are among the first n cells.
IsScope(scope, n) ==
  /\ \E S : scope \in Seq(S)
  /\ \A j \in 1..Len(scope) :
       /\ scope[j].kind = "lazy" => scope[j].first \in 1..n
       /\ scope[j].kind = "block" =>
            /\ scope[j].first \in Nat \ {0} /\ scope[j].size \in Nat
            /\ scope[j].first + scope[j].size <= n + 1

\* The first n cells see only each other.
Closed(heap, n) == \A c \in 1..n : IsScope(heap[c].scope, n)

IsCell(cell, p) ==
  /\ {"initializer", "scope", "result"} \subseteq DOMAIN cell
  /\ cell.initializer \in DOMAIN p

\* A call in progress sees live cells only, those there were when it started,
\* and the one it initializes is marked.
IsCall(frame, p, heap) ==
  /\ {"node", "scope", "cell", "base", "args", "loop"} \subseteq DOMAIN frame
  /\ frame.node \in DOMAIN p
  /\ IsLoop(frame.loop)
  /\ frame.base \in 0..Len(heap)
  /\ frame.cell \in 0..frame.base
  /\ frame.cell # 0 => heap[frame.cell].result # NoResult
  /\ IsScope(frame.scope, frame.base)
  /\ Closed(heap, frame.base)

IsHeap(heap, p) ==
  /\ \E S : heap \in Seq(S)
  /\ \A c \in 1..Len(heap) : IsCell(heap[c], p)
  /\ Closed(heap, Len(heap))

\* An inner call started with at least the cells of an outer one, and
\* initializes another.
Nested(stack) ==
  \A i, j \in 1..Len(stack) :
    i < j => /\ stack[i].base <= stack[j].base
             /\ stack[i].cell # 0 => stack[i].cell # stack[j].cell

Sound(p, stack, heap) ==
  /\ IsHeap(heap, p)
  /\ \A i \in 1..Len(stack) : IsCall(stack[i], p, heap)
  /\ Nested(stack)

\* The inductive invariant.
ScopeInv == Inv /\ program \in Programs /\ Sound(program, frames, cells)

Idle(stack, c) == \A i \in 1..Len(stack) : stack[i].cell # c

\* Results that are there stay, except where a call initializes them.
Unmoved(stack, heap, other) ==
  \A c \in (1..Len(heap)) \cap (1..Len(other)) :
    heap[c].result # NoResult /\ Idle(stack, c) => other[c].result = heap[c].result

\* What every step does.
Good == ScopeInv' /\ Unmoved(frames, cells, cells')

-----------------------------------------------------------------------------
(* Scopes *)

\* A scope is one with more cells too.
LEMMA ScopeGrows ==
  ASSUME NEW scope, NEW m \in Nat, NEW n \in Nat, m <= n, IsScope(scope, m)
  PROVE  IsScope(scope, n)
<1>1. ASSUME NEW j \in 1..Len(scope)
      PROVE  /\ scope[j].kind = "lazy" => scope[j].first \in 1..n
             /\ scope[j].kind = "block" =>
                  /\ scope[j].first \in Nat \ {0} /\ scope[j].size \in Nat
                  /\ scope[j].first + scope[j].size <= n + 1
  BY DEF IsScope
<1>2. QED
  BY <1>1 DEF IsScope

\* A scope with another entry.
LEMMA ScopeExtended ==
  ASSUME NEW scope, NEW n \in Nat, IsScope(scope, n), NEW entry,
         entry.kind = "lazy" => entry.first \in 1..n,
         entry.kind = "block" => /\ entry.first \in Nat \ {0} /\ entry.size \in Nat
                                 /\ entry.first + entry.size <= n + 1
  PROVE  IsScope(Append(scope, entry), n)
<1>1. PICK S : scope \in Seq(S)
  BY DEF IsScope
<1>2. scope \in Seq(S \cup {entry})
  BY <1>1
<1>3. /\ Append(scope, entry) \in Seq(S \cup {entry})
      /\ Len(Append(scope, entry)) = Len(scope) + 1
      /\ \A j \in 1..Len(scope) : Append(scope, entry)[j] = scope[j]
      /\ Append(scope, entry)[Len(scope) + 1] = entry
      /\ Len(scope) \in Nat
  BY <1>2
<1> DEFINE longer == Append(scope, entry)
<1>4. ASSUME NEW j \in 1..Len(longer)
      PROVE  /\ longer[j].kind = "lazy" => longer[j].first \in 1..n
             /\ longer[j].kind = "block" =>
                  /\ longer[j].first \in Nat \ {0} /\ longer[j].size \in Nat
                  /\ longer[j].first + longer[j].size <= n + 1
  <2>1. CASE j = Len(scope) + 1
    BY <1>3, <2>1
  <2>2. CASE j # Len(scope) + 1
    <3>1. j \in 1..Len(scope) /\ longer[j] = scope[j]
      BY <1>3, <2>2
    <3>2. QED
      BY <3>1 DEF IsScope
  <2>3. QED
    BY <2>1, <2>2
<1>5. QED
  BY <1>3, <1>4 DEF IsScope

\* A value in a scope, or two.
LEMMA ValueAdded ==
  ASSUME NEW scope, NEW n \in Nat, IsScope(scope, n)
  PROVE  /\ \A name, value : IsScope(Append(scope, Value(name, value)), n)
         /\ \A name, value, other, second :
              IsScope(scope \o <<Value(name, value), Value(other, second)>>, n)
<1>1. \A name, value : Value(name, value).kind \notin {"lazy", "block"}
  BY DEF Value
<1>2. \A s : IsScope(s, n) => \A name, value : IsScope(Append(s, Value(name, value)), n)
  BY <1>1, ScopeExtended
<1>3. ASSUME NEW name, NEW value, NEW other, NEW second
      PROVE  IsScope(scope \o <<Value(name, value), Value(other, second)>>, n)
  <2> DEFINE a == Value(name, value)
             b == Value(other, second)
  <2>1. PICK S : scope \in Seq(S)
    BY DEF IsScope
  <2> HIDE DEF a, b
  <2>2. scope \in Seq(S \cup {a, b})
    BY <2>1
  <2>3. scope \o <<a, b>> = Append(Append(scope, a), b)
    BY <2>2
  <2>4. IsScope(Append(Append(scope, a), b), n)
    BY <1>2 DEF a, b
  <2>5. QED
    BY <2>3, <2>4 DEF a, b
<1>4. QED
  BY <1>2, <1>3

-----------------------------------------------------------------------------
(* Cells *)

\* The result of a cell is set: the marking of one that no call initializes yet,
\* or any other result.
LEMMA CellSet ==
  ASSUME NEW p, NEW stack, NEW heap, Sound(p, stack, heap),
         NEW c \in 1..Len(heap), NEW r, r # NoResult \/ Idle(stack, c),
         NEW cell, IsCell(cell, p), cell.scope = heap[c].scope, cell.result = r,
         NEW other, other = [heap EXCEPT ![c] = cell]
  PROVE  /\ Sound(p, stack, other)
         /\ Len(other) = Len(heap)
         /\ \A d \in 1..Len(heap) : d # c => other[d].result = heap[d].result
<1>1. PICK S : heap \in Seq(S)
  BY DEF Sound, IsHeap
<1>2. heap \in Seq(S \cup {cell}) /\ Len(heap) \in Nat
  BY <1>1
<1>3. /\ other \in Seq(S \cup {cell})
      /\ Len(other) = Len(heap)
      /\ \A d \in 1..Len(heap) : other[d] = IF d = c THEN cell ELSE heap[d]
  BY <1>2
<1>4. \A d \in 1..Len(heap) :
        /\ other[d].scope = heap[d].scope
        /\ other[d].result = IF d = c THEN r ELSE heap[d].result
  BY <1>3
<1>5. \A d \in 1..Len(other) : IsCell(other[d], p)
  BY <1>3 DEF Sound, IsHeap
<1>6. \A n \in 0..Len(heap) : Closed(heap, n) => Closed(other, n)
  <2>1. ASSUME NEW n \in 0..Len(heap), Closed(heap, n), NEW d \in 1..n
        PROVE  IsScope(other[d].scope, n)
    <3>1. d \in 1..Len(heap)
      BY <1>2
    <3>2. QED
      BY <2>1, <3>1, <1>4 DEF Closed
  <2>2. QED
    BY <2>1 DEF Closed
<1>7. IsHeap(other, p)
  <2>1. Len(heap) \in 0..Len(heap)
    BY <1>2
  <2>2. Closed(other, Len(other))
    BY <2>1, <1>3, <1>6 DEF Sound, IsHeap
  <2>3. QED
    BY <2>2, <1>3, <1>5 DEF IsHeap
<1>8. ASSUME NEW i \in 1..Len(stack) PROVE IsCall(stack[i], p, other)
  <2>1. IsCall(stack[i], p, heap)
    BY DEF Sound
  <2>2. stack[i].base \in 0..Len(other) /\ Closed(other, stack[i].base)
    BY <2>1, <1>3, <1>6 DEF IsCall
  <2>3. ASSUME stack[i].cell # 0 PROVE other[stack[i].cell].result # NoResult
    <3>1. stack[i].cell \in 1..Len(heap)
      BY <2>1, <2>3, <1>2 DEF IsCall
    <3>2. stack[i].cell = c => r # NoResult
      BY DEF Idle
    <3>3. QED
      BY <2>1, <2>3, <3>1, <3>2, <1>4 DEF IsCall
  <2>4. QED
    BY <2>1, <2>2, <2>3 DEF IsCall
<1>9. QED
  BY <1>3, <1>4, <1>7, <1>8 DEF Sound

\* New cells, which may see each other.
LEMMA CellsAdded ==
  ASSUME NEW p, NEW stack, NEW heap, Sound(p, stack, heap),
         NEW T, NEW new \in Seq(T),
         \A k \in 1..Len(new) : /\ IsCell(new[k], p)
                                /\ IsScope(new[k].scope, Len(heap) + Len(new))
  PROVE  /\ Sound(p, stack, heap \o new)
         /\ Len(heap \o new) = Len(heap) + Len(new)
         /\ \A c \in 1..Len(heap) : (heap \o new)[c] = heap[c]
<1>1. PICK S : heap \in Seq(S)
  BY DEF Sound, IsHeap
<1> DEFINE other == heap \o new
<1>2. /\ other \in Seq(S \cup T)
      /\ Len(other) = Len(heap) + Len(new)
      /\ Len(heap) \in Nat /\ Len(new) \in Nat
      /\ \A c \in 1..Len(other) : other[c] = IF c <= Len(heap) THEN heap[c] ELSE new[c - Len(heap)]
  <2>1. heap \in Seq(S \cup T) /\ new \in Seq(S \cup T)
    BY <1>1
  <2>2. QED
    BY <2>1, ConcatProperties
<1> HIDE DEF other
<1>3. \A c \in 1..Len(heap) : c \in 1..Len(other) /\ other[c] = heap[c]
  BY <1>2
<1>4. ASSUME NEW c \in 1..Len(other)
      PROVE  IsCell(other[c], p) /\ IsScope(other[c].scope, Len(other))
  <2>1. CASE c <= Len(heap)
    <3>1. c \in 1..Len(heap) /\ other[c] = heap[c]
      BY <2>1, <1>2
    <3>2. IsCell(heap[c], p) /\ IsScope(heap[c].scope, Len(heap))
      BY <3>1 DEF Sound, IsHeap, Closed
    <3>3. IsScope(heap[c].scope, Len(other))
      BY <3>2, <1>2, ScopeGrows
    <3>4. QED
      BY <3>1, <3>2, <3>3
  <2>2. CASE ~(c <= Len(heap))
    <3>1. c - Len(heap) \in 1..Len(new) /\ other[c] = new[c - Len(heap)]
      BY <2>2, <1>2
    <3>2. QED
      BY <3>1, <1>2
  <2>3. QED
    BY <2>1, <2>2
<1>5. IsHeap(other, p)
  BY <1>2, <1>4 DEF IsHeap, Closed
<1>6. ASSUME NEW i \in 1..Len(stack) PROVE IsCall(stack[i], p, other)
  <2>1. IsCall(stack[i], p, heap)
    BY DEF Sound
  <2>2. stack[i].base \in 0..Len(heap) /\ stack[i].cell \in 0..stack[i].base
    BY <2>1 DEF IsCall
  <2>3. stack[i].base \in 0..Len(other)
    BY <2>2, <1>2
  <2>4. \A c \in 1..stack[i].base : other[c] = heap[c]
    BY <2>2, <1>2, <1>3
  <2>5. Closed(other, stack[i].base)
    BY <2>1, <2>4 DEF IsCall, Closed
  <2>6. stack[i].cell # 0 => other[stack[i].cell].result # NoResult
    BY <2>1, <2>2, <2>4 DEF IsCall
  <2>7. QED
    BY <2>1, <2>3, <2>5, <2>6 DEF IsCall
<1>7. Sound(p, stack, other)
  BY <1>5, <1>6 DEF Sound
<1>8. QED
  BY <1>2, <1>3, <1>7 DEF other

-----------------------------------------------------------------------------
(* Calls in progress *)

\* The same call with other results, its loop somewhere else.
SameCall(frame, other) ==
  /\ {"node", "scope", "cell", "base", "args", "loop"} \subseteq DOMAIN other
  /\ other.node = frame.node /\ other.scope = frame.scope
  /\ other.cell = frame.cell /\ other.base = frame.base
  /\ IsLoop(other.loop)

\* The innermost call goes on.
LEMMA CallWentOn ==
  ASSUME NEW p, NEW stack, NEW heap, Sound(p, stack, heap), IsStack(stack), stack # <<>>,
         NEW frame, SameCall(stack[Len(stack)], frame),
         NEW other, other = [stack EXCEPT ![Len(stack)] = frame]
  PROVE  /\ Sound(p, other, heap)
         /\ \A c : Idle(other, c) <=> Idle(stack, c)
<1>1. PICK S : stack \in Seq(S)
  BY DEF IsStack
<1>2. stack \in Seq(S \cup {frame}) /\ Len(stack) \in Nat \ {0}
  BY <1>1
<1>3. /\ Len(other) = Len(stack)
      /\ \A i \in 1..Len(stack) : other[i] = IF i = Len(stack) THEN frame ELSE stack[i]
  BY <1>2
<1>4. \A i \in 1..Len(stack) : other[i].base = stack[i].base /\ other[i].cell = stack[i].cell
  BY <1>3 DEF SameCall
<1>5. \A i \in 1..Len(stack) : IsCall(stack[i], p, heap)
  BY DEF Sound
<1>6. ASSUME NEW i \in 1..Len(other) PROVE IsCall(other[i], p, heap)
  BY <1>2, <1>3, <1>5 DEF IsCall, SameCall
<1>7. Nested(other)
  BY <1>3, <1>4 DEF Sound, Nested
<1>8. QED
  BY <1>3, <1>4, <1>6, <1>7 DEF Sound, Idle

\* A new call, which initializes nothing or a cell that no other does.
LEMMA CallPushed ==
  ASSUME NEW p, NEW stack, NEW heap, Sound(p, stack, heap), IsStack(stack),
         NEW frame, IsCall(frame, p, heap), frame.base = Len(heap),
         frame.cell # 0 => Idle(stack, frame.cell)
  PROVE  Sound(p, Append(stack, frame), heap)
<1>1. PICK S : stack \in Seq(S)
  BY DEF IsStack
<1> DEFINE other == Append(stack, frame)
<1>2. stack \in Seq(S \cup {frame})
  BY <1>1
<1>3. /\ Len(other) = Len(stack) + 1 /\ Len(stack) \in Nat
      /\ \A i \in 1..Len(stack) : other[i] = stack[i]
      /\ other[Len(stack) + 1] = frame
  BY <1>2
<1> HIDE DEF other
<1>4. \A i \in 1..Len(stack) : IsCall(stack[i], p, heap)
  BY DEF Sound
<1>5. ASSUME NEW i \in 1..Len(other) PROVE IsCall(other[i], p, heap)
  BY <1>3, <1>4
<1>6. ASSUME NEW i \in 1..Len(other), NEW j \in 1..Len(other), i < j
      PROVE  /\ other[i].base <= other[j].base
             /\ other[i].cell # 0 => other[i].cell # other[j].cell
  <2>1. i \in 1..Len(stack) /\ other[i] = stack[i]
    BY <1>3, <1>6
  <2>2. CASE j = Len(stack) + 1
    <3>1. other[j] = frame
      BY <1>3, <2>2
    <3>2. other[i].base <= Len(heap)
      BY <2>1, <1>4 DEF IsCall
    <3>3. stack[i].cell # 0 => stack[i].cell # frame.cell
      BY <2>1 DEF Idle
    <3>4. QED
      BY <2>1, <3>1, <3>2, <3>3
  <2>3. CASE j # Len(stack) + 1
    <3>1. j \in 1..Len(stack) /\ other[j] = stack[j]
      BY <1>3, <2>3
    <3>2. QED
      BY <2>1, <3>1, <1>6 DEF Sound, Nested
  <2>4. QED
    BY <2>2, <2>3
<1>7. Sound(p, other, heap)
  BY <1>5, <1>6 DEF Sound, Nested
<1>8. QED
  BY <1>7 DEF other

\* The innermost call returns, and the cells made since it started go.
LEMMA CallPopped ==
  ASSUME NEW p, NEW stack, NEW heap, Sound(p, stack, heap), IsStack(stack), stack # <<>>,
         NEW base, base = stack[Len(stack)].base,
         NEW cell, cell = stack[Len(stack)].cell
  PROVE  /\ Sound(p, SubSeq(stack, 1, Len(stack) - 1), SubSeq(heap, 1, base))
         /\ Len(SubSeq(heap, 1, base)) = base /\ base \in 0..Len(heap)
         /\ \A c \in 1..base : SubSeq(heap, 1, base)[c] = heap[c]
         /\ cell \in 0..base
         /\ cell # 0 => Idle(SubSeq(stack, 1, Len(stack) - 1), cell)
         /\ \A c : Idle(SubSeq(stack, 1, Len(stack) - 1), c) /\ c # cell => Idle(stack, c)
<1>1. PICK S : stack \in Seq(S)
  BY DEF IsStack
<1>2. Len(stack) \in Nat \ {0}
  BY <1>1
<1> DEFINE below == SubSeq(stack, 1, Len(stack) - 1)
           n == Len(stack) - 1
           rest == SubSeq(heap, 1, base)
<1>3. /\ Len(below) = n
      /\ \A i \in 1..n : below[i] = stack[i]
  <2> HIDE DEF n
  <2>1. n \in Nat /\ \A i \in 1..n : stack[i] \in S
    BY <1>1, <1>2 DEF n
  <2>2. /\ Len(SubSeq(stack, 1, n)) = IF 1 <= n THEN n - 1 + 1 ELSE 0
        /\ \A i \in 1..(n - 1 + 1) : SubSeq(stack, 1, n)[i] = stack[1 + i - 1]
    BY <2>1, SubSeqProperties
  <2>3. /\ Len(SubSeq(stack, 1, n)) = n
        /\ \A i \in 1..n : SubSeq(stack, 1, n)[i] = stack[i]
    BY <2>1, <2>2
  <2>4. QED
    BY <2>3 DEF n
<1>4. /\ n \in Nat /\ Len(stack) \in 1..Len(stack) /\ n < Len(stack)
      /\ \A i \in 1..n : i \in 1..Len(stack) /\ i < Len(stack)
  BY <1>2
<1>5. \A i \in 1..Len(stack) : IsCall(stack[i], p, heap)
  BY DEF Sound
<1>6. base \in 0..Len(heap) /\ cell \in 0..base /\ Closed(heap, base)
  BY <1>4, <1>5 DEF IsCall
<1>7. PICK T : heap \in Seq(T)
  BY DEF Sound, IsHeap
<1>8. /\ rest \in Seq(T)
      /\ Len(rest) = base
      /\ \A c \in 1..base : rest[c] = heap[c]
  <2>1. Len(heap) \in Nat /\ \A c \in 1..base : heap[c] \in T
    BY <1>6, <1>7
  <2>2. /\ SubSeq(heap, 1, base) \in Seq(T)
        /\ Len(SubSeq(heap, 1, base)) = IF 1 <= base THEN base - 1 + 1 ELSE 0
        /\ \A c \in 1..(base - 1 + 1) : SubSeq(heap, 1, base)[c] = heap[1 + c - 1]
    BY <2>1, <1>6, SubSeqProperties
  <2>3. QED
    BY <1>6, <2>2
<1> HIDE DEF below, n, rest
<1>9. \A c \in 1..base : c \in 1..Len(heap)
  BY <1>6, <1>7
<1>10. IsHeap(rest, p)
  <2>1. \A c \in 1..Len(rest) : IsCell(rest[c], p)
    BY <1>8, <1>9 DEF Sound, IsHeap
  <2>2. Closed(rest, Len(rest))
    BY <1>6, <1>8 DEF Closed
  <2>3. QED
    BY <1>8, <2>1, <2>2 DEF IsHeap
<1>11. \A i \in 1..n : /\ stack[i].base <= base
                       /\ stack[i].cell # 0 => stack[i].cell # cell
  BY <1>4 DEF Sound, Nested
<1>12. ASSUME NEW i \in 1..Len(below) PROVE IsCall(below[i], p, rest)
  <2>1. i \in 1..n /\ below[i] = stack[i] /\ IsCall(stack[i], p, heap)
    BY <1>3, <1>4, <1>5
  <2>2. stack[i].base \in 0..base /\ stack[i].cell \in 0..stack[i].base
    BY <2>1, <1>6, <1>11 DEF IsCall
  <2>3. \A c \in 1..stack[i].base : rest[c] = heap[c]
    BY <2>2, <1>6, <1>8
  <2>4. Closed(rest, stack[i].base)
    BY <2>1, <2>3 DEF IsCall, Closed
  <2>5. stack[i].cell # 0 => rest[stack[i].cell].result # NoResult
    BY <2>1, <2>2, <2>3 DEF IsCall
  <2>6. QED
    BY <2>1, <2>2, <2>4, <2>5, <1>8 DEF IsCall
<1>13. Nested(below)
  BY <1>3, <1>4 DEF Sound, Nested
<1>14. Sound(p, below, rest)
  BY <1>10, <1>12, <1>13 DEF Sound
<1>15. cell # 0 => Idle(below, cell)
  BY <1>3, <1>11 DEF Idle
<1>16. ASSUME NEW c, Idle(below, c), c # cell, NEW i \in 1..Len(stack) PROVE stack[i].cell # c
  <2>1. CASE i = Len(stack)
    BY <1>16, <2>1
  <2>2. CASE i # Len(stack)
    <3>1. i \in 1..n
      BY <1>2, <2>2 DEF n
    <3>2. QED
      BY <3>1, <1>3, <1>16 DEF Idle
  <2>3. QED
    BY <2>1, <2>2
<1>17. \A c : Idle(below, c) /\ c # cell => Idle(stack, c)
  BY <1>16 DEF Idle
<1>18. QED
  BY <1>6, <1>8, <1>14, <1>15, <1>17 DEF below, rest
-----------------------------------------------------------------------------
(* Calls and returns of eval with their cells *)

\* A result that is delivered goes to its cell and to no other.
LEMMA DeliveredSound ==
  ASSUME NEW stack, IsStack(stack), NEW heap, NEW left, NEW cell, NEW r,
         Sound(program, stack, heap), cell \in 0..Len(heap), cell # 0 => Idle(stack, cell),
         Deliver(stack, heap, left, cell, r)
  PROVE  /\ Sound(program, frames', cells')
         /\ Len(cells') = Len(heap)
         /\ \A c \in 1..Len(heap) : c # cell => cells'[c].result = heap[c].result
<1>1. /\ Sound(program, stack, cells')
      /\ Len(cells') = Len(heap)
      /\ \A c \in 1..Len(heap) : c # cell => cells'[c].result = heap[c].result
  <2>1. CASE cell = 0
    BY <2>1 DEF Deliver
  <2>2. CASE cell # 0
    <3>1. cells' = [heap EXCEPT ![cell].result = r]
      BY <2>2 DEF Deliver
    <3>2. cell \in 1..Len(heap)
      <4>1. Len(heap) \in Nat
        BY DEF Sound, IsHeap
      <4>2. QED
        BY <2>2, <4>1
    <3> DEFINE new == [heap[cell] EXCEPT !.result = r]
    <3>3. cells' = [heap EXCEPT ![cell] = new]
      BY <3>1
    <3>4. IsCell(heap[cell], program)
      BY <3>2 DEF Sound, IsHeap
    <3>5. IsCell(new, program) /\ new.scope = heap[cell].scope /\ new.result = r
      BY <3>4 DEF IsCell
    <3> HIDE DEF new
    <3>6. r # NoResult \/ Idle(stack, cell)
      BY <2>2
    <3>7. Sound(program, stack, cells')
      BY <3>2, <3>3, <3>5, <3>6, CellSet
    <3>8. Len(cells') = Len(heap)
      BY <3>2, <3>3, <3>5, <3>6, CellSet
    <3>9. \A d \in 1..Len(heap) : d # cell => cells'[d].result = heap[d].result
      BY <3>2, <3>3, <3>5, <3>6, CellSet
    <3>10. QED
      BY <3>7, <3>8, <3>9
  <2>3. QED
    BY <2>1, <2>2
<1>2. Sound(program, frames', cells')
  <2>1. CASE stack = <<>>
    BY <1>1, <2>1 DEF Deliver
  <2>2. CASE stack # <<>>
    <3> DEFINE frame == stack[Len(stack)]
               told == [frame EXCEPT !.args = Append(@, r)]
    <3>1. frames' = [stack EXCEPT ![Len(stack)] = told]
      BY <2>2 DEF Deliver
    <3>2. IsCall(frame, program, heap)
      <4>1. PICK S : stack \in Seq(S)
        BY DEF IsStack
      <4>2. Len(stack) \in 1..Len(stack)
        BY <2>2, <4>1
      <4>3. QED
        BY <4>2 DEF Sound
    <3>3. SameCall(frame, told)
      BY <3>2 DEF SameCall, IsCall
    <3> HIDE DEF told
    <3>4. QED
      BY <1>1, <2>2, <3>1, <3>3, CallWentOn
  <2>3. QED
    BY <2>1, <2>2
<1>3. QED
  BY <1>1, <1>2

\* A call of eval, of a stack and cells that differ from the state's by what the
\* caller has prepared.
LEMMA EvalSound ==
  ASSUME program \in Programs, depth = Len(frames), limits \in Limits, depth <= limits.max_depth,
         NEW stack, IsStack(stack), Len(stack) = Len(frames),
         NEW heap, NEW left, NEW node \in DOMAIN program, NEW scope, NEW cell,
         Sound(program, stack, heap), \A c : Idle(stack, c) <=> Idle(frames, c),
         Unmoved(frames, cells, heap),
         IsScope(scope, Len(heap)), cell \in 0..Len(heap),
         cell # 0 => /\ heap[cell].result # NoResult
                     /\ Idle(frames, cell)
                     /\ cell \in 1..Len(cells) => cells[cell].result = NoResult,
         Eval(stack, heap, left, node, scope, cell)
  PROVE  Good
<1>1. Inv'
  BY EvalCalled
<1>2. program' = program
  BY DEF Eval
<1>3. CASE left < 1 \/ TooDeep
  <2>1. PICK after, r : Deliver(stack, heap, after, cell, r)
    BY <1>3 DEF Eval
  <2>2. /\ Sound(program, frames', cells')
        /\ Len(cells') = Len(heap)
        /\ \A c \in 1..Len(heap) : c # cell => cells'[c].result = heap[c].result
    BY <2>1, DeliveredSound
  <2>3. Unmoved(frames, cells, cells')
    BY <2>2 DEF Unmoved
  <2>4. QED
    BY <1>1, <1>2, <2>2, <2>3 DEF Good, ScopeInv
<1>4. CASE ~(left < 1) /\ ~TooDeep
  <2> DEFINE frame == NewFrame(node, scope, cell, Len(heap))
  <2>1. frames' = Append(stack, frame) /\ cells' = heap
    BY <1>4 DEF Eval
  <2>2. Len(heap) \in 0..Len(heap) /\ Closed(heap, Len(heap))
    <3>1. Len(heap) \in Nat
      BY DEF Sound, IsHeap
    <3>2. QED
      BY <3>1 DEF Sound, IsHeap
  <2>3. /\ {"node", "scope", "cell", "base", "args", "loop"} \subseteq DOMAIN frame
        /\ frame.node = node /\ frame.scope = scope /\ frame.cell = cell
        /\ frame.base = Len(heap) /\ IsLoop(frame.loop)
    BY DEF NewFrame, LoopStart, IsLoop
  <2> HIDE DEF frame
  <2>4. IsCall(frame, program, heap)
    BY <2>2, <2>3 DEF IsCall
  <2>5. Sound(program, frames', cells')
    BY <2>1, <2>3, <2>4, CallPushed
  <2>6. QED
    BY <1>1, <1>2, <2>1, <2>5 DEF Good, ScopeInv
<1>5. QED
  BY <1>3, <1>4

\* What is known of the innermost call.
LEMMA TopCall ==
  ASSUME ScopeInv, frames # <<>>
  PROVE  /\ IsCall(Top, program, cells)
         /\ Len(cells) \in Nat
         /\ IsScope(Top.scope, Len(cells))
<1>1. PICK S : frames \in Seq(S)
  BY DEF ScopeInv, Inv, IsStack
<1>2. Len(frames) \in 1..Len(frames)
  BY <1>1
<1>3. IsCall(Top, program, cells)
  BY <1>2 DEF ScopeInv, Sound, Top
<1>4. Len(cells) \in Nat
  BY DEF ScopeInv, Sound, IsHeap
<1>5. IsScope(Top.scope, Len(cells))
  BY <1>3, <1>4, ScopeGrows DEF IsCall
<1>6. QED
  BY <1>3, <1>4, <1>5

\* A return: the cells made by the call are gone, and the one it initializes is
\* the only one of the others that is touched.
LEMMA ReturnedSound ==
  ASSUME ScopeInv, frames # <<>>, NEW left, NEW r, FinishAt(left, r)
  PROVE  Good
<1> DEFINE rest == SubSeq(cells, 1, Top.base)
<1>1. Inv'
  BY Returned DEF ScopeInv
<1>2. program' = program /\ Deliver(Below, rest, left, Top.cell, r)
  BY DEF FinishAt
<1>3. IsStack(Below)
  BY Popped DEF ScopeInv, Inv, Below
<1>4. /\ Sound(program, Below, rest)
      /\ Len(rest) = Top.base /\ Top.base \in 0..Len(cells)
      /\ \A c \in 1..Top.base : rest[c] = cells[c]
      /\ Top.cell \in 0..Top.base
      /\ Top.cell # 0 => Idle(Below, Top.cell)
  BY CallPopped DEF ScopeInv, Inv, Below, Top
<1> HIDE DEF rest
<1>5. /\ Sound(program, frames', cells')
      /\ Len(cells') = Len(rest)
      /\ \A c \in 1..Len(rest) : c # Top.cell => cells'[c].result = rest[c].result
  BY <1>2, <1>3, <1>4, DeliveredSound
<1>6. \A c : Idle(frames, c) => c # Top.cell
  <2>1. PICK S : frames \in Seq(S)
    BY DEF ScopeInv, Inv, IsStack
  <2>2. Len(frames) \in 1..Len(frames)
    BY <2>1
  <2>3. QED
    BY <2>2 DEF Idle, Top
<1>7. Unmoved(frames, cells, cells')
  BY <1>4, <1>5, <1>6 DEF Unmoved
<1>8. QED
  BY <1>1, <1>2, <1>5, <1>7 DEF Good, ScopeInv

\* The other ways to go on, for nodes of the program and scopes of live cells.
LEMMA SoundWentOn ==
  ASSUME ScopeInv, frames # <<>>
  PROVE  /\ \A left, r : FinishAt(left, r) => Good
         /\ \A r : Finish(r) => Good
         /\ \A cost, r : FinishFor(cost, r) => Good
         /\ \A effects : FinishWith(effects) => Good
         /\ \A left, node, scope :
              /\ node \in DOMAIN program /\ IsScope(scope, Len(cells))
              /\ Eval(frames, cells, left, node, scope, 0)
              => Good
         /\ \A node : node \in DOMAIN program /\ Child(node) => Good
         /\ \A node, left, name, value :
              node \in DOMAIN program /\ ChildWith(node, left, name, value) => Good
         /\ \A left, c : c \in 1..Len(cells) /\ ForceBinding(left, c) => Good
         /\ \A left, loop, args : IsArgs(args) /\ IsLoop(loop) /\ Continue(left, loop, args) => Good
<1>1. \A left, r : FinishAt(left, r) => Good
  BY ReturnedSound
<1>2. \A r : Finish(r) => Good
  BY <1>1 DEF Finish
<1>3. \A cost, r : FinishFor(cost, r) => Good
  BY <1>1, <1>2 DEF FinishFor
<1>4. \A effects : FinishWith(effects) => Good
  BY <1>3 DEF FinishWith
<1>5. /\ program \in Programs /\ depth = Len(frames) /\ IsStack(frames)
      /\ limits \in Limits /\ depth <= limits.max_depth
      /\ Sound(program, frames, cells)
      /\ Len(cells) \in Nat /\ IsScope(Top.scope, Len(cells))
  BY TopCall DEF ScopeInv, Inv
<1>6. ASSUME NEW left, NEW node \in DOMAIN program, NEW scope, IsScope(scope, Len(cells)),
             Eval(frames, cells, left, node, scope, 0)
      PROVE  Good
  <2>1. Unmoved(frames, cells, cells) /\ 0 \in 0..Len(cells)
    BY <1>5 DEF Unmoved
  <2>2. QED
    BY <1>5, <1>6, <2>1, EvalSound
<1>7. ASSUME NEW node \in DOMAIN program, Child(node) PROVE Good
  BY <1>5, <1>6, <1>7 DEF Child
<1>8. ASSUME NEW node \in DOMAIN program, NEW left, NEW name, NEW value,
             ChildWith(node, left, name, value)
      PROVE  Good
  <2>1. IsScope(Append(Top.scope, Value(name, value)), Len(cells))
    BY <1>5, ValueAdded
  <2>2. QED
    BY <1>6, <1>8, <2>1 DEF ChildWith
<1>9. ASSUME NEW left, NEW c \in 1..Len(cells), ForceBinding(left, c) PROVE Good
  <2>1. CASE cells[c].result # NoResult
    BY <1>1, <1>9, <2>1 DEF ForceBinding
  <2>2. CASE cells[c].result = NoResult
    <3> DEFINE marked == [cells[c] EXCEPT !.result = Error("UndeclaredReference")]
               heap == [cells EXCEPT ![c] = marked]
    <3>1. Eval(frames, heap, left, cells[c].initializer, cells[c].scope, c)
      BY <1>9, <2>2 DEF ForceBinding
    <3>2. IsCell(cells[c], program) /\ IsScope(cells[c].scope, Len(cells))
      BY <1>5 DEF Sound, IsHeap, Closed
    <3>3. /\ IsCell(marked, program) /\ marked.scope = cells[c].scope
          /\ marked.result = Error("UndeclaredReference")
      BY <3>2 DEF IsCell
    <3>4. Error("UndeclaredReference") # NoResult
      BY DEF Error, NoResult
    <3>5. Idle(frames, c)
      <4>1. \A i \in 1..Len(frames) : IsCall(frames[i], program, cells)
        BY <1>5 DEF Sound
      <4>2. QED
        BY <1>5, <2>2, <4>1 DEF Idle, IsCall
    <3>6. heap[c] = marked
      <4>1. c \in DOMAIN cells
        BY <1>5 DEF Sound, IsHeap
      <4>2. QED
        BY <4>1
    <3> HIDE DEF marked
    <3>7. Sound(program, frames, heap)
      BY <1>5, <3>3, <3>4, CellSet
    <3>8. Len(heap) = Len(cells)
      BY <1>5, <3>3, <3>4, CellSet
    <3>9. \A d \in 1..Len(cells) : d # c => heap[d].result = cells[d].result
      BY <1>5, <3>3, <3>4, CellSet
    <3> HIDE DEF heap
    <3>10. Unmoved(frames, cells, heap)
      BY <2>2, <3>8, <3>9 DEF Unmoved
    <3>11. c \in 0..Len(heap) /\ c \in 1..Len(cells)
      BY <3>8, <1>5
    <3>12. cells[c].initializer \in DOMAIN program /\ IsScope(cells[c].scope, Len(heap))
      BY <3>2, <3>8 DEF IsCell
    <3>13. heap[c].result # NoResult
      BY <3>3, <3>4, <3>6
    <3>14. QED
      BY <1>5, <2>2, <3>1, <3>5, <3>7, <3>10, <3>11, <3>12, <3>13, EvalSound
  <2>3. QED
    BY <2>1, <2>2
<1>10. ASSUME NEW left, NEW loop, NEW args, IsArgs(args), IsLoop(loop), Continue(left, loop, args)
       PROVE  Good
  <2> DEFINE frame == [Top EXCEPT !.args = args, !.loop = loop]
  <2>1. /\ frames' = [frames EXCEPT ![Len(frames)] = frame]
        /\ program' = program /\ cells' = cells
    BY <1>10 DEF Continue, WithTop
  <2>2. SameCall(Top, frame)
    BY <1>10, TopCall DEF SameCall, IsCall
  <2> HIDE DEF frame
  <2>3. Sound(program, frames', cells)
    BY <1>5, <2>1, <2>2, CallWentOn DEF Top
  <2>4. Inv'
    BY <1>10, WentOn DEF ScopeInv
  <2>5. Unmoved(frames, cells, cells')
    BY <2>1 DEF Unmoved
  <2>6. QED
    BY <1>5, <2>1, <2>3, <2>4, <2>5 DEF Good, ScopeInv
<1>11. QED
  BY <1>1, <1>2, <1>3, <1>4, <1>6, <1>7, <1>8, <1>9, <1>10

-----------------------------------------------------------------------------
(* Steps *)

\* What is known of the node and the results of the innermost call.
LEMMA TopNode ==
  ASSUME ScopeInv, frames # <<>>
  PROVE  /\ Top.node \in DOMAIN program
         /\ NodeIn(Node, DOMAIN program)
         /\ IsLoop(Loop)
         /\ Len(Args) \in Nat
<1>1. IsCall(Top, program, cells)
  BY TopCall
<1>2. Top.node \in DOMAIN program /\ IsLoop(Loop)
  BY <1>1 DEF IsCall, Loop
<1>3. WellFormed(program)
  BY ProgramsAssumption DEF ScopeInv
<1>4. NodeIn(Node, DOMAIN program)
  BY <1>2, <1>3 DEF WellFormed, Node
<1>5. IsArgs(Args)
  <2>1. PICK S : frames \in Seq(S)
    BY DEF ScopeInv, Inv, IsStack
  <2>2. Len(frames) \in 1..Len(frames)
    BY <2>1
  <2>3. QED
    BY <2>2 DEF ScopeInv, Inv, IsStack, IsFrame, Args, Top
<1>6. Len(Args) \in Nat
  BY <1>5 DEF IsArgs
<1>7. QED
  BY <1>2, <1>4, <1>6

\* A loop that goes on, in whatever state.
LEMMA LoopWentOn ==
  ASSUME NEW loop, IsLoop(loop)
  PROVE  /\ IsLoop(NextItem(loop))
         /\ \A x : /\ IsLoop(NextItem([loop EXCEPT !.out = x]))
                   /\ IsLoop(NextItem([loop EXCEPT !.saved = x]))
         /\ LET counted == [loop EXCEPT !.matches = @ + 1]
            IN  /\ IsLoop(NextItem(counted))
                /\ IsLoop([counted EXCEPT !.transforming = TRUE])
                /\ \A x : IsLoop(NextItem([counted EXCEPT !.out = x]))
<1>1. ASSUME NEW other, IsLoop(other) PROVE IsLoop(NextItem(other))
  BY <1>1 DEF IsLoop, NextItem
<1>2. ASSUME NEW other, IsLoop(other)
      PROVE  /\ \A x : IsLoop([other EXCEPT !.out = x]) /\ IsLoop([other EXCEPT !.saved = x])
             /\ IsLoop([other EXCEPT !.matches = @ + 1])
             /\ IsLoop([other EXCEPT !.transforming = TRUE])
  BY <1>2 DEF IsLoop
<1>3. QED
  BY <1>1, <1>2

\* A body that sees new cells.
LEMMA CellsMade ==
  ASSUME ScopeInv, frames # <<>>,
         NEW T, NEW new \in Seq(T),
         \A k \in 1..Len(new) : /\ IsCell(new[k], program)
                                /\ IsScope(new[k].scope, Len(cells) + Len(new)),
         NEW left, NEW node \in DOMAIN program,
         NEW scope, IsScope(scope, Len(cells) + Len(new)),
         Eval(frames, cells \o new, left, node, scope, 0)
  PROVE  Good
<1> DEFINE heap == cells \o new
<1>1. /\ Sound(program, frames, heap)
      /\ Len(heap) = Len(cells) + Len(new)
      /\ \A c \in 1..Len(cells) : heap[c] = cells[c]
  BY CellsAdded DEF ScopeInv
<1>2. Eval(frames, heap, left, node, scope, 0)
  OBVIOUS
<1>3. Len(cells) \in Nat /\ Len(new) \in Nat
  BY TopCall
<1> HIDE DEF heap
<1>4. Unmoved(frames, cells, heap)
  BY <1>1 DEF Unmoved
<1>5. 0 \in 0..Len(heap) /\ IsScope(scope, Len(heap))
  BY <1>1, <1>3
<1>6. /\ program \in Programs /\ depth = Len(frames) /\ IsStack(frames)
      /\ limits \in Limits /\ depth <= limits.max_depth
  BY DEF ScopeInv, Inv
<1>7. QED
  BY <1>1, <1>2, <1>4, <1>5, <1>6, EvalSound

\* cel.bind
LEMMA LocalBindSound ==
  ASSUME ScopeInv, LocalBind
  PROVE  Good
<1>1. frames # <<>> /\ Node.op = "local_bind"
  BY DEF LocalBind, Running
<1>2. CASE Args # <<>>
  BY <1>1, <1>2, SoundWentOn DEF LocalBind
<1>3. CASE Args = <<>>
  <2> DEFINE cell == NewCell(Node.initializer, Top.scope)
             new == <<cell>>
             entry == Lazy(Node.name, Len(cells) + 1)
             scope == Append(Top.scope, entry)
  <2>1. Node.initializer \in DOMAIN program /\ Node.body \in DOMAIN program
    BY <1>1, TopNode DEF NodeIn
  <2>2. Len(cells) \in Nat /\ IsScope(Top.scope, Len(cells)) /\ \E S : cells \in Seq(S)
    BY <1>1, TopCall DEF ScopeInv, Sound, IsHeap
  <2>3. IsScope(Top.scope, Len(cells) + 1)
    BY <2>2, ScopeGrows
  <2>4. IsCell(cell, program) /\ cell.scope = Top.scope
    BY <2>1 DEF NewCell, IsCell
  <2>5. IsScope(scope, Len(cells) + 1)
    <3>1. entry.kind = "lazy" /\ entry.first \in 1..(Len(cells) + 1)
      BY <2>2 DEF Lazy
    <3> HIDE DEF entry
    <3>2. QED
      BY <2>2, <2>3, <3>1, ScopeExtended
  <2>6. Eval(frames, Append(cells, cell), remaining, Node.body, scope, 0)
    BY <1>3 DEF LocalBind
  <2> HIDE DEF cell, scope
  <2>7. new \in Seq({cell}) /\ Len(new) = 1 /\ new[1] = cell
    OBVIOUS
  <2>8. Append(cells, cell) = cells \o new
    BY <2>2
  <2>9. \A k \in 1..Len(new) : IsCell(new[k], program) /\ IsScope(new[k].scope, Len(cells) + Len(new))
    BY <2>3, <2>4, <2>7
  <2> HIDE DEF new
  <2>10. Eval(frames, cells \o new, remaining, Node.body, scope, 0)
    BY <2>6, <2>8
  <2>11. IsScope(scope, Len(cells) + Len(new))
    BY <2>5, <2>7
  <2>12. QED
    BY <1>1, <2>1, <2>7, <2>9, <2>10, <2>11, CellsMade
<1>4. QED
  BY <1>2, <1>3

\* cel.block
LEMMA BlockBodySound ==
  ASSUME ScopeInv, BlockBody
  PROVE  Good
<1>1. frames # <<>> /\ Node.op = "block"
  BY DEF BlockBody, Running
<1> DEFINE n == Len(Node.slots)
           entry == Block(Len(cells) + 1, n)
           local == Append(Top.scope, entry)
           new == [i \in 1..n |-> NewCell(Node.slots[i], local)]
<1>2. CASE Args # <<>>
  BY <1>1, <1>2, SoundWentOn DEF BlockBody
<1>3. CASE Args = <<>> /\ (n > limits.max_collection_size \/ n > remaining)
  BY <1>1, <1>3, SoundWentOn DEF BlockBody
<1>4. CASE Args = <<>> /\ ~(n > limits.max_collection_size \/ n > remaining)
  <2>1. Node.slots \in Seq(DOMAIN program) /\ Node.body \in DOMAIN program
    BY <1>1, TopNode DEF NodeIn
  <2>2. n \in Nat /\ \A i \in 1..n : Node.slots[i] \in DOMAIN program
    BY <2>1
  <2>3. Len(cells) \in Nat /\ IsScope(Top.scope, Len(cells))
    BY <1>1, TopCall
  <2>4. Eval(frames, cells \o new, remaining - n, Node.body, local, 0)
    BY <1>4 DEF BlockBody
  <2>5. IsScope(local, Len(cells) + n)
    <3>1. /\ entry.kind = "block" /\ entry.first = Len(cells) + 1 /\ entry.size = n
      BY DEF Block
    <3> HIDE DEF entry, n
    <3>2. IsScope(Top.scope, Len(cells) + n)
      BY <2>2, <2>3, ScopeGrows
    <3>3. /\ entry.first \in Nat \ {0} /\ entry.size \in Nat
          /\ entry.first + entry.size <= Len(cells) + n + 1
          /\ Len(cells) + n \in Nat
      BY <2>2, <2>3, <3>1
    <3>4. QED
      BY <3>1, <3>2, <3>3, ScopeExtended
  <2> HIDE DEF n, local
  <2>6. \A i \in 1..n : /\ new[i] = NewCell(Node.slots[i], local)
                        /\ IsCell(new[i], program) /\ new[i].scope = local
    BY <2>2 DEF NewCell, IsCell
  <2> DEFINE T == {new[i] : i \in 1..n}
  <2>7. new \in Seq(T) /\ Len(new) = n
    BY <2>2
  <2> HIDE DEF new, T
  <2>8. QED
    BY <1>1, <2>1, <2>4, <2>5, <2>6, <2>7, CellsMade
<1>5. QED
  BY <1>2, <1>3, <1>4

\* The variables of an element join the scope.
LEMMA LoopScopeSound ==
  ASSUME ScopeInv, frames # <<>>
  PROVE  IsScope(LoopScope, Len(cells))
BY TopCall, ValueAdded DEF LoopScope

\* An element that matches.
LEMMA MatchSound ==
  ASSUME ScopeInv, frames # <<>>, Node.op = "comprehension", NEW left, Match(left)
  PROVE  Good
<1> DEFINE counted == [Loop EXCEPT !.matches = @ + 1]
<1>1. CASE Node.kind \in Building /\ ~(Node.kind = "list" /\ Len(Loop.out) >= Size) /\ Node.transform # 0
  <2> DEFINE loop == [counted EXCEPT !.transforming = TRUE]
             frame == [Top EXCEPT !.args = <<Args[1]>>, !.loop = loop]
             stack == [frames EXCEPT ![Len(frames)] = frame]
  <2>1. Eval(stack, cells, left, Node.transform, LoopScope, 0)
    BY <1>1 DEF Match, WithTop
  <2>2. IsLoop(loop)
    BY TopNode, LoopWentOn
  <2> HIDE DEF loop
  <2>3. IsFrame(Top)
    BY DEF ScopeInv, Inv, IsStack, Top
  <2>4. IsFrame(frame)
    BY <2>3, SomeArgs, FrameUpdates
  <2>5. SameCall(Top, frame)
    BY <2>2, TopCall DEF SameCall, IsCall
  <2> HIDE DEF frame
  <2>6. IsStack(stack) /\ Len(stack) = Len(frames)
    BY <2>4, Replaced DEF ScopeInv, Inv
  <2>7. IsStack(frames) /\ Sound(program, frames, cells) /\ SameCall(frames[Len(frames)], frame)
    BY <2>5 DEF ScopeInv, Inv, Top
  <2>8. Sound(program, stack, cells)
    BY <2>7, CallWentOn
  <2>9. \A c : Idle(stack, c) <=> Idle(frames, c)
    BY <2>7, CallWentOn
  <2> HIDE DEF stack
  <2>10. Node.transform \in DOMAIN program
    BY <1>1, TopNode DEF NodeIn
  <2>11. Len(cells) \in Nat /\ 0 \in 0..Len(cells) /\ Unmoved(frames, cells, cells)
    BY TopCall DEF Unmoved
  <2>12. /\ program \in Programs /\ depth = Len(frames)
         /\ limits \in Limits /\ depth <= limits.max_depth
    BY DEF ScopeInv, Inv
  <2>13. QED
    BY <2>1, <2>6, <2>8, <2>9, <2>10, <2>11, <2>12, LoopScopeSound, EvalSound
<1>2. CASE ~(Node.kind \in Building /\ ~(Node.kind = "list" /\ Len(Loop.out) >= Size) /\ Node.transform # 0)
  <2>1. \A r : FinishAt(left, r) => Good
    BY SoundWentOn
  <2>2. \A loop : IsLoop(loop) /\ NextElement(left, loop) => Good
    BY SoundWentOn, SomeArgs DEF NextElement
  <2>3. IsLoop(NextItem(counted)) /\ \A x : IsLoop(NextItem([counted EXCEPT !.out = x]))
    BY TopNode, LoopWentOn
  <2>4. QED
    BY <1>2, <2>1, <2>2, <2>3 DEF Match
<1>3. QED
  BY <1>1, <1>2

\* Entries that join a map.
LEMMA JoinMapSound ==
  ASSUME ScopeInv, frames # <<>>, NEW new, NEW args, IsArgs(args), JoinMap(new, args)
  PROVE  Good
<1>1. PICK map : IF map.cost > remaining \/ map.result # NoResult THEN FinishFor(map.cost, map.result)
                 ELSE Continue(remaining - map.cost, NextItem([Loop EXCEPT !.out = map.entries]), args)
  BY DEF JoinMap
<1>2. IsLoop(NextItem([Loop EXCEPT !.out = map.entries]))
  BY TopNode, LoopWentOn
<1>3. QED
  BY <1>1, <1>2, SoundWentOn

\* Every step keeps the invariant and the results of the bindings that no call
\* initializes.
LEMMA StepIsGood ==
  ASSUME ScopeInv, [Next]_vars
  PROVE  Good
<1>1. CASE UNCHANGED vars
  BY <1>1 DEF vars, Good, ScopeInv, Inv, Unmoved
<1>2. CASE Start
  <2>1. IsScope(<<>>, Len(cells))
    <3>1. <<>> \in Seq({}) /\ Len(<<>>) = 0
      OBVIOUS
    <3>2. QED
      BY <3>1 DEF IsScope
  <2>2. 1 \in DOMAIN program
    BY ProgramsAssumption DEF ScopeInv, WellFormed
  <2>3. Len(cells) \in Nat /\ 0 \in 0..Len(cells) /\ Unmoved(frames, cells, cells)
    BY DEF ScopeInv, Sound, IsHeap, Unmoved
  <2>4. Eval(frames, cells, remaining, 1, <<>>, 0)
    BY <1>2 DEF Start
  <2>5. /\ program \in Programs /\ depth = Len(frames) /\ IsStack(frames)
        /\ limits \in Limits /\ depth <= limits.max_depth
        /\ Sound(program, frames, cells)
    BY DEF ScopeInv, Inv
  <2>6. QED
    BY <2>1, <2>2, <2>3, <2>4, <2>5, EvalSound
<1>3. ASSUME frames # <<>>, Next PROVE Good
  <2> DEFINE nodes == DOMAIN program
  <2> USE <1>3, SoundWentOn
  <2>0. NodeIn(Node, nodes) /\ IsLoop(Loop) /\ Len(Args) \in Nat
    BY TopNode
  <2>1. CASE Propagate
    BY <2>1 DEF Propagate
  <2>2. CASE Literal
    BY <2>2 DEF Literal
  <2>3. CASE Variable
    BY <2>3 DEF Variable
  <2>4. CASE LocalIdent
    <3>1. PICK j \in Innermost(Matches(Node.name)) :
            IF WalkCost(j) > remaining
            THEN Finish(Error("CostLimitExceeded"))
            ELSE IF Top.scope[j].kind = "lazy"
            THEN ForceBinding(remaining - WalkCost(j), Top.scope[j].first)
            ELSE FinishAt(remaining - WalkCost(j), Top.scope[j].value)
      BY <2>4 DEF LocalIdent
    <3>2. IsScope(Top.scope, Len(cells))
      BY TopCall
    <3>3. j \in 1..Len(Top.scope)
      BY <3>2 DEF Innermost, Matches, IsScope
    <3>4. Top.scope[j].kind = "lazy" => Top.scope[j].first \in 1..Len(cells)
      BY <3>2, <3>3 DEF IsScope
    <3>5. QED
      BY <3>1, <3>4
  <2>5. CASE GlobalIdent
    BY <2>5 DEF GlobalIdent
  <2>6. CASE BlockIndex
    <3>1. CASE Blocks = {}
      BY <2>6, <3>1 DEF BlockIndex, Innermost
    <3>2. CASE Blocks # {}
      <4>1. PICK j \in Innermost(Blocks) :
              LET block == Top.scope[j]
                  cost == Len(Top.scope) - j + 1
              IN  IF cost > remaining
                  THEN Finish(Error("CostLimitExceeded"))
                  ELSE IF Node.index >= block.size
                  THEN FinishAt(remaining - cost, Error("UndeclaredReference"))
                  ELSE ForceBinding(remaining - cost, block.first + Node.index)
        BY <2>6, <3>2 DEF BlockIndex
      <4>2. IsScope(Top.scope, Len(cells)) /\ Len(cells) \in Nat
        BY TopCall
      <4>3. j \in 1..Len(Top.scope) /\ Top.scope[j].kind = "block"
        BY <4>2 DEF Innermost, Blocks, IsScope
      <4>4. /\ Top.scope[j].first \in Nat \ {0} /\ Top.scope[j].size \in Nat
            /\ Top.scope[j].first + Top.scope[j].size <= Len(cells) + 1
        BY <4>2, <4>3 DEF IsScope
      <4>5. Node.index \in Nat
        BY <2>0, <2>6 DEF BlockIndex, Running, NodeIn
      <4>6. ~(Node.index >= Top.scope[j].size) => Top.scope[j].first + Node.index \in 1..Len(cells)
        BY <4>2, <4>4, <4>5
      <4>7. QED
        BY <4>1, <4>6
    <3>3. QED
      BY <3>1, <3>2
  <2>7. CASE Forced
    BY <2>7 DEF Forced
  <2>8. CASE Operand
    <3>1. Node.args \in Seq(nodes) /\ Len(Args) < Len(Node.args)
      BY <2>0, <2>8 DEF Operand, Running, Strict, NodeIn
    <3>2. Node.args[Len(Args) + 1] \in nodes
      BY <2>0, <3>1
    <3>3. IsScope(Top.scope, Len(cells))
      BY TopCall
    <3>4. QED
      BY <2>8, <3>2, <3>3 DEF Operand
  <2>9. CASE Apply
    BY <2>9 DEF Apply
  <2>10. CASE OrElse
    <3>1. {Node.target, Node.fallback} \subseteq nodes
      BY <2>0, <2>10 DEF OrElse, Running, NodeIn
    <3>2. QED
      BY <2>10, <3>1 DEF OrElse
  <2>11. CASE LogicOperand
    <3>1. {Node.left, Node.right} \subseteq nodes
      BY <2>0, <2>11 DEF LogicOperand, Running, NodeIn
    <3>2. QED
      BY <2>11, <3>1 DEF LogicOperand
  <2>12. CASE LogicResult
    BY <2>12 DEF LogicResult
  <2>13. CASE Conditional
    <3>1. {Node.condition, Node.yes, Node.no} \subseteq nodes
      BY <2>0, <2>13 DEF Conditional, Running, NodeIn
    <3>2. QED
      BY <2>13, <3>1 DEF Conditional
  <2>14. CASE OptionalMap
    <3>1. {Node.target, Node.body} \subseteq nodes
      BY <2>0, <2>14 DEF OptionalMap, Running, NodeIn
    <3>2. QED
      BY <2>14, <3>1 DEF OptionalMap
  <2>15. CASE Index
    <3>1. {Node.target, Node.key} \subseteq nodes
      BY <2>0, <2>15 DEF Index, Running, NodeIn
    <3>2. QED
      BY <2>15, <3>1 DEF Index
  <2>16. CASE Select
    <3>1. Node.target \in nodes
      BY <2>0, <2>16 DEF Select, Running, NodeIn
    <3>2. QED
      BY <2>16, <3>1 DEF Select
  <2>17. CASE ItemStart
    <3>1. Node.op \in {"list", "map"} /\ Loop.i < Len(Node.items)
      BY <2>17 DEF ItemStart, Running, Literals
    <3>2. Loop.i + 1 \in 1..Len(Node.items)
      BY <2>0, <3>1 DEF IsLoop, NodeIn
    <3>3. Entry.value \in nodes /\ (Node.op = "map" => Entry.key \in nodes)
      BY <2>0, <3>1, <3>2 DEF NodeIn, Entry, Literals
    <3>4. QED
      BY <2>17, <3>3 DEF ItemStart
  <2>18. CASE MapValue
    <3>1. Node.op = "map" /\ Loop.i < Len(Node.items)
      BY <2>18 DEF MapValue, Running, Literals
    <3>2. Loop.i + 1 \in 1..Len(Node.items)
      BY <2>0, <3>1 DEF IsLoop, NodeIn
    <3>3. Entry.value \in nodes
      BY <2>0, <3>1, <3>2 DEF NodeIn, Entry, Literals
    <3>4. QED
      BY <2>18, <3>3 DEF MapValue
  <2>19. CASE ItemDone
    <3>1. \A r : Collect(r) => Good
      <4>1. \A x : IsLoop(NextItem([Loop EXCEPT !.out = x]))
        BY <2>0, LoopWentOn
      <4>2. QED
        BY <4>1, SomeArgs, JoinMapSound DEF Collect
    <3>2. IsLoop(NextItem(Loop))
      BY <2>0, LoopWentOn
    <3>3. QED
      BY <2>19, <3>1, <3>2, SomeArgs DEF ItemDone
  <2>20. CASE Collected
    BY <2>20 DEF Collected
  <2>21. CASE SortTarget
    <3>1. {Node.target, Node.body} \subseteq nodes
      BY <2>0, <2>21 DEF SortTarget, Running, NodeIn
    <3>2. QED
      BY <2>21, <3>1 DEF SortTarget
  <2>22. CASE SortKey
    <3>1. {Node.target, Node.body} \subseteq nodes
      BY <2>0, <2>22 DEF SortKey, Running, NodeIn
    <3>2. QED
      BY <2>22, <3>1 DEF SortKey
  <2>23. CASE SortKeyDone
    <3>1. \A x : IsLoop(NextItem([Loop EXCEPT !.out = x]))
      BY <2>0, LoopWentOn
    <3>2. QED
      BY <2>23, <3>1, SomeArgs DEF SortKeyDone
  <2>24. CASE SortDone
    BY <2>24 DEF SortDone
  <2>25. CASE LocalBind
    BY <2>25, LocalBindSound
  <2>26. CASE BlockBody
    BY <2>26, BlockBodySound
  <2>27. CASE ComprehensionTarget
    <3>1. Node.target \in nodes
      BY <2>0, <2>27 DEF ComprehensionTarget, Running, NodeIn
    <3>2. QED
      BY <2>27, <3>1 DEF ComprehensionTarget
  <2>28. ASSUME InLoop
         PROVE  /\ Node.op = "comprehension"
                /\ Node.predicate # 0 => Node.predicate \in nodes
                /\ IsScope(LoopScope, Len(cells))
                /\ \A left : Match(left) => Good
                /\ \A left, loop : IsLoop(loop) /\ NextElement(left, loop) => Good
    <3>1. Node.op = "comprehension"
      BY <2>28 DEF InLoop, Running
    <3>2. Node.predicate # 0 => Node.predicate \in nodes
      BY <2>0, <3>1 DEF NodeIn
    <3>3. IsScope(LoopScope, Len(cells))
      BY LoopScopeSound
    <3>4. \A left : Match(left) => Good
      BY <3>1, MatchSound
    <3>5. \A left, loop : IsLoop(loop) /\ NextElement(left, loop) => Good
      BY SomeArgs DEF NextElement
    <3>6. QED
      BY <3>1, <3>2, <3>3, <3>4, <3>5
  <2>29. CASE Element
    BY <2>28, <2>29 DEF Element
  <2>30. CASE Predicate
    <3>1. IsLoop(NextItem(Loop)) /\ \A x : IsLoop(NextItem([Loop EXCEPT !.saved = x]))
      BY <2>0, LoopWentOn
    <3>2. QED
      BY <2>28, <2>30, <3>1 DEF Predicate
  <2>31. CASE Transformed
    <3>1. \A x : IsLoop(NextItem([Loop EXCEPT !.out = x]))
      BY <2>0, LoopWentOn
    <3>2. \A new : JoinMap(new, <<Args[1]>>) => Good
      BY JoinMapSound, SomeArgs
    <3>3. QED
      BY <2>28, <2>31, <3>1, <3>2 DEF Transformed
  <2>32. CASE Exhausted
    BY <2>32 DEF Exhausted
  <2>33. ~Start
    BY DEF Start
  <2>34. QED
    BY <2>1, <2>2, <2>3, <2>4, <2>5, <2>6, <2>7, <2>8, <2>9, <2>10, <2>11, <2>12, <2>13, <2>14,
       <2>15, <2>16, <2>17, <2>18, <2>19, <2>20, <2>21, <2>22, <2>23, <2>24, <2>25, <2>26, <2>27,
       <2>29, <2>30, <2>31, <2>32, <2>33 DEF Next
<1>4. CASE frames = <<>> /\ Next /\ ~Start
  BY <1>4 DEF Next, Propagate, Literal, Variable, LocalIdent, GlobalIdent, BlockIndex, Forced,
     Operand, Apply, OrElse, LogicOperand, LogicResult, Conditional, OptionalMap, Index, Select,
     ItemStart, MapValue, ItemDone, Collected, SortTarget, SortKey, SortKeyDone, SortDone,
     LocalBind, BlockBody, ComprehensionTarget, Element, Predicate, Transformed, Exhausted,
     InLoop, Running
<1>5. QED
  BY <1>1, <1>2, <1>3, <1>4

\* Initially there are no cells.
LEMMA InitScope == Init => ScopeInv
<1>1. <<>> \in Seq({}) /\ Len(<<>>) = 0 /\ 1..0 = {}
  OBVIOUS
<1>2. \A p : Sound(p, <<>>, <<>>)
  BY <1>1 DEF Sound, IsHeap, Closed, Nested
<1>3. QED
  BY <1>2, InitInv DEF Init, ScopeInv

\* A binding and a block's slot are initialized at most once, whatever refers to
\* what, and their results stay while the binding lives (force).
THEOREM BindingsAreInitializedOnce == Spec => InitializedOnce
<1> DEFINE Once ==
  /\ \A i, j \in DOMAIN frames :
       frames[i].cell # 0 /\ frames[i].cell = frames[j].cell => i = j
  /\ \A c \in DOMAIN cells \cap DOMAIN cells' :
       /\ cells[c].result # NoResult
       /\ \A i \in DOMAIN frames : frames[i].cell # c
       => cells'[c].result = cells[c].result
<1>1. ASSUME ScopeInv, [Next]_vars PROVE ScopeInv' /\ Once
  <2>1. ScopeInv' /\ Unmoved(frames, cells, cells')
    BY <1>1, StepIsGood DEF Good
  <2>2. /\ \E S : frames \in Seq(S)
        /\ \E S : cells \in Seq(S)
        /\ \E S : cells' \in Seq(S)
    BY <1>1, <2>1 DEF ScopeInv, Inv, IsStack, Sound, IsHeap
  <2>3. /\ DOMAIN frames = 1..Len(frames) /\ Len(frames) \in Nat
        /\ DOMAIN cells = 1..Len(cells) /\ DOMAIN cells' = 1..Len(cells')
    BY <2>2
  <2>4. ASSUME NEW i \in DOMAIN frames, NEW j \in DOMAIN frames,
               frames[i].cell # 0, frames[i].cell = frames[j].cell
        PROVE  i = j
    <3>1. Nested(frames)
      BY <1>1 DEF ScopeInv, Sound
    <3>2. ~(i < j) /\ ~(j < i)
      BY <2>3, <2>4, <3>1 DEF Nested
    <3>3. QED
      BY <2>3, <3>2
  <2>5. ASSUME NEW c \in DOMAIN cells \cap DOMAIN cells',
               cells[c].result # NoResult, \A i \in DOMAIN frames : frames[i].cell # c
        PROVE  cells'[c].result = cells[c].result
    BY <2>1, <2>3, <2>5 DEF Unmoved, Idle
  <2>6. QED
    BY <2>1, <2>4, <2>5
<1>2. QED
  BY <1>1, InitScope, PTL DEF Spec, InitializedOnce

\* TypeOK: calls are nested no deeper than the limit and see cells that are
\* there.
THEOREM TypeCorrect == Spec => []TypeOK
<1>1. ScopeInv => TypeOK
  <2> SUFFICES ASSUME ScopeInv PROVE TypeOK
    OBVIOUS
  <2>1. (\E S : frames \in Seq(S)) /\ (\E S : cells \in Seq(S))
    BY DEF ScopeInv, Inv, IsStack, Sound, IsHeap
  <2>2. DOMAIN frames = 1..Len(frames) /\ DOMAIN cells = 1..Len(cells) /\ Len(frames) \in Nat
    BY <2>1
  <2>3. limits \in Limits /\ depth \in 0..limits.max_depth
    BY <2>2, LimitsAssumption DEF ScopeInv, Inv
  <2>4. \A i \in 1..Len(frames) : IsCall(frames[i], program, cells)
    BY DEF ScopeInv, Sound
  <2>5. \A c \in 1..Len(cells) : IsCell(cells[c], program)
    BY DEF ScopeInv, Sound, IsHeap
  <2>6. QED
    BY <2>2, <2>3, <2>4, <2>5 DEF TypeOK, IsCall, IsCell
<1>2. ScopeInv /\ [Next]_vars => ScopeInv'
  BY StepIsGood DEF Good
<1>3. QED
  BY <1>1, <1>2, InitScope, PTL DEF Spec
=============================================================================
