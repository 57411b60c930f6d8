------------------------------ MODULE PlainPython -----------------------------
(***************************************************************************)
(* The Python fast path (plain.py): the compiler that turns a plan into a  *)
(* Python function, and what that function does.  The compiler appends     *)
(* lines to a text and returns the expression that holds a node's value;   *)
(* the expression runs wherever the caller puts it.  Here a line is a      *)
(* tuple, a nested block a sequence in its statement, an indentation a     *)
(* number, and a local variable of the function a number.                  *)
(*                                                                         *)
(* Reads of objects are cached: a path that was read in this block or one  *)
(* around it is not read again.  The state of the compiler therefore       *)
(* decides which lines are there, and a read that is reused where its line *)
(* did not run is an UnboundLocalError.                                    *)
(***************************************************************************)
EXTENDS PlainPlans, FiniteSets

\* No expression: emit returned None and the plan is refused.
None == <<"none">>

\* lines: of the current block; roots: the reads at the start of the function;
\* counter: fresh names; dicts: the dicts that objects has named, each a set of
\* <<indent, path, variable>>; objects: the one it names now; dotted: the
\* qualified names that may be bindings; out: the expression.
Emitted ==
  [lines |-> <<>>, roots |-> <<>>, counter |-> 0, dicts |-> <<{}>>, objects |-> 1,
   dotted |-> {}, out |-> None]

\* Indentation of the function's body, which is in a try; roots are above it.
Body == 2
AboveBody == 0

Fresh(st) == [st EXCEPT !.counter = @ + 1]

Line(line, st) == [st EXCEPT !.lines = Append(@, line)]

Out(expression, st) == [st EXCEPT !.out = expression]

Variable(v) == <<"var", v>>

-----------------------------------------------------------------------------
(* Reads *)

\* read: a fresh variable, checked to have the expected type.
Checked(source, expected, checked_text, st) ==
  LET set == Line(<<"set", st.counter, source>>, st)
  IN  Out(Variable(st.counter),
          IF expected = "any" THEN set
          ELSE Line(<<"check", st.counter, expected, checked_text>>, set))

Read(source, expected, checked_text, st) == Checked(source, expected, checked_text, Fresh(st))

\* Objects that were read at this indentation or an enclosing one.
InScope(path, indent, st) ==
  {o \in st.dicts[st.objects] : o[1] <= indent /\ o[2] = path}

Deepest(objects) == CHOOSE o \in objects : \A p \in objects : p[1] <= o[1]

Cache(indent, path, st) ==
  [st EXCEPT !.dicts[st.objects] = @ \cup {<<indent, path, st.counter>>}]

\* cached_object
CachedObject(path, source, indent, st) ==
  IF InScope(path, indent, st) # {}
  THEN Out(Variable(Deepest(InScope(path, indent, st))[3]), st)
  ELSE Cache(indent, path, Read(source, "object", FALSE, st))

\* root_object: read once, at the start of the function.
ReadRoot(name, st) ==
  [Out(Variable(st.counter), Cache(AboveBody, <<0, name>>, st)) EXCEPT
     !.roots = @ \o <<<<"set", st.counter, <<"root", name>>>>,
                      <<"check", st.counter, "object", FALSE>>>>]

RootObject(name, st) ==
  IF InScope(<<0, name>>, AboveBody, st) # {}
  THEN Out(Variable(Deepest(InScope(<<0, name>>, AboveBody, st))[3]), st)
  ELSE ReadRoot(name, Fresh(st))

\* Faulty: forgets that the engine may resolve the chain as one name.
UnnotedDotted(node, scopes, st) == st

\* A name the engine could resolve as a binding's dotted name.
NoteDotted(node, scopes, st) ==
  IF Qualified(node) # <<>> /\ ~IsLocal(Qualified(node)[1], scopes)
  THEN [st EXCEPT !.dotted = @ \cup {Qualified(node)}] ELSE st

-----------------------------------------------------------------------------
(* Blocks *)

\* before = dict(self.objects).  objects goes on naming the dict that is copied.
Copy(st) == [st EXCEPT !.dicts = Append(@, @[st.objects])]

Before(st) == Len(st.dicts)

\* Faulty: keeps the reads of a block that may not run.
Unrestored(block, before) == block

\* self.objects = before: the reads of a block are not in scope after it.
Restore(block, before) == [block EXCEPT !.objects = before]

\* Begin a block of its own after st.
Open(st) == [st EXCEPT !.lines = <<>>]

\* The lines of a block, then result = its expression.
Assigning(block, result) == Append(block.lines, <<"set", result, block.out>>)

\* Continue st, which has a statement more, with the names of its last block.
Close(statement, block, st) ==
  [Line(statement, st) EXCEPT !.counter = block.counter, !.roots = block.roots,
                              !.dotted = block.dotted, !.dicts = block.dicts,
                              !.objects = block.objects]

-----------------------------------------------------------------------------
(* emit *)

RECURSIVE Emit(_, _, _, _, _, _)

\* Two operands, in order; construct makes the expression of theirs.
SecondOperand(kind, node, expected, scopes, indent, checked_text, left) ==
  LET right == Emit(node, expected, scopes, indent, checked_text, left)
  IN  IF left.out = None \/ right.out = None THEN Out(None, right)
      ELSE Out(<<kind, left.out, right.out>>, right)

Both(kind, node, left_type, right_type, scopes, indent, checked_text, st) ==
  SecondOperand(kind, node[3], right_type, scopes, indent, checked_text,
                Emit(node[2], left_type, scopes, indent, checked_text, st))

Wrapped(kind, st) == IF st.out = None THEN st ELSE Out(<<kind, st.out>>, st)

EmitIdent(name, expected, scopes, checked_text, st) ==
  IF IsLocal(name, scopes)
  THEN Read(Variable(scopes[Innermost(name, scopes)].value), expected, checked_text, st)
  ELSE IF expected = "object" THEN RootObject(name, st)
  ELSE Read(<<"root", name>>, expected, checked_text, st)

EmitField(field, expected, indent, checked_text, target) ==
  CASE target.out = None -> target
    [] expected = "object" ->
         CachedObject(<<target.out[2], field>>, <<"get", target.out, Text(field)>>, indent, target)
    [] OTHER -> Read(<<"get", target.out, Text(field)>>, expected, checked_text, target)

\* index: the pair of operands becomes the source of a read.
ReadIndexed(expected, checked_text, st) ==
  IF st.out = None THEN st ELSE Read(st.out, expected, checked_text, st)

EmitIndex(node, expected, scopes, indent, checked_text, st) ==
  CASE FirstType(Infer(node[3]), "string", "") = "string" ->
         ReadIndexed(expected, checked_text,
           SecondOperand("get", node[3], "string", scopes, indent, FALSE,
                         Emit(node[2], "object", scopes, indent, TRUE, st)))
    [] Infer(node[3]) = "int" ->
         ReadIndexed(expected, checked_text,
                     Both("item", node, "list", "int", scopes, indent, TRUE, st))
    [] OTHER -> Out(None, st)

\* The block of the right operand, which runs when the left one does not decide.
EmitRight(node, scopes, indent, result, st) ==
  LET right == Emit(node[3], "bool", scopes, indent + 1, TRUE, Open(st))
  IN  IF right.out = None THEN right
      ELSE Out(Variable(result),
               Close(<<"if", IF node[1] = "&&" THEN Variable(result) ELSE <<"!", Variable(result)>>,
                       Assigning(right, result), <<>>>>,
                     Restore(right, Before(st)), st))

EmitLogic(node, scopes, indent, left) ==
  IF left.out = None THEN left
  ELSE EmitRight(node, scopes, indent, left.counter + 1,
                 Copy(Line(<<"set", left.counter + 1, left.out>>, Fresh(left))))

EmitEqual(node, kind_type, scopes, indent, st) ==
  IF kind_type = "list" THEN Out(None, st)
  ELSE Both(node[1], node, kind_type, kind_type, scopes, indent,
            ~(kind_type = "string" /\ \E i \in {2, 3} : node[i][1] \in Literals), st)

\* The second branch begins with the copy of before the first, and adds to it;
\* that copy is also what objects names after the conditional.
EmitNo(node, expected, scopes, indent, condition, yes, result, st) ==
  LET no == Emit(node[4], expected, scopes, indent + 1, TRUE, Open(Restore(yes, Before(st))))
  IN  IF yes.out = None \/ no.out = None THEN Out(None, no)
      ELSE Out(Variable(result),
               Close(<<"if", condition, Assigning(yes, result), Assigning(no, result)>>,
                     Restore(no, Before(st)), st))

EmitYes(node, expected, scopes, indent, condition, st) ==
  EmitNo(node, expected, scopes, indent, condition,
         Emit(node[3], expected, scopes, indent + 1, TRUE, Open(st)), st.counter, st)

EmitConditional(node, expected, scopes, indent, condition) ==
  IF condition.out = None THEN condition
  ELSE EmitYes(node, expected, scopes, indent, condition.out, Copy(Fresh(condition)))

\* The loop over the items; result and element are fresh.
EmitPredicate(node, scopes, indent, items, result, element, st) ==
  LET inner == Emit(node[4], "bool", Append(scopes, [name |-> node[3], value |-> element]),
                    indent + 1, TRUE, Open(st))
  IN  IF inner.out = None THEN inner
      ELSE Out(Variable(result),
               Close(<<"for", element, items,
                       Append(inner.lines,
                              <<"break", IF node[1] = "all" THEN <<"!", inner.out>> ELSE inner.out,
                                result, Bool(node[1] # "all")>>)>>,
                     Restore(inner, Before(st)), st))

EmitQuantifier(node, scopes, indent, items) ==
  IF items.out = None THEN items
  ELSE EmitPredicate(node, scopes, indent, items.out, items.counter + 1, items.counter + 2,
                     Copy(Line(<<"set", items.counter + 1, Bool(node[1] = "all")>>,
                               Fresh(Fresh(items)))))

EmitSize(node, scopes, indent, st) ==
  CASE Infer(node[2]) = "string" ->
         Wrapped("_size", Emit(node[2], "string", scopes, indent, TRUE, st))
    [] Infer(node[2]) = "none" ->
         Wrapped("_size", Emit(node[2], "any", scopes, indent, TRUE, st))
    [] OTHER -> Out(None, st)

EmitMember(list, needle) ==
  IF needle.out = None THEN needle ELSE Out(<<"in", needle.out, list>>, needle)

EmitMatches(pattern, receiver) ==
  IF receiver.out = None THEN receiver ELSE Out(<<"matches", receiver.out, pattern>>, receiver)

\* The type a node's value must be expected with.
Gives(node, expected) ==
  CASE node[1] \in Literals -> node[1] = expected
    [] node[1] \in {"ident", "select", "index"} -> TRUE
    [] node[1] = "?:" -> expected \notin {"object", "list", "any"}
    [] OTHER -> node[1] # "list" /\ Infer(node) = expected

\* checked_text matters to reads and what is under them only: other nodes pass
\* on a value of their own.
Emit(node, expected, scopes, indent, checked_text, st) ==
  CASE ~Gives(node, expected) -> Out(None, st)
    [] node[1] \in Literals -> Out(node, st)
    [] node[1] = "ident" -> EmitIdent(node[2], expected, scopes, checked_text, st)
    [] node[1] = "select" ->
         EmitField(node[3], expected, indent, checked_text,
                   Emit(node[2], "object", scopes, indent, TRUE, NoteDotted(node, scopes, st)))
    [] node[1] = "index" -> EmitIndex(node, expected, scopes, indent, checked_text, st)
    [] node[1] \in {"&&", "||"} ->
         EmitLogic(node, scopes, indent, Emit(node[2], "bool", scopes, indent, TRUE, st))
    [] node[1] \in {"==", "!="} ->
         EmitEqual(node, FirstType(Infer(node[2]), Infer(node[3]), "string"), scopes, indent, st)
    [] node[1] \in Ordering \cup Arithmetic ->
         Both(node[1], node, "int", "int", scopes, indent, TRUE, st)
    [] node[1] = "neg" -> Wrapped("neg", Emit(node[2], "int", scopes, indent, TRUE, st))
    [] node[1] = "!" -> Wrapped("!", Emit(node[2], "bool", scopes, indent, TRUE, st))
    [] node[1] = "size" -> EmitSize(node, scopes, indent, st)
    [] node[1] = "in" ->
         IF node[3][1] # "list" THEN Out(None, st)
         ELSE EmitMember(node[3], Emit(node[2], "string", scopes, indent, FALSE, st))
    [] node[1] \in Quantifiers ->
         EmitQuantifier(node, scopes, indent, Emit(node[2], "list", scopes, indent, TRUE, st))
    [] node[1] = "?:" ->
         EmitConditional(node, expected, scopes, indent,
                         Emit(node[2], "bool", scopes, indent, TRUE, st))
    [] node[1] = "matches" ->
         EmitMatches(node[3], Emit(node[2], "string", scopes, indent, TRUE, st))
    [] OTHER ->
         Both(node[1], node, "string", "string", scopes, indent,
              node[3][1] # "string", st)

Start(plan) == Emit(plan, Infer(plan), <<>>, Body, TRUE, Emitted)

\* compile_plain refuses results of other types.
PyCompile(plan) ==
  IF Infer(plan) \in {"bool", "string"} THEN Start(plan) ELSE Emitted

-----------------------------------------------------------------------------
(* The compiled function *)

\* What stops the function: a value outside the compiled shape, an error that
\* the matcher raises, a local variable without a value, the loop's break.
Bail == <<"bail">>
Unbound == <<"UnboundLocalError">>
Stops == {Bail, Error, Unbound}

\* Python's locals by name; done: what ended the block, or "go".
Run(b) == [vars |-> [v \in {} |-> Missing], done |-> <<"go">>, bindings |-> b]

Assign(v, value, run) ==
  IF value \in Stops THEN [run EXCEPT !.done = value]
  ELSE [run EXCEPT !.vars = [w \in DOMAIN @ \cup {v} |-> IF w = v THEN value ELSE @[w]]]

\* The guards of read.
HasType(value, expected, checked_text) ==
  /\ value[1] = IF expected = "object" THEN "dict" ELSE expected
  /\ expected = "int" => Fits(value[2])
  /\ expected = "string" /\ checked_text => ~IsIllFormed(value)

\* _add, _sub, _mul, _div and _rem.
Computed(op, a, b) ==
  IF op \in {"/", "%"} /\ b = 0 THEN Bail
  ELSE IF Fits(Calculated(op, a, b)) THEN Integer(Calculated(op, a, b)) ELSE Bail

\* An operator of Python on two values of the types that were checked.
Applied(op, l, r) ==
  CASE l \in Stops -> l
    [] r \in Stops -> r
    [] op = "get" -> IF r[2] \in DOMAIN l[2] THEN l[2][r[2]] ELSE Missing
    [] op = "item" -> IF r[2] + 1 \in DOMAIN l[2] THEN l[2][r[2] + 1] ELSE Missing
    [] op \in {"==", "!="} -> Bool((l = r) = (op = "=="))
    [] op \in Ordering -> Bool(Ordered(op, l[2], r[2]))
    [] op \in Arithmetic -> Computed(op, l[2], r[2])
    [] op \in Predicates -> Bool(<<l[2], r[2]>> \in Related[op])

\* An operator of one value; argument is a list or a pattern.
AppliedTo(op, v, argument) ==
  CASE v \in Stops -> v
    [] op = "!" -> Bool(~v[2])
    [] op = "neg" -> IF Fits(-v[2]) THEN Integer(-v[2]) ELSE Bail
    [] op = "_size" -> IF IsIllFormed(v) \/ Sized(v) = Error THEN Bail ELSE Sized(v)
    [] op = "in" -> Member(v, Tail(argument))
    [] op = "matches" -> Matched(v, argument)

RECURSIVE Value(_, _)

\* The value of an expression.
Value(e, run) ==
  CASE e[1] \in Literals -> e
    [] e[1] = "var" -> IF e[2] \in DOMAIN run.vars THEN run.vars[e[2]] ELSE Unbound
    [] e[1] = "root" -> IF <<e[2]>> \in DOMAIN run.bindings THEN run.bindings[<<e[2]>>] ELSE Missing
    [] e[1] \in {"!", "neg", "_size"} -> AppliedTo(e[1], Value(e[2], run), <<>>)
    [] e[1] \in {"in", "matches"} -> AppliedTo(e[1], Value(e[2], run), e[3])
    [] OTHER -> Applied(e[1], Value(e[2], run), Value(e[3], run))

RECURSIVE Execute(_, _)

Conditional(condition, yes, no, run) ==
  CASE condition \in Stops -> [run EXCEPT !.done = condition]
    [] condition = Bool(TRUE) -> Execute(yes, run)
    [] OTHER -> Execute(no, run)

\* if condition: result = value; break
Breaking(condition, result, value, run) ==
  CASE condition \in Stops -> [run EXCEPT !.done = condition]
    [] condition = Bool(TRUE) -> [Assign(result, value, run) EXCEPT !.done = <<"break">>]
    [] OTHER -> run

RECURSIVE Iterate(_, _, _, _)

\* The loop stops at a break, which ends no more than the loop.
Iterate(element, items, body, run) ==
  CASE run.done = <<"break">> -> [run EXCEPT !.done = <<"go">>]
    [] items = <<>> \/ run.done # <<"go">> -> run
    [] OTHER -> Iterate(element, Tail(items), body,
                        Execute(body, Assign(element, items[1], run)))

Statement(line, run) ==
  CASE line[1] = "set" -> Assign(line[2], Value(line[3], run), run)
    [] line[1] = "check" ->
         IF HasType(run.vars[line[2]], line[3], line[4]) THEN run ELSE [run EXCEPT !.done = Bail]
    [] line[1] = "if" -> Conditional(Value(line[2], run), line[3], line[4], run)
    [] line[1] = "for" -> Iterate(line[2], Value(line[3], run)[2], line[4], run)
    [] line[1] = "break" -> Breaking(Value(line[2], run), line[3], line[4], run)

Execute(lines, run) ==
  IF lines = <<>> \/ run.done # <<"go">> THEN run
  ELSE Execute(Tail(lines), Statement(lines[1], run))

Returned(out, run) == IF run.done = <<"go">> THEN Value(out, run) ELSE run.done

\* The function compiled to code, called with the bindings b.
PyCall(code, b) ==
  IF code.dotted \cap DOMAIN b # {} THEN Bail
  ELSE Returned(code.out, Execute(code.roots \o code.lines, Run(b)))
=============================================================================
