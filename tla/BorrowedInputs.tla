---------------------------- MODULE BorrowedInputs ----------------------------
(***************************************************************************)
(* What keeps the inputs of a Python evaluation alive (python.zig:         *)
(* evaluate, borrowBytes, copyBytes, bindings, fromPython, and the result  *)
(* of invokeCallback).  The values of an evaluation point into the buffers *)
(* of the str and bytes objects they came from, while callbacks, other     *)
(* threads and finalizers change and drop those objects.                   *)
(*                                                                         *)
(* An object lives as long as something refers to it: the host, the dict   *)
(* or list that holds it, or a reference the binding has taken.  Only the  *)
(* references of the binding are counted here; those of the host follow    *)
(* the rules of Python.                                                    *)
(***************************************************************************)
EXTENDS Integers, Sequences, FiniteSets, SequencesExt

CONSTANTS
  Calls,         \* evaluations that may be in progress together
  Texts,         \* str and bytes objects
  Boxes,         \* objects whose text is copied: types, enums, networks
  Lists, Dicts,  \* containers; a dict holds keys and values in turn
  NoObject,      \* no object
  Size,          \* Size[o]: the bytes of a text or box
  Heaps,         \* what containers hold to begin with
  max_nodes,     \* Converter.remaining at first
  max_bytes,     \* Converter.remaining_bytes at first
  max_depth,     \* the depth limit of fromPython
  MaxCallbacks   \* bound on the callbacks of one evaluation

Containers == Lists \cup Dicts
Objects == Texts \cup Boxes \cup Containers

ASSUME ObjectsAssumption ==
  /\ Size \in [Texts \cup Boxes -> Nat]
  /\ NoObject \notin Objects
  /\ Heaps \subseteq [Containers -> Seq(Objects)]
  /\ max_nodes \in Nat /\ max_bytes \in Nat /\ max_depth \in Nat /\ MaxCallbacks \in Nat

VARIABLES
  held,   \* the objects the host refers to by itself
  items,  \* items[o]: what container o holds
  taken,  \* taken[o]: references to o the binding has taken and not released
  calls   \* calls[c]: an evaluation and its converter

vars == <<held, items, taken, calls>>

\* pending: what is still to be converted, the next first; result: what the
\* callback returned while it is converted; values: the objects whose buffers
\* the values of the evaluation point to; copied: bytes copied to the arena.
Idle ==
  [phase |-> "idle", input |-> NoObject, pending |-> <<>>, result |-> NoObject, borrowed |-> <<>>,
   values |-> {}, remaining |-> max_nodes, remaining_bytes |-> max_bytes, copied |-> 0, callbacks |-> 0]

-----------------------------------------------------------------------------
(* The Python heap *)

Roots ==
  held \cup {calls[c].input : c \in Calls} \cup {o \in Objects : taken[o] > 0}

\* The least set that has roots and what its containers hold.
Reachable(roots) ==
  {o \in Objects :
     \A S \in SUBSET Objects :
       (roots \cap Objects \subseteq S /\ \A l \in S \cap Containers : ToSet(items[l]) \subseteq S)
         => o \in S}

Alive == Reachable(Roots)

\* Host code runs unless an evaluation holds the GIL: in callbacks, between
\* evaluations, and in the finalizers of what an evaluation releases.
HostRuns == \A c \in Calls : calls[c].phase \in {"idle", "callback", "releasing"}

Drop(o) ==
  /\ HostRuns /\ o \in held
  /\ held' = held \ {o}
  /\ UNCHANGED <<items, taken, calls>>

Clear(l) ==
  /\ HostRuns /\ l \in Reachable(held) /\ items[l] # <<>>
  /\ items' = [items EXCEPT ![l] = <<>>]
  /\ UNCHANGED <<held, taken, calls>>

\* A new object, in the place of one that is gone.
Create(o) ==
  /\ HostRuns /\ o \notin Alive
  /\ held' = held \cup {o}
  /\ \/ o \in Lists /\ \E x \in Reachable(held) : items' = [items EXCEPT ![o] = <<x>>]
     \/ o \notin Lists /\ items' = [l \in Containers |-> IF l = o THEN <<>> ELSE items[l]]
  /\ UNCHANGED <<taken, calls>>

IncRef(refs, o) == [refs EXCEPT ![o] = @ + 1]
DecRef(refs, o) == [refs EXCEPT ![o] = @ - 1]

-----------------------------------------------------------------------------
(* Conversion *)

In(c, phase) == calls[c].phase = phase

Update(c, call) == calls' = [calls EXCEPT ![c] = call]

Pending(os, role, depth) == [i \in DOMAIN os |-> [object |-> os[i], role |-> role, depth |-> depth]]

\* The names and values of a dict of bindings.
PendingBindings(os) ==
  [i \in DOMAIN os |-> [object |-> os[i], role |-> IF i % 2 = 1 THEN "name" ELSE "value", depth |-> 0]]

PendingEntries(os, depth) ==
  [i \in DOMAIN os |-> [object |-> os[i], role |-> IF i % 2 = 1 THEN "key" ELSE "value", depth |-> depth]]

\* The defers of evaluate: nothing uses the values any more; the references go
\* one by one.
Releasing(call) == [call EXCEPT !.phase = "releasing", !.pending = <<>>, !.result = NoObject, !.values = {}]

\* defer c.Py_DecRef(result), if this is the conversion of a callback's result.
ReleaseResult(refs, call) ==
  IF call.result = NoObject THEN refs ELSE DecRef(refs, call.result)

\* An exception or OutOfMemory; from a callback's result it is a
\* HostFunctionError, which ends the evaluation too.
FailWith(c, refs, call) ==
  /\ Update(c, Releasing(call))
  /\ taken' = ReleaseResult(refs, call)

Fail(c) == FailWith(c, taken, calls[c])

\* evaluate: a dict of bindings, which the caller may hold for the call only.
Evaluate(c, input) ==
  LET size == Len(items[input]) \div 2 IN
  /\ HostRuns /\ In(c, "idle") /\ input \in Reachable(held)
  /\ held' \in {held, held \ {input}}
  /\ \/ Update(c, [Releasing(Idle) EXCEPT !.input = input])
     \/ /\ size <= max_nodes
        /\ Update(c, [Idle EXCEPT !.phase = "converting", !.input = input,
                                  !.pending = PendingBindings(items[input])])
  /\ UNCHANGED <<items, taken>>

\* fromPython charges a node for everything but the names of bindings.
Charged(call) ==
  IF Head(call.pending).role = "name" THEN call ELSE [call EXCEPT !.remaining = @ - 1]

\* Faulty: the nodes that remain are not looked at.
RefusedByDepth(call) ==
  LET next == Head(call.pending) IN next.role # "name" /\ next.depth >= max_depth

Refused(call) ==
  LET next == Head(call.pending) IN
  next.role # "name" /\ (next.depth >= max_depth \/ call.remaining = 0)

\* Faulty: the buffer is used without a reference to its object.
BorrowUnlisted(c, o, call) ==
  IF Size[o] > call.remaining_bytes THEN Fail(c)
  ELSE LET deducted == [call EXCEPT !.remaining_bytes = @ - Size[o]] IN
       /\ Update(c, [deducted EXCEPT !.values = @ \cup {o}, !.pending = Tail(@)])
       /\ UNCHANGED taken

\* Faulty: the reference is taken before the object is listed, which may fail.
BorrowEarly(c, o, call) ==
  IF Size[o] > call.remaining_bytes THEN Fail(c)
  ELSE LET deducted == [call EXCEPT !.remaining_bytes = @ - Size[o]] IN
       \/ FailWith(c, IncRef(taken, o), deducted)
       \/ /\ Update(c, [deducted EXCEPT !.borrowed = Append(@, o), !.values = @ \cup {o},
                                        !.pending = Tail(@)])
          /\ taken' = IncRef(taken, o)

\* borrowBytes: the bytes are deducted, the object is listed, the reference is taken.
Borrow(c, o, call) ==
  IF Size[o] > call.remaining_bytes THEN Fail(c)
  ELSE LET deducted == [call EXCEPT !.remaining_bytes = @ - Size[o]] IN
       \/ FailWith(c, taken, deducted)
       \/ /\ Update(c, [deducted EXCEPT !.borrowed = Append(@, o), !.values = @ \cup {o},
                                        !.pending = Tail(@)])
          /\ taken' = IncRef(taken, o)

\* copyBytes
Copy(c, o, call) ==
  IF Size[o] > call.remaining_bytes THEN Fail(c)
  ELSE LET deducted == [call EXCEPT !.remaining_bytes = @ - Size[o]] IN
       \/ FailWith(c, taken, deducted)
       \/ /\ Update(c, [deducted EXCEPT !.copied = @ + Size[o], !.pending = Tail(@)])
          /\ UNCHANGED taken

\* The items of a container come before what follows it.
Unfold(c, o, call) ==
  LET next == Head(call.pending)
      size == Len(items[o])
      inner == IF o \in Lists THEN Pending(items[o], "value", next.depth + 1)
               ELSE PendingEntries(items[o], next.depth + 1)
  IN  IF size > call.remaining \/ next.role = "key" THEN Fail(c)
      ELSE \/ Fail(c)
           \/ /\ Update(c, [call EXCEPT !.pending = inner \o Tail(@)])
              /\ UNCHANGED taken

Convert(c) ==
  LET call == Charged(calls[c])
      next == Head(call.pending)
  IN  /\ In(c, "converting") /\ calls[c].pending # <<>>
      /\ IF Refused(calls[c]) THEN Fail(c)
         ELSE IF next.object \in Texts THEN Borrow(c, next.object, call)
         ELSE IF next.role = "name" \/ (next.role = "key" /\ next.object \in Boxes) THEN Fail(c)
         ELSE IF next.object \in Boxes THEN Copy(c, next.object, call)
         ELSE Unfold(c, next.object, call)
      /\ UNCHANGED <<held, items>>

Converted(c) ==
  /\ In(c, "converting") /\ calls[c].pending = <<>>
  /\ Update(c, [calls[c] EXCEPT !.phase = "evaluating", !.result = NoObject])
  /\ taken' = ReleaseResult(taken, calls[c])
  /\ UNCHANGED <<held, items>>

-----------------------------------------------------------------------------
(* Evaluation *)

\* invokeCallback: the arguments are new objects, made of the values.
Invoke(c) ==
  /\ In(c, "evaluating") /\ calls[c].callbacks < MaxCallbacks
  /\ Update(c, [calls[c] EXCEPT !.phase = "callback", !.callbacks = @ + 1])
  /\ UNCHANGED <<held, items, taken>>

CallbackReturns(c, o) ==
  /\ HostRuns /\ In(c, "callback") /\ o \in Reachable(held)
  /\ held' \in {held, held \ {o}}
  /\ taken' = IncRef(taken, o)
  /\ Update(c, [calls[c] EXCEPT !.phase = "converting", !.result = o,
                                !.pending = Pending(<<o>>, "value", 0)])
  /\ UNCHANGED items

\* The callback raises, and so does evaluate.
CallbackRaises(c) ==
  /\ HostRuns /\ In(c, "callback")
  /\ Update(c, Releasing(calls[c]))
  /\ UNCHANGED <<held, items, taken>>

\* The evaluation fails, or its result has been converted.
Finish(c) ==
  /\ In(c, "evaluating")
  /\ Update(c, Releasing(calls[c]))
  /\ UNCHANGED <<held, items, taken>>

Release(c) ==
  /\ HostRuns /\ In(c, "releasing")
  /\ IF calls[c].borrowed = <<>>
     THEN Update(c, Idle) /\ UNCHANGED taken
     ELSE /\ Update(c, [calls[c] EXCEPT !.borrowed = Tail(@)])
          /\ taken' = DecRef(taken, Head(calls[c].borrowed))
  /\ UNCHANGED <<held, items>>

-----------------------------------------------------------------------------

Init ==
  /\ held = Dicts
  /\ items \in Heaps
  /\ taken = [o \in Objects |-> 0]
  /\ calls = [c \in Calls |-> Idle]

Next ==
  \/ \E o \in Objects : Drop(o) \/ Create(o)
  \/ \E l \in Containers : Clear(l)
  \/ \E c \in Calls :
       \/ Convert(c) \/ Converted(c) \/ Invoke(c) \/ CallbackRaises(c) \/ Finish(c) \/ Release(c)
       \/ \E input \in Dicts : Evaluate(c, input)
       \/ \E o \in Objects : CallbackReturns(c, o)

Spec == Init /\ [][Next]_vars

-----------------------------------------------------------------------------
(* Properties *)

Item == [object : Objects, role : {"name", "key", "value"}, depth : 0..max_depth]

Call ==
  [phase : {"idle", "converting", "evaluating", "callback", "releasing"},
   input : Dicts \cup {NoObject},
   pending : Seq(Item),
   result : Objects \cup {NoObject},
   borrowed : Seq(Texts),
   values : SUBSET Texts,
   remaining : 0..max_nodes,
   remaining_bytes : 0..max_bytes,
   copied : 0..max_bytes,
   callbacks : 0..MaxCallbacks]

\* The variables have their types: budgets never go below zero, and nothing is
\* converted deeper than the limit.
TypeOK ==
  /\ held \subseteq Objects
  /\ items \in [Containers -> Seq(Objects)]
  /\ taken \in [Objects -> Nat]
  /\ calls \in [Calls -> Call]

\* What the evaluation of a call still uses.
Needed(call) ==
  call.values \cup ({call.result} \ {NoObject}) \cup {p.object : p \in ToSet(call.pending)}

\* No value points into an object that is gone, and no object is gone before it
\* is converted: whatever callbacks, finalizers and other evaluations drop,
\* borrowBytes and the deferred release keep alive what evaluate uses.
InputsAlive == \A c \in Calls : Needed(calls[c]) \subseteq Alive

\* The references to o that calls have yet to release: place 0 is the result of
\* a callback, the others are those of the list of borrowed objects.
Refers(c, i) == IF i = 0 THEN calls[c].result ELSE calls[c].borrowed[i]

References(o) ==
  {r \in UNION {{c} \X (0..Len(calls[c].borrowed)) : c \in Calls} : Refers(r[1], r[2]) = o}

\* The binding has taken just the references it will release, also when an
\* allocation, a limit or an exception ends a conversion half way: none leaks
\* and none of the host's is released.
OwnedExactly == \A o \in Objects : taken[o] = Cardinality(References(o))
=============================================================================
