---------------------------- MODULE CallbackFrames -----------------------------
(***************************************************************************)
(* How the Python binding finds the evaluation that serves a host callback *)
(* (python.zig: CallbackFrame, callback_frame, evaluate, invokeCallback).  *)
(*                                                                         *)
(* evaluate puts a CallbackFrame on its own machine stack and links it     *)
(* into a thread-local list when the environment has functions.  A host    *)
(* callback walks that list for the first frame whose owner is the         *)
(* environment of the called function.  The callback is ordinary Python:   *)
(* it may release the GIL, so evaluations of other threads interleave with *)
(* it, and it may evaluate again.                                          *)
(*                                                                         *)
(* slot[t][i] is the activation of evaluate at height i of thread t's      *)
(* machine stack, and <<t, i>> is the address of the CallbackFrame in it.  *)
(* The GIL is left out: every interleaving of the threads is allowed,      *)
(* which includes those the GIL allows.                                    *)
(***************************************************************************)
EXTENDS Naturals

CONSTANTS
  Threads,     \* Python threads
  Envs,        \* EnvironmentHandle capsules
  NoEnv,       \* the program was compiled without an environment
  Registered,  \* environments whose functions.len is not zero
  Evaluated,   \* [compiled, owner] pairs evaluate is called with
  Null,        \* the null frame pointer
  MaxDepth     \* bound on nested evaluations of one thread

EnvOrNone == Envs \cup {NoEnv}

ASSUME EnvsAssumption ==
  /\ NoEnv \notin Envs
  /\ Registered \subseteq Envs
  /\ Evaluated \subseteq [compiled : EnvOrNone, owner : EnvOrNone]

ASSUME DepthAssumption == MaxDepth \in Nat

Frame == Threads \X (1..MaxDepth)

ASSUME NullAssumption == Null \notin Frame

VARIABLES
  depth,           \* depth[t]: how many activations of evaluate thread t has
  slot,            \* slot[t][i]: activation i of thread t
  callback_frame,  \* callback_frame[t]: thread t's thread-local list head
  pending          \* pending[t]: a Python exception is set in thread t

vars == <<depth, slot, callback_frame, pending>>

-----------------------------------------------------------------------------
(* State *)

\* "native": evaluate or the engine runs; "walk": invokeCallback searches the
\* frames; "host": the Python callable runs; "unwind": an error is returned.
Phase == {"none", "native", "walk", "host", "unwind"}

Activation ==
  [compiled : EnvOrNone, owner : EnvOrNone, framed : BOOLEAN,
   previous : Frame \cup {Null}, phase : Phase,
   cursor : Frame \cup {Null}, converter : Frame \cup {Null}]

\* A popped activation: its frame memory means nothing any more.
Popped ==
  [compiled |-> NoEnv, owner |-> NoEnv, framed |-> FALSE, previous |-> Null,
   phase |-> "none", cursor |-> Null, converter |-> Null]

\* Faulty: one variable for all threads, as before the frames were thread-local.
GlobalVariable(t) == CHOOSE first \in Threads : TRUE

\* The variable is threadlocal: each thread reads and writes its own copy.
Local(t) == t

\* Python code of thread t is running: its top frame is a callback, or none.
HostRuns(t) == depth[t] > 0 => slot[t][depth[t]].phase = "host"

Top(t) == slot[t][depth[t]]

In(t, phase) == depth[t] > 0 /\ Top(t).phase = phase

\* has_callbacks in evaluate.
HasCallbacks(owner) == owner \in Registered

FrameAt(f) == slot[f[1]][f[2]]

\* The innermost activation of thread t becomes activation.
Update(t, activation) ==
  slot' = [slot EXCEPT ![t] = [@ EXCEPT ![depth[t]] = activation]]

\* Faulty: an operator absorbs the error.
AbsorbedHostError == "native"

\* A HostFunctionError is fatal in the engine: no operator absorbs it, and it
\* unwinds the whole evaluation.
AfterHostError == "unwind"

Init ==
  /\ depth = [t \in Threads |-> 0]
  /\ slot = [t \in Threads |-> [i \in 1..MaxDepth |-> Popped]]
  /\ callback_frame = [t \in Threads |-> Null]
  /\ pending = [t \in Threads |-> FALSE]

-----------------------------------------------------------------------------
(* Actions of thread t *)

\* Faulty: links to the activation below instead of the list.
LinkedBelow(t, e) ==
  [compiled |-> e.compiled, owner |-> e.owner,
   framed |-> HasCallbacks(e.owner),
   previous |-> IF HasCallbacks(e.owner) THEN <<t, depth[t]>> ELSE Null,
   phase |-> "native", cursor |-> Null, converter |-> Null]

\* evaluate: the new frame is linked before the bindings are converted, and
\* only when the environment has functions.
NewActivation(t, e) ==
  [compiled |-> e.compiled, owner |-> e.owner,
   framed |-> HasCallbacks(e.owner),
   previous |-> IF HasCallbacks(e.owner) THEN callback_frame[Local(t)] ELSE Null,
   phase |-> "native", cursor |-> Null, converter |-> Null]

Enter(t, e) ==
  /\ HostRuns(t) /\ ~pending[t]
  /\ depth[t] < MaxDepth
  /\ depth' = [depth EXCEPT ![t] = @ + 1]
  /\ slot' = [slot EXCEPT ![t] = [@ EXCEPT ![depth[t] + 1] = NewActivation(t, e)]]
  /\ callback_frame' =
       IF HasCallbacks(e.owner)
       THEN [callback_frame EXCEPT ![Local(t)] = <<t, depth[t] + 1>>]
       ELSE callback_frame
  /\ UNCHANGED pending

\* The engine calls a host function that the program's environment implements.
Call(t) ==
  /\ In(t, "native")
  /\ Top(t).compiled \in Registered
  /\ Update(t, [Top(t) EXCEPT !.phase = "walk",
                              !.cursor = callback_frame[Local(t)]])
  /\ UNCHANGED <<depth, callback_frame, pending>>

\* Faulty: takes the innermost frame whatever its owner.
FindsHead(t) ==
  /\ In(t, "walk")
  /\ Top(t).cursor # Null
  /\ Update(t, [Top(t) EXCEPT !.phase = "host",
                              !.converter = Top(t).cursor,
                              !.cursor = Null])
  /\ UNCHANGED <<depth, callback_frame, pending>>

\* while (active) |frame|: the frame's owner is the function's environment.
WalkFound(t) ==
  /\ In(t, "walk")
  /\ Top(t).cursor # Null
  /\ FrameAt(Top(t).cursor).owner = Top(t).compiled
  /\ Update(t, [Top(t) EXCEPT !.phase = "host",
                              !.converter = Top(t).cursor,
                              !.cursor = Null])
  /\ UNCHANGED <<depth, callback_frame, pending>>

\* Faulty: the loop does not advance.
StartsOver(t) ==
  /\ In(t, "walk")
  /\ Top(t).cursor # Null
  /\ FrameAt(Top(t).cursor).owner # Top(t).compiled
  /\ Update(t, [Top(t) EXCEPT !.cursor = callback_frame[Local(t)]])
  /\ UNCHANGED <<depth, callback_frame, pending>>

WalkNext(t) ==
  /\ In(t, "walk")
  /\ Top(t).cursor # Null
  /\ FrameAt(Top(t).cursor).owner # Top(t).compiled
  /\ Update(t, [Top(t) EXCEPT !.cursor = FrameAt(Top(t).cursor).previous])
  /\ UNCHANGED <<depth, callback_frame, pending>>

\* "function callback environment is inactive"
WalkFailed(t) ==
  /\ In(t, "walk")
  /\ Top(t).cursor = Null
  /\ Update(t, [Top(t) EXCEPT !.phase = AfterHostError])
  /\ pending' = [pending EXCEPT ![t] = TRUE]
  /\ UNCHANGED <<depth, callback_frame>>

\* The callable returned and its result was converted.
CallReturn(t) ==
  /\ In(t, "host") /\ ~pending[t]
  /\ Update(t, [Top(t) EXCEPT !.phase = "native", !.converter = Null])
  /\ UNCHANGED <<depth, callback_frame, pending>>

\* The callable raised, or its result could not be converted.
CallRaise(t) ==
  /\ In(t, "host")
  /\ Update(t, [Top(t) EXCEPT !.phase = AfterHostError, !.converter = Null])
  /\ pending' = [pending EXCEPT ![t] = TRUE]
  /\ UNCHANGED <<depth, callback_frame>>

\* The bindings do not convert, the engine fails, or toPython of the result
\* does; evaluate sets the exception on its way out.
Fail(t) ==
  /\ In(t, "native")
  /\ Update(t, [Top(t) EXCEPT !.phase = "unwind"])
  /\ pending' = [pending EXCEPT ![t] = TRUE]
  /\ UNCHANGED <<depth, callback_frame>>

\* Faulty: an evaluation that fails leaves its frame linked.
UnlinksOnSuccess(t) ==
  /\ In(t, "native") \/ In(t, "unwind")
  /\ depth' = [depth EXCEPT ![t] = @ - 1]
  /\ Update(t, Popped)
  /\ callback_frame' =
       IF Top(t).framed /\ In(t, "native")
       THEN [callback_frame EXCEPT ![Local(t)] = Top(t).previous]
       ELSE callback_frame
  /\ UNCHANGED pending

\* evaluate returns, with a result or an exception; its defer unlinks the frame.
Leave(t) ==
  /\ In(t, "native") \/ In(t, "unwind")
  /\ depth' = [depth EXCEPT ![t] = @ - 1]
  /\ Update(t, Popped)
  /\ callback_frame' =
       IF Top(t).framed
       THEN [callback_frame EXCEPT ![Local(t)] = Top(t).previous]
       ELSE callback_frame
  /\ UNCHANGED pending

\* Python code handles the exception an evaluation raised.
Catch(t) ==
  /\ HostRuns(t) /\ pending[t]
  /\ pending' = [pending EXCEPT ![t] = FALSE]
  /\ UNCHANGED <<depth, slot, callback_frame>>

Next ==
  \E t \in Threads :
    \/ \E e \in Evaluated : Enter(t, e)
    \/ Call(t)
    \/ WalkFound(t) \/ WalkNext(t) \/ WalkFailed(t)
    \/ CallReturn(t) \/ CallRaise(t)
    \/ Fail(t) \/ Leave(t) \/ Catch(t)

\* The loop of invokeCallback runs on: nothing in it waits.
WalkFairness ==
  \A t \in Threads : WF_vars(WalkFound(t) \/ WalkNext(t) \/ WalkFailed(t))

Spec == Init /\ [][Next]_vars

FairSpec == Spec /\ WalkFairness

-----------------------------------------------------------------------------
(* Properties *)

\* Type invariant.
TypeOK ==
  /\ depth \in [Threads -> 0..MaxDepth]
  /\ slot \in [Threads -> [1..MaxDepth -> Activation]]
  /\ callback_frame \in [Threads -> Frame \cup {Null}]
  /\ pending \in [Threads -> BOOLEAN]

\* The pointer f is either null, or the frame of the innermost of the first n
\* activations of thread t's stack that have one.
IsInnermost(f, stack, t, n) ==
  \/ f = Null /\ \A i \in 1..n : ~stack[i].framed
  \/ \E i \in 1..n :
       /\ f = <<t, i>>
       /\ stack[i].framed
       /\ \A j \in (i + 1)..n : ~stack[j].framed

\* The list a thread would walk holds exactly the frames of its own running
\* evaluations, innermost first: none is dangling (its evaluate has returned),
\* skipped, or of another thread, whatever order evaluations end or fail in.
FramesMatchStack ==
  \A t \in Threads :
    /\ IsInnermost(callback_frame[t], slot[t], t, depth[t])
    /\ \A i \in 1..depth[t] :
         slot[t][i].framed => IsInnermost(slot[t][i].previous, slot[t], t, i - 1)

\* A callback converts with a running evaluation of its own thread, its caller
\* or one around it, whose environment owns the function, so that its callback
\* tuple has the function's index.
RoutedToOwner ==
  \A t \in Threads : \A i \in 1..depth[t] :
    slot[t][i].phase = "host" =>
      \E j \in 1..i :
        /\ slot[t][i].converter = <<t, j>>
        /\ slot[t][j].framed
        /\ slot[t][j].owner = slot[t][i].compiled

\* In an evaluation of a program with the environment it was compiled in, as
\* through the public classes, a callback converts with the evaluation that
\* called it, although other evaluations of the same environment may be below
\* it, above it or on other threads.
RoutedToCaller ==
  \A t \in Threads : \A i \in 1..depth[t] :
    slot[t][i].phase = "host" /\ slot[t][i].compiled = slot[t][i].owner =>
      slot[t][i].converter = <<t, i>>

\* No evaluation converts values or calls a host function while an exception
\* of an earlier callback is still set.
NoWorkWithPendingException ==
  \A t \in Threads : In(t, "native") \/ In(t, "walk") => ~pending[t]

\* invokeCallback's search of the frames ends.
WalkEnds == \A t \in Threads : In(t, "walk") ~> ~In(t, "walk")

\* The thread-local frames implement the promise of both bindings.
Served(t, i) ==
  [compiled |-> slot[t][i].compiled,
   owner |-> slot[t][i].owner,
   host |-> slot[t][i].phase = "host",
   server |-> IF slot[t][i].phase = "host" THEN slot[t][i].converter ELSE Null]

Routing == INSTANCE CallbackRouting WITH
  Nobody <- Null,
  stack <- [t \in Threads |-> [i \in 1..depth[t] |-> Served(t, i)]]

ImplementsRouting == Routing!Spec
=============================================================================
