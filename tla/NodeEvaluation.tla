---------------------------- MODULE NodeEvaluation -----------------------------
(***************************************************************************)
(* One JavaScript thread inside Program.evaluate of the TypeScript binding *)
(* (index.ts: PlainEncoder, evaluate; node.zig: evaluateImpl,              *)
(* invokeFunction, EnvHandle.active).                                      *)
(*                                                                         *)
(* An evaluation flattens its bindings into the buffers of an encoder,     *)
(* then native code decodes them, runs the engine and converts the result. *)
(* JavaScript of the host runs in between: property getters while the      *)
(* bindings are flattened, getters of deferred values while native code    *)
(* decodes, and host functions while the engine runs.  Each of these may   *)
(* call evaluate again.  Decoded strings point into the encoder's bytes,   *)
(* so the buffers must keep their content until evaluate returns.          *)
(*                                                                         *)
(* Evaluation i is the i-th from the bottom of the JavaScript stack.       *)
(***************************************************************************)
EXTENDS Naturals

CONSTANTS
  Envs,        \* EnvHandle externals
  NoEnv,       \* the program was compiled without an environment
  Registered,  \* environments with host functions
  MaxDepth     \* bound on nested evaluations

ASSUME EnvAssumption == NoEnv \notin Envs /\ Registered \subseteq Envs

ASSUME DepthAssumption == MaxDepth \in Nat \ {0}

VARIABLES
  depth,        \* number of evaluations in progress
  slot,         \* slot[i]: evaluation i
  active,       \* active[e]: the evaluation whose converter EnvHandle e uses; 0 is null
  encoderBusy,  \* module variable of index.ts
  content,      \* content[k]: the evaluation encoder k's buffers were filled by
  deferred      \* deferred[k]: the evaluation whose values encoder k still holds

vars == <<depth, slot, active, encoderBusy, content, deferred>>

Evaluation == 1..MaxDepth

\* plainEncoder is shared by all evaluations; encoder k > 0 is the one that
\* evaluation k made for itself.
Shared == 0

Encoder == 0..MaxDepth

\* "encode": index.ts flattens the bindings; "getter": a getter it ran;
\* "decode": plainBindings; "deferred": a getter of a deferred value;
\* "engine": program.evaluate; "callback": a host function.
\* "unwind": the engine returns an error; "finally": native code has returned,
\* or was never entered, and the finally clause of evaluate is next.
Phase == {"none", "encode", "getter", "decode", "deferred", "engine",
          "callback", "unwind", "finally"}

HostPhase == {"getter", "deferred", "callback"}

NativePhase == {"decode", "deferred", "engine", "callback", "unwind"}

Activation ==
  [env : Envs \cup {NoEnv}, phase : Phase, encoder : Encoder,
   previous : 0..MaxDepth, converter : 0..MaxDepth]

Idle ==
  [env |-> NoEnv, phase |-> "none", encoder |-> Shared, previous |-> 0,
   converter |-> 0]

Top == slot[depth]

In(phases) == depth > 0 /\ slot[depth].phase \in phases

\* JavaScript of the host runs.
HostRuns == depth > 0 => slot[depth].phase \in HostPhase

Init ==
  /\ depth = 0
  /\ slot = [i \in Evaluation |-> Idle]
  /\ active = [e \in Envs |-> 0]
  /\ encoderBusy = FALSE
  /\ content = [k \in Encoder |-> 0]
  /\ deferred = [k \in Encoder |-> 0]

-----------------------------------------------------------------------------

Update(activation) == slot' = [slot EXCEPT ![depth] = activation]

\* Faulty: nested evaluations share the encoder.
AlwaysShared(i) == Shared

\* encoderBusy ? new PlainEncoder() : plainEncoder
PickEncoder(i) == IF encoderBusy THEN i ELSE Shared

\* evaluate takes an encoder and fills its buffers from the beginning.
Enter(env) ==
  LET i == depth + 1
      k == PickEncoder(i)
  IN  /\ HostRuns
      /\ depth < MaxDepth
      /\ depth' = i
      /\ slot' = [slot EXCEPT ![i] = [Idle EXCEPT !.env = env, !.encoder = k,
                                                  !.phase = "encode"]]
      /\ encoderBusy' = TRUE
      /\ content' = [content EXCEPT ![k] = i]
      /\ deferred' = [deferred EXCEPT ![k] = i]
      /\ UNCHANGED active

\* Reading a property runs a getter of the host, which returns.
Getter ==
  /\ In({"encode", "decode"})
  /\ Update([Top EXCEPT !.phase = IF @ = "encode" THEN "getter" ELSE "deferred"])
  /\ UNCHANGED <<depth, active, encoderBusy, content, deferred>>

GetterReturns ==
  /\ In({"getter", "deferred"})
  /\ Update([Top EXCEPT !.phase = IF @ = "getter" THEN "encode" ELSE "decode"])
  /\ UNCHANGED <<depth, active, encoderBusy, content, deferred>>

\* Flattening throws: a getter did, or a value is no CEL value.
EncodeFails ==
  /\ In({"encode", "getter"})
  /\ Update([Top EXCEPT !.phase = "finally"])
  /\ UNCHANGED <<depth, active, encoderBusy, content, deferred>>

\* Faulty: saves the active converter when its own has taken the place.
SavedLate(env) == IF env \in Envs THEN depth ELSE 0

\* const previous = if (owner) |handle_owner| handle_owner.active else null
Saved(env) == IF env \in Envs THEN active[env] ELSE 0

\* evaluateImpl saves the environment's active converter and takes its place.
EnterNative ==
  /\ In({"encode"})
  /\ Update([Top EXCEPT !.phase = "decode", !.previous = Saved(Top.env)])
  /\ active' = IF Top.env \in Envs THEN [active EXCEPT ![Top.env] = depth] ELSE active
  /\ UNCHANGED <<depth, encoderBusy, content, deferred>>

\* plainBindings is done and the engine starts.
Decoded ==
  /\ In({"decode"})
  /\ Update([Top EXCEPT !.phase = "engine"])
  /\ UNCHANGED <<depth, active, encoderBusy, content, deferred>>

\* invokeFunction: the active converter of the function's environment serves
\* the call; without one the engine fails with HostFunctionError.
Call ==
  /\ In({"engine"})
  /\ Top.env \in Registered
  /\ LET converter == active[Top.env]
     IN  Update([Top EXCEPT !.converter = converter,
                            !.phase = IF converter = 0 THEN "unwind" ELSE "callback"])
  /\ UNCHANGED <<depth, active, encoderBusy, content, deferred>>

CallReturns ==
  /\ In({"callback"})
  /\ Update([Top EXCEPT !.converter = 0, !.phase = "engine"])
  /\ UNCHANGED <<depth, active, encoderBusy, content, deferred>>

\* Faulty: clears the converter instead of restoring it.
ClearActive(env, previous) == IF env \in Envs THEN [active EXCEPT ![env] = 0] ELSE active

\* Faulty: leaves its own converter behind.
KeepActive(env, previous) == active

\* handle_owner.active = previous
Restore(env, previous) ==
  IF env \in Envs THEN [active EXCEPT ![env] = previous] ELSE active

\* Native code returns a result, or an error from wherever it was: a getter or
\* a host function threw, a value did not convert, or the engine failed.
LeaveNative ==
  /\ In(NativePhase)
  /\ Update([Top EXCEPT !.phase = "finally", !.converter = 0])
  /\ active' = Restore(Top.env, Top.previous)
  /\ UNCHANGED <<depth, encoderBusy, content, deferred>>

\* The finally clause gives the shared encoder back and drops what it deferred;
\* an encoder of its own is garbage.
Release(k) ==
  /\ encoderBusy' = IF k = Shared THEN FALSE ELSE encoderBusy
  /\ deferred' = [deferred EXCEPT ![k] = 0]
  /\ content' = [content EXCEPT ![k] = 0]

Finally ==
  /\ In({"finally"})
  /\ depth' = depth - 1
  /\ Update(Idle)
  /\ Release(Top.encoder)
  /\ UNCHANGED active

Next ==
  \/ \E env \in Envs \cup {NoEnv} : Enter(env)
  \/ Getter \/ GetterReturns \/ EncodeFails
  \/ EnterNative \/ Decoded
  \/ Call \/ CallReturns
  \/ LeaveNative \/ Finally

Spec == Init /\ [][Next]_vars

-----------------------------------------------------------------------------
(* Properties *)

Typed ==
  /\ depth \in 0..MaxDepth
  /\ slot \in [Evaluation -> Activation]
  /\ active \in [Envs -> 0..MaxDepth]
  /\ encoderBusy \in BOOLEAN
  /\ content \in [Encoder -> 0..MaxDepth]
  /\ deferred \in [Encoder -> 0..MaxDepth]

\* Type invariant.  Its pointers have a type of their own: an encoder is the
\* shared one or the evaluation's, a handle points into the stack, and what
\* evaluateImpl saved is null or further down, so that handles are chains.
TypeOK ==
  /\ Typed
  /\ \A i \in 1..depth :
       /\ slot[i].encoder \in {Shared, i}
       /\ slot[i].env \in Envs /\ slot[i].phase \in NativePhase => slot[i].previous < i
  /\ \A e \in Envs : active[e] <= depth

\* As long as an evaluation is in progress its encoder holds the bindings it
\* was given, whatever evaluations getters and host functions start meanwhile:
\* the tags native code decodes, the deferred values it looks up and the bytes
\* its strings point into.
StreamIntact ==
  \A i \in 1..depth :
    slot[i].phase # "finally" =>
      content[slot[i].encoder] = i /\ deferred[slot[i].encoder] = i

\* The shared encoder is marked busy exactly while an evaluation uses it, so
\* that no error path leaves every later evaluation without it, and an idle
\* encoder keeps no value of the host alive.
EncoderReturned ==
  /\ encoderBusy <=> \E i \in 1..depth : slot[i].encoder = Shared
  /\ ~encoderBusy => deferred[Shared] = 0

\* Evaluations that run inside another, from a getter or a host function, leave
\* the encoder they share as they should: its stream is whole and it is given back.
EncoderSound == StreamIntact /\ EncoderReturned

\* A host function is served by the evaluation that called it: the engine
\* neither finds no converter nor that of another evaluation of the same
\* environment.  No converter, which lives on the machine stack, is reachable
\* from its handle once its evaluation has returned.
ServedByCaller ==
  /\ \A i \in 1..depth :
       /\ slot[i].phase = "callback" => slot[i].converter = i
       /\ slot[i].phase # "unwind"
  /\ \A e \in Envs :
       active[e] # 0 => /\ active[e] <= depth
                        /\ slot[active[e]].env = e
                        /\ slot[active[e]].phase \in NativePhase

\* One JavaScript thread with an active pointer per environment keeps the same
\* promise as the thread-local frames of the Python binding.
Served(i) ==
  [compiled |-> slot[i].env,
   owner |-> slot[i].env,
   host |-> slot[i].phase \in HostPhase,
   server |-> IF slot[i].phase = "callback" THEN <<"js", slot[i].converter>> ELSE <<>>]

Routing == INSTANCE CallbackRouting WITH
  Threads <- {"js"},
  Nobody <- <<>>,
  stack <- [t \in {"js"} |-> [i \in 1..depth |-> Served(i)]]

ImplementsRouting == Routing!Spec
=============================================================================
