-------------------------- MODULE NodeEvaluationProofs --------------------------
(***************************************************************************)
(* Safety of the shared encoder and of the active converters, and that they*)
(* implement CallbackRouting for one thread, for any set of environments   *)
(* and any depth of nesting.                                               *)
(***************************************************************************)
EXTENDS NodeEvaluation, SequenceTheorems, TLAPS

-----------------------------------------------------------------------------
(* Stacks as functions and as sequences: this module numbers the evaluations   *)
(* of a thread from one to their depth, CallbackRouting pushes and pops them.  *)

\* A function of the first n numbers is a sequence of length n.
LEMMA StackIsSequence ==
  ASSUME NEW n \in Nat, NEW S, NEW f \in [1..n -> S]
  PROVE  f \in Seq(S) /\ Len(f) = n /\ DOMAIN f = 1..n
OBVIOUS

\* One more at the top.
LEMMA Pushed ==
  ASSUME NEW n \in Nat, NEW S, NEW f \in [1..n -> S], NEW x \in S,
         NEW g \in [1..(n + 1) -> S],
         \A i \in 1..n : g[i] = f[i], g[n + 1] = x
  PROVE  g = Append(f, x)
OBVIOUS

\* The top is gone.
LEMMA Dropped ==
  ASSUME NEW n \in Nat \ {0}, NEW S, NEW f \in [1..n -> S],
         NEW g \in [1..(n - 1) -> S],
         \A i \in 1..(n - 1) : g[i] = f[i]
  PROVE  g = SubSeq(f, 1, Len(f) - 1)
OBVIOUS
-----------------------------------------------------------------------------

\* What CallbackRouting says of evaluations, for environments envs and servers.
EvaluationsOf(envs, servers) == [compiled : envs, owner : envs, host : BOOLEAN, server : servers]

\* Evaluations with the same fields are equal.
LEMMA SameFields ==
  ASSUME NEW envs, NEW servers, NEW r \in EvaluationsOf(envs, servers), NEW s \in EvaluationsOf(envs, servers),
         r.compiled = s.compiled, r.owner = s.owner, r.host = s.host, r.server = s.server
  PROVE  r = s
BY DEF EvaluationsOf

\* Setting the two fields that a callback changes.
LEMMA HostFields ==
  ASSUME NEW envs, NEW servers, NEW s \in EvaluationsOf(envs, servers),
         NEW host \in BOOLEAN, NEW server \in servers
  PROVE  [[s EXCEPT !.host = host] EXCEPT !.server = server]
         = [compiled |-> s.compiled, owner |-> s.owner, host |-> host, server |-> server]
<1> DEFINE a == [[s EXCEPT !.host = host] EXCEPT !.server = server]
           b == [compiled |-> s.compiled, owner |-> s.owner, host |-> host, server |-> server]
<1>1. a \in EvaluationsOf(envs, servers) /\ b \in EvaluationsOf(envs, servers)
  BY DEF EvaluationsOf
<1>2. a.compiled = b.compiled /\ a.owner = b.owner /\ a.server = b.server
  BY DEF EvaluationsOf
<1>3. a.host = b.host
  BY DEF EvaluationsOf
<1> HIDE DEF a, b
<1>4. a = b
  BY <1>1, <1>2, <1>3, SameFields
<1>5. QED
  BY <1>4 DEF a, b


\* Evaluations that wait for host code lie below one that may run.
PhaseInv ==
  \A i \in 1..depth :
    /\ slot[i].phase \notin {"none", "unwind"}
    /\ i < depth => slot[i].phase \in HostPhase

\* Each evaluation has the shared encoder or one of its own, and only one has
\* the shared one.  The buffers it filled are dropped by its finally clause only.
EncoderInv ==
  /\ \A i \in 1..depth :
       /\ slot[i].encoder \in {Shared, i}
       /\ content[slot[i].encoder] = i /\ deferred[slot[i].encoder] = i
       /\ \A j \in 1..depth : slot[i].encoder = Shared /\ slot[j].encoder = Shared => i = j
  /\ encoderBusy <=> \E i \in 1..depth : slot[i].encoder = Shared
  /\ ~encoderBusy => deferred[Shared] = 0

\* Evaluation k uses the converter of environment e.
Native(stack, k, e) == stack[k].env = e /\ stack[k].phase \in NativePhase

\* k is the innermost of the first n evaluations that uses it, or 0 when none does.
Innermost(stack, k, e, n) ==
  /\ k \in 0..n
  /\ k # 0 => Native(stack, k, e)
  /\ \A j \in 1..n : j > k => ~Native(stack, j, e)

\* The handle points at the innermost converter, and each saved the next one.
ActiveInv ==
  /\ \A e \in Envs : Innermost(slot, active[e], e, depth)
  /\ \A i \in 1..depth :
       slot[i].env \in Envs /\ slot[i].phase \in NativePhase =>
         Innermost(slot, slot[i].previous, slot[i].env, i - 1)

ConverterInv == \A i \in 1..depth : slot[i].phase = "callback" => slot[i].converter = i

\* The inductive invariant.
Inv == Typed /\ PhaseInv /\ EncoderInv /\ ActiveInv /\ ConverterInv

-----------------------------------------------------------------------------

\* An evaluation that is none is of the right type.
LEMMA IdleType == Idle \in Activation /\ 0 \in 0..MaxDepth /\ Shared \in Encoder
<1>1. 0 \in 0..MaxDepth
  BY DepthAssumption
<1>2. QED
  BY <1>1 DEF Idle, Activation, Phase, Encoder, Shared

LEMMA InitInv == Init => Inv
<1> SUFFICES ASSUME Init PROVE Inv
  OBVIOUS
<1> USE DepthAssumption, EnvAssumption DEF Init
<1>1. Typed
  BY IdleType DEF Typed
<1>2. PhaseInv /\ ActiveInv /\ ConverterInv
  BY DEF PhaseInv, ActiveInv, ConverterInv, Innermost
<1>3. EncoderInv
  BY DEF EncoderInv, Encoder, Shared
<1>4. QED
  BY <1>1, <1>2, <1>3 DEF Inv

\* The innermost evaluation is one, of the right type.
LEMMA TopType ==
  ASSUME Typed, depth > 0
  PROVE  /\ depth \in 1..MaxDepth
         /\ Top = slot[depth] /\ Top \in Activation
BY DepthAssumption DEF Typed, Top, Evaluation

\* Whether k is the innermost converter depends on environments and on who is
\* in native code.
LEMMA SameInnermost ==
  ASSUME NEW stack, NEW next, NEW k, NEW e, NEW n \in Nat,
         \A i \in 1..n : next[i].env = stack[i].env
                         /\ (next[i].phase \in NativePhase <=> stack[i].phase \in NativePhase),
         Innermost(stack, k, e, n)
  PROVE  Innermost(next, k, e, n)
BY DEF Innermost, Native

\* A step of the innermost evaluation that stays in native code or outside of
\* it, and keeps its encoder and what it saved.
LEMMA LocalInv ==
  ASSUME Inv, depth > 0, NEW activation \in Activation, Update(activation),
         UNCHANGED <<depth, active, encoderBusy, content, deferred>>,
         activation.env = Top.env, activation.encoder = Top.encoder,
         activation.previous = Top.previous,
         activation.phase \in NativePhase <=> Top.phase \in NativePhase,
         activation.phase \notin {"none", "unwind"},
         activation.phase = "callback" => activation.converter = depth
  PROVE  Inv'
<1> USE DepthAssumption DEF Inv
<1>1. depth \in 1..MaxDepth /\ Top = slot[depth]
  BY TopType
<1>2. /\ slot' \in [Evaluation -> Activation]
      /\ slot'[depth] = activation
      /\ \A i \in 1..depth : i # depth => slot'[i] = slot[i]
  BY <1>1 DEF Update, Typed, Evaluation
<1>3. \A i \in 1..depth :
        /\ slot'[i].env = slot[i].env /\ slot'[i].encoder = slot[i].encoder
        /\ slot'[i].previous = slot[i].previous
        /\ slot'[i].phase \in NativePhase <=> slot[i].phase \in NativePhase
  BY <1>1, <1>2
<1>4. Typed'
  BY <1>2 DEF Typed
<1>5. PhaseInv' /\ ConverterInv'
  BY <1>1, <1>2 DEF PhaseInv, ConverterInv
<1>6. EncoderInv'
  BY <1>3 DEF EncoderInv
<1>7. ActiveInv'
  <2>1. ASSUME NEW e \in Envs PROVE Innermost(slot', active'[e], e, depth')
    BY <1>1, <1>3, SameInnermost DEF ActiveInv
  <2>2. ASSUME NEW i \in 1..depth, slot'[i].env \in Envs, slot'[i].phase \in NativePhase
        PROVE  Innermost(slot', slot'[i].previous, slot'[i].env, i - 1)
    <3>1. Innermost(slot, slot[i].previous, slot[i].env, i - 1)
      BY <1>3, <2>2 DEF ActiveInv
    <3>2. i - 1 \in Nat /\ \A j \in 1..(i - 1) : j \in 1..depth
      BY <1>1
    <3>3. QED
      BY <1>3, <3>1, <3>2, SameInnermost
  <2>3. QED
    BY <1>1, <2>1, <2>2 DEF ActiveInv
<1>8. QED
  BY <1>4, <1>5, <1>6, <1>7

-----------------------------------------------------------------------------
(* The steps of the innermost evaluation *)

LEMMA GetterInv == ASSUME Inv, Getter PROVE Inv'
<1>1. depth > 0 /\ Top = slot[depth] /\ Top \in Activation /\ Top.phase \in {"encode", "decode"}
  BY TopType DEF Getter, In, Inv, Typed
<1> DEFINE activation == [Top EXCEPT !.phase = IF @ = "encode" THEN "getter" ELSE "deferred"]
<1>2. /\ activation \in Activation
      /\ activation.env = Top.env /\ activation.encoder = Top.encoder
      /\ activation.previous = Top.previous
      /\ activation.phase = IF Top.phase = "encode" THEN "getter" ELSE "deferred"
  BY <1>1 DEF Activation, Phase
<1>3. Update(activation) /\ UNCHANGED <<depth, active, encoderBusy, content, deferred>>
  BY DEF Getter
<1> HIDE DEF activation
<1>4. QED
  BY <1>1, <1>2, <1>3, LocalInv DEF NativePhase

LEMMA GetterReturnsInv == ASSUME Inv, GetterReturns PROVE Inv'
<1>1. depth > 0 /\ Top = slot[depth] /\ Top \in Activation /\ Top.phase \in {"getter", "deferred"}
  BY TopType DEF GetterReturns, In, Inv, Typed
<1> DEFINE activation == [Top EXCEPT !.phase = IF @ = "getter" THEN "encode" ELSE "decode"]
<1>2. /\ activation \in Activation
      /\ activation.env = Top.env /\ activation.encoder = Top.encoder
      /\ activation.previous = Top.previous
      /\ activation.phase = IF Top.phase = "getter" THEN "encode" ELSE "decode"
  BY <1>1 DEF Activation, Phase
<1>3. Update(activation) /\ UNCHANGED <<depth, active, encoderBusy, content, deferred>>
  BY DEF GetterReturns
<1> HIDE DEF activation
<1>4. QED
  BY <1>1, <1>2, <1>3, LocalInv DEF NativePhase

LEMMA EncodeFailsInv == ASSUME Inv, EncodeFails PROVE Inv'
<1>1. depth > 0 /\ Top = slot[depth] /\ Top \in Activation /\ Top.phase \in {"encode", "getter"}
  BY TopType DEF EncodeFails, In, Inv, Typed
<1> DEFINE activation == [Top EXCEPT !.phase = "finally"]
<1>2. /\ activation \in Activation
      /\ activation.env = Top.env /\ activation.encoder = Top.encoder
      /\ activation.previous = Top.previous
      /\ activation.phase = "finally"
  BY <1>1 DEF Activation, Phase
<1>3. Update(activation) /\ UNCHANGED <<depth, active, encoderBusy, content, deferred>>
  BY DEF EncodeFails
<1> HIDE DEF activation
<1>4. QED
  BY <1>1, <1>2, <1>3, LocalInv DEF NativePhase

LEMMA DecodedInv == ASSUME Inv, Decoded PROVE Inv'
<1>1. depth > 0 /\ Top = slot[depth] /\ Top \in Activation /\ Top.phase = "decode"
  BY TopType DEF Decoded, In, Inv, Typed
<1> DEFINE activation == [Top EXCEPT !.phase = "engine"]
<1>2. /\ activation \in Activation
      /\ activation.env = Top.env /\ activation.encoder = Top.encoder
      /\ activation.previous = Top.previous
      /\ activation.phase = "engine"
  BY <1>1 DEF Activation, Phase
<1>3. Update(activation) /\ UNCHANGED <<depth, active, encoderBusy, content, deferred>>
  BY DEF Decoded
<1> HIDE DEF activation
<1>4. QED
  BY <1>1, <1>2, <1>3, LocalInv DEF NativePhase

\* The caller itself is the innermost converter of its environment.
LEMMA CallInv == ASSUME Inv, Call PROVE Inv'
<1>1. depth \in 1..MaxDepth /\ Top = slot[depth] /\ Top \in Activation /\ Top.phase = "engine"
  BY TopType DEF Call, In, Inv, Typed
<1>2. active[Top.env] = depth
  <2>1. Top.env \in Envs
    BY EnvAssumption DEF Call
  <2>2. Innermost(slot, active[Top.env], Top.env, depth)
    BY <2>1 DEF Inv, ActiveInv
  <2>3. Native(slot, depth, Top.env)
    BY <1>1 DEF Native, NativePhase
  <2>4. QED
    BY <1>1, <2>2, <2>3 DEF Innermost
<1> DEFINE activation == [Top EXCEPT !.converter = depth, !.phase = "callback"]
<1>3. /\ activation \in Activation
      /\ activation.env = Top.env /\ activation.encoder = Top.encoder
      /\ activation.previous = Top.previous
      /\ activation.phase = "callback" /\ activation.converter = depth
  <2>1. depth \in 0..MaxDepth
    BY <1>1
  <2>2. QED
    BY <1>1, <2>1 DEF Activation, Phase
<1>4. Update(activation) /\ UNCHANGED <<depth, active, encoderBusy, content, deferred>>
  <2>1. depth # 0
    BY <1>1
  <2>2. QED
    BY <1>2, <2>1 DEF Call
<1> HIDE DEF activation
<1>5. QED
  BY <1>1, <1>3, <1>4, LocalInv DEF NativePhase

LEMMA CallReturnsInv == ASSUME Inv, CallReturns PROVE Inv'
<1>1. depth > 0 /\ Top = slot[depth] /\ Top \in Activation /\ Top.phase = "callback"
  BY TopType DEF CallReturns, In, Inv, Typed
<1> DEFINE activation == [Top EXCEPT !.converter = 0, !.phase = "engine"]
<1>2. /\ activation \in Activation
      /\ activation.env = Top.env /\ activation.encoder = Top.encoder
      /\ activation.previous = Top.previous
      /\ activation.phase = "engine"
  BY <1>1, IdleType DEF Activation, Phase
<1>3. Update(activation) /\ UNCHANGED <<depth, active, encoderBusy, content, deferred>>
  BY DEF CallReturns
<1> HIDE DEF activation
<1>4. QED
  BY <1>1, <1>2, <1>3, LocalInv DEF NativePhase

-----------------------------------------------------------------------------
(* The steps that enter and leave *)

LEMMA EnterInv == ASSUME Inv, NEW env \in Envs \cup {NoEnv}, Enter(env) PROVE Inv'
<1> USE DepthAssumption DEF Inv
<1> DEFINE n == depth + 1
           k == PickEncoder(n)
           activation == [Idle EXCEPT !.env = env, !.encoder = k, !.phase = "encode"]
<1>1. n \in 1..MaxDepth /\ depth \in 0..MaxDepth /\ depth' = n
  BY DEF Enter, Typed
<1>2. k \in {Shared, n} /\ k \in Encoder /\ (k = Shared <=> ~encoderBusy)
  BY <1>1 DEF PickEncoder, Shared, Encoder
<1> HIDE DEF k
<1>3. /\ activation \in Activation
      /\ activation.env = env /\ activation.encoder = k /\ activation.phase = "encode"
  BY <1>2, IdleType DEF Activation, Phase, Idle
<1> HIDE DEF activation
<1>4. /\ slot' = [slot EXCEPT ![n] = activation]
      /\ encoderBusy' = TRUE
      /\ content' = [content EXCEPT ![k] = n] /\ deferred' = [deferred EXCEPT ![k] = n]
      /\ active' = active
  BY DEF Enter, k, activation
<1> HIDE DEF n
<1>5. /\ slot'[n] = activation
      /\ \A i \in 1..depth : slot'[i] = slot[i] /\ i # n /\ i \in 1..MaxDepth
      /\ 1..n = 1..depth \cup {n}
  BY <1>1, <1>4 DEF Typed, Evaluation, n
<1>6. Typed'
  <2>1. slot' \in [Evaluation -> Activation]
    BY <1>1, <1>3, <1>4 DEF Typed, Evaluation
  <2>2. content' \in [Encoder -> 0..MaxDepth] /\ deferred' \in [Encoder -> 0..MaxDepth]
    BY <1>1, <1>2, <1>4 DEF Typed
  <2>3. QED
    BY <1>1, <1>4, <2>1, <2>2 DEF Typed
<1>7. PhaseInv'
  <2>1. \A i \in 1..depth : slot[i].phase \in HostPhase
    BY <1>1 DEF Enter, HostRuns, PhaseInv
  <2>2. QED
    BY <1>1, <1>3, <1>5, <2>1 DEF PhaseInv, HostPhase
<1>8. ConverterInv'
  BY <1>1, <1>3, <1>5 DEF ConverterInv
<1>9. EncoderInv'
  <2>1. \A i \in 1..depth : slot[i].encoder # k
    BY <1>1, <1>2, <1>5 DEF EncoderInv, Shared, n
  <2>2. /\ content'[k] = n /\ deferred'[k] = n
        /\ \A i \in 1..depth : /\ content'[slot[i].encoder] = content[slot[i].encoder]
                               /\ deferred'[slot[i].encoder] = deferred[slot[i].encoder]
    BY <1>2, <1>4, <2>1 DEF Typed
  <2>3. \A i \in 1..n : /\ slot'[i].encoder \in {Shared, i}
                        /\ content'[slot'[i].encoder] = i /\ deferred'[slot'[i].encoder] = i
    BY <1>2, <1>3, <1>5, <2>2 DEF EncoderInv
  <2>4. \A i, j \in 1..n : slot'[i].encoder = Shared /\ slot'[j].encoder = Shared => i = j
    BY <1>2, <1>3, <1>5, <2>1 DEF EncoderInv
  <2>5. \E i \in 1..n : slot'[i].encoder = Shared
    BY <1>1, <1>2, <1>3, <1>5 DEF EncoderInv
  <2>6. QED
    BY <1>1, <1>4, <2>3, <2>4, <2>5 DEF EncoderInv
<1>10. ActiveInv'
  <2>1. ASSUME NEW e \in Envs PROVE Innermost(slot', active'[e], e, depth')
    <3>1. Innermost(slot, active[e], e, depth)
      BY DEF ActiveInv
    <3>2. ~Native(slot', n, e)
      BY <1>3, <1>5 DEF Native, NativePhase
    <3>3. Innermost(slot', active[e], e, depth)
      BY <1>1, <1>5, <3>1, SameInnermost
    <3>4. \A j \in 1..n : j \in 1..depth \/ j = n
      BY <1>1 DEF n
    <3>5. active'[e] = active[e] /\ active[e] \in 0..n
      BY <1>1, <1>4, <3>1 DEF Innermost, n
    <3>6. QED
      BY <1>1, <3>2, <3>3, <3>4, <3>5 DEF Innermost
  <2>2. ASSUME NEW i \in 1..n, slot'[i].env \in Envs, slot'[i].phase \in NativePhase
        PROVE  Innermost(slot', slot'[i].previous, slot'[i].env, i - 1)
    <3>1. i \in 1..depth
      BY <1>3, <1>5, <2>2 DEF NativePhase
    <3>2. Innermost(slot, slot[i].previous, slot[i].env, i - 1)
      BY <1>5, <2>2, <3>1 DEF ActiveInv
    <3>3. i - 1 \in Nat /\ \A j \in 1..(i - 1) : j \in 1..depth
      BY <1>1, <3>1
    <3>4. QED
      BY <1>5, <3>1, <3>2, <3>3, SameInnermost
  <2>3. QED
    BY <1>1, <2>1, <2>2 DEF ActiveInv
<1>11. QED
  BY <1>6, <1>7, <1>8, <1>9, <1>10

LEMMA EnterNativeInv == ASSUME Inv, EnterNative PROVE Inv'
<1> USE DepthAssumption DEF Inv
<1>1. /\ depth \in 1..MaxDepth /\ Top = slot[depth] /\ Top \in Activation
      /\ Top.phase = "encode"
  BY TopType DEF EnterNative, In, Typed
<1> DEFINE saved == Saved(Top.env)
           activation == [Top EXCEPT !.phase = "decode", !.previous = saved]
<1>2. saved \in 0..MaxDepth
  BY DEF Typed, Saved
<1> HIDE DEF saved
<1>3. /\ activation \in Activation
      /\ activation.env = Top.env /\ activation.encoder = Top.encoder
      /\ activation.previous = saved /\ activation.phase = "decode"
  BY <1>1, <1>2 DEF Activation, Phase
<1> HIDE DEF activation
<1>4. /\ slot' = [slot EXCEPT ![depth] = activation]
      /\ active' = IF Top.env \in Envs THEN [active EXCEPT ![Top.env] = depth] ELSE active
      /\ UNCHANGED <<depth, encoderBusy, content, deferred>>
  BY DEF EnterNative, Update, activation, saved
<1>5. /\ slot'[depth] = activation
      /\ \A i \in 1..depth : i # depth => slot'[i] = slot[i]
      /\ \A i \in 1..depth : slot'[i].encoder = slot[i].encoder /\ slot'[i].env = slot[i].env
  BY <1>1, <1>3, <1>4 DEF Typed, Evaluation
<1>6. Typed'
  <2>1. slot' \in [Evaluation -> Activation] /\ active' \in [Envs -> 0..MaxDepth]
    BY <1>1, <1>3, <1>4 DEF Typed, Evaluation
  <2>2. QED
    BY <1>4, <2>1 DEF Typed
<1>7. PhaseInv' /\ ConverterInv'
  BY <1>1, <1>3, <1>4, <1>5 DEF PhaseInv, ConverterInv
<1>8. EncoderInv'
  BY <1>4, <1>5 DEF EncoderInv
<1>9. ActiveInv'
  <2>1. ASSUME NEW e \in Envs PROVE Innermost(slot', active'[e], e, depth)
    <3>1. CASE e = Top.env
      <4>1. active'[e] = depth
        BY <1>4, <3>1 DEF Typed
      <4>2. Native(slot', depth, e)
        BY <1>3, <1>5, <3>1 DEF Native, NativePhase
      <4>3. QED
        BY <1>1, <4>1, <4>2 DEF Innermost
    <3>2. CASE e # Top.env
      <4>1. active'[e] = active[e] /\ Innermost(slot, active[e], e, depth)
        BY <1>4, <3>2 DEF Typed, ActiveInv
      <4>2. \A j \in 1..depth : Native(slot', j, e) <=> Native(slot, j, e)
        BY <1>1, <1>5, <3>2 DEF Native
      <4>3. QED
        BY <4>1, <4>2 DEF Innermost
    <3>3. QED
      BY <3>1, <3>2
  <2>2. ASSUME NEW i \in 1..depth, slot'[i].env \in Envs, slot'[i].phase \in NativePhase
        PROVE  Innermost(slot', slot'[i].previous, slot'[i].env, i - 1)
    <3>1. i - 1 \in Nat /\ \A j \in 1..(i - 1) : j \in 1..depth /\ slot'[j] = slot[j]
      BY <1>1, <1>5
    <3>2. Innermost(slot, slot'[i].previous, slot[i].env, i - 1)
      <4>1. CASE i = depth
        <5>1. slot'[i].previous = active[slot[i].env] /\ slot[i].env \in Envs
          BY <1>1, <1>3, <1>5, <2>2, <4>1 DEF saved, Saved
        <5>2. Innermost(slot, active[slot[i].env], slot[i].env, depth)
          BY <5>1 DEF ActiveInv
        <5>3. ~Native(slot, depth, slot[i].env)
          BY <1>1 DEF Native, NativePhase
        <5>4. QED
          BY <1>1, <4>1, <5>1, <5>2, <5>3 DEF Innermost
      <4>2. CASE i # depth
        BY <1>5, <2>2, <4>2 DEF ActiveInv
      <4>3. QED
        BY <4>1, <4>2
    <3>3. QED
      BY <1>5, <3>1, <3>2, SameInnermost
  <2>3. QED
    BY <1>4, <2>1, <2>2 DEF ActiveInv
<1>10. QED
  BY <1>6, <1>7, <1>8, <1>9

LEMMA LeaveNativeInv == ASSUME Inv, LeaveNative PROVE Inv'
<1> USE DepthAssumption DEF Inv
<1>1. /\ depth \in 1..MaxDepth /\ Top = slot[depth] /\ Top \in Activation
      /\ Top.phase \in NativePhase
  BY TopType DEF LeaveNative, In, Typed
<1> DEFINE activation == [Top EXCEPT !.phase = "finally", !.converter = 0]
<1>2. /\ activation \in Activation
      /\ activation.env = Top.env /\ activation.encoder = Top.encoder
      /\ activation.previous = Top.previous /\ activation.phase = "finally"
  BY <1>1, IdleType DEF Activation, Phase
<1> HIDE DEF activation
<1>3. /\ slot' = [slot EXCEPT ![depth] = activation]
      /\ active' = IF Top.env \in Envs THEN [active EXCEPT ![Top.env] = Top.previous] ELSE active
      /\ UNCHANGED <<depth, encoderBusy, content, deferred>>
  BY DEF LeaveNative, Update, Restore, activation
<1>4. /\ slot'[depth] = activation
      /\ \A i \in 1..depth : i # depth => slot'[i] = slot[i]
      /\ \A i \in 1..depth : slot'[i].encoder = slot[i].encoder /\ slot'[i].env = slot[i].env
  BY <1>1, <1>2, <1>3 DEF Typed, Evaluation
<1>5. Typed'
  <2>1. Top.previous \in 0..MaxDepth
    BY <1>1 DEF Activation
  <2>2. slot' \in [Evaluation -> Activation] /\ active' \in [Envs -> 0..MaxDepth]
    BY <1>1, <1>2, <1>3, <2>1 DEF Typed, Evaluation
  <2>3. QED
    BY <1>3, <2>2 DEF Typed
<1>6. PhaseInv' /\ ConverterInv'
  BY <1>1, <1>2, <1>3, <1>4 DEF PhaseInv, ConverterInv
<1>7. EncoderInv'
  BY <1>3, <1>4 DEF EncoderInv
<1>8. ActiveInv'
  <2>1. ASSUME NEW e \in Envs PROVE Innermost(slot', active'[e], e, depth)
    <3>1. ~Native(slot', depth, e)
      BY <1>2, <1>4 DEF Native, NativePhase
    <3>2. \A j \in 1..(depth - 1) : Native(slot', j, e) <=> Native(slot, j, e)
      BY <1>1, <1>4 DEF Native
    <3>3. Innermost(slot, active'[e], e, depth - 1)
      <4>1. CASE e = Top.env
        <5>1. active'[e] = slot[depth].previous
          BY <1>1, <1>3, <4>1 DEF Typed
        <5>2. QED
          BY <1>1, <4>1, <5>1 DEF ActiveInv
      <4>2. CASE e # Top.env
        <5>1. active'[e] = active[e] /\ Innermost(slot, active[e], e, depth)
          BY <1>3, <4>2 DEF Typed, ActiveInv
        <5>2. ~Native(slot, depth, e)
          BY <1>1, <4>2 DEF Native
        <5>3. QED
          BY <1>1, <5>1, <5>2 DEF Innermost
      <4>3. QED
        BY <4>1, <4>2
    <3>4. QED
      BY <1>1, <3>1, <3>2, <3>3 DEF Innermost
  <2>2. ASSUME NEW i \in 1..depth, slot'[i].env \in Envs, slot'[i].phase \in NativePhase
        PROVE  Innermost(slot', slot'[i].previous, slot'[i].env, i - 1)
    <3>1. i # depth
      BY <1>2, <1>4, <2>2 DEF NativePhase
    <3>2. i - 1 \in Nat /\ \A j \in 1..(i - 1) : slot'[j] = slot[j]
      BY <1>1, <1>4
    <3>3. Innermost(slot, slot[i].previous, slot[i].env, i - 1)
      BY <1>4, <2>2, <3>1 DEF ActiveInv
    <3>4. QED
      BY <1>4, <3>1, <3>2, <3>3, SameInnermost
  <2>3. QED
    BY <1>3, <2>1, <2>2 DEF ActiveInv
<1>9. QED
  BY <1>5, <1>6, <1>7, <1>8

LEMMA FinallyInv == ASSUME Inv, Finally PROVE Inv'
<1> USE DepthAssumption DEF Inv
<1> DEFINE k == Top.encoder
<1>1. /\ depth \in 1..MaxDepth /\ Top = slot[depth] /\ Top \in Activation
      /\ Top.phase = "finally"
  BY TopType DEF Finally, In, Typed
<1>2. /\ depth' = depth - 1
      /\ slot' = [slot EXCEPT ![depth] = Idle]
      /\ encoderBusy' = IF k = Shared THEN FALSE ELSE encoderBusy
      /\ deferred' = [deferred EXCEPT ![k] = 0] /\ content' = [content EXCEPT ![k] = 0]
      /\ active' = active
  BY DEF Finally, Update, Release
<1>3. \A i \in 1..depth' : i \in 1..depth /\ i < depth /\ slot'[i] = slot[i]
  BY <1>1, <1>2 DEF Typed, Evaluation
<1>4. k \in Encoder /\ k \in {Shared, depth}
  BY <1>1 DEF Activation, EncoderInv
<1> HIDE DEF k
<1>5. Typed'
  <2>1. depth' \in 0..MaxDepth
    BY <1>1, <1>2
  <2>2. slot' \in [Evaluation -> Activation]
    BY <1>2, IdleType DEF Typed
  <2>3. encoderBusy' \in BOOLEAN
    BY <1>2 DEF Typed
  <2>4. content' \in [Encoder -> 0..MaxDepth] /\ deferred' \in [Encoder -> 0..MaxDepth]
    BY <1>2, IdleType DEF Typed
  <2>5. QED
    BY <1>2, <2>1, <2>2, <2>3, <2>4 DEF Typed
<1>6. PhaseInv' /\ ConverterInv'
  BY <1>3 DEF PhaseInv, ConverterInv
<1>7. EncoderInv'
  <2>1. \A i \in 1..depth' : slot[i].encoder # k
    BY <1>1, <1>3, <1>4 DEF EncoderInv, k, Shared
  <2>2. \A i \in 1..depth' : /\ content'[slot[i].encoder] = content[slot[i].encoder]
                             /\ deferred'[slot[i].encoder] = deferred[slot[i].encoder]
    <3>1. \A i \in 1..depth' : slot[i].encoder \in Encoder
      BY <1>1, <1>3 DEF Typed, Evaluation, Activation
    <3>2. QED
      BY <1>2, <2>1, <3>1 DEF Typed
  <2>3. encoderBusy' <=> \E i \in 1..depth' : slot'[i].encoder = Shared
    <3>1. CASE k = Shared
      BY <1>2, <1>3, <2>1, <3>1
    <3>2. CASE k # Shared
      <4>1. \A i \in 1..depth : slot[i].encoder = Shared => i \in 1..depth'
        BY <1>1, <1>2, <3>2 DEF k
      <4>2. QED
        BY <1>2, <1>3, <3>2, <4>1 DEF EncoderInv
    <3>3. QED
      BY <3>1, <3>2
  <2>4. ~encoderBusy' => deferred'[Shared] = 0
    <3>1. CASE k = Shared
      BY <1>2, <1>4, <3>1 DEF Typed
    <3>2. CASE k # Shared
      BY <1>2, <3>2 DEF Typed, EncoderInv, Encoder, Shared
    <3>3. QED
      BY <3>1, <3>2
  <2>5. QED
    BY <1>3, <2>2, <2>3, <2>4 DEF EncoderInv
<1>8. ActiveInv'
  <2>1. ASSUME NEW e \in Envs PROVE Innermost(slot', active'[e], e, depth')
    <3>1. Innermost(slot, active[e], e, depth) /\ ~Native(slot, depth, e)
      BY <1>1 DEF ActiveInv, Native, NativePhase
    <3>2. Innermost(slot, active[e], e, depth')
      BY <1>1, <1>2, <3>1 DEF Innermost
    <3>3. depth' \in Nat
      BY <1>1, <1>2
    <3>4. QED
      BY <1>2, <1>3, <3>2, <3>3, SameInnermost
  <2>2. ASSUME NEW i \in 1..depth', slot'[i].env \in Envs, slot'[i].phase \in NativePhase
        PROVE  Innermost(slot', slot'[i].previous, slot'[i].env, i - 1)
    <3>1. Innermost(slot, slot[i].previous, slot[i].env, i - 1)
      BY <1>3, <2>2 DEF ActiveInv
    <3>2. i - 1 \in Nat /\ \A j \in 1..(i - 1) : slot'[j] = slot[j]
      BY <1>1, <1>2, <1>3
    <3>3. QED
      BY <1>3, <3>1, <3>2, SameInnermost
  <2>3. QED
    BY <2>1, <2>2 DEF ActiveInv
<1>9. QED
  BY <1>5, <1>6, <1>7, <1>8

LEMMA NextInv == ASSUME Inv, [Next]_vars PROVE Inv'
<1>1. CASE UNCHANGED vars
  BY <1>1 DEF Inv, vars, Typed, PhaseInv, EncoderInv, ActiveInv, ConverterInv
<1>2. CASE Next
  BY <1>2, EnterInv, GetterInv, GetterReturnsInv, EncodeFailsInv, EnterNativeInv, DecodedInv,
     CallInv, CallReturnsInv, LeaveNativeInv, FinallyInv DEF Next
<1>3. QED
  BY <1>1, <1>2

LEMMA AlwaysInv == Spec => []Inv
BY InitInv, NextInv, PTL DEF Spec

-----------------------------------------------------------------------------
(* Theorems *)

\* Every state of a JavaScript thread in Program.evaluate is of the right type.
THEOREM TypeCorrect == Spec => []TypeOK
<1>1. Inv => TypeOK
  <2> SUFFICES ASSUME Inv PROVE TypeOK
    OBVIOUS
  <2>1. ASSUME NEW i \in 1..depth, slot[i].env \in Envs, slot[i].phase \in NativePhase
        PROVE  slot[i].previous < i
    <3>1. slot[i].previous \in 0..(i - 1)
      BY <2>1 DEF Inv, ActiveInv, Innermost
    <3>2. QED
      BY <3>1, DepthAssumption DEF Inv, Typed
  <2>2. \A e \in Envs : active[e] \in 0..depth
    BY DEF Inv, ActiveInv, Innermost
  <2>3. QED
    BY <2>1, <2>2, DepthAssumption DEF Inv, Typed, EncoderInv, TypeOK
<1>2. QED
  BY <1>1, AlwaysInv, PTL

\* Nested evaluations never overwrite a stream that is still read, and the
\* shared encoder of index.ts is given back on every path.
THEOREM EncodersAreSound == Spec => []EncoderSound
<1>1. Inv => EncoderSound
  BY DEF Inv, EncoderInv, EncoderSound, StreamIntact, EncoderReturned
<1>2. QED
  BY <1>1, AlwaysInv, PTL

\* EnvHandle.active is the caller's converter at every call of a host function,
\* and no handle keeps a converter whose evaluation is over.
THEOREM CallersServe == Spec => []ServedByCaller
<1>1. Inv => ServedByCaller
  BY DEF Inv, Typed, PhaseInv, ActiveInv, ConverterInv, Innermost, Native, ServedByCaller
<1>2. QED
  BY <1>1, AlwaysInv, PTL

-----------------------------------------------------------------------------
(* The refinement of CallbackRouting *)

Servers == {<<"js", i>> : i \in 0..MaxDepth} \cup {<<>>}

\* The refinement mapping.
Stack == [t \in {"js"} |-> [i \in 1..depth |-> Served(i)]]

Seen == EvaluationsOf(Envs \cup {NoEnv}, Servers)

\* An evaluation as CallbackRouting sees it.
ServedAs(activation) ==
  [compiled |-> activation.env,
   owner |-> activation.env,
   host |-> activation.phase \in HostPhase,
   server |-> IF activation.phase = "callback" THEN <<"js", activation.converter>> ELSE <<>>]

-----------------------------------------------------------------------------

LEMMA ServedFields ==
  ASSUME NEW a \in Activation
  PROVE  /\ ServedAs(a) \in Seen
         /\ ServedAs(a).compiled = a.env /\ ServedAs(a).owner = a.env
         /\ ServedAs(a).host <=> a.phase \in HostPhase
<1>1. ServedAs(a) \in Seen
  BY DEF ServedAs, Seen, EvaluationsOf, Activation, Servers
<1>2. ServedAs(a).host = (a.phase \in HostPhase)
  BY DEF ServedAs
<1>3. ServedAs(a).compiled = a.env /\ ServedAs(a).owner = a.env
  BY DEF ServedAs
<1>4. QED
  BY <1>1, <1>2, <1>3

\* Setting the two fields that host code changes.
LEMMA SeenFields ==
  ASSUME NEW s \in Seen, NEW host \in BOOLEAN, NEW server \in Servers
  PROVE  [[s EXCEPT !.host = host] EXCEPT !.server = server]
         = [compiled |-> s.compiled, owner |-> s.owner, host |-> host, server |-> server]
BY HostFields DEF Seen

\* The mapped stack is a sequence of as many evaluations as are in progress.
LEMMA StackType ==
  ASSUME Inv
  PROVE  /\ Stack["js"] \in [1..depth -> Seen]
         /\ Len(Stack["js"]) = depth /\ DOMAIN Stack["js"] = 1..depth
         /\ \A i \in 1..depth : Stack["js"][i] = ServedAs(slot[i])
         /\ depth > 0 => Stack["js"] # <<>> /\ Stack["js"][depth] = ServedAs(Top)
         /\ depth = 0 => Stack["js"] = <<>>
         /\ depth \in 0..MaxDepth
<1>1. depth \in 0..MaxDepth /\ depth \in Nat
  BY DepthAssumption DEF Inv, Typed
<1>2. \A i \in 1..depth : slot[i] \in Activation
  BY <1>1, DepthAssumption DEF Inv, Typed, Evaluation
<1>3. \A i \in 1..depth : ServedAs(slot[i]) \in Seen
  BY <1>2, ServedFields
<1>4. Stack["js"] = [i \in 1..depth |-> ServedAs(slot[i])]
  BY DEF Stack, Served, ServedAs
<1>5. Stack["js"] \in [1..depth -> Seen]
  BY <1>3, <1>4
<1>6. Len(Stack["js"]) = depth /\ DOMAIN Stack["js"] = 1..depth
  BY <1>1, <1>5, StackIsSequence
<1>7. \A i \in 1..depth : Stack["js"][i] = ServedAs(slot[i])
  BY <1>4
<1>8. depth > 0 => Stack["js"] # <<>> /\ Stack["js"][depth] = ServedAs(Top)
  BY <1>1, <1>6, <1>7 DEF Top
<1>9. depth = 0 => Stack["js"] = <<>>
  BY <1>6
<1>10. QED
  BY <1>1, <1>5, <1>6, <1>7, <1>8, <1>9

\* A step inside the innermost evaluation changes the top of the stack.
LEMMA StackUpdate ==
  ASSUME Inv, depth > 0, NEW activation \in Activation, Update(activation), depth' = depth
  PROVE  Stack' = [Stack EXCEPT !["js"] = [@ EXCEPT ![depth] = ServedAs(activation)]]
<1>1. /\ depth \in 1..MaxDepth
      /\ slot'[depth] = activation
      /\ \A i \in 1..MaxDepth : i # depth => slot'[i] = slot[i]
  BY TopType DEF Inv, Typed, Update, Evaluation
<1>2. /\ Stack["js"] \in [1..depth -> Seen]
      /\ \A i \in 1..depth : Stack["js"][i] = ServedAs(slot[i])
  BY StackType
<1>3. Stack'["js"] = [i \in 1..depth |-> ServedAs(slot'[i])]
  BY DEF Stack, Served, ServedAs
<1>4. \A i \in 1..depth :
        ServedAs(slot'[i]) = IF i = depth THEN ServedAs(activation) ELSE Stack["js"][i]
  BY <1>1, <1>2, DepthAssumption
<1>5. Stack'["js"] = [Stack["js"] EXCEPT ![depth] = ServedAs(activation)]
  BY <1>2, <1>3, <1>4
<1>6. QED
  BY <1>5 DEF Stack

\* The binding or the engine goes on: CallbackRouting sees nothing.
LEMMA SilentStep ==
  ASSUME Inv, depth > 0, NEW activation \in Activation, Update(activation), depth' = depth,
         activation.env = Top.env,
         activation.phase \notin HostPhase, Top.phase \notin HostPhase
  PROVE  Stack' = Stack
<1>1. ServedAs(activation) = ServedAs(Top)
  BY DEF ServedAs, HostPhase
<1>2. Stack' = [Stack EXCEPT !["js"] = [@ EXCEPT ![depth] = ServedAs(Top)]]
  BY <1>1, StackUpdate
<1>3. Stack["js"] \in [1..depth -> Seen] /\ Stack["js"][depth] = ServedAs(Top)
  BY StackType
<1>4. Stack["js"] = [Stack["js"] EXCEPT ![depth] = ServedAs(Top)]
  BY <1>3
<1>5. QED
  BY <1>2, <1>4 DEF Stack

\* Host code starts or ends in the innermost evaluation.
LEMMA HostStep ==
  ASSUME Inv, depth > 0, NEW activation \in Activation, Update(activation), depth' = depth,
         activation.env = Top.env,
         NEW host \in BOOLEAN, NEW server \in Servers,
         activation.phase \in HostPhase <=> host,
         activation.phase = "callback" => server = <<"js", activation.converter>>,
         activation.phase # "callback" => server = <<>>
  PROVE  /\ Stack' = [Stack EXCEPT !["js"][Len(Stack["js"])].host = host,
                                   !["js"][Len(Stack["js"])].server = server]
         /\ Stack["js"][Len(Stack["js"])] = ServedAs(Top)
         /\ Stack["js"] # <<>>
<1> DEFINE new == [compiled |-> Top.env, owner |-> Top.env, host |-> host, server |-> server]
<1>1. depth \in 1..MaxDepth /\ Top \in Activation
  BY TopType DEF Inv
<1>2. ServedAs(activation) = new
  BY DEF ServedAs
<1>3. ServedAs(Top) \in Seen /\ ServedAs(Top).compiled = Top.env /\ ServedAs(Top).owner = Top.env
  BY <1>1, ServedFields
<1>4. [[ServedAs(Top) EXCEPT !.host = host] EXCEPT !.server = server]
      = [compiled |-> ServedAs(Top).compiled, owner |-> ServedAs(Top).owner,
         host |-> host, server |-> server]
  BY <1>3, SeenFields
<1>5. [[ServedAs(Top) EXCEPT !.host = host] EXCEPT !.server = server] = new
  BY <1>3, <1>4
<1> HIDE DEF new
<1>6. Stack' = [Stack EXCEPT !["js"] = [@ EXCEPT ![depth] = new]]
  BY <1>2, StackUpdate
<1>7. /\ Stack["js"] \in [1..depth -> Seen] /\ Len(Stack["js"]) = depth
      /\ Stack["js"][depth] = ServedAs(Top) /\ Stack["js"] # <<>>
  BY StackType
<1>8. [[Stack["js"] EXCEPT ![depth].host = host] EXCEPT ![depth].server = server]
      = [Stack["js"] EXCEPT ![depth] = new]
  BY <1>1, <1>5, <1>7
<1>9. "js" \in DOMAIN Stack
  BY DEF Stack
<1>10. [Stack EXCEPT !["js"][Len(Stack["js"])].host = host,
                     !["js"][Len(Stack["js"])].server = server]
       = [Stack EXCEPT !["js"] = [@ EXCEPT ![depth] = new]]
  BY <1>7, <1>8, <1>9
<1>11. QED
  BY <1>6, <1>7, <1>10

\* Host code of the innermost evaluation is over.
LEMMA DoneStep ==
  ASSUME Inv, depth > 0, NEW activation \in Activation, Update(activation), depth' = depth,
         activation.env = Top.env, activation.phase \notin HostPhase, Top.phase \in HostPhase
  PROVE  Routing!HostDone("js")
<1>1. activation.phase # "callback" /\ <<>> \in Servers
  BY DEF HostPhase, Servers
<1>2. /\ Stack' = [Stack EXCEPT !["js"][Len(Stack["js"])].host = FALSE,
                                !["js"][Len(Stack["js"])].server = <<>>]
      /\ Stack["js"][Len(Stack["js"])] = ServedAs(Top)
      /\ Stack["js"] # <<>>
  BY <1>1, HostStep
<1>3. ServedAs(Top).host
  BY TopType, ServedFields DEF Inv
<1>4. QED
  BY <1>2, <1>3 DEF Routing!HostDone, Routing!Top, Stack

-----------------------------------------------------------------------------

LEMMA EnterRefines ==
  ASSUME Inv, Inv', NEW env \in Envs \cup {NoEnv}, Enter(env)
  PROVE  Routing!Enter("js", env, env)
<1> DEFINE new == [compiled |-> env, owner |-> env, host |-> FALSE, server |-> <<>>]
           activation == [Idle EXCEPT !.env = env, !.encoder = PickEncoder(depth + 1),
                                      !.phase = "encode"]
<1>1. /\ depth \in Nat /\ depth < MaxDepth /\ depth' = depth + 1
      /\ slot' = [slot EXCEPT ![depth + 1] = activation]
  BY DepthAssumption DEF Enter, Inv, Typed
<1>2. ServedAs(activation) = new /\ new \in Seen
  <2>1. activation.env = env /\ activation.phase = "encode"
    BY DEF Idle
  <2>2. ServedAs(activation) = new
    <3>1. (activation.phase \in HostPhase) = FALSE /\ activation.phase # "callback"
      BY <2>1 DEF HostPhase
    <3> HIDE DEF activation
    <3>2. QED
      BY <2>1, <3>1 DEF ServedAs
  <2>3. new \in Seen
    BY DEF Seen, EvaluationsOf, Servers
  <2>4. QED
    BY <2>2, <2>3
<1> HIDE DEF new, activation
<1>3. /\ slot'[depth + 1] = activation
      /\ \A i \in 1..depth : slot'[i] = slot[i]
  BY <1>1, DepthAssumption DEF Inv, Typed, Evaluation
<1>4. /\ Stack["js"] \in [1..depth -> Seen] /\ Len(Stack["js"]) = depth
      /\ \A i \in 1..depth : Stack["js"][i] = ServedAs(slot[i])
  BY StackType
<1>5. Stack'["js"] = [i \in 1..(depth + 1) |-> ServedAs(slot'[i])]
  BY <1>1 DEF Stack, Served, ServedAs
<1>6. /\ Stack'["js"][depth + 1] = new
      /\ \A i \in 1..depth : Stack'["js"][i] = Stack["js"][i]
      /\ Stack'["js"] \in [1..(depth + 1) -> Seen]
  BY <1>1, <1>2, <1>3, <1>4, <1>5
<1>7. Stack'["js"] = Append(Stack["js"], new)
  BY <1>1, <1>2, <1>4, <1>6, Pushed
<1>8. Stack' = [Stack EXCEPT !["js"] = Append(Stack["js"], new)]
  BY <1>7 DEF Stack
<1>9. Stack["js"] # <<>> => Stack["js"][Len(Stack["js"])].host
  <2>1. CASE depth = 0
    BY <2>1, StackType
  <2>2. CASE depth > 0
    <3>1. Top.phase \in HostPhase /\ Top \in Activation
      BY <2>2, TopType DEF Enter, HostRuns, Inv
    <3>2. Stack["js"][Len(Stack["js"])] = ServedAs(Top)
      BY <2>2, StackType
    <3>3. QED
      BY <3>1, <3>2, ServedFields
  <2>3. QED
    BY <1>1, <2>1, <2>2
<1>10. QED
  BY <1>1, <1>4, <1>8, <1>9 DEF Routing!Enter, Routing!HostRuns, Routing!Top, Stack, new

LEMMA FinallyRefines ==
  ASSUME Inv, Inv', Finally
  PROVE  Routing!Leave("js")
<1>1. /\ depth \in 1..MaxDepth /\ depth \in Nat \ {0} /\ depth' = depth - 1
      /\ Update(Idle) /\ Top \in Activation /\ Top.phase \notin HostPhase
  BY TopType, DepthAssumption DEF Finally, In, Inv, HostPhase, Top
<1>2. \A i \in 1..(depth - 1) : slot'[i] = slot[i]
  BY <1>1, DepthAssumption DEF Update, Inv, Typed, Evaluation
<1>3. /\ Stack["js"] \in [1..depth -> Seen] /\ Len(Stack["js"]) = depth
      /\ \A i \in 1..depth : Stack["js"][i] = ServedAs(slot[i])
      /\ Stack["js"] # <<>> /\ Stack["js"][depth] = ServedAs(Top)
  BY <1>1, StackType
<1>4. Stack'["js"] = [i \in 1..(depth - 1) |-> ServedAs(slot'[i])]
  BY <1>1 DEF Stack, Served, ServedAs
<1>5. \A i \in 1..(depth - 1) : ServedAs(slot'[i]) = Stack["js"][i]
  BY <1>1, <1>2, <1>3
<1>6. /\ Stack'["js"] \in [1..(depth - 1) -> Seen]
      /\ \A i \in 1..(depth - 1) : Stack'["js"][i] = Stack["js"][i]
  BY <1>1, <1>3, <1>4, <1>5
<1>7. Stack'["js"] = SubSeq(Stack["js"], 1, Len(Stack["js"]) - 1)
  BY <1>1, <1>3, <1>6, Dropped
<1>8. Stack' = [Stack EXCEPT !["js"] = SubSeq(@, 1, Len(@) - 1)]
  BY <1>7 DEF Stack
<1>9. ~Stack["js"][Len(Stack["js"])].host
  BY <1>1, <1>3, ServedFields
<1>10. QED
  BY <1>3, <1>8, <1>9 DEF Routing!Leave, Routing!Evaluates, Routing!Top, Stack

\* The converter of the caller is the innermost of its environment.
LEMMA CallRefines ==
  ASSUME Inv, Inv', Call
  PROVE  Routing!Call("js")
<1>1. /\ depth \in 1..MaxDepth /\ depth' = depth /\ Top = slot[depth] /\ Top \in Activation
      /\ Top.phase = "engine" /\ Top.env \in Registered
  BY TopType DEF Call, In, Inv
<1>2. PICK c \in 0..MaxDepth :
        Update([Top EXCEPT !.converter = c, !.phase = IF c = 0 THEN "unwind" ELSE "callback"])
  BY <1>1, EnvAssumption DEF Call, Inv, Typed
<1> DEFINE activation == [Top EXCEPT !.converter = c,
                                     !.phase = IF c = 0 THEN "unwind" ELSE "callback"]
<1>3. /\ activation \in Activation /\ activation.env = Top.env
      /\ activation.phase = IF c = 0 THEN "unwind" ELSE "callback"
      /\ activation.converter = c
  BY <1>1 DEF Activation, Phase
<1>4. Update(activation)
  BY <1>2
<1> HIDE DEF activation
<1>5. slot'[depth] = activation
  BY <1>1, <1>4 DEF Update, Inv, Typed, Evaluation
<1>6. activation.phase = "callback" /\ activation.converter = depth
  BY <1>1, <1>3, <1>5 DEF Inv, PhaseInv, ConverterInv
<1>7. <<"js", depth>> \in Servers
  BY <1>1 DEF Servers
<1>8. activation.phase \in HostPhase
  BY <1>6 DEF HostPhase
<1>9. /\ Stack' = [Stack EXCEPT !["js"][Len(Stack["js"])].host = TRUE,
                                !["js"][Len(Stack["js"])].server = <<"js", depth>>]
      /\ Stack["js"][Len(Stack["js"])] = ServedAs(Top)
      /\ Stack["js"] # <<>>
  <2>1. activation.phase \in HostPhase <=> TRUE
    BY <1>8
  <2>2. /\ activation.phase = "callback" => <<"js", depth>> = <<"js", activation.converter>>
        /\ activation.phase # "callback" => <<"js", depth>> = <<>>
    BY <1>6
  <2>3. depth > 0 /\ TRUE \in BOOLEAN
    BY <1>1
  <2>4. QED
    BY <1>1, <1>3, <1>4, <1>7, <2>1, <2>2, <2>3, HostStep
<1>10. /\ ServedAs(Top).compiled = Top.env /\ ServedAs(Top).owner = Top.env
       /\ ~ServedAs(Top).host
  BY <1>1, ServedFields DEF HostPhase
<1>11. Len(Stack["js"]) = depth /\ DOMAIN Stack["js"] = 1..depth
  BY <1>1, StackType
<1>12. Routing!Innermost("js", depth, Top.env)
  <2>1. Stack["js"][depth].owner = Top.env
    BY <1>9, <1>10, <1>11
  <2>2. \A j \in (depth + 1)..depth : FALSE
    BY <1>1
  <2>3. QED
    BY <1>11, <2>1, <2>2 DEF Routing!Innermost, Stack
<1>13. Routing!Evaluates("js") /\ Routing!Top("js").compiled = Top.env
  BY <1>9, <1>10 DEF Routing!Evaluates, Routing!Top, Stack
<1>14. depth \in 1..depth
  BY <1>1
<1>15. QED
  BY <1>1, <1>9, <1>11, <1>12, <1>13, <1>14 DEF Routing!Call, Stack

LEMMA GetterRefines ==
  ASSUME Inv, Getter
  PROVE  Routing!Getter("js")
<1>1. depth \in 1..MaxDepth /\ depth' = depth /\ Top \in Activation /\ Top.phase \in {"encode", "decode"}
  BY TopType DEF Getter, In, Inv, Top
<1> DEFINE activation == [Top EXCEPT !.phase = IF @ = "encode" THEN "getter" ELSE "deferred"]
<1>2. /\ activation \in Activation /\ activation.env = Top.env
      /\ activation.phase \in {"getter", "deferred"}
  BY <1>1 DEF Activation, Phase
<1>3. Update(activation)
  BY DEF Getter
<1> HIDE DEF activation
<1>4. activation.phase \in HostPhase /\ activation.phase # "callback" /\ <<>> \in Servers
  BY <1>2 DEF HostPhase, Servers
<1>5. /\ Stack' = [Stack EXCEPT !["js"][Len(Stack["js"])].host = TRUE,
                                !["js"][Len(Stack["js"])].server = <<>>]
      /\ Stack["js"][Len(Stack["js"])] = ServedAs(Top)
      /\ Stack["js"] # <<>>
  <2>1. activation.phase \in HostPhase <=> TRUE
    BY <1>4
  <2>2. /\ activation.phase = "callback" => <<>> = <<"js", activation.converter>>
        /\ activation.phase # "callback" => <<>> = <<>>
    BY <1>4
  <2>3. depth > 0 /\ TRUE \in BOOLEAN /\ <<>> \in Servers
    BY <1>1, <1>4
  <2>4. QED
    BY <1>1, <1>2, <1>3, <2>1, <2>2, <2>3, HostStep
<1>6. ServedAs(Top).server = <<>> /\ ServedAs(Top) \in Seen /\ ~ServedAs(Top).host
  BY <1>1, ServedFields DEF ServedAs, HostPhase
<1>7. [[ServedAs(Top) EXCEPT !.host = TRUE] EXCEPT !.server = <<>>]
      = [ServedAs(Top) EXCEPT !.host = TRUE]
  BY <1>6 DEF Seen, EvaluationsOf
<1>8. Stack' = [Stack EXCEPT !["js"][Len(Stack["js"])].host = TRUE]
  <2>1. Stack["js"] \in [1..depth -> Seen] /\ Len(Stack["js"]) = depth /\ depth \in 1..depth
    BY <1>1, StackType
  <2>2. [[Stack["js"] EXCEPT ![depth].host = TRUE] EXCEPT ![depth].server = <<>>]
        = [Stack["js"] EXCEPT ![depth].host = TRUE]
    BY <1>5, <1>7, <2>1
  <2>3. "js" \in DOMAIN Stack
    BY DEF Stack
  <2>4. QED
    BY <1>5, <2>1, <2>2, <2>3
<1>9. QED
  BY <1>5, <1>6, <1>8 DEF Routing!Getter, Routing!Evaluates, Routing!Top, Stack

\* The remaining steps leave host code, or are silent.
LEMMA LocalRefines ==
  ASSUME Inv, Inv',
         GetterReturns \/ EncodeFails \/ EnterNative \/ Decoded \/ CallReturns \/ LeaveNative
  PROVE  Routing!HostDone("js") \/ Stack' = Stack
<1>1. depth > 0 /\ depth' = depth /\ Top \in Activation /\ depth \in 1..MaxDepth
  BY TopType DEF GetterReturns, EncodeFails, EnterNative, Decoded, CallReturns, LeaveNative, In, Inv
<1>2. PICK activation \in Activation :
        Update(activation) /\ activation.env = Top.env /\ activation.phase \notin HostPhase
  <2>1. CASE GetterReturns
    <3>1. [Top EXCEPT !.phase = IF @ = "getter" THEN "encode" ELSE "decode"] \in Activation
      BY <1>1 DEF Activation, Phase
    <3>2. QED
      BY <1>1, <2>1, <3>1 DEF GetterReturns, Activation, HostPhase
  <2>2. CASE EncodeFails
    <3>1. [Top EXCEPT !.phase = "finally"] \in Activation
      BY <1>1 DEF Activation, Phase
    <3>2. QED
      BY <1>1, <2>2, <3>1 DEF EncodeFails, Activation, HostPhase
  <2>3. CASE EnterNative
    <3>1. PICK p \in 0..MaxDepth : Update([Top EXCEPT !.phase = "decode", !.previous = p])
      <4>1. Top.env \in Envs => active[Top.env] \in 0..MaxDepth
        BY DEF Inv, Typed
      <4>2. QED
        BY <2>3, <4>1, IdleType DEF EnterNative, Saved
    <3>2. [Top EXCEPT !.phase = "decode", !.previous = p] \in Activation
      BY <1>1 DEF Activation, Phase
    <3>3. QED
      BY <1>1, <3>1, <3>2 DEF Activation, HostPhase
  <2>4. CASE Decoded
    <3>1. [Top EXCEPT !.phase = "engine"] \in Activation
      BY <1>1 DEF Activation, Phase
    <3>2. QED
      BY <1>1, <2>4, <3>1 DEF Decoded, Activation, HostPhase
  <2>5. CASE CallReturns
    <3>1. [Top EXCEPT !.converter = 0, !.phase = "engine"] \in Activation
      BY <1>1, IdleType DEF Activation, Phase
    <3>2. QED
      BY <1>1, <2>5, <3>1 DEF CallReturns, Activation, HostPhase
  <2>6. CASE LeaveNative
    <3>1. [Top EXCEPT !.phase = "finally", !.converter = 0] \in Activation
      BY <1>1, IdleType DEF Activation, Phase
    <3>2. QED
      BY <1>1, <2>6, <3>1 DEF LeaveNative, Activation, HostPhase
  <2>7. QED
    BY <2>1, <2>2, <2>3, <2>4, <2>5, <2>6
<1>3. CASE Top.phase \in HostPhase
  BY <1>1, <1>2, <1>3, DoneStep
<1>4. CASE Top.phase \notin HostPhase
  BY <1>1, <1>2, <1>4, SilentStep
<1>5. QED
  BY <1>3, <1>4

LEMMA StepRefines ==
  ASSUME Inv, Inv', [Next]_vars
  PROVE  Routing!Next \/ Stack' = Stack
<1>1. CASE UNCHANGED vars
  BY <1>1 DEF vars, Stack, Served
<1>2. ASSUME NEW env \in Envs \cup {NoEnv}, Enter(env) PROVE Routing!Next
  BY <1>2, EnterRefines DEF Routing!Next
<1>3. CASE Getter
  BY <1>3, GetterRefines DEF Routing!Next
<1>4. CASE Call
  BY <1>4, CallRefines DEF Routing!Next
<1>5. CASE Finally
  BY <1>5, FinallyRefines DEF Routing!Next
<1>6. CASE GetterReturns \/ EncodeFails \/ EnterNative \/ Decoded \/ CallReturns \/ LeaveNative
  BY <1>6, LocalRefines DEF Routing!Next
<1>7. QED
  BY <1>1, <1>2, <1>3, <1>4, <1>5, <1>6 DEF Next

\* One active converter for each environment, saved and restored by evaluateImpl,
\* keeps the promise of the thread-local frames of the Python binding.
THEOREM ActiveConvertersImplementRouting == Spec => ImplementsRouting
<1>1. Init => Routing!Init
  <2>1. ASSUME Init PROVE Stack = [t \in {"js"} |-> <<>>]
    <3>1. Inv
      BY <2>1, InitInv
    <3>2. Stack["js"] = <<>>
      BY <2>1, <3>1, StackType DEF Init
    <3>3. QED
      BY <3>2 DEF Stack
  <2>2. QED
    BY <2>1 DEF Routing!Init, Stack
<1>2. Inv /\ Inv' /\ [Next]_vars
      => [Routing!Next]_([t \in {"js"} |-> [i \in 1..depth |-> Served(i)]])
  BY StepRefines DEF Stack
<1>3. QED
  BY <1>1, <1>2, AlwaysInv, PTL DEF Spec, ImplementsRouting, Routing!Spec
=============================================================================
