------------------------- MODULE CallbackFramesProofs --------------------------
(***************************************************************************)
(* Safety of the thread-local callback frames, for any number of threads   *)
(* and environments and any depth of nesting, and that they implement      *)
(* CallbackRouting.                                                        *)
(***************************************************************************)
EXTENDS CallbackFrames, SequenceTheorems, TLAPS

-----------------------------------------------------------------------------
(* Stacks as functions and as sequences: this module numbers the evaluations   *)
(* of a thread from one to their depth, CallbackRouting pushes and pops them.  *)

\* A function of the first n numbers is a sequence of length n.
LEMMA StackIsSequence ==
  ASSUME NEW n \in Nat, NEW S, NEW f \in [1..n -> S]
  PROVE  f \in Seq(S) /\ Len(f) = n /\ DOMAIN f = 1..n
OBVIOUS

\* One more at the top.
LEMMA Pushed ==
  ASSUME NEW n \in Nat, NEW S, NEW f \in [1..n -> S], NEW x \in S,
         NEW g \in [1..(n + 1) -> S],
         \A i \in 1..n : g[i] = f[i], g[n + 1] = x
  PROVE  g = Append(f, x)
OBVIOUS

\* The top is gone.
LEMMA Dropped ==
  ASSUME NEW n \in Nat \ {0}, NEW S, NEW f \in [1..n -> S],
         NEW g \in [1..(n - 1) -> S],
         \A i \in 1..(n - 1) : g[i] = f[i]
  PROVE  g = SubSeq(f, 1, Len(f) - 1)
OBVIOUS
-----------------------------------------------------------------------------

\* What CallbackRouting says of evaluations, for environments envs and servers.
EvaluationsOf(envs, servers) == [compiled : envs, owner : envs, host : BOOLEAN, server : servers]

\* Evaluations with the same fields are equal.
LEMMA SameFields ==
  ASSUME NEW envs, NEW servers, NEW r \in EvaluationsOf(envs, servers), NEW s \in EvaluationsOf(envs, servers),
         r.compiled = s.compiled, r.owner = s.owner, r.host = s.host, r.server = s.server
  PROVE  r = s
BY DEF EvaluationsOf

\* Setting the two fields that a callback changes.
LEMMA HostFields ==
  ASSUME NEW envs, NEW servers, NEW s \in EvaluationsOf(envs, servers),
         NEW host \in BOOLEAN, NEW server \in servers
  PROVE  [[s EXCEPT !.host = host] EXCEPT !.server = server]
         = [compiled |-> s.compiled, owner |-> s.owner, host |-> host, server |-> server]
<1> DEFINE a == [[s EXCEPT !.host = host] EXCEPT !.server = server]
           b == [compiled |-> s.compiled, owner |-> s.owner, host |-> host, server |-> server]
<1>1. a \in EvaluationsOf(envs, servers) /\ b \in EvaluationsOf(envs, servers)
  BY DEF EvaluationsOf
<1>2. a.compiled = b.compiled /\ a.owner = b.owner /\ a.server = b.server
  BY DEF EvaluationsOf
<1>3. a.host = b.host
  BY DEF EvaluationsOf
<1> HIDE DEF a, b
<1>4. a = b
  BY <1>1, <1>2, <1>3, SameFields
<1>5. QED
  BY <1>4 DEF a, b


\* The shape of a thread's machine stack: everything above its depth is
\* popped, everything below its top waits in a host callback, and an
\* activation has a frame exactly when its environment has functions.
StackInv ==
  \A t \in Threads : \A i \in 1..MaxDepth :
    /\ i > depth[t] => slot[t][i] = Popped
    /\ i <= depth[t] => /\ slot[t][i].phase # "none"
                        /\ slot[t][i].framed <=> slot[t][i].owner \in Registered
                        /\ slot[t][i].framed => IsInnermost(slot[t][i].previous, slot[t], t, i - 1)
    /\ i < depth[t] => slot[t][i].phase = "host"

\* The head of each list, and the cursor of a walk in progress, which is null
\* or a frame of the same thread.
HeadInv == \A t \in Threads : IsInnermost(callback_frame[t], slot[t], t, depth[t])

OwnFrame(f, stack, t, n) ==
  f = Null \/ \E j \in 1..n : f = <<t, j>> /\ stack[j].framed

WalkInv ==
  \A t \in Threads : \A i \in 1..depth[t] :
    slot[t][i].phase = "walk" => OwnFrame(slot[t][i].cursor, slot[t], t, i)

\* The inductive invariant.
Inv == TypeOK /\ StackInv /\ HeadInv /\ WalkInv /\ RoutedToOwner

-----------------------------------------------------------------------------

LEMMA InitInv == Init => Inv
<1> SUFFICES ASSUME Init PROVE Inv
  OBVIOUS
<1> USE DepthAssumption, EnvsAssumption DEF Init
<1>1. TypeOK
  BY DEF TypeOK, Popped, Activation, Phase, EnvOrNone
<1>2. StackInv
  BY DEF StackInv, IsInnermost
<1>3. HeadInv
  <2> SUFFICES ASSUME NEW t \in Threads
               PROVE  IsInnermost(callback_frame[t], slot[t], t, depth[t])
    BY DEF HeadInv
  <2>1. callback_frame[t] = Null /\ depth[t] = 0
    OBVIOUS
  <2>2. QED
    BY <2>1 DEF IsInnermost
<1>4. WalkInv /\ RoutedToOwner
  BY DEF WalkInv, RoutedToOwner
<1>5. QED
  BY <1>1, <1>2, <1>3, <1>4 DEF Inv

\* Replacing the innermost activation by one of the right type keeps slot's type.
LEMMA UpdateType ==
  ASSUME TypeOK, NEW t \in Threads, depth[t] > 0,
         NEW activation \in Activation, Update(t, activation)
  PROVE  /\ slot' \in [Threads -> [1..MaxDepth -> Activation]]
         /\ slot'[t][depth[t]] = activation
         /\ \A u \in Threads, i \in 1..MaxDepth :
              u # t \/ i # depth[t] => slot'[u][i] = slot[u][i]
<1> USE DepthAssumption DEF TypeOK
<1>1. depth[t] \in 1..MaxDepth
  OBVIOUS
<1>2. [slot[t] EXCEPT ![depth[t]] = activation] \in [1..MaxDepth -> Activation]
  BY <1>1
<1>3. QED
  BY <1>1, <1>2 DEF Update

\* The top activation of a running thread is an activation.
LEMMA TopType ==
  ASSUME TypeOK, NEW t \in Threads, depth[t] > 0
  PROVE  /\ depth[t] \in 1..MaxDepth
         /\ Top(t) = slot[t][depth[t]]
         /\ Top(t) \in Activation
BY DepthAssumption DEF TypeOK, Top

\* Whether f is the innermost frame depends on framed only.
LEMMA SameInnermost ==
  ASSUME NEW stack, NEW next, NEW t, NEW n \in Nat, NEW f,
         \A i \in 1..n : next[i].framed = stack[i].framed,
         IsInnermost(f, stack, t, n)
  PROVE  IsInnermost(f, next, t, n)
<1>1. CASE f = Null /\ \A i \in 1..n : ~stack[i].framed
  BY <1>1 DEF IsInnermost
<1>2. ASSUME NEW i \in 1..n, f = <<t, i>>, stack[i].framed,
             \A j \in (i + 1)..n : ~stack[j].framed
      PROVE  IsInnermost(f, next, t, n)
  <2>1. next[i].framed /\ \A j \in (i + 1)..n : ~next[j].framed
    BY <1>2
  <2>2. QED
    BY <1>2, <2>1 DEF IsInnermost
<1>3. QED
  BY <1>1, <1>2 DEF IsInnermost

\* What every step inside an evaluation has to show: it keeps what links the
\* activation into the list, and where it starts a walk or a callback, it does
\* so with a frame of its own thread.
LEMMA UpdateInv ==
  ASSUME Inv, NEW t \in Threads, depth[t] > 0,
         NEW activation \in Activation, Update(t, activation),
         depth' = depth, callback_frame' = callback_frame,
         activation.compiled = Top(t).compiled,
         activation.owner = Top(t).owner,
         activation.framed = Top(t).framed,
         activation.previous = Top(t).previous,
         activation.phase # "none",
         activation.phase = "walk" => OwnFrame(activation.cursor, slot[t], t, depth[t]),
         activation.phase = "host" =>
           \E j \in 1..depth[t] :
             /\ activation.converter = <<t, j>>
             /\ slot[t][j].framed
             /\ slot[t][j].owner = activation.compiled
  PROVE  slot' \in [Threads -> [1..MaxDepth -> Activation]]
         /\ StackInv' /\ HeadInv' /\ WalkInv' /\ RoutedToOwner'
<1> USE DepthAssumption
<1>1. depth[t] \in 1..MaxDepth /\ Top(t) = slot[t][depth[t]]
  BY TopType DEF Inv
<1>2. /\ slot' \in [Threads -> [1..MaxDepth -> Activation]]
      /\ slot'[t][depth[t]] = activation
      /\ \A u \in Threads, i \in 1..MaxDepth :
           u # t \/ i # depth[t] => slot'[u][i] = slot[u][i]
  BY UpdateType DEF Inv
<1>3. \A u \in Threads, i \in 1..MaxDepth :
        /\ slot'[u][i].framed = slot[u][i].framed
        /\ slot'[u][i].previous = slot[u][i].previous
        /\ slot'[u][i].owner = slot[u][i].owner
        /\ slot'[u][i].compiled = slot[u][i].compiled
  BY <1>1, <1>2
<1>4. \A u \in Threads : depth[u] \in 0..MaxDepth
  BY DEF Inv, TypeOK
<1>5. StackInv'
  <2> SUFFICES ASSUME NEW u \in Threads, NEW i \in 1..MaxDepth
               PROVE  /\ i > depth[u] => slot'[u][i] = Popped
                      /\ i <= depth[u] =>
                           /\ slot'[u][i].phase # "none"
                           /\ slot'[u][i].framed <=> slot'[u][i].owner \in Registered
                           /\ slot'[u][i].framed =>
                                IsInnermost(slot'[u][i].previous, slot'[u], u, i - 1)
                      /\ i < depth[u] => slot'[u][i].phase = "host"
    BY <1>3 DEF StackInv
  <2>1. i > depth[u] => slot'[u][i] = Popped
    BY <1>2, <1>4 DEF Inv, StackInv
  <2>2. i < depth[u] => slot'[u][i].phase = "host"
    BY <1>2, <1>4 DEF Inv, StackInv
  <2>3. i <= depth[u] => slot'[u][i].phase # "none"
    BY <1>2, <1>4 DEF Inv, StackInv
  <2>4. i <= depth[u] =>
          (slot'[u][i].framed <=> slot'[u][i].owner \in Registered)
    BY <1>3, <1>4 DEF Inv, StackInv
  <2>5. ASSUME i <= depth[u], slot'[u][i].framed
        PROVE  IsInnermost(slot'[u][i].previous, slot'[u], u, i - 1)
    <3>1. IsInnermost(slot[u][i].previous, slot[u], u, i - 1)
      BY <1>3, <2>5 DEF Inv, StackInv
    <3>2. slot'[u][i].previous = slot[u][i].previous
      BY <1>3
    <3>3. \A j \in 1..(i - 1) : slot'[u][j].framed = slot[u][j].framed
      BY <1>3
    <3>4. i - 1 \in Nat /\ i - 1 <= MaxDepth
      OBVIOUS
    <3>5. QED
      BY <3>1, <3>2, <3>3, <3>4, SameInnermost
  <2>6. QED
    BY <2>1, <2>2, <2>3, <2>4, <2>5
<1>6. HeadInv'
  <2> SUFFICES ASSUME NEW u \in Threads
               PROVE  IsInnermost(callback_frame'[u], slot'[u], u, depth'[u])
    BY DEF HeadInv
  <2>1. IsInnermost(callback_frame[u], slot[u], u, depth[u]) /\ depth[u] \in Nat
    BY <1>4 DEF Inv, HeadInv
  <2>2. \A i \in 1..depth[u] : slot'[u][i].framed = slot[u][i].framed
    BY <1>3, <1>4
  <2>3. QED
    BY <2>1, <2>2, SameInnermost
<1>7. WalkInv'
  <2> SUFFICES ASSUME NEW u \in Threads, NEW i \in 1..depth[u],
                      slot'[u][i].phase = "walk"
               PROVE  OwnFrame(slot'[u][i].cursor, slot'[u], u, i)
    BY DEF WalkInv
  <2>1. i \in 1..MaxDepth
    BY <1>4
  <2>2. OwnFrame(slot'[u][i].cursor, slot[u], u, i)
    <3>1. CASE u = t /\ i = depth[t]
      BY <1>2, <3>1
    <3>2. CASE u # t \/ i # depth[t]
      BY <1>2, <2>1, <3>2 DEF Inv, WalkInv
    <3>3. QED
      BY <3>1, <3>2
  <2>3. QED
    BY <1>3, <2>1, <2>2 DEF OwnFrame
<1>8. RoutedToOwner'
  <2> SUFFICES ASSUME NEW u \in Threads, NEW i \in 1..depth[u],
                      slot'[u][i].phase = "host"
               PROVE  \E j \in 1..i :
                        /\ slot'[u][i].converter = <<u, j>>
                        /\ slot'[u][j].framed
                        /\ slot'[u][j].owner = slot'[u][i].compiled
    BY DEF RoutedToOwner
  <2>1. i \in 1..MaxDepth
    BY <1>4
  <2>2. CASE u = t /\ i = depth[t]
    BY <1>1, <1>2, <1>3, <2>2
  <2>3. CASE u # t \/ i # depth[t]
    <3>1. slot'[u][i] = slot[u][i]
      BY <1>2, <2>1, <2>3
    <3>2. QED
      BY <1>3, <2>1, <3>1 DEF Inv, RoutedToOwner
  <2>4. QED
    BY <2>2, <2>3
<1>9. QED
  BY <1>2, <1>5, <1>6, <1>7, <1>8

-----------------------------------------------------------------------------
(* The steps of one evaluation *)

\* A step that returns to the engine, fails, or enters or leaves a callback
\* without starting a walk.
LEMMA PhaseInv ==
  ASSUME Inv, NEW t \in Threads, depth[t] > 0,
         NEW p \in {"native", "unwind"}, NEW c \in Frame \cup {Null},
         Update(t, [Top(t) EXCEPT !.phase = p, !.converter = c]),
         depth' = depth, callback_frame' = callback_frame,
         pending' \in [Threads -> BOOLEAN]
  PROVE  Inv'
<1>1. Top(t) \in Activation
  BY TopType DEF Inv
<1> DEFINE activation == [Top(t) EXCEPT !.phase = p, !.converter = c]
<1>2. /\ activation \in Activation
      /\ activation.compiled = Top(t).compiled
      /\ activation.owner = Top(t).owner
      /\ activation.framed = Top(t).framed
      /\ activation.previous = Top(t).previous
      /\ activation.phase \in {"native", "unwind"}
  BY <1>1 DEF Activation, Phase
<1> HIDE DEF activation
<1>3. Update(t, activation)
  BY DEF activation
<1>4. /\ slot' \in [Threads -> [1..MaxDepth -> Activation]]
      /\ StackInv' /\ HeadInv' /\ WalkInv' /\ RoutedToOwner'
  BY <1>2, <1>3, UpdateInv
<1>5. QED
  BY <1>4 DEF Inv, TypeOK

LEMMA CallInv ==
  ASSUME Inv, NEW t \in Threads, Call(t) PROVE Inv'
<1>1. depth[t] > 0 /\ Top(t) \in Activation /\ depth[t] \in 1..MaxDepth
  BY TopType, DepthAssumption DEF Inv, TypeOK, Call, In
<1> DEFINE activation == [Top(t) EXCEPT !.phase = "walk",
                                        !.cursor = callback_frame[t]]
<1>2. /\ activation \in Activation
      /\ activation.compiled = Top(t).compiled
      /\ activation.owner = Top(t).owner
      /\ activation.framed = Top(t).framed
      /\ activation.previous = Top(t).previous
      /\ activation.phase = "walk"
      /\ activation.cursor = callback_frame[t]
  BY <1>1 DEF Activation, Phase, Inv, TypeOK
<1> HIDE DEF activation
<1>3. Update(t, activation)
  BY DEF activation, Call, Local
<1>4. OwnFrame(callback_frame[t], slot[t], t, depth[t])
  BY DEF Inv, HeadInv, IsInnermost, OwnFrame
<1>5. depth' = depth /\ callback_frame' = callback_frame /\ pending' = pending
  BY DEF Call
<1>6. /\ slot' \in [Threads -> [1..MaxDepth -> Activation]]
      /\ StackInv' /\ HeadInv' /\ WalkInv' /\ RoutedToOwner'
  BY <1>1, <1>2, <1>3, <1>4, <1>5, UpdateInv
<1>7. QED
  BY <1>5, <1>6 DEF Inv, TypeOK

LEMMA UnwindInv ==
  ASSUME Inv, NEW t \in Threads, depth[t] > 0,
         Update(t, [Top(t) EXCEPT !.phase = "unwind"]),
         depth' = depth, callback_frame' = callback_frame,
         pending' \in [Threads -> BOOLEAN]
  PROVE  Inv'
<1>1. Top(t) \in Activation
  BY TopType DEF Inv
<1> DEFINE activation == [Top(t) EXCEPT !.phase = "unwind"]
<1>2. /\ activation \in Activation
      /\ activation.compiled = Top(t).compiled
      /\ activation.owner = Top(t).owner
      /\ activation.framed = Top(t).framed
      /\ activation.previous = Top(t).previous
      /\ activation.phase = "unwind"
  BY <1>1 DEF Activation, Phase
<1> HIDE DEF activation
<1>3. Update(t, activation)
  BY DEF activation
<1>4. /\ slot' \in [Threads -> [1..MaxDepth -> Activation]]
      /\ StackInv' /\ HeadInv' /\ WalkInv' /\ RoutedToOwner'
  BY <1>2, <1>3, UpdateInv
<1>5. QED
  BY <1>4 DEF Inv, TypeOK

\* The frame the walk looks at is one of the thread's own running evaluations.
LEMMA CursorFrame ==
  ASSUME Inv, NEW t \in Threads, In(t, "walk"), Top(t).cursor # Null
  PROVE  \E j \in 1..depth[t] :
           /\ Top(t).cursor = <<t, j>>
           /\ FrameAt(Top(t).cursor) = slot[t][j]
           /\ slot[t][j].framed
<1>1. depth[t] \in 1..depth[t] /\ Top(t) = slot[t][depth[t]]
  BY TopType, DepthAssumption DEF Inv, In, TypeOK
<1>2. OwnFrame(Top(t).cursor, slot[t], t, depth[t])
  BY <1>1 DEF Inv, WalkInv, In
<1>3. QED
  BY <1>2 DEF OwnFrame, FrameAt

LEMMA WalkFoundInv ==
  ASSUME Inv, NEW t \in Threads, WalkFound(t) PROVE Inv'
<1>1. depth[t] > 0 /\ Top(t) \in Activation
  BY TopType, DepthAssumption DEF Inv, TypeOK, WalkFound, In
<1> DEFINE activation == [Top(t) EXCEPT !.phase = "host",
                                        !.converter = Top(t).cursor,
                                        !.cursor = Null]
<1>2. /\ activation \in Activation
      /\ activation.compiled = Top(t).compiled
      /\ activation.owner = Top(t).owner
      /\ activation.framed = Top(t).framed
      /\ activation.previous = Top(t).previous
      /\ activation.phase = "host"
      /\ activation.converter = Top(t).cursor
  BY <1>1 DEF Activation, Phase
<1> HIDE DEF activation
<1>3. Update(t, activation)
  BY DEF activation, WalkFound
<1>4. \E j \in 1..depth[t] :
        /\ activation.converter = <<t, j>>
        /\ slot[t][j].framed
        /\ slot[t][j].owner = activation.compiled
  BY <1>2, CursorFrame DEF WalkFound
<1>5. depth' = depth /\ callback_frame' = callback_frame /\ pending' = pending
  BY DEF WalkFound
<1>6. /\ slot' \in [Threads -> [1..MaxDepth -> Activation]]
      /\ StackInv' /\ HeadInv' /\ WalkInv' /\ RoutedToOwner'
  BY <1>1, <1>2, <1>3, <1>4, <1>5, UpdateInv
<1>7. QED
  BY <1>5, <1>6 DEF Inv, TypeOK

LEMMA WalkNextInv ==
  ASSUME Inv, NEW t \in Threads, WalkNext(t) PROVE Inv'
<1>1. depth[t] > 0 /\ Top(t) \in Activation /\ Top(t).phase = "walk"
  BY TopType, DepthAssumption DEF Inv, TypeOK, WalkNext, In
<1>2. PICK j \in 1..depth[t] :
        FrameAt(Top(t).cursor) = slot[t][j] /\ slot[t][j].framed
  BY CursorFrame DEF WalkNext
<1>3. j \in 1..MaxDepth /\ depth[t] \in 1..MaxDepth
  BY DepthAssumption DEF Inv, TypeOK
<1>4. IsInnermost(slot[t][j].previous, slot[t], t, j - 1)
  BY <1>2, <1>3 DEF Inv, StackInv
<1>5. OwnFrame(slot[t][j].previous, slot[t], t, depth[t])
  BY <1>3, <1>4 DEF IsInnermost, OwnFrame
<1> DEFINE activation == [Top(t) EXCEPT !.cursor = slot[t][j].previous]
<1>6. slot[t][j].previous \in Frame \cup {Null}
  BY <1>3 DEF Inv, TypeOK, Activation
<1>7. /\ activation \in Activation
      /\ activation.compiled = Top(t).compiled
      /\ activation.owner = Top(t).owner
      /\ activation.framed = Top(t).framed
      /\ activation.previous = Top(t).previous
      /\ activation.phase = "walk"
      /\ activation.cursor = slot[t][j].previous
  BY <1>1, <1>6 DEF Activation
<1>8. Update(t, activation)
  BY <1>2 DEF WalkNext
<1> HIDE DEF activation
<1>9. depth' = depth /\ callback_frame' = callback_frame /\ pending' = pending
  BY DEF WalkNext
<1>10. /\ slot' \in [Threads -> [1..MaxDepth -> Activation]]
       /\ StackInv' /\ HeadInv' /\ WalkInv' /\ RoutedToOwner'
  BY <1>1, <1>5, <1>7, <1>8, <1>9, UpdateInv
<1>11. QED
  BY <1>9, <1>10 DEF Inv, TypeOK

\* evaluate pushes an activation; with functions, its frame becomes the head.
LEMMA EnterInv ==
  ASSUME Inv, NEW t \in Threads, NEW e \in Evaluated, Enter(t, e)
  PROVE  Inv'
<1> USE DepthAssumption
<1> DEFINE n == depth[t] + 1
           activation == NewActivation(t, e)
<1>1. /\ \A u \in Threads : depth[u] \in 0..MaxDepth
      /\ n \in 1..MaxDepth /\ n - 1 = depth[t]
      /\ depth' = [depth EXCEPT ![t] = n]
      /\ pending' = pending
  BY DEF Inv, TypeOK, Enter
<1>2. /\ activation \in Activation
      /\ activation.owner = e.owner
      /\ activation.framed <=> e.owner \in Registered
      /\ activation.framed => activation.previous = callback_frame[t]
      /\ activation.phase = "native"
  <2>1. e.owner \in EnvOrNone /\ e.compiled \in EnvOrNone
    BY EnvsAssumption
  <2>2. callback_frame[t] \in Frame \cup {Null}
    BY DEF Inv, TypeOK
  <2>3. HasCallbacks(e.owner) \in BOOLEAN
    BY DEF HasCallbacks
  <2>4. activation.framed = HasCallbacks(e.owner)
    BY DEF NewActivation
  <2>5. /\ activation.owner = e.owner /\ activation.phase = "native"
        /\ activation.previous = IF HasCallbacks(e.owner) THEN callback_frame[t] ELSE Null
    BY DEF NewActivation, Local
  <2>6. activation.previous \in Frame \cup {Null}
    BY <2>2, <2>5
  <2>7. activation \in Activation
    BY <2>1, <2>3, <2>6 DEF NewActivation, Activation, Phase
  <2>8. QED
    BY <2>4, <2>5, <2>7 DEF HasCallbacks
<1>3. slot' = [slot EXCEPT ![t] = [@ EXCEPT ![n] = activation]]
  BY DEF Enter
<1>4. callback_frame' = IF activation.framed
                        THEN [callback_frame EXCEPT ![t] = <<t, n>>]
                        ELSE callback_frame
  BY <1>2 DEF Enter, HasCallbacks, Local
<1> HIDE DEF activation, n
<1>5. [slot[t] EXCEPT ![n] = activation] \in [1..MaxDepth -> Activation]
  BY <1>1, <1>2 DEF Inv, TypeOK
<1>6. /\ slot' \in [Threads -> [1..MaxDepth -> Activation]]
      /\ slot'[t][n] = activation
      /\ \A u \in Threads, i \in 1..MaxDepth :
           u # t \/ i # n => slot'[u][i] = slot[u][i]
  BY <1>1, <1>3, <1>5 DEF Inv, TypeOK
<1>7. \A u \in Threads : depth'[u] = IF u = t THEN n ELSE depth[u]
  BY <1>1 DEF Inv, TypeOK
<1>8. TypeOK'
  <2>1. <<t, n>> \in Frame
    BY <1>1 DEF Frame
  <2>2. callback_frame' \in [Threads -> Frame \cup {Null}]
    BY <1>4, <2>1 DEF Inv, TypeOK
  <2>3. depth' \in [Threads -> 0..MaxDepth]
    BY <1>1 DEF Inv, TypeOK
  <2>4. QED
    BY <1>1, <1>6, <2>2, <2>3 DEF Inv, TypeOK
<1>9. \A u \in Threads : depth[u] \in Nat /\ \A i \in 1..depth[u] : slot'[u][i] = slot[u][i]
  BY <1>1, <1>6
<1>10. HeadInv'
  <2> SUFFICES ASSUME NEW u \in Threads
               PROVE  IsInnermost(callback_frame'[u], slot'[u], u, depth'[u])
    BY DEF HeadInv
  <2>1. CASE u # t
    <3>1. callback_frame'[u] = callback_frame[u] /\ depth'[u] = depth[u]
      BY <1>4, <1>7, <2>1 DEF Inv, TypeOK
    <3>2. IsInnermost(callback_frame[u], slot[u], u, depth[u])
      BY DEF Inv, HeadInv
    <3>3. QED
      BY <1>9, <3>1, <3>2, SameInnermost
  <2>2. CASE u = t /\ activation.framed
    <3>1. callback_frame'[t] = <<t, n>> /\ depth'[t] = n
      BY <1>4, <1>7, <2>2 DEF Inv, TypeOK
    <3>2. QED
      BY <1>1, <1>6, <2>2, <3>1 DEF IsInnermost
  <2>3. CASE u = t /\ ~activation.framed
    <3>1. callback_frame'[t] = callback_frame[t] /\ depth'[t] = n
      BY <1>4, <1>7, <2>3 DEF Inv, TypeOK
    <3>2. IsInnermost(callback_frame[t], slot[t], t, n - 1)
      BY <1>1 DEF Inv, HeadInv
    <3>3. IsInnermost(callback_frame[t], slot'[t], t, n - 1)
      BY <1>1, <1>9, <3>2, SameInnermost
    <3>4. ~slot'[t][n].framed
      BY <1>6, <2>3
    <3>5. QED
      BY <1>1, <2>3, <3>1, <3>3, <3>4 DEF IsInnermost
  <2>4. QED
    BY <2>1, <2>2, <2>3
<1>11. StackInv'
  <2> SUFFICES ASSUME NEW u \in Threads, NEW i \in 1..MaxDepth
               PROVE  /\ i > depth'[u] => slot'[u][i] = Popped
                      /\ i <= depth'[u] =>
                           /\ slot'[u][i].phase # "none"
                           /\ slot'[u][i].framed <=> slot'[u][i].owner \in Registered
                           /\ slot'[u][i].framed =>
                                IsInnermost(slot'[u][i].previous, slot'[u], u, i - 1)
                      /\ i < depth'[u] => slot'[u][i].phase = "host"
    BY DEF StackInv
  <2>1. CASE u = t /\ i = n
    <3>1. slot'[u][i] = activation /\ depth'[u] = n
      BY <1>6, <1>7, <2>1
    <3>2. ASSUME activation.framed
          PROVE  IsInnermost(slot'[u][i].previous, slot'[u], u, i - 1)
      <4>1. slot'[u][i].previous = callback_frame[t]
        BY <1>2, <3>1, <3>2
      <4>2. IsInnermost(callback_frame[t], slot[t], t, n - 1)
        BY <1>1 DEF Inv, HeadInv
      <4>3. QED
        BY <1>1, <1>9, <2>1, <4>1, <4>2, SameInnermost
    <3>3. slot'[u][i].framed <=> slot'[u][i].owner \in Registered
      BY <1>2, <3>1
    <3>4. QED
      BY <1>1, <1>2, <2>1, <3>1, <3>2, <3>3
  <2>2. CASE u # t \/ i # n
    <3>1. slot'[u][i] = slot[u][i]
      BY <1>6, <2>2
    <3>2. i > depth'[u] => i > depth[u]
      BY <1>1, <1>7
    <3>3. i <= depth'[u] => i <= depth[u]
      BY <1>1, <1>7, <2>2
    <3>4. i < depth'[u] => i < depth[u] \/ (u = t /\ i = depth[t])
      BY <1>1, <1>7, <2>2
    <3>5. ASSUME i < depth'[u] PROVE slot'[u][i].phase = "host"
      <4>1. depth[t] > 0 => slot[t][depth[t]].phase = "host"
        BY DEF Enter, HostRuns
      <4>2. QED
        BY <1>1, <3>1, <3>4, <3>5, <4>1 DEF Inv, StackInv
    <3>6. ASSUME i <= depth'[u], slot'[u][i].framed
          PROVE  IsInnermost(slot'[u][i].previous, slot'[u], u, i - 1)
      <4>1. IsInnermost(slot[u][i].previous, slot[u], u, i - 1)
        BY <3>1, <3>3, <3>6 DEF Inv, StackInv
      <4>2. i - 1 \in Nat /\ \A j \in 1..(i - 1) : slot'[u][j] = slot[u][j]
        BY <1>1, <1>6, <1>7, <3>6
      <4>3. QED
        BY <3>1, <4>1, <4>2, SameInnermost
    <3>7. QED
      BY <3>1, <3>2, <3>3, <3>5, <3>6 DEF Inv, StackInv
  <2>3. QED
    BY <2>1, <2>2
<1>12. WalkInv'
  <2> SUFFICES ASSUME NEW u \in Threads, NEW i \in 1..depth'[u],
                      slot'[u][i].phase = "walk"
               PROVE  OwnFrame(slot'[u][i].cursor, slot'[u], u, i)
    BY DEF WalkInv
  <2>1. (u # t \/ i # n) /\ i \in 1..MaxDepth
    BY <1>1, <1>2, <1>6, <1>7
  <2>2. i \in 1..depth[u] /\ slot'[u][i] = slot[u][i]
    BY <1>1, <1>6, <1>7, <2>1
  <2>3. OwnFrame(slot[u][i].cursor, slot[u], u, i)
    BY <2>2 DEF Inv, WalkInv
  <2>4. \A j \in 1..i : slot'[u][j] = slot[u][j]
    BY <1>1, <1>6, <1>7, <2>1, <2>2
  <2>5. QED
    BY <2>2, <2>3, <2>4 DEF OwnFrame
<1>13. RoutedToOwner'
  <2> SUFFICES ASSUME NEW u \in Threads, NEW i \in 1..depth'[u],
                      slot'[u][i].phase = "host"
               PROVE  \E j \in 1..i :
                        /\ slot'[u][i].converter = <<u, j>>
                        /\ slot'[u][j].framed
                        /\ slot'[u][j].owner = slot'[u][i].compiled
    BY DEF RoutedToOwner
  <2>1. (u # t \/ i # n) /\ i \in 1..MaxDepth
    BY <1>1, <1>2, <1>6, <1>7
  <2>2. i \in 1..depth[u] /\ slot'[u][i] = slot[u][i]
    BY <1>1, <1>6, <1>7, <2>1
  <2>3. \A j \in 1..i : slot'[u][j] = slot[u][j]
    BY <1>1, <1>6, <1>7, <2>1, <2>2
  <2>4. QED
    BY <2>2, <2>3 DEF Inv, RoutedToOwner
<1>14. QED
  BY <1>8, <1>10, <1>11, <1>12, <1>13 DEF Inv

\* evaluate returns: its activation is popped and its frame unlinked.
LEMMA LeaveInv ==
  ASSUME Inv, NEW t \in Threads, Leave(t)
  PROVE  Inv'
<1> USE DepthAssumption
<1> DEFINE n == depth[t]
<1>1. /\ \A u \in Threads : depth[u] \in 0..MaxDepth
      /\ n \in 1..MaxDepth /\ n - 1 \in 0..MaxDepth
      /\ depth' = [depth EXCEPT ![t] = n - 1]
      /\ pending' = pending
      /\ slot[t][n].phase \in {"native", "unwind"}
  BY DEF Inv, TypeOK, Leave, In, Top
<1>2. Popped \in Activation /\ Popped.phase = "none"
  BY DEF Popped, Activation, Phase, EnvOrNone
<1>3. Update(t, Popped)
  BY DEF Leave
<1>4. /\ slot' \in [Threads -> [1..MaxDepth -> Activation]]
      /\ slot'[t][n] = Popped
      /\ \A u \in Threads, i \in 1..MaxDepth :
           u # t \/ i # n => slot'[u][i] = slot[u][i]
  BY <1>1, <1>2, <1>3, UpdateType DEF Inv
<1>5. callback_frame' = IF slot[t][n].framed
                        THEN [callback_frame EXCEPT ![t] = slot[t][n].previous]
                        ELSE callback_frame
  BY DEF Leave, Top, Local
<1>6. slot[t][n].framed => IsInnermost(slot[t][n].previous, slot[t], t, n - 1)
  BY <1>1 DEF Inv, StackInv
<1> HIDE DEF n
<1>7. \A u \in Threads : depth'[u] = IF u = t THEN n - 1 ELSE depth[u]
  BY <1>1 DEF Inv, TypeOK
<1>8. \A u \in Threads, i \in 1..MaxDepth :
        i <= depth'[u] => slot'[u][i] = slot[u][i] /\ i <= depth[u]
  BY <1>1, <1>4, <1>7 DEF n
<1>9. \A u \in Threads : depth'[u] \in 0..MaxDepth
  BY <1>1, <1>7
<1>10. TypeOK'
  <2>1. slot[t][n].previous \in Frame \cup {Null}
    BY <1>1 DEF Inv, TypeOK, Activation
  <2>2. callback_frame' \in [Threads -> Frame \cup {Null}]
    BY <1>5, <2>1 DEF Inv, TypeOK
  <2>3. depth' \in [Threads -> 0..MaxDepth]
    BY <1>1 DEF Inv, TypeOK
  <2>4. QED
    BY <1>1, <1>4, <2>2, <2>3 DEF Inv, TypeOK
<1>11. HeadInv'
  <2> SUFFICES ASSUME NEW u \in Threads
               PROVE  IsInnermost(callback_frame'[u], slot'[u], u, depth'[u])
    BY DEF HeadInv
  <2>1. IsInnermost(callback_frame'[u], slot[u], u, depth'[u])
    <3>1. CASE u # t
      BY <1>5, <1>7, <3>1 DEF Inv, TypeOK, HeadInv
    <3>2. CASE u = t /\ slot[t][n].framed
      BY <1>5, <1>6, <1>7, <3>2 DEF Inv, TypeOK
    <3>3. CASE u = t /\ ~slot[t][n].framed
      <4>1. callback_frame'[t] = callback_frame[t] /\ depth'[t] = n - 1
        BY <1>5, <1>7, <3>3
      <4>2. IsInnermost(callback_frame[t], slot[t], t, n)
        BY DEF Inv, HeadInv, n
      <4>3. IsInnermost(callback_frame[t], slot[t], t, n - 1)
        BY <1>1, <3>3, <4>2 DEF IsInnermost
      <4>4. QED
        BY <3>3, <4>1, <4>3
    <3>4. QED
      BY <3>1, <3>2, <3>3
  <2>2. depth'[u] \in Nat /\ \A i \in 1..depth'[u] : slot'[u][i] = slot[u][i]
    BY <1>8, <1>9
  <2>3. QED
    BY <2>1, <2>2, SameInnermost
<1>12. StackInv'
  <2> SUFFICES ASSUME NEW u \in Threads, NEW i \in 1..MaxDepth
               PROVE  /\ i > depth'[u] => slot'[u][i] = Popped
                      /\ i <= depth'[u] =>
                           /\ slot'[u][i].phase # "none"
                           /\ slot'[u][i].framed <=> slot'[u][i].owner \in Registered
                           /\ slot'[u][i].framed =>
                                IsInnermost(slot'[u][i].previous, slot'[u], u, i - 1)
                      /\ i < depth'[u] => slot'[u][i].phase = "host"
    BY DEF StackInv
  <2>1. i > depth'[u] => slot'[u][i] = Popped
    <3>1. i > depth'[u] => (u = t /\ i = n) \/ i > depth[u]
      BY <1>1, <1>7 DEF n
    <3>2. i > depth[u] => slot[u][i] = Popped
      BY DEF Inv, StackInv
    <3>3. QED
      BY <1>1, <1>4, <3>1, <3>2 DEF n
  <2>2. CASE i <= depth'[u]
    <3>1. slot'[u][i] = slot[u][i] /\ i <= depth[u]
      BY <1>8, <2>2
    <3>2. i < depth'[u] => i < depth[u]
      BY <1>1, <1>7 DEF n
    <3>3. ASSUME slot[u][i].framed
          PROVE  IsInnermost(slot'[u][i].previous, slot'[u], u, i - 1)
      <4>1. IsInnermost(slot[u][i].previous, slot[u], u, i - 1)
        BY <3>1, <3>3 DEF Inv, StackInv
      <4>2. i - 1 \in Nat /\ \A j \in 1..(i - 1) : slot'[u][j] = slot[u][j]
        BY <1>8, <1>9, <2>2
      <4>3. QED
        BY <3>1, <4>1, <4>2, SameInnermost
    <3>4. QED
      BY <2>1, <3>1, <3>2, <3>3 DEF Inv, StackInv
  <2>3. QED
    BY <1>9, <2>1, <2>2
<1>13. WalkInv'
  <2> SUFFICES ASSUME NEW u \in Threads, NEW i \in 1..depth'[u],
                      slot'[u][i].phase = "walk"
               PROVE  OwnFrame(slot'[u][i].cursor, slot'[u], u, i)
    BY DEF WalkInv
  <2>1. \A j \in 1..i : slot'[u][j] = slot[u][j] /\ j <= depth[u]
    BY <1>8, <1>9
  <2>2. OwnFrame(slot[u][i].cursor, slot[u], u, i)
    BY <1>9, <2>1 DEF Inv, WalkInv
  <2>3. QED
    BY <1>9, <2>1, <2>2 DEF OwnFrame
<1>14. RoutedToOwner'
  <2> SUFFICES ASSUME NEW u \in Threads, NEW i \in 1..depth'[u],
                      slot'[u][i].phase = "host"
               PROVE  \E j \in 1..i :
                        /\ slot'[u][i].converter = <<u, j>>
                        /\ slot'[u][j].framed
                        /\ slot'[u][j].owner = slot'[u][i].compiled
    BY DEF RoutedToOwner
  <2>1. \A j \in 1..i : slot'[u][j] = slot[u][j] /\ j <= depth[u]
    BY <1>8, <1>9
  <2>2. QED
    BY <1>9, <2>1 DEF Inv, RoutedToOwner
<1>15. QED
  BY <1>10, <1>11, <1>12, <1>13, <1>14 DEF Inv

-----------------------------------------------------------------------------
(* The invariant of the specification *)

LEMMA Unchanged ==
  ASSUME Inv, UNCHANGED <<depth, slot, callback_frame>>,
         pending' \in [Threads -> BOOLEAN]
  PROVE  Inv'
BY DEF Inv, TypeOK, StackInv, HeadInv, WalkInv, RoutedToOwner

LEMMA NextInv == Inv /\ [Next]_vars => Inv'
<1> SUFFICES ASSUME Inv, [Next]_vars PROVE Inv'
  OBVIOUS
<1>1. CASE UNCHANGED vars
  BY <1>1, Unchanged DEF vars, Inv, TypeOK
<1>2. ASSUME NEW t \in Threads, NEW e \in Evaluated, Enter(t, e) PROVE Inv'
  BY <1>2, EnterInv
<1>3. ASSUME NEW t \in Threads, Call(t) PROVE Inv'
  BY <1>3, CallInv
<1>4. ASSUME NEW t \in Threads, WalkFound(t) PROVE Inv'
  BY <1>4, WalkFoundInv
<1>5. ASSUME NEW t \in Threads, WalkNext(t) PROVE Inv'
  BY <1>5, WalkNextInv
<1>6. ASSUME NEW t \in Threads, WalkFailed(t) \/ Fail(t) PROVE Inv'
  <2>1. pending' \in [Threads -> BOOLEAN]
    BY <1>6 DEF WalkFailed, Fail, Inv, TypeOK
  <2>2. QED
    BY <1>6, <2>1, UnwindInv DEF WalkFailed, Fail, In, AfterHostError
<1>7. ASSUME NEW t \in Threads, CallReturn(t) \/ CallRaise(t) PROVE Inv'
  <2>1. pending' \in [Threads -> BOOLEAN]
    BY <1>7 DEF CallReturn, CallRaise, Inv, TypeOK
  <2>2. QED
    BY <1>7, <2>1, PhaseInv DEF CallReturn, CallRaise, In, AfterHostError
<1>8. ASSUME NEW t \in Threads, Leave(t) PROVE Inv'
  BY <1>8, LeaveInv
<1>9. ASSUME NEW t \in Threads, Catch(t) PROVE Inv'
  BY <1>9, Unchanged DEF Catch, Inv, TypeOK
<1>10. QED
  BY <1>1, <1>2, <1>3, <1>4, <1>5, <1>6, <1>7, <1>8, <1>9 DEF Next

LEMMA InvariantHolds == Spec => []Inv
<1>1. QED
  BY InitInv, NextInv, PTL DEF Spec

\* The variables keep their types.
THEOREM TypeCorrect == Spec => []TypeOK
<1>1. Inv => TypeOK
  BY DEF Inv
<1>2. QED
  BY <1>1, InvariantHolds, PTL

\* The thread-local list always holds exactly the frames of the thread's own
\* running evaluations, however evaluations nest, fail and interleave.
THEOREM FramesAlwaysMatchStack == Spec => []FramesMatchStack
<1>1. ASSUME Inv PROVE FramesMatchStack
  <2>1. \A t \in Threads : \A i \in 1..depth[t] : i \in 1..MaxDepth /\ i <= depth[t]
    BY <1>1, DepthAssumption DEF Inv, TypeOK
  <2>2. QED
    BY <1>1, <2>1 DEF Inv, StackInv, HeadInv, FramesMatchStack
<1>2. QED
  BY <1>1, InvariantHolds, PTL

\* A callback is always served by a live evaluation of its own thread whose
\* environment owns the function.
THEOREM RoutingIsSound == Spec => []RoutedToOwner
<1>1. Inv => RoutedToOwner
  BY DEF Inv
<1>2. QED
  BY <1>1, InvariantHolds, PTL

-----------------------------------------------------------------------------
(* Evaluations with the environment of their program *)

\* An evaluation of its own environment finds its own frame first.
CallerInv ==
  \A t \in Threads : \A i \in 1..depth[t] :
    slot[t][i].compiled = slot[t][i].owner =>
      /\ slot[t][i].phase = "walk" =>
           slot[t][i].cursor = <<t, i>> /\ slot[t][i].framed
      /\ slot[t][i].phase = "host" => slot[t][i].converter = <<t, i>>

\* A step that replaces the innermost activation keeps CallerInv when the new
\* activation satisfies it.
LEMMA UpdateCaller ==
  ASSUME Inv, CallerInv, NEW t \in Threads, depth[t] > 0,
         NEW activation \in Activation, Update(t, activation), depth' = depth,
         activation.compiled = activation.owner =>
           /\ activation.phase = "walk" =>
                activation.cursor = <<t, depth[t]>> /\ activation.framed
           /\ activation.phase = "host" => activation.converter = <<t, depth[t]>>
  PROVE  CallerInv'
<1>1. \A u \in Threads : \A i \in 1..depth[u] : i \in 1..MaxDepth
  BY DepthAssumption DEF Inv, TypeOK
<1>2. /\ slot'[t][depth[t]] = activation
      /\ \A u \in Threads, i \in 1..MaxDepth :
           u # t \/ i # depth[t] => slot'[u][i] = slot[u][i]
  BY UpdateType DEF Inv
<1> SUFFICES ASSUME NEW u \in Threads, NEW i \in 1..depth[u]
             PROVE  slot'[u][i].compiled = slot'[u][i].owner =>
                      /\ slot'[u][i].phase = "walk" =>
                           slot'[u][i].cursor = <<u, i>> /\ slot'[u][i].framed
                      /\ slot'[u][i].phase = "host" =>
                           slot'[u][i].converter = <<u, i>>
  BY DEF CallerInv
<1>3. CASE u = t /\ i = depth[t]
  BY <1>2, <1>3
<1>4. CASE u # t \/ i # depth[t]
  BY <1>1, <1>2, <1>4 DEF CallerInv
<1>5. QED
  BY <1>3, <1>4

LEMMA CallerStep ==
  ASSUME Inv, CallerInv, [Next]_vars
  PROVE  CallerInv'
<1> USE DepthAssumption
<1>1. CASE UNCHANGED vars
  BY <1>1 DEF vars, CallerInv
<1>2. ASSUME NEW t \in Threads, NEW e \in Evaluated, Enter(t, e)
      PROVE  CallerInv'
  <2> DEFINE n == depth[t] + 1
             activation == NewActivation(t, e)
  <2>1. /\ n \in 1..MaxDepth
        /\ \A u \in Threads : depth'[u] = IF u = t THEN n ELSE depth[u]
        /\ \A u \in Threads : depth[u] \in 0..MaxDepth
    BY <1>2 DEF Enter, Inv, TypeOK
  <2>2. activation.phase = "native"
    BY DEF NewActivation
  <2>3. slot' = [slot EXCEPT ![t] = [@ EXCEPT ![n] = activation]]
    BY <1>2 DEF Enter
  <2> HIDE DEF activation
  <2>4. /\ slot'[t][n] = activation
        /\ \A u \in Threads, i \in 1..MaxDepth :
             u # t \/ i # n => slot'[u][i] = slot[u][i]
    BY <2>1, <2>3 DEF Inv, TypeOK
  <2> SUFFICES ASSUME NEW u \in Threads, NEW i \in 1..depth'[u]
               PROVE  slot'[u][i].compiled = slot'[u][i].owner =>
                        /\ slot'[u][i].phase = "walk" =>
                             slot'[u][i].cursor = <<u, i>> /\ slot'[u][i].framed
                        /\ slot'[u][i].phase = "host" =>
                             slot'[u][i].converter = <<u, i>>
    BY DEF CallerInv
  <2>5. CASE u = t /\ i = n
    BY <2>2, <2>4, <2>5
  <2>6. CASE u # t \/ i # n
    <3>1. i \in 1..depth[u] /\ i \in 1..MaxDepth
      BY <2>1, <2>6
    <3>2. slot'[u][i] = slot[u][i]
      BY <2>4, <2>6, <3>1
    <3>3. QED
      BY <3>1, <3>2 DEF CallerInv
  <2>7. QED
    BY <2>5, <2>6
<1>3. ASSUME NEW t \in Threads, depth[t] > 0
      PROVE  /\ Top(t) \in Activation /\ Top(t) = slot[t][depth[t]]
             /\ depth[t] \in 1..depth[t] /\ depth[t] \in 1..MaxDepth
             /\ Top(t).framed <=> Top(t).owner \in Registered
  BY <1>3, TopType DEF Inv, TypeOK, StackInv, CallerInv
<1>4. ASSUME NEW t \in Threads, Call(t) PROVE CallerInv'
  <2>1. depth[t] > 0 /\ depth' = depth /\ Top(t).compiled \in Registered
    BY <1>4 DEF Call, In
  <2>2. Top(t).compiled = Top(t).owner => Top(t).framed
    BY <1>3, <2>1
  <2>3. Top(t).framed => callback_frame[t] = <<t, depth[t]>>
    BY <1>3, <2>1 DEF Inv, HeadInv, IsInnermost
  <2> DEFINE activation == [Top(t) EXCEPT !.phase = "walk",
                                          !.cursor = callback_frame[t]]
  <2>4. /\ activation \in Activation
        /\ activation.compiled = Top(t).compiled
        /\ activation.owner = Top(t).owner
        /\ activation.cursor = callback_frame[t] /\ activation.phase = "walk"
        /\ activation.framed = Top(t).framed
    <3>1. callback_frame[t] \in Frame \cup {Null}
      BY DEF Inv, TypeOK
    <3>2. QED
      BY <1>3, <2>1, <3>1 DEF Activation, Phase
  <2>5. Update(t, activation)
    BY <1>4 DEF Call, Local
  <2> HIDE DEF activation
  <2>6. QED
    BY <2>1, <2>2, <2>3, <2>4, <2>5, UpdateCaller
<1>5. ASSUME NEW t \in Threads, WalkFound(t) PROVE CallerInv'
  <2>1. depth[t] > 0 /\ depth' = depth
    BY <1>5 DEF WalkFound, In
  <2>2. Top(t).compiled = Top(t).owner => Top(t).cursor = <<t, depth[t]>>
    BY <1>3, <1>5, <2>1 DEF WalkFound, In, CallerInv
  <2> DEFINE activation == [Top(t) EXCEPT !.phase = "host",
                                          !.converter = Top(t).cursor,
                                          !.cursor = Null]
  <2>3. /\ activation \in Activation
        /\ activation.compiled = Top(t).compiled
        /\ activation.owner = Top(t).owner
        /\ activation.converter = Top(t).cursor /\ activation.phase = "host"
    BY <1>3, <2>1 DEF Activation, Phase
  <2>4. Update(t, activation)
    BY <1>5 DEF WalkFound
  <2> HIDE DEF activation
  <2>5. QED
    BY <2>1, <2>2, <2>3, <2>4, UpdateCaller
<1>6. ASSUME NEW t \in Threads, WalkNext(t) PROVE CallerInv'
  <2>1. depth[t] > 0 /\ depth' = depth /\ Top(t).phase = "walk"
    BY <1>6 DEF WalkNext, In
  <2>2. Top(t).compiled = Top(t).owner => Top(t).cursor = <<t, depth[t]>>
    BY <1>3, <2>1 DEF CallerInv
  <2>3. Top(t).cursor = <<t, depth[t]>> => FrameAt(Top(t).cursor) = Top(t)
    BY <1>3, <2>1 DEF FrameAt
  <2>4. Top(t).compiled # Top(t).owner
    BY <1>6, <2>2, <2>3 DEF WalkNext
  <2> DEFINE next == FrameAt(Top(t).cursor).previous
             activation == [Top(t) EXCEPT !.cursor = next]
  <2>5. Update(t, activation)
    BY <1>6 DEF WalkNext
  <2>6. next \in Frame \cup {Null}
    <3>1. Top(t).cursor \in Frame
      BY <1>3, <1>6, <2>1 DEF WalkNext, Activation
    <3>2. PICK u \in Threads, i \in 1..MaxDepth : Top(t).cursor = <<u, i>>
      BY <3>1 DEF Frame
    <3>3. FrameAt(Top(t).cursor) = slot[u][i]
      BY <3>2 DEF FrameAt
    <3>4. slot[u][i] \in Activation
      BY <3>2 DEF Inv, TypeOK
    <3>5. QED
      BY <3>3, <3>4 DEF Activation
  <2> HIDE DEF next
  <2>7. /\ activation \in Activation
        /\ activation.compiled = Top(t).compiled
        /\ activation.owner = Top(t).owner
    BY <1>3, <2>1, <2>6 DEF Activation
  <2> HIDE DEF activation
  <2>8. QED
    BY <2>1, <2>4, <2>5, <2>7, UpdateCaller
<1>7. ASSUME NEW t \in Threads, WalkFailed(t) \/ Fail(t) PROVE CallerInv'
  <2>1. depth[t] > 0 /\ depth' = depth
    BY <1>7 DEF WalkFailed, Fail, In
  <2> DEFINE activation == [Top(t) EXCEPT !.phase = "unwind"]
  <2>2. /\ activation \in Activation
        /\ activation.phase = "unwind"
    BY <1>3, <2>1 DEF Activation, Phase
  <2>3. Update(t, activation)
    BY <1>7 DEF WalkFailed, Fail, AfterHostError
  <2> HIDE DEF activation
  <2>4. QED
    BY <2>1, <2>2, <2>3, UpdateCaller
<1>8. ASSUME NEW t \in Threads, CallReturn(t) \/ CallRaise(t) PROVE CallerInv'
  <2>1. depth[t] > 0 /\ depth' = depth
    BY <1>8 DEF CallReturn, CallRaise, In
  <2>2. PICK p \in {"native", "unwind"} :
          Update(t, [Top(t) EXCEPT !.phase = p, !.converter = Null])
    BY <1>8 DEF CallReturn, CallRaise, AfterHostError
  <2> DEFINE activation == [Top(t) EXCEPT !.phase = p, !.converter = Null]
  <2>3. /\ activation \in Activation
        /\ activation.phase \in {"native", "unwind"}
    BY <1>3, <2>1 DEF Activation, Phase
  <2>4. Update(t, activation)
    BY <2>2
  <2> HIDE DEF activation
  <2>5. QED
    BY <2>1, <2>3, <2>4, UpdateCaller
<1>9. ASSUME NEW t \in Threads, Leave(t) PROVE CallerInv'
  <2>1. depth[t] \in 1..MaxDepth /\ Update(t, Popped) /\ Popped \in Activation
    BY <1>9 DEF Leave, In, Inv, TypeOK, Popped, Activation, Phase, EnvOrNone
  <2>2. \A u \in Threads, i \in 1..MaxDepth :
          u # t \/ i # depth[t] => slot'[u][i] = slot[u][i]
    BY <2>1, UpdateType DEF Inv
  <2>3. \A u \in Threads : \A i \in 1..depth'[u] :
          i \in 1..depth[u] /\ slot'[u][i] = slot[u][i]
    BY <1>9, <2>1, <2>2 DEF Leave, Inv, TypeOK
  <2>4. QED
    BY <2>3 DEF CallerInv
<1>10. ASSUME NEW t \in Threads, Catch(t) PROVE CallerInv'
  BY <1>10 DEF Catch, CallerInv
<1>11. QED
  BY <1>1, <1>2, <1>4, <1>5, <1>6, <1>7, <1>8, <1>9, <1>10 DEF Next

\* A callback of a program that is evaluated with its own environment is served
\* by the evaluation that called it.
THEOREM PublicRouting == Spec => []RoutedToCaller
<1>1. Init => CallerInv
  BY DEF Init, CallerInv
<1>2. Inv /\ CallerInv /\ [Next]_vars => CallerInv'
  BY CallerStep
<1>3. CallerInv => RoutedToCaller
  BY DEF CallerInv, RoutedToCaller
<1>4. QED
  BY <1>1, <1>2, <1>3, InvariantHolds, PTL DEF Spec

\* No evaluation goes on with the exception of a callback still set.
THEOREM NoPendingWork == Spec => []NoWorkWithPendingException
<1>1. Init => NoWorkWithPendingException
  BY DEF Init, NoWorkWithPendingException, In
<1>2. ASSUME Inv, NoWorkWithPendingException, [Next]_vars
      PROVE  NoWorkWithPendingException'
  <2> SUFFICES ASSUME NEW u \in Threads, In(u, "native")' \/ In(u, "walk")'
               PROVE  ~pending'[u]
    BY DEF NoWorkWithPendingException
  <2> USE DepthAssumption DEF In
  <2>1. CASE UNCHANGED vars
    BY <1>2, <2>1 DEF vars, NoWorkWithPendingException, Top
  <2>2. ASSUME NEW t \in Threads, NEW e \in Evaluated, Enter(t, e)
        PROVE  ~pending'[u]
    <3>1. CASE u = t
      BY <2>2, <3>1 DEF Enter
    <3>2. CASE u # t
      BY <1>2, <2>2, <3>2 DEF Enter, NoWorkWithPendingException, Top, Inv, TypeOK
    <3>3. QED
      BY <3>1, <3>2
  <2>3. ASSUME NEW t \in Threads,
               Call(t) \/ WalkFound(t) \/ WalkNext(t) \/ CallReturn(t)
        PROVE  ~pending'[u]
    <3>1. CASE u = t
      BY <1>2, <2>3, <3>1
      DEF Call, WalkFound, WalkNext, CallReturn, NoWorkWithPendingException
    <3>2. CASE u # t
      <4>1. depth'[u] = depth[u] /\ slot'[u] = slot[u] /\ pending' = pending
        BY <1>2, <2>3, <3>2
        DEF Call, WalkFound, WalkNext, CallReturn, Update, Inv, TypeOK
      <4>2. QED
        BY <1>2, <4>1 DEF NoWorkWithPendingException, Top
    <3>3. QED
      BY <3>1, <3>2
  <2>4. ASSUME NEW t \in Threads, WalkFailed(t) \/ CallRaise(t) \/ Fail(t)
        PROVE  ~pending'[u]
    <3>1. depth[t] \in 1..MaxDepth /\ depth' = depth
      BY <1>2, <2>4 DEF WalkFailed, CallRaise, Fail, Inv, TypeOK
    <3>2. Top(t) \in Activation
      BY <1>2, <3>1, TopType DEF Inv
    <3>3. slot'[t][depth[t]].phase = "unwind"
      <4>1. \/ Update(t, [Top(t) EXCEPT !.phase = "unwind"])
            \/ Update(t, [Top(t) EXCEPT !.phase = "unwind", !.converter = Null])
        BY <2>4 DEF WalkFailed, CallRaise, Fail, AfterHostError
      <4>2. [Top(t) EXCEPT !.phase = "unwind"].phase = "unwind"
        BY <3>2 DEF Activation
      <4>3. [Top(t) EXCEPT !.phase = "unwind", !.converter = Null].phase = "unwind"
        BY <3>2 DEF Activation
      <4>4. ASSUME NEW new, Update(t, new) PROVE slot'[t][depth[t]] = new
        BY <1>2, <3>1, <4>4 DEF Update, Inv, TypeOK
      <4> HIDE DEF Update
      <4>5. QED
        BY <4>1, <4>2, <4>3, <4>4
    <3>4. CASE u = t
      BY <3>1, <3>3, <3>4 DEF Top
    <3>5. CASE u # t
      <4>1. slot'[u] = slot[u] /\ pending'[u] = pending[u]
        BY <1>2, <2>4, <3>5 DEF WalkFailed, CallRaise, Fail, Update, Inv, TypeOK
      <4>2. QED
        BY <1>2, <3>1, <4>1 DEF NoWorkWithPendingException, Top
    <3>6. QED
      BY <3>4, <3>5
  <2>5. ASSUME NEW t \in Threads, Leave(t) PROVE ~pending'[u]
    <3>1. CASE u = t
      <4>1. depth[t] \in 1..MaxDepth /\ depth'[t] = depth[t] - 1
        BY <1>2, <2>5 DEF Leave, Inv, TypeOK
      <4>2. CASE depth'[t] = 0
        BY <3>1, <4>2
      <4>3. CASE depth'[t] > 0
        <5>1. slot'[t][depth'[t]] = slot[t][depth[t] - 1]
          BY <1>2, <2>5, <4>1, <4>3 DEF Leave, Update, Inv, TypeOK
        <5>2. slot[t][depth[t] - 1].phase = "host"
          BY <1>2, <4>1, <4>3 DEF Inv, StackInv
        <5>3. QED
          BY <3>1, <5>1, <5>2 DEF Top
      <4>4. QED
        BY <4>1, <4>2, <4>3
    <3>2. CASE u # t
      <4>1. slot'[u] = slot[u] /\ pending' = pending /\ depth'[u] = depth[u]
        BY <1>2, <2>5, <3>2 DEF Leave, Update, Inv, TypeOK
      <4>2. QED
        BY <1>2, <4>1 DEF NoWorkWithPendingException, Top
    <3>3. QED
      BY <3>1, <3>2
  <2>6. ASSUME NEW t \in Threads, Catch(t) PROVE ~pending'[u]
    <3>1. depth' = depth /\ slot' = slot
      BY <2>6 DEF Catch
    <3>2. ~pending[u] => ~pending'[u]
      BY <1>2, <2>6 DEF Catch, Inv, TypeOK
    <3>3. QED
      BY <1>2, <3>1, <3>2 DEF NoWorkWithPendingException, Top
  <2>7. QED
    BY <1>2, <2>1, <2>2, <2>3, <2>4, <2>5, <2>6 DEF Next
<1>3. QED
  BY <1>1, <1>2, InvariantHolds, PTL DEF Spec

-----------------------------------------------------------------------------
(* The frames implement CallbackRouting *)

\* A walk has passed every evaluation above its cursor, and none of them was
\* started with the environment it looks for.
PassedInv ==
  \A t \in Threads : \A i \in 1..depth[t] :
    slot[t][i].phase = "walk" =>
      /\ slot[t][i].compiled \in Registered
      /\ \A k \in 1..i :
           (\A j \in k..i : slot[t][i].cursor # <<t, j>>) =>
             slot[t][k].owner # slot[t][i].compiled

\* The refinement mapping.
Stack == [t \in Threads |-> [i \in 1..depth[t] |-> Served(t, i)]]

\* An evaluation as CallbackRouting sees it.
Evaluation == EvaluationsOf(EnvOrNone, Frame \cup {Null})

ServedAs(activation) ==
  [compiled |-> activation.compiled,
   owner |-> activation.owner,
   host |-> activation.phase = "host",
   server |-> IF activation.phase = "host" THEN activation.converter ELSE Null]

-----------------------------------------------------------------------------
(* The walk passes no evaluation that owns the function *)

\* A step that replaces the innermost activation by one that does not walk.
LEMMA PassedUpdate ==
  ASSUME Inv, PassedInv, NEW t \in Threads, depth[t] > 0,
         NEW activation \in Activation, Update(t, activation), depth' = depth,
         activation.owner = Top(t).owner,
         activation.phase = "walk" =>
           /\ activation.compiled \in Registered
           /\ \A k \in 1..depth[t] :
                (\A j \in k..depth[t] : activation.cursor # <<t, j>>) =>
                  slot[t][k].owner # activation.compiled
  PROVE  PassedInv'
<1>1. \A u \in Threads : depth[u] \in 0..MaxDepth /\ \A i \in 1..depth[u] : i \in 1..MaxDepth
  BY DepthAssumption DEF Inv, TypeOK
<1>2. /\ slot'[t][depth[t]] = activation
      /\ \A u \in Threads, i \in 1..MaxDepth :
           u # t \/ i # depth[t] => slot'[u][i] = slot[u][i]
  BY UpdateType DEF Inv
<1>3. \A u \in Threads : \A i \in 1..depth[u] : slot'[u][i].owner = slot[u][i].owner
  BY <1>1, <1>2, TopType DEF Inv
<1> SUFFICES ASSUME NEW u \in Threads, NEW i \in 1..depth[u], slot'[u][i].phase = "walk"
             PROVE  /\ slot'[u][i].compiled \in Registered
                    /\ \A k \in 1..i :
                         (\A j \in k..i : slot'[u][i].cursor # <<u, j>>) =>
                           slot'[u][k].owner # slot'[u][i].compiled
  BY DEF PassedInv
<1>4. \A k \in 1..i : slot'[u][k].owner = slot[u][k].owner
  BY <1>1, <1>3
<1>5. CASE u = t /\ i = depth[t]
  BY <1>2, <1>4, <1>5
<1>6. CASE u # t \/ i # depth[t]
  BY <1>1, <1>2, <1>4, <1>6 DEF PassedInv
<1>7. QED
  BY <1>5, <1>6

\* An activation that has no frame is of an environment without functions.
LEMMA Unframed ==
  ASSUME Inv, NEW t \in Threads, NEW k \in 1..depth[t], ~slot[t][k].framed
  PROVE  slot[t][k].owner \notin Registered
BY DepthAssumption DEF Inv, TypeOK, StackInv

LEMMA PassedCall ==
  ASSUME Inv, PassedInv, NEW t \in Threads, Call(t) PROVE PassedInv'
<1>1. /\ depth[t] > 0 /\ depth' = depth /\ Top(t).compiled \in Registered
      /\ Top(t) \in Activation /\ depth[t] \in 1..MaxDepth
  BY TopType DEF Inv, Call, In
<1> DEFINE activation == [Top(t) EXCEPT !.phase = "walk", !.cursor = callback_frame[t]]
<1>2. /\ activation \in Activation
      /\ activation.compiled = Top(t).compiled /\ activation.owner = Top(t).owner
      /\ activation.cursor = callback_frame[t]
  BY <1>1 DEF Activation, Phase, Inv, TypeOK
<1>3. Update(t, activation)
  BY DEF Call, Local
<1> HIDE DEF activation
<1>4. ASSUME NEW k \in 1..depth[t], \A j \in k..depth[t] : callback_frame[t] # <<t, j>>
      PROVE  slot[t][k].owner \notin Registered
  <2>1. IsInnermost(callback_frame[t], slot[t], t, depth[t])
    BY DEF Inv, HeadInv
  <2>2. ~slot[t][k].framed
    BY <1>1, <1>4, <2>1 DEF IsInnermost
  <2>3. QED
    BY <2>2, Unframed
<1>5. QED
  BY <1>1, <1>2, <1>3, <1>4, PassedUpdate

LEMMA PassedNext ==
  ASSUME Inv, PassedInv, NEW t \in Threads, WalkNext(t) PROVE PassedInv'
<1>1. /\ depth[t] > 0 /\ depth' = depth /\ Top(t) = slot[t][depth[t]]
      /\ Top(t) \in Activation /\ depth[t] \in 1..MaxDepth /\ Top(t).phase = "walk"
  BY TopType DEF Inv, WalkNext, In
<1>2. PICK c \in 1..depth[t] :
        /\ Top(t).cursor = <<t, c>>
        /\ FrameAt(Top(t).cursor) = slot[t][c] /\ slot[t][c].framed
  BY CursorFrame DEF WalkNext
<1>3. /\ slot[t][c].owner # Top(t).compiled
      /\ IsInnermost(slot[t][c].previous, slot[t], t, c - 1)
      /\ slot[t][c].previous \in Frame \cup {Null}
  <2>1. c \in 1..MaxDepth /\ c <= depth[t]
    BY <1>1, DepthAssumption
  <2>2. slot[t][c] \in Activation
    BY <2>1 DEF Inv, TypeOK
  <2>3. slot[t][c].previous \in Frame \cup {Null}
    BY <2>2 DEF Activation
  <2>4. slot[t][c].owner # Top(t).compiled
    BY <1>2 DEF WalkNext
  <2>5. IsInnermost(slot[t][c].previous, slot[t], t, c - 1)
    BY <1>2, <2>1 DEF Inv, StackInv
  <2>6. QED
    BY <2>3, <2>4, <2>5
<1> DEFINE activation == [Top(t) EXCEPT !.cursor = slot[t][c].previous]
<1>4. /\ activation \in Activation
      /\ activation.compiled = Top(t).compiled /\ activation.owner = Top(t).owner
      /\ activation.cursor = slot[t][c].previous
  BY <1>1, <1>3 DEF Activation
<1>5. Update(t, activation)
  BY <1>2 DEF WalkNext
<1> HIDE DEF activation
<1>6. /\ Top(t).compiled \in Registered
      /\ \A k \in 1..depth[t] :
           (\A j \in k..depth[t] : Top(t).cursor # <<t, j>>) =>
             slot[t][k].owner # Top(t).compiled
  BY <1>1 DEF PassedInv
<1>7. ASSUME NEW k \in 1..depth[t], \A j \in k..depth[t] : slot[t][c].previous # <<t, j>>
      PROVE  slot[t][k].owner # Top(t).compiled
  <2>1. CASE k > c
    BY <1>1, <1>2, <1>6, <2>1
  <2>2. CASE k = c
    BY <1>3, <2>2
  <2>3. CASE k < c
    <3>1. ~slot[t][k].framed
      BY <1>1, <1>3, <1>7, <2>3 DEF IsInnermost
    <3>2. QED
      BY <1>6, <3>1, Unframed
  <2>4. QED
    BY <2>1, <2>2, <2>3
<1>8. QED
  BY <1>1, <1>4, <1>5, <1>6, <1>7, PassedUpdate

LEMMA PassedStep == ASSUME Inv, PassedInv, [Next]_vars PROVE PassedInv'
<1>1. CASE UNCHANGED vars
  BY <1>1 DEF vars, PassedInv
<1>2. ASSUME NEW t \in Threads, NEW e \in Evaluated, Enter(t, e) PROVE PassedInv'
  <2>1. /\ \A u \in Threads : depth'[u] = IF u = t THEN depth[t] + 1 ELSE depth[u]
        /\ \A u \in Threads : depth[u] \in 0..MaxDepth
        /\ slot'[t][depth[t] + 1].phase = "native"
        /\ \A u \in Threads : \A i \in 1..depth[u] : slot'[u][i] = slot[u][i]
    BY <1>2, DepthAssumption DEF Enter, Inv, TypeOK, NewActivation
  <2> SUFFICES ASSUME NEW u \in Threads, NEW i \in 1..depth'[u], slot'[u][i].phase = "walk"
               PROVE  /\ slot'[u][i].compiled \in Registered
                      /\ \A k \in 1..i :
                           (\A j \in k..i : slot'[u][i].cursor # <<u, j>>) =>
                             slot'[u][k].owner # slot'[u][i].compiled
    BY DEF PassedInv
  <2>2. i \in 1..depth[u] /\ \A k \in 1..i : k \in 1..depth[u]
    BY <2>1
  <2>3. QED
    BY <2>1, <2>2 DEF PassedInv
<1>3. ASSUME NEW t \in Threads, Call(t) \/ WalkNext(t) PROVE PassedInv'
  BY <1>3, PassedCall, PassedNext
<1>4. ASSUME NEW t \in Threads,
             WalkFound(t) \/ WalkFailed(t) \/ CallReturn(t) \/ CallRaise(t) \/ Fail(t)
      PROVE  PassedInv'
  <2>1. depth[t] > 0 /\ depth' = depth /\ Top(t) \in Activation
    BY <1>4, TopType DEF WalkFound, WalkFailed, CallReturn, CallRaise, Fail, In, Inv
  <2>2. PICK activation \in Activation :
          /\ Update(t, activation)
          /\ activation.owner = Top(t).owner /\ activation.phase # "walk"
    <3>1. CASE WalkFound(t)
      <4>1. [Top(t) EXCEPT !.phase = "host", !.converter = Top(t).cursor, !.cursor = Null] \in Activation
        BY <2>1 DEF Activation, Phase
      <4>2. QED
        BY <2>1, <3>1, <4>1 DEF WalkFound, Activation
    <3>2. CASE CallReturn(t) \/ CallRaise(t)
      <4>1. \A p \in {"native", "unwind"} :
              [Top(t) EXCEPT !.phase = p, !.converter = Null] \in Activation
        BY <2>1 DEF Activation, Phase
      <4>2. QED
        BY <2>1, <3>2, <4>1 DEF CallReturn, CallRaise, AfterHostError, Activation
    <3>3. CASE WalkFailed(t) \/ Fail(t)
      <4>1. [Top(t) EXCEPT !.phase = "unwind"] \in Activation
        BY <2>1 DEF Activation, Phase
      <4>2. QED
        BY <2>1, <3>3, <4>1 DEF WalkFailed, Fail, AfterHostError, Activation
    <3>4. QED
      BY <1>4, <3>1, <3>2, <3>3
  <2>3. QED
    BY <2>1, <2>2, PassedUpdate
<1>5. ASSUME NEW t \in Threads, Leave(t) PROVE PassedInv'
  <2>1. depth[t] \in 1..MaxDepth /\ Update(t, Popped) /\ Popped \in Activation
    BY <1>5 DEF Leave, In, Inv, TypeOK, Popped, Activation, Phase, EnvOrNone
  <2>2. \A u \in Threads, i \in 1..MaxDepth :
          u # t \/ i # depth[t] => slot'[u][i] = slot[u][i]
    BY <2>1, UpdateType DEF Inv
  <2>3. \A u \in Threads : \A i \in 1..depth'[u] :
          i \in 1..depth[u] /\ \A k \in 1..i : slot'[u][k] = slot[u][k]
    <3>1. \A u \in Threads : /\ depth[u] \in 0..MaxDepth
                              /\ depth'[u] = IF u = t THEN depth[t] - 1 ELSE depth[u]
      BY <1>5 DEF Leave, Inv, TypeOK
    <3>2. QED
      BY <2>1, <2>2, <3>1, DepthAssumption
  <2>4. QED
    BY <2>3 DEF PassedInv
<1>6. ASSUME NEW t \in Threads, Catch(t) PROVE PassedInv'
  BY <1>6 DEF Catch, PassedInv
<1>7. QED
  BY <1>1, <1>2, <1>3, <1>4, <1>5, <1>6 DEF Next

LEMMA PassedAlways == Spec => []PassedInv
<1>1. Init => PassedInv
  BY DEF Init, PassedInv
<1>2. QED
  BY <1>1, PassedStep, InvariantHolds, PTL DEF Spec

-----------------------------------------------------------------------------
(* Steps of the frames as steps of CallbackRouting *)

LEMMA ServedFields ==
  ASSUME NEW a \in Activation
  PROVE  /\ ServedAs(a) \in Evaluation
         /\ ServedAs(a).compiled = a.compiled /\ ServedAs(a).owner = a.owner
         /\ ServedAs(a).host = (a.phase = "host")
         /\ ServedAs(a).host <=> a.phase = "host"
<1>1. ServedAs(a) \in Evaluation
  BY DEF ServedAs, Evaluation, EvaluationsOf, Activation
<1>2. ServedAs(a).host = (a.phase = "host")
  BY DEF ServedAs
<1>3. ServedAs(a).compiled = a.compiled /\ ServedAs(a).owner = a.owner
  BY DEF ServedAs
<1>4. QED
  BY <1>1, <1>2, <1>3

LEMMA CallbackFields ==
  ASSUME NEW s \in Evaluation, NEW host \in BOOLEAN, NEW server \in Frame \cup {Null}
  PROVE  [[s EXCEPT !.host = host] EXCEPT !.server = server]
         = [compiled |-> s.compiled, owner |-> s.owner, host |-> host, server |-> server]
BY HostFields DEF Evaluation

\* The mapped stack of a thread is a sequence of as many evaluations as it has.
LEMMA StackType ==
  ASSUME Inv, NEW t \in Threads
  PROVE  /\ Stack[t] \in [1..depth[t] -> Evaluation]
         /\ Stack[t] \in Seq(Evaluation) /\ Len(Stack[t]) = depth[t]
         /\ DOMAIN Stack[t] = 1..depth[t]
         /\ \A i \in 1..depth[t] : Stack[t][i] = ServedAs(slot[t][i])
         /\ depth[t] > 0 => Stack[t] # <<>> /\ Stack[t][depth[t]] = ServedAs(Top(t))
         /\ depth[t] \in 0..MaxDepth
         /\ depth[t] = 0 => Stack[t] = <<>>
<1>1. depth[t] \in 0..MaxDepth
  BY DEF Inv, TypeOK
<1>2. \A i \in 1..depth[t] : slot[t][i] \in Activation
  BY <1>1, DepthAssumption DEF Inv, TypeOK
<1>3. \A i \in 1..depth[t] : ServedAs(slot[t][i]) \in Evaluation
  BY <1>2 DEF ServedAs, Evaluation, EvaluationsOf, Activation
<1>4. Stack[t] = [i \in 1..depth[t] |-> ServedAs(slot[t][i])]
  BY DEF Stack, Served, ServedAs
<1>5. Stack[t] \in [1..depth[t] -> Evaluation]
  BY <1>3, <1>4
<1>6. depth[t] \in Nat
  BY <1>1, DepthAssumption
<1>7. Stack[t] \in Seq(Evaluation) /\ Len(Stack[t]) = depth[t] /\ DOMAIN Stack[t] = 1..depth[t]
  BY <1>5, <1>6, StackIsSequence
<1>8. \A i \in 1..depth[t] : Stack[t][i] = ServedAs(slot[t][i])
  BY <1>4
<1>9. depth[t] > 0 => Stack[t] # <<>> /\ Stack[t][depth[t]] = ServedAs(Top(t))
  BY <1>6, <1>7, <1>8 DEF Top
<1>10. depth[t] = 0 => Stack[t] = <<>>
  BY <1>7
<1>11. QED
  BY <1>1, <1>5, <1>7, <1>8, <1>9, <1>10

\* A step inside the innermost evaluation maps to a change of the top of the stack.
LEMMA StackUpdate ==
  ASSUME Inv, Inv', NEW t \in Threads, depth[t] > 0,
         NEW activation \in Activation, Update(t, activation), depth' = depth
  PROVE  Stack' = [Stack EXCEPT ![t] = [@ EXCEPT ![depth[t]] = ServedAs(activation)]]
<1>1. \A u \in Threads :
        /\ Stack[u] \in [1..depth[u] -> Evaluation] /\ depth[u] \in 0..MaxDepth
        /\ \A i \in 1..depth[u] : Stack[u][i] = ServedAs(slot[u][i])
  BY StackType
<1>2. \A u \in Threads :
        /\ Stack'[u] \in [1..depth[u] -> Evaluation]
        /\ \A i \in 1..depth[u] : Stack'[u][i] = ServedAs(slot'[u][i])
  <2>1. \A u \in Threads : Stack'[u] = [i \in 1..depth[u] |-> ServedAs(slot'[u][i])]
    BY DEF Stack, Served, ServedAs
  <2>2. \A u \in Threads : \A i \in 1..depth[u] : slot'[u][i] \in Activation
    BY <1>1, DepthAssumption DEF Inv, TypeOK
  <2>3. \A u \in Threads : \A i \in 1..depth[u] : ServedAs(slot'[u][i]) \in Evaluation
    BY <2>2 DEF ServedAs, Evaluation, EvaluationsOf, Activation
  <2>4. QED
    BY <2>1, <2>3
<1>3. /\ slot'[t][depth[t]] = activation
      /\ \A u \in Threads, i \in 1..MaxDepth :
           u # t \/ i # depth[t] => slot'[u][i] = slot[u][i]
  BY UpdateType DEF Inv
<1>4. \A u \in Threads : \A i \in 1..depth[u] :
        Stack'[u][i] = IF u = t /\ i = depth[t] THEN ServedAs(activation) ELSE Stack[u][i]
  BY <1>1, <1>2, <1>3, DepthAssumption
<1>5. ASSUME NEW u \in Threads
      PROVE  Stack'[u] = IF u = t THEN [Stack[t] EXCEPT ![depth[t]] = ServedAs(activation)]
                                  ELSE Stack[u]
  BY <1>1, <1>2, <1>4
<1>6. QED
  BY <1>5 DEF Stack

\* The engine or the walk goes on: CallbackRouting sees nothing.
LEMMA SilentStep ==
  ASSUME Inv, Inv', NEW t \in Threads, depth[t] > 0,
         NEW activation \in Activation, Update(t, activation), depth' = depth,
         ServedAs(activation) = ServedAs(Top(t))
  PROVE  Stack' = Stack
<1>1. Stack' = [Stack EXCEPT ![t] = [@ EXCEPT ![depth[t]] = ServedAs(Top(t))]]
  BY StackUpdate
<1>2. Stack[t] \in [1..depth[t] -> Evaluation] /\ Stack[t][depth[t]] = ServedAs(Top(t))
  BY StackType
<1>3. Stack[t] = [Stack[t] EXCEPT ![depth[t]] = ServedAs(Top(t))]
  BY <1>2
<1>4. QED
  BY <1>1, <1>3 DEF Stack

LEMMA EnterRefines ==
  ASSUME Inv, Inv', NEW t \in Threads, NEW e \in Evaluated, Enter(t, e)
  PROVE  Routing!Enter(t, e.compiled, e.owner)
<1> DEFINE n == depth[t]
           new == [compiled |-> e.compiled, owner |-> e.owner, host |-> FALSE, server |-> Null]
<1>1. /\ n \in 0..MaxDepth /\ n < MaxDepth
      /\ depth' = [depth EXCEPT ![t] = n + 1]
      /\ \A u \in Threads : depth'[u] = IF u = t THEN n + 1 ELSE depth[u]
      /\ slot'[t][n + 1] = NewActivation(t, e)
      /\ \A u \in Threads : \A i \in 1..depth[u] : slot'[u][i] = slot[u][i]
  BY DepthAssumption DEF Enter, Inv, TypeOK
<1>2. \A u \in Threads :
        /\ Stack[u] \in [1..depth[u] -> Evaluation]
        /\ \A i \in 1..depth[u] : Stack[u][i] = ServedAs(slot[u][i])
  BY StackType
<1>3. /\ Stack'[t] \in [1..(n + 1) -> Evaluation]
      /\ \A i \in 1..(n + 1) : Stack'[t][i] = ServedAs(slot'[t][i])
      /\ \A u \in Threads \ {t} : Stack'[u] = Stack[u]
  <2>1. \A u \in Threads : Stack'[u] = [i \in 1..depth'[u] |-> ServedAs(slot'[u][i])]
    BY DEF Stack, Served, ServedAs
  <2>2. \A i \in 1..(n + 1) : slot'[t][i] \in Activation
    BY <1>1, DepthAssumption DEF Inv, TypeOK
  <2>3. \A i \in 1..(n + 1) : ServedAs(slot'[t][i]) \in Evaluation
    BY <2>2 DEF ServedAs, Evaluation, EvaluationsOf, Activation
  <2>4. ASSUME NEW u \in Threads, u # t PROVE Stack'[u] = Stack[u]
    <3>1. Stack[u] = [i \in 1..depth[u] |-> ServedAs(slot[u][i])]
      BY DEF Stack, Served, ServedAs
    <3>2. depth'[u] = depth[u]
      BY <1>1, <2>4
    <3>3. \A i \in 1..depth[u] : ServedAs(slot'[u][i]) = ServedAs(slot[u][i])
      BY <1>1
    <3>4. QED
      BY <2>1, <3>1, <3>2, <3>3
  <2>5. Stack'[t] = [i \in 1..(n + 1) |-> ServedAs(slot'[t][i])]
    BY <1>1, <2>1
  <2>6. QED
    BY <2>3, <2>4, <2>5
<1>4. new \in Evaluation /\ ServedAs(NewActivation(t, e)) = new
  BY EnvsAssumption DEF Evaluation, EvaluationsOf, ServedAs, NewActivation
<1> HIDE DEF new
<1>5. Stack'[t] = Append(Stack[t], new)
  <2>1. Stack'[t][n + 1] = new
    BY <1>1, <1>3, <1>4
  <2>2. \A i \in 1..n : Stack'[t][i] = Stack[t][i]
    BY <1>1, <1>2, <1>3
  <2>3. n \in Nat
    BY <1>1, DepthAssumption
  <2>4. QED
    BY <1>2, <1>3, <1>4, <2>1, <2>2, <2>3, Pushed
<1>6. Stack' = [Stack EXCEPT ![t] = Append(Stack[t], new)]
  BY <1>3, <1>5 DEF Stack
<1>7. Stack[t] # <<>> => Stack[t][Len(Stack[t])].host
  <2>1. CASE n = 0
    BY <2>1, StackType
  <2>2. CASE n > 0
    <3>1. Top(t).phase = "host"
      BY <2>2 DEF Enter, HostRuns, Top
    <3>2. Stack[t][Len(Stack[t])] = ServedAs(Top(t))
      BY <2>2, StackType
    <3>3. Top(t) \in Activation
      BY <2>2, TopType DEF Inv
    <3>4. QED
      BY <3>1, <3>2, <3>3, ServedFields
  <2>3. QED
    BY <1>1, <2>1, <2>2
<1>8. Len(Stack[t]) < MaxDepth
  BY <1>1, StackType
<1>9. QED
  BY <1>6, <1>7, <1>8 DEF Routing!Enter, Routing!HostRuns, Routing!Top, Stack, new

LEMMA LeaveRefines ==
  ASSUME Inv, Inv', NEW t \in Threads, Leave(t)
  PROVE  Routing!Leave(t)
<1> DEFINE n == depth[t]
<1>1. /\ n \in 1..MaxDepth /\ n \in Nat \ {0} /\ n - 1 \in Nat
      /\ \A u \in Threads : depth'[u] = IF u = t THEN n - 1 ELSE depth[u]
      /\ Update(t, Popped) /\ Popped \in Activation
  BY DepthAssumption DEF Leave, In, Inv, TypeOK, Popped, Activation, Phase, EnvOrNone
<1>2. \A u \in Threads, i \in 1..MaxDepth :
        u # t \/ i # n => slot'[u][i] = slot[u][i]
  BY <1>1, UpdateType DEF Inv
<1>3. \A u \in Threads : /\ Stack'[u] = [i \in 1..depth'[u] |-> ServedAs(slot'[u][i])]
                          /\ Stack[u] = [i \in 1..depth[u] |-> ServedAs(slot[u][i])]
  BY DEF Stack, Served, ServedAs
<1>4. ASSUME NEW u \in Threads, u # t PROVE Stack'[u] = Stack[u]
  <2>1. depth'[u] = depth[u] /\ \A i \in 1..depth[u] : i \in 1..MaxDepth
    BY <1>1, <1>4, DepthAssumption DEF Inv, TypeOK
  <2>2. \A i \in 1..depth[u] : slot'[u][i] = slot[u][i]
    BY <1>2, <1>4, <2>1
  <2>3. \A i \in 1..depth[u] : ServedAs(slot'[u][i]) = ServedAs(slot[u][i])
    BY <2>2
  <2>4. QED
    BY <1>3, <2>1, <2>3
<1>5. Stack[t] \in [1..n -> Evaluation] /\ Len(Stack[t]) = n
  BY StackType
<1>6. \A i \in 1..(n - 1) : i \in 1..MaxDepth /\ i # n /\ i \in 1..n
  BY <1>1, DepthAssumption
<1>7. /\ Stack'[t] \in [1..(n - 1) -> Evaluation]
      /\ \A i \in 1..(n - 1) : Stack'[t][i] = Stack[t][i]
  <2>1. Stack'[t] = [i \in 1..(n - 1) |-> ServedAs(slot'[t][i])]
    BY <1>1, <1>3
  <2>2. \A i \in 1..(n - 1) : slot'[t][i] = slot[t][i]
    BY <1>2, <1>6
  <2>3. \A i \in 1..(n - 1) : ServedAs(slot'[t][i]) = Stack[t][i]
    <3>1. Stack[t] = [i \in 1..n |-> ServedAs(slot[t][i])]
      BY <1>3
    <3>2. QED
      BY <1>6, <2>2, <3>1
  <2>4. \A i \in 1..(n - 1) : Stack[t][i] \in Evaluation
    BY <1>5, <1>6
  <2>5. QED
    BY <2>1, <2>3, <2>4
<1>8. Stack'[t] = SubSeq(Stack[t], 1, Len(Stack[t]) - 1)
  <2>1. n \in Nat \ {0}
    BY <1>1
  <2>2. \A i \in 1..(n - 1) : Stack'[t][i] = Stack[t][i]
    BY <1>7
  <2> HIDE DEF n
  <2>3. QED
    BY <1>5, <1>7, <2>1, <2>2, Dropped
<1>9. Stack' = [Stack EXCEPT ![t] = SubSeq(@, 1, Len(@) - 1)]
  BY <1>4, <1>8 DEF Stack
<1>10. Stack[t] # <<>> /\ ~Stack[t][Len(Stack[t])].host
  <2>1. n > 0 /\ Top(t).phase # "host"
    BY DEF Leave, In
  <2>2. Stack[t] # <<>> /\ Stack[t][Len(Stack[t])] = ServedAs(Top(t))
    BY <2>1, StackType
  <2>3. QED
    BY <1>1, <2>1, <2>2, TopType, ServedFields DEF Inv
<1>11. QED
  BY <1>9, <1>10 DEF Routing!Leave, Routing!Evaluates, Routing!Top, Stack

\* The walk ends at the innermost evaluation that was started with the
\* environment of the function.
LEMMA FoundRefines ==
  ASSUME Inv, PassedInv, Inv', NEW t \in Threads, WalkFound(t)
  PROVE  Routing!Call(t)
<1>1. /\ depth[t] > 0 /\ depth' = depth /\ Top(t) = slot[t][depth[t]]
      /\ Top(t) \in Activation /\ depth[t] \in 1..MaxDepth /\ Top(t).phase = "walk"
  BY TopType DEF Inv, WalkFound, In
<1>2. PICK c \in 1..depth[t] :
        Top(t).cursor = <<t, c>> /\ FrameAt(Top(t).cursor) = slot[t][c]
  BY CursorFrame DEF WalkFound
<1>3. /\ slot[t][c].owner = Top(t).compiled
      /\ Top(t).compiled \in Registered
      /\ \A k \in (c + 1)..depth[t] : slot[t][k].owner # Top(t).compiled
  <2>1. slot[t][c].owner = Top(t).compiled
    BY <1>2 DEF WalkFound
  <2>2. /\ Top(t).compiled \in Registered
        /\ \A k \in 1..depth[t] :
             (\A j \in k..depth[t] : Top(t).cursor # <<t, j>>) =>
               slot[t][k].owner # Top(t).compiled
    BY <1>1 DEF PassedInv
  <2>3. ASSUME NEW k \in (c + 1)..depth[t] PROVE slot[t][k].owner # Top(t).compiled
    BY <1>1, <1>2, <2>2
  <2>4. QED
    BY <2>1, <2>2, <2>3
<1> DEFINE activation == [Top(t) EXCEPT !.phase = "host", !.converter = Top(t).cursor,
                                        !.cursor = Null]
           new == [compiled |-> Top(t).compiled, owner |-> Top(t).owner,
                   host |-> TRUE, server |-> <<t, c>>]
<1>4. activation \in Activation /\ ServedAs(activation) = new
  <2>1. <<t, c>> \in Frame
    BY <1>1, <1>2, DepthAssumption DEF Frame
  <2>2. activation \in Activation
    BY <1>1, <1>2, <2>1 DEF Activation, Phase
  <2>3. /\ activation.compiled = Top(t).compiled /\ activation.owner = Top(t).owner
        /\ activation.phase = "host" /\ activation.converter = <<t, c>>
    BY <1>1, <1>2 DEF Activation
  <2>4. ServedAs(activation) = [compiled |-> Top(t).compiled, owner |-> Top(t).owner,
                                host |-> TRUE, server |-> <<t, c>>]
    BY <2>3 DEF ServedAs
  <2>5. QED
    BY <2>2, <2>4
<1>5. Update(t, activation)
  BY DEF WalkFound
<1> HIDE DEF activation
<1>6. Stack' = [Stack EXCEPT ![t] = [@ EXCEPT ![depth[t]] = new]]
  BY <1>1, <1>4, <1>5, StackUpdate
<1>7. /\ Stack[t] \in [1..depth[t] -> Evaluation] /\ Len(Stack[t]) = depth[t]
      /\ DOMAIN Stack[t] = 1..depth[t] /\ Stack[t] # <<>>
      /\ Stack[t][depth[t]] = ServedAs(Top(t))
      /\ \A i \in 1..depth[t] : Stack[t][i].owner = slot[t][i].owner
  <2>1. \A i \in 1..depth[t] : slot[t][i] \in Activation
    BY <1>1, DepthAssumption DEF Inv, TypeOK
  <2>2. \A i \in 1..depth[t] : ServedAs(slot[t][i]).owner = slot[t][i].owner
    BY <2>1, ServedFields
  <2>3. QED
    BY <1>1, <2>2, StackType
<1>8. ServedAs(Top(t)).compiled = Top(t).compiled /\ ~ServedAs(Top(t)).host
  BY <1>1, ServedFields
<1> HIDE DEF new
<1>9. [Stack EXCEPT ![t][Len(Stack[t])].host = TRUE,
                    ![t][Len(Stack[t])].server = <<t, c>>]
      = [Stack EXCEPT ![t] = [@ EXCEPT ![depth[t]] = new]]
  <2>1. [[Stack[t] EXCEPT ![depth[t]].host = TRUE] EXCEPT ![depth[t]].server = <<t, c>>]
        = [Stack[t] EXCEPT ![depth[t]] = new]
    <3>1. [[ServedAs(Top(t)) EXCEPT !.host = TRUE] EXCEPT !.server = <<t, c>>] = new
      <4>1. <<t, c>> \in Frame
        BY <1>1, <1>2, DepthAssumption DEF Frame
      <4>2. ServedAs(Top(t)) \in Evaluation
        BY <1>1, ServedFields
      <4>3. [[ServedAs(Top(t)) EXCEPT !.host = TRUE] EXCEPT !.server = <<t, c>>]
            = [compiled |-> ServedAs(Top(t)).compiled, owner |-> ServedAs(Top(t)).owner,
               host |-> TRUE, server |-> <<t, c>>]
        BY <4>1, <4>2, CallbackFields
      <4>4. QED
        BY <1>1, <4>3, ServedFields DEF new
    <3>2. QED
      BY <1>1, <1>7, <3>1
  <2>2. t \in DOMAIN Stack
    BY DEF Stack
  <2>3. QED
    BY <1>7, <2>1, <2>2
<1>10. Routing!Innermost(t, c, Top(t).compiled)
  <2>1. Stack[t][c].owner = Top(t).compiled
    BY <1>3, <1>7
  <2>2. \A j \in (c + 1)..Len(Stack[t]) : Stack[t][j].owner # Top(t).compiled
    BY <1>1, <1>3, <1>7
  <2>3. QED
    BY <2>1, <2>2 DEF Routing!Innermost, Stack
<1>11. /\ Routing!Evaluates(t) /\ Routing!Top(t).compiled = Top(t).compiled
  BY <1>7, <1>8 DEF Routing!Evaluates, Routing!Top, Stack
<1>12. Stack' = [Stack EXCEPT ![t][Len(Stack[t])].host = TRUE,
                             ![t][Len(Stack[t])].server = <<t, c>>]
  BY <1>6, <1>9
<1>13. QED
  BY <1>2, <1>3, <1>7, <1>10, <1>11, <1>12 DEF Routing!Call, Stack

\* A callback is over: both fields are as they were.
LEMMA DoneRefines ==
  ASSUME Inv, Inv', NEW t \in Threads, CallReturn(t) \/ CallRaise(t)
  PROVE  Routing!HostDone(t)
<1>1. /\ depth[t] > 0 /\ depth' = depth /\ Top(t) \in Activation
      /\ depth[t] \in 1..MaxDepth /\ Top(t).phase = "host"
  BY TopType DEF Inv, CallReturn, CallRaise, In
<1>2. PICK p \in {"native", "unwind"} :
        Update(t, [Top(t) EXCEPT !.phase = p, !.converter = Null])
  BY DEF CallReturn, CallRaise, AfterHostError
<1> DEFINE activation == [Top(t) EXCEPT !.phase = p, !.converter = Null]
           new == [compiled |-> Top(t).compiled, owner |-> Top(t).owner,
                   host |-> FALSE, server |-> Null]
<1>3. activation \in Activation /\ ServedAs(activation) = new
  <2>1. activation \in Activation
    BY <1>1 DEF Activation, Phase
  <2>2. /\ activation.compiled = Top(t).compiled /\ activation.owner = Top(t).owner
        /\ activation.phase # "host"
    BY <1>1 DEF Activation
  <2>3. QED
    BY <2>1, <2>2 DEF ServedAs
<1> HIDE DEF activation, new
<1>4. Stack' = [Stack EXCEPT ![t] = [@ EXCEPT ![depth[t]] = new]]
  BY <1>1, <1>2, <1>3, StackUpdate DEF activation
<1>5. /\ Stack[t] \in [1..depth[t] -> Evaluation] /\ Len(Stack[t]) = depth[t]
      /\ DOMAIN Stack[t] = 1..depth[t] /\ Stack[t] # <<>>
      /\ Stack[t][depth[t]] = ServedAs(Top(t))
  BY <1>1, StackType
<1>6. ServedAs(Top(t)).host
  BY <1>1, ServedFields
<1>7. [Stack EXCEPT ![t][Len(Stack[t])].host = FALSE,
                    ![t][Len(Stack[t])].server = Null]
      = [Stack EXCEPT ![t] = [@ EXCEPT ![depth[t]] = new]]
  <2>1. [[Stack[t] EXCEPT ![depth[t]].host = FALSE] EXCEPT ![depth[t]].server = Null]
        = [Stack[t] EXCEPT ![depth[t]] = new]
    <3>1. [[ServedAs(Top(t)) EXCEPT !.host = FALSE] EXCEPT !.server = Null] = new
      <4>1. ServedAs(Top(t)) \in Evaluation
        BY <1>1, ServedFields
      <4>2. [[ServedAs(Top(t)) EXCEPT !.host = FALSE] EXCEPT !.server = Null]
            = [compiled |-> ServedAs(Top(t)).compiled, owner |-> ServedAs(Top(t)).owner,
               host |-> FALSE, server |-> Null]
        BY <4>1, CallbackFields
      <4>3. QED
        BY <1>1, <4>2, ServedFields DEF new
    <3>2. QED
      BY <1>1, <1>5, <3>1
  <2>2. t \in DOMAIN Stack
    BY DEF Stack
  <2>3. QED
    BY <1>5, <2>1, <2>2
<1>8. Stack' = [Stack EXCEPT ![t][Len(Stack[t])].host = FALSE,
                            ![t][Len(Stack[t])].server = Null]
  BY <1>4, <1>7
<1>9. Stack[t][Len(Stack[t])] = ServedAs(Top(t))
  BY <1>5
<1>10. QED
  BY <1>5, <1>6, <1>8, <1>9 DEF Routing!HostDone, Routing!Top, Stack

\* The other steps of an evaluation, and those of Python between evaluations.
LEMMA SilentSteps ==
  ASSUME Inv, Inv', NEW t \in Threads,
         Call(t) \/ WalkNext(t) \/ WalkFailed(t) \/ Fail(t) \/ Catch(t)
  PROVE  Stack' = Stack
<1>1. CASE Catch(t)
  BY <1>1 DEF Catch, Stack, Served
<1>2. CASE Call(t) \/ WalkNext(t) \/ WalkFailed(t) \/ Fail(t)
  <2>1. /\ depth[t] > 0 /\ depth' = depth /\ Top(t) \in Activation
        /\ Top(t).phase # "host"
    BY <1>2, TopType DEF Call, WalkNext, WalkFailed, Fail, In, Inv
  <2>2. PICK activation \in Activation :
          /\ Update(t, activation)
          /\ activation.compiled = Top(t).compiled /\ activation.owner = Top(t).owner
          /\ activation.phase # "host"
    <3>1. CASE Call(t)
      <4>1. [Top(t) EXCEPT !.phase = "walk", !.cursor = callback_frame[t]] \in Activation
        BY <2>1 DEF Activation, Phase, Inv, TypeOK
      <4>2. QED
        BY <2>1, <3>1, <4>1 DEF Call, Local, Activation
    <3>2. CASE WalkFailed(t) \/ Fail(t)
      <4>1. [Top(t) EXCEPT !.phase = "unwind"] \in Activation
        BY <2>1 DEF Activation, Phase
      <4>2. QED
        BY <2>1, <3>2, <4>1 DEF WalkFailed, Fail, AfterHostError, Activation
    <3>3. CASE WalkNext(t)
      <4>1. PICK c \in 1..depth[t] : FrameAt(Top(t).cursor) = slot[t][c]
        BY <3>3, CursorFrame DEF WalkNext
      <4>2. slot[t][c].previous \in Frame \cup {Null}
        BY <2>1, <4>1, DepthAssumption DEF Inv, TypeOK, Activation
      <4>3. [Top(t) EXCEPT !.cursor = slot[t][c].previous] \in Activation
        BY <2>1, <4>2 DEF Activation
      <4>4. QED
        BY <2>1, <3>3, <4>1, <4>3 DEF WalkNext, Activation
    <3>4. QED
      BY <1>2, <3>1, <3>2, <3>3
  <2>3. ServedAs(activation) = ServedAs(Top(t))
    BY <2>1, <2>2, ServedFields DEF ServedAs
  <2>4. QED
    BY <2>1, <2>2, <2>3, SilentStep
<1>3. QED
  BY <1>1, <1>2

LEMMA StepRefines ==
  ASSUME Inv, PassedInv, Inv', [Next]_vars
  PROVE  Routing!Next \/ Stack' = Stack
<1>1. CASE UNCHANGED vars
  BY <1>1 DEF vars, Stack, Served
<1>2. ASSUME NEW t \in Threads, NEW e \in Evaluated, Enter(t, e) PROVE Routing!Next
  <2>1. e.compiled \in Envs \cup {NoEnv} /\ e.owner \in Envs \cup {NoEnv}
    BY EnvsAssumption DEF EnvOrNone
  <2>2. QED
    BY <1>2, <2>1, EnterRefines DEF Routing!Next
<1>3. ASSUME NEW t \in Threads, WalkFound(t) PROVE Routing!Next
  BY <1>3, FoundRefines DEF Routing!Next
<1>4. ASSUME NEW t \in Threads, CallReturn(t) \/ CallRaise(t) PROVE Routing!Next
  BY <1>4, DoneRefines DEF Routing!Next
<1>5. ASSUME NEW t \in Threads, Leave(t) PROVE Routing!Next
  BY <1>5, LeaveRefines DEF Routing!Next
<1>6. ASSUME NEW t \in Threads,
             Call(t) \/ WalkNext(t) \/ WalkFailed(t) \/ Fail(t) \/ Catch(t)
      PROVE  Stack' = Stack
  BY <1>6, SilentSteps
<1>7. QED
  BY <1>1, <1>2, <1>3, <1>4, <1>5, <1>6 DEF Next

\* The thread-local frames, their linking, walking and unlinking implement the
\* promise of both bindings: every callback is served by the innermost
\* evaluation of its thread with the environment of the function.
THEOREM FramesImplementRouting == Spec => ImplementsRouting
<1>1. Init => Routing!Init
  <2>1. ASSUME Init PROVE Stack = [t \in Threads |-> <<>>]
    <3>1. Inv
      BY <2>1, InitInv
    <3>2. \A t \in Threads : Stack[t] = <<>>
      BY <2>1, <3>1, StackType DEF Init
    <3>3. QED
      BY <3>2 DEF Stack
  <2>2. QED
    BY <2>1 DEF Routing!Init, Stack
<1>2. Inv /\ PassedInv /\ Inv' /\ [Next]_vars => [Routing!Next]_Stack
  BY StepRefines
<1>3. Inv /\ PassedInv /\ Inv' /\ [Next]_vars
      => [Routing!Next]_([t \in Threads |-> [i \in 1..depth[t] |-> Served(t, i)]])
  BY <1>2 DEF Stack
<1>4. QED
  BY <1>1, <1>3, InvariantHolds, PassedAlways, PTL DEF Spec, ImplementsRouting, Routing!Spec
=============================================================================
