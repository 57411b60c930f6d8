------------------------- MODULE BorrowedInputsProofs -------------------------
(***************************************************************************)
(* The inputs of an evaluation stay alive and every reference is released  *)
(* once, for any objects, containers, limits and evaluations in progress.  *)
(***************************************************************************)
EXTENDS BorrowedInputs, FiniteSetTheorems, SequenceTheorems, TLAPS

\* Only a conversion has something to convert and a result; values point into
\* objects that are listed, until the references are released; what is copied
\* was deducted.
Sound(call) ==
  /\ call.phase # "converting" => call.pending = <<>> /\ call.result = NoObject
  /\ call.phase = "idle" => call.borrowed = <<>>
  /\ call.phase \in {"idle", "releasing"} => call.values = {}
  /\ \A o \in call.values : \E i \in 1..Len(call.borrowed) : call.borrowed[i] = o
  /\ call.copied + call.remaining_bytes <= max_bytes

PhaseInv == \A c \in Calls : Sound(calls[c])

\* The evaluation c has the GIL and does not give it up.
Running(c) == calls[c].phase \in {"converting", "evaluating"}

GilInv == \A c, d \in Calls : Running(c) /\ Running(d) => c = d

OwnedInv ==
  \A o \in Objects : IsFiniteSet(References(o)) /\ taken[o] = Cardinality(References(o))

\* What is still to be converted.
PendingObjects(call) == {call.pending[i].object : i \in 1..Len(call.pending)}

PendingInv == \A c \in Calls : PendingObjects(calls[c]) \subseteq Alive

Inv == TypeOK /\ PhaseInv /\ GilInv /\ OwnedInv /\ PendingInv

-----------------------------------------------------------------------------
(* What is reachable *)

\* An object that something refers to is alive.
LEMMA RootsReachable ==
  ASSUME NEW R, NEW o \in Objects, o \in R
  PROVE  o \in Reachable(R)
BY DEF Reachable

\* So is what a container that is alive holds.
LEMMA ItemsReachable ==
  ASSUME NEW R, NEW l \in Containers, l \in Reachable(R), NEW o \in Objects, o \in ToSet(items[l])
  PROVE  o \in Reachable(R)
BY DEF Reachable

\* More references keep more objects alive.
LEMMA MoreReachable ==
  ASSUME NEW R, NEW T, R \subseteq T
  PROVE  Reachable(R) \subseteq Reachable(T)
BY DEF Reachable

\* A conversion that only takes references kills nothing.
LEMMA AliveGrows ==
  ASSUME UNCHANGED <<held, items>>, TypeOK, taken' \in [Objects -> Nat],
         \A o \in Objects : taken[o] > 0 => taken'[o] > 0,
         \A c \in Calls : calls'[c].input = calls[c].input
  PROVE  Alive \subseteq Alive'
<1>1. Roots \subseteq Roots'
  BY DEF Roots
<1>2. Reachable(Roots) \subseteq Reachable(Roots')
  BY <1>1, MoreReachable
<1>3. Alive' = Reachable(Roots')
  BY DEF Alive, Reachable
<1> QED BY <1>2, <1>3 DEF Alive

-----------------------------------------------------------------------------
(* References *)

\* A reference is the place in a call where the object stands.
LEMMA ReferencePlaces ==
  ASSUME NEW o
  PROVE  /\ \A r \in References(o) :
              /\ r = <<r[1], r[2]>>
              /\ r[1] \in Calls /\ r[2] \in 0..Len(calls[r[1]].borrowed)
              /\ Refers(r[1], r[2]) = o
         /\ \A c \in Calls : \A i \in 0..Len(calls[c].borrowed) :
              Refers(c, i) = o => <<c, i>> \in References(o)
BY DEF References

\* The same in the next state.
LEMMA ReferencePlacesNext ==
  ASSUME NEW o
  PROVE  /\ \A r \in References(o)' :
              /\ r = <<r[1], r[2]>>
              /\ r[1] \in Calls /\ r[2] \in 0..Len(calls'[r[1]].borrowed)
              /\ Refers(r[1], r[2])' = o
         /\ \A c \in Calls : \A i \in 0..Len(calls'[c].borrowed) :
              Refers(c, i)' = o => <<c, i>> \in References(o)'
BY DEF References

\* A step that neither takes nor releases.
LEMMA OwnedKept ==
  ASSUME OwnedInv, UNCHANGED taken,
         \A c \in Calls : /\ calls'[c].result = calls[c].result
                          /\ calls'[c].borrowed = calls[c].borrowed
  PROVE  OwnedInv'
<1>1. \A o \in Objects : References(o)' = References(o)
  <2> SUFFICES ASSUME NEW o \in Objects PROVE References(o)' = References(o)
    OBVIOUS
  <2>1. \A c \in Calls : \A i : Refers(c, i)' = Refers(c, i)
    BY DEF Refers
  <2>2. References(o)' \subseteq References(o)
    BY <2>1, ReferencePlaces, ReferencePlacesNext
  <2>3. References(o) \subseteq References(o)'
    BY <2>1, ReferencePlaces, ReferencePlacesNext
  <2> QED BY <2>2, <2>3
<1> QED BY <1>1 DEF OwnedInv

\* One reference more, and one place more that has to be released.
LEMMA OwnedMore ==
  ASSUME OwnedInv, taken \in [Objects -> Nat], NEW x \in Objects, NEW r,
         taken' = IncRef(taken, x), r \notin References(x),
         References(x)' = References(x) \cup {r},
         \A o \in Objects \ {x} : References(o)' = References(o)
  PROVE  OwnedInv'
<1>1. /\ IsFiniteSet(References(x)) /\ taken[x] = Cardinality(References(x))
      /\ taken'[x] = taken[x] + 1
      /\ \A o \in Objects \ {x} : taken'[o] = taken[o]
  BY DEF OwnedInv, IncRef
<1>2. IsFiniteSet(References(x)') /\ Cardinality(References(x)') = Cardinality(References(x)) + 1
  BY <1>1, FS_AddElement
<1>3. IsFiniteSet(References(x)') /\ taken'[x] = Cardinality(References(x)')
  BY <1>1, <1>2
<1>4. \A o \in Objects \ {x} : IsFiniteSet(References(o)') /\ taken'[o] = Cardinality(References(o)')
  BY <1>1 DEF OwnedInv
<1> QED BY <1>3, <1>4 DEF OwnedInv

\* One reference less; the places may have moved.
LEMMA OwnedLess ==
  ASSUME OwnedInv, taken \in [Objects -> Nat], NEW x \in Objects, NEW r \in References(x),
         taken' = DecRef(taken, x),
         ExistsBijection(References(x) \ {r}, References(x)'),
         \A o \in Objects \ {x} : ExistsBijection(References(o), References(o)')
  PROVE  OwnedInv' /\ taken' \in [Objects -> Nat]
<1>1. /\ IsFiniteSet(References(x)) /\ taken[x] = Cardinality(References(x))
      /\ taken'[x] = taken[x] - 1
      /\ \A o \in Objects \ {x} : taken'[o] = taken[o]
  BY DEF OwnedInv, DecRef
<1>2. /\ IsFiniteSet(References(x) \ {r})
      /\ Cardinality(References(x) \ {r}) = Cardinality(References(x)) - 1
  BY <1>1, FS_RemoveElement
<1>3. IsFiniteSet(References(x)') /\ taken'[x] = Cardinality(References(x)')
  BY <1>1, <1>2, FS_Bijection
<1>4. \A o \in Objects \ {x} : IsFiniteSet(References(o)') /\ taken'[o] = Cardinality(References(o)')
  BY <1>1, FS_Bijection DEF OwnedInv
<1>5. taken'[x] \in Nat
  BY <1>3, FS_CardinalityType
<1>6. taken' \in [Objects -> Nat]
  BY <1>1, <1>5 DEF DecRef
<1> QED BY <1>3, <1>4, <1>6 DEF OwnedInv

\* What is not taken is not referred to by a call, so that what calls refer to
\* is alive.
LEMMA OwnedIsAlive ==
  ASSUME OwnedInv, NEW c \in Calls, NEW i \in 0..Len(calls[c].borrowed), Refers(c, i) \in Objects
  PROVE  taken[Refers(c, i)] > 0 /\ Refers(c, i) \in Alive
<1> DEFINE o == Refers(c, i)
<1>1. <<c, i>> \in References(o)
  BY ReferencePlaces
<1>2. IsFiniteSet(References(o)) /\ taken[o] = Cardinality(References(o))
  BY DEF OwnedInv
<1>3. taken[o] \in Nat /\ taken[o] # 0
  BY <1>1, <1>2, FS_EmptySet, FS_CardinalityType
<1>4. taken[o] > 0
  BY <1>3
<1>5. o \in Roots
  BY <1>4 DEF Roots
<1>6. o \in Alive
  BY <1>5, RootsReachable DEF Alive
<1> QED BY <1>4, <1>6

-----------------------------------------------------------------------------
(* What one call changes *)

\* A call is its new record.
LEMMA ChangedCall ==
  ASSUME TypeOK, NEW c \in Calls, NEW call, Update(c, call)
  PROVE  /\ calls'[c] = call
         /\ \A d \in Calls \ {c} : calls'[d] = calls[d]
         /\ \A d \in Calls : d = c \/ calls'[d] = calls[d]
         /\ call \in Call => calls' \in [Calls -> Call]
BY DEF TypeOK, Update

\* The parts of the invariant that the new record of one call decides.
LEMMA CallKept ==
  ASSUME TypeOK, PhaseInv, GilInv, NEW c \in Calls, NEW call \in Call, Update(c, call),
         Sound(call), Running(c) \/ HostRuns
  PROVE  PhaseInv' /\ GilInv'
<1>1. /\ calls'[c] = call
      /\ \A d \in Calls \ {c} : calls'[d] = calls[d]
  BY ChangedCall
<1>2. PhaseInv'
  BY <1>1 DEF PhaseInv, Sound
<1>3. \A d \in Calls \ {c} : ~Running(d)
  BY DEF GilInv, HostRuns, Running
<1>4. GilInv'
  BY <1>1, <1>3 DEF GilInv, Running
<1> QED BY <1>2, <1>4

\* Only the call that runs converts, so that the others wait for nothing.
LEMMA PendingKept ==
  ASSUME TypeOK, PhaseInv, GilInv, NEW c \in Calls, NEW call \in Call, Update(c, call),
         PendingObjects(call) \subseteq Alive', Running(c) \/ HostRuns
  PROVE  PendingInv'
<1>1. /\ calls'[c] = call
      /\ \A d \in Calls \ {c} : calls'[d] = calls[d]
  BY ChangedCall
<1>2. \A d \in Calls \ {c} : calls[d].pending = <<>>
  BY DEF GilInv, HostRuns, Running, PhaseInv, Sound
<1>3. \A d \in Calls \ {c} : PendingObjects(calls'[d]) = {}
  BY <1>1, <1>2 DEF PendingObjects
<1> QED BY <1>1, <1>3 DEF PendingInv

\* The places of references, when one call has a new result.
LEMMA ReferencesWithResult ==
  ASSUME TypeOK, NEW c \in Calls, NEW call \in Call, Update(c, call),
         call.borrowed = calls[c].borrowed, NEW o \in Objects
  PROVE  /\ calls[c].result # o /\ call.result = o =>
              References(o)' = References(o) \cup {<<c, 0>>} /\ <<c, 0>> \notin References(o)
         /\ calls[c].result = o /\ call.result # o =>
              References(o)' = References(o) \ {<<c, 0>>} /\ <<c, 0>> \in References(o)
         /\ (calls[c].result = o <=> call.result = o) => References(o)' = References(o)
<1>1. /\ calls'[c] = call
      /\ \A d \in Calls \ {c} : calls'[d] = calls[d]
  BY ChangedCall
<1>2. \A d \in Calls : \A i \in 0..Len(calls[d].borrowed) :
        ~(d = c /\ i = 0) => Refers(d, i)' = Refers(d, i)
  BY <1>1 DEF Refers
<1>3. Refers(c, 0)' = call.result /\ Refers(c, 0) = calls[c].result
  BY <1>1 DEF Refers
<1>4. \A d \in Calls : calls'[d].borrowed = calls[d].borrowed /\ Len(calls[d].borrowed) \in Nat
  <2>1. \A d \in Calls : calls'[d].borrowed = calls[d].borrowed
    BY <1>1
  <2>2. \A d \in Calls : Len(calls[d].borrowed) \in Nat
    BY DEF TypeOK, Call
  <2> QED BY <2>1, <2>2
<1>5. \A r \in References(o)' : r = <<c, 0>> \/ r \in References(o)
  BY <1>2, <1>4, ReferencePlaces, ReferencePlacesNext
<1>6. \A r \in References(o) : r = <<c, 0>> \/ r \in References(o)'
  BY <1>2, <1>4, ReferencePlaces, ReferencePlacesNext
<1>7. /\ <<c, 0>> \in References(o)' <=> call.result = o
      /\ <<c, 0>> \in References(o) <=> calls[c].result = o
  BY <1>3, <1>4, ReferencePlaces, ReferencePlacesNext
<1> QED BY <1>5, <1>6, <1>7

\* The places of references, when one more object is listed.
LEMMA ReferencesWithListed ==
  ASSUME TypeOK, NEW c \in Calls, NEW call \in Call, NEW x \in Texts, Update(c, call),
         call.borrowed = Append(calls[c].borrowed, x), call.result = calls[c].result
  PROVE  LET r == <<c, Len(calls[c].borrowed) + 1>> IN
         /\ r \notin References(x)
         /\ References(x)' = References(x) \cup {r}
         /\ \A o \in Objects \ {x} : References(o)' = References(o)
<1>0. \A d \in Calls : Len(calls[d].borrowed) \in Nat
  BY DEF TypeOK, Call
<1> PICK n \in Nat \ {0} : n = Len(calls[c].borrowed) + 1
  BY <1>0
<1>1. /\ calls'[c] = call
      /\ \A d \in Calls \ {c} : calls'[d] = calls[d]
  BY ChangedCall
<1>2. /\ \A d \in Calls : Len(calls[d].borrowed) \in Nat
      /\ calls[c].borrowed \in Seq(Texts)
  BY DEF TypeOK, Call
<1>3. /\ Len(call.borrowed) = n /\ call.borrowed[n] = x
      /\ \A i \in 1..Len(calls[c].borrowed) : call.borrowed[i] = calls[c].borrowed[i]
  BY <1>2
<1>4. \A d \in Calls : \A i \in 0..Len(calls[d].borrowed) : Refers(d, i)' = Refers(d, i)
  BY <1>1, <1>2, <1>3 DEF Refers
<1>5. Refers(c, n)' = x
  BY <1>1, <1>2, <1>3 DEF Refers
<1>6. \A d \in Calls : \A i \in 0..Len(calls'[d].borrowed) :
        i \in 0..Len(calls[d].borrowed) \/ (d = c /\ i = n)
  BY <1>1, <1>2, <1>3
<1>7. \A d \in Calls : 0..Len(calls[d].borrowed) \subseteq 0..Len(calls'[d].borrowed)
  BY <1>1, <1>2, <1>3
<1>8. ASSUME NEW o \in Objects
      PROVE  /\ \A r \in References(o) : r \in References(o)'
             /\ \A r \in References(o)' : r \in References(o) \/ (r = <<c, n>> /\ o = x)
  BY <1>4, <1>5, <1>6, <1>7, ReferencePlaces, ReferencePlacesNext
<1>9. <<c, n>> \notin References(x)
  BY <1>2, ReferencePlaces
<1>10. <<c, n>> \in References(x)'
  BY <1>1, <1>2, <1>3, <1>5, ReferencePlacesNext
<1>11. x \in Objects
  BY DEF Objects
<1> QED BY <1>8, <1>9, <1>10, <1>11

\* The places of references, when the first of a list goes and the others move up.
LEMMA ReferencesWithTail ==
  ASSUME TypeOK, NEW c \in Calls, NEW call \in Call, Update(c, call),
         calls[c].borrowed # <<>>, call.borrowed = Tail(calls[c].borrowed),
         call.result = NoObject, calls[c].result = NoObject,
         NEW x, x = Head(calls[c].borrowed)
  PROVE  /\ x \in Objects /\ <<c, 1>> \in References(x)
         /\ ExistsBijection(References(x) \ {<<c, 1>>}, References(x)')
         /\ \A o \in Objects \ {x} : ExistsBijection(References(o), References(o)')
<1> DEFINE Up(r) == IF r[1] = c THEN <<c, r[2] - 1>> ELSE r
<1>1. /\ calls'[c] = call
      /\ \A d \in Calls \ {c} : calls'[d] = calls[d]
  BY ChangedCall
<1>2. /\ \A d \in Calls : Len(calls[d].borrowed) \in Nat
      /\ calls[c].borrowed \in Seq(Texts) /\ Len(calls[c].borrowed) > 0
  BY DEF TypeOK, Call
<1>3. /\ Len(call.borrowed) = Len(calls[c].borrowed) - 1
      /\ x = calls[c].borrowed[1] /\ x \in Texts
      /\ \A i \in 1..Len(call.borrowed) : call.borrowed[i] = calls[c].borrowed[i + 1]
  BY <1>2
<1>4. NoObject \notin Objects /\ x \in Objects
  BY <1>3, ObjectsAssumption DEF Objects
<1>5. Refers(c, 0) = NoObject /\ Refers(c, 0)' = NoObject /\ Refers(c, 1) = x
  BY <1>1, <1>3 DEF Refers
<1>6. \A i \in 1..Len(call.borrowed) : Refers(c, i)' = Refers(c, i + 1)
  <2> SUFFICES ASSUME NEW i \in 1..Len(call.borrowed) PROVE Refers(c, i)' = Refers(c, i + 1)
    OBVIOUS
  <2>1. i \in Int /\ i # 0 /\ i + 1 # 0
    BY <1>2, <1>3
  <2>2. Refers(c, i)' = call.borrowed[i]
    BY <1>1, <2>1 DEF Refers
  <2>3. Refers(c, i + 1) = calls[c].borrowed[i + 1]
    BY <2>1 DEF Refers
  <2> QED BY <1>3, <2>2, <2>3
<1>7. \A d \in Calls \ {c} : \A i : Refers(d, i)' = Refers(d, i)
  BY <1>1 DEF Refers
<1>8. <<c, 1>> \in References(x)
  BY <1>2, <1>5, ReferencePlaces
<1>9. ASSUME NEW o \in Objects
      PROVE  ExistsBijection(References(o) \ {<<c, 1>>}, References(o)')
  <2> DEFINE S == References(o) \ {<<c, 1>>}
             f == [r \in S |-> Up(r)]
  <2>1. \A r \in S : r[1] = c => r[2] \in 2..Len(calls[c].borrowed)
    BY <1>2, <1>4, <1>5, ReferencePlaces
  <2>2. \A r \in S : Up(r) \in References(o)'
    <3> SUFFICES ASSUME NEW r \in S PROVE Up(r) \in References(o)'
      OBVIOUS
    <3>1. CASE r[1] = c
      <4>0. r[2] \in 2..Len(calls[c].borrowed)
        BY <2>1, <3>1
      <4>1. /\ r[2] - 1 \in 1..Len(call.borrowed) /\ r[2] - 1 \in 0..Len(calls'[c].borrowed)
            /\ (r[2] - 1) + 1 = r[2]
        <5>1. r[2] - 1 \in 1..Len(call.borrowed) /\ (r[2] - 1) + 1 = r[2]
          BY <4>0, <1>2, <1>3
        <5>2. Len(calls'[c].borrowed) = Len(call.borrowed)
          BY <1>1
        <5>3. Len(call.borrowed) \in Nat
          BY <1>2, <1>3
        <5> QED BY <5>1, <5>2, <5>3
      <4>2. Refers(c, r[2] - 1)' = o
        BY <4>1, <3>1, <1>6, ReferencePlaces
      <4> QED BY <4>1, <4>2, <3>1, ReferencePlacesNext
    <3>2. CASE r[1] # c
      BY <3>2, <1>1, <1>7, ReferencePlaces, ReferencePlacesNext
    <3> QED BY <3>1, <3>2
  <2>3. \A r, q \in S : Up(r) = Up(q) => r = q
    <3> SUFFICES ASSUME NEW r \in S, NEW q \in S, Up(r) = Up(q) PROVE r = q
      OBVIOUS
    <3>1. r = <<r[1], r[2]>> /\ q = <<q[1], q[2]>>
      BY ReferencePlaces
    <3>2. r[1] = q[1]
      BY <3>1
    <3>3. CASE r[1] = c
      BY <3>1, <3>2, <3>3, <2>1
    <3>4. CASE r[1] # c
      BY <3>2, <3>4
    <3> QED BY <3>3, <3>4
  <2>4. \A q \in References(o)' : \E r \in S : Up(r) = q
    <3> SUFFICES ASSUME NEW q \in References(o)' PROVE \E r \in S : Up(r) = q
      OBVIOUS
    <3>1. /\ q = <<q[1], q[2]>> /\ q[1] \in Calls /\ q[2] \in 0..Len(calls'[q[1]].borrowed)
          /\ Refers(q[1], q[2])' = o
      BY ReferencePlacesNext
    <3>2. CASE q[1] = c
      <4>0. q[2] \in 0..Len(call.borrowed) /\ Refers(c, q[2])' = o
        BY <3>1, <3>2, <1>1
      <4>1. q[2] \in 1..Len(call.borrowed)
        <5>1. q[2] # 0
          BY <4>0, <1>4, <1>5
        <5> QED BY <4>0, <5>1, <1>2, <1>3
      <4>2. /\ q[2] + 1 \in 0..Len(calls[c].borrowed) /\ q[2] + 1 # 1 /\ (q[2] + 1) - 1 = q[2]
            /\ Refers(c, q[2] + 1) = o
        BY <4>1, <3>1, <3>2, <1>2, <1>3, <1>6
      <4>3. <<c, q[2] + 1>> \in S
        BY <4>2, ReferencePlaces
      <4>4. Up(<<c, q[2] + 1>>) = q
        BY <4>2, <3>1, <3>2
      <4> QED BY <4>3, <4>4
    <3>3. CASE q[1] # c
      <4>1. q \in S
        BY <3>1, <3>3, <1>1, <1>7, ReferencePlaces
      <4> QED BY <4>1, <3>3
    <3> QED BY <3>2, <3>3
  <2>5. f \in Bijection(S, References(o)')
    BY <2>2, <2>3, <2>4 DEF Bijection, Injection, Surjection, IsInjective
  <2> QED BY <2>5 DEF ExistsBijection
<1>10. \A o \in Objects \ {x} : References(o) \ {<<c, 1>>} = References(o)
  BY <1>5, ReferencePlaces
<1>11. \A o \in Objects \ {x} : ExistsBijection(References(o), References(o)')
  BY <1>9, <1>10
<1>12. ExistsBijection(References(x) \ {<<c, 1>>}, References(x)')
  BY <1>4, <1>9
<1> QED BY <1>4, <1>8, <1>11, <1>12

-----------------------------------------------------------------------------
(* Steps of a conversion *)

\* A call begins with all of its budgets.
LEMMA IdleCall == Idle \in Call /\ Sound(Idle)
BY ObjectsAssumption DEF Idle, Call, Sound

\* The end of a call keeps its list of references only.
LEMMA ReleasingCall ==
  ASSUME NEW call \in Call, call.copied + call.remaining_bytes <= max_bytes
  PROVE  /\ Releasing(call) \in Call /\ Sound(Releasing(call))
         /\ Releasing(call).result = NoObject /\ Releasing(call).borrowed = call.borrowed
         /\ Releasing(call).phase = "releasing" /\ PendingObjects(Releasing(call)) = {}
<1> DEFINE new == Releasing(call)
<1>1. new \in Call
  <2>1. <<>> \in Seq(Item) /\ NoObject \in Objects \cup {NoObject} /\ {} \in SUBSET Texts
    OBVIOUS
  <2>2. "releasing" \in {"idle", "converting", "evaluating", "callback", "releasing"}
    OBVIOUS
  <2> QED BY <2>1, <2>2 DEF Releasing, Call
<1>2. /\ new.phase = "releasing" /\ new.pending = <<>> /\ new.result = NoObject /\ new.values = {}
      /\ new.borrowed = call.borrowed /\ new.copied = call.copied
      /\ new.remaining_bytes = call.remaining_bytes
  BY DEF Releasing, Call
<1>3. Sound(new) /\ PendingObjects(new) = {}
  BY <1>2 DEF Sound, PendingObjects
<1> QED BY <1>1, <1>2, <1>3

\* The reference to a result that is converted, or refused, is released.
LEMMA ResultReleased ==
  ASSUME Inv, NEW c \in Calls, NEW call \in Call, Update(c, call),
         call.borrowed = calls[c].borrowed, call.result = NoObject,
         taken' = ReleaseResult(taken, calls[c])
  PROVE  OwnedInv' /\ taken' \in [Objects -> Nat]
<1> USE DEF Inv
<1>1. taken \in [Objects -> Nat] /\ NoObject \notin Objects
  BY ObjectsAssumption DEF TypeOK
<1>2. CASE calls[c].result = NoObject
  <2>1. taken' = taken
    BY <1>2 DEF ReleaseResult
  <2>2. \A d \in Calls : /\ calls'[d].result = calls[d].result
                         /\ calls'[d].borrowed = calls[d].borrowed
    BY <1>2, ChangedCall
  <2> QED BY <1>1, <2>1, <2>2, OwnedKept
<1>3. CASE calls[c].result # NoObject
  <2> PICK x \in Objects : x = calls[c].result
    BY <1>3 DEF TypeOK, Call
  <2>1. taken' = DecRef(taken, x)
    BY <1>3 DEF ReleaseResult
  <2>2. References(x)' = References(x) \ {<<c, 0>>} /\ <<c, 0>> \in References(x)
    BY <1>1, <1>3, ReferencesWithResult
  <2>3. \A o \in Objects \ {x} : References(o)' = References(o)
    BY <1>1, ReferencesWithResult
  <2>4. IsFiniteSet(References(x)) /\ IsFiniteSet(References(x) \ {<<c, 0>>})
    BY FS_RemoveElement DEF OwnedInv
  <2>5. ExistsBijection(References(x) \ {<<c, 0>>}, References(x)')
    BY <2>2, <2>4, FS_SameCardinalityBij
  <2>6. \A o \in Objects \ {x} : ExistsBijection(References(o), References(o)')
    BY <2>3, FS_SameCardinalityBij DEF OwnedInv
  <2> QED BY <1>1, <2>1, <2>2, <2>5, <2>6, OwnedLess
<1> QED BY <1>2, <1>3

\* A conversion that fails keeps the invariant, whatever was deducted before.
LEMMA FailingStep ==
  ASSUME Inv, NEW c \in Calls, NEW call \in Call, FailWith(c, taken, call),
         Running(c), UNCHANGED <<held, items>>,
         call.result = calls[c].result, call.borrowed = calls[c].borrowed,
         call.copied + call.remaining_bytes <= max_bytes
  PROVE  Inv'
<1> DEFINE new == Releasing(call)
<1>1. /\ new \in Call /\ Sound(new) /\ new.result = NoObject /\ new.borrowed = calls[c].borrowed
      /\ PendingObjects(new) = {}
  BY ReleasingCall
<1>2. Update(c, new) /\ taken' = ReleaseResult(taken, calls[c])
  BY DEF FailWith, ReleaseResult
<1>3. OwnedInv' /\ taken' \in [Objects -> Nat]
  BY <1>1, <1>2, ResultReleased
<1>4. PhaseInv' /\ GilInv'
  BY <1>1, <1>2, CallKept DEF Inv
<1>5. PendingInv'
  BY <1>1, <1>2, PendingKept DEF Inv
<1>6. TypeOK'
  BY <1>1, <1>2, <1>3, ChangedCall DEF TypeOK, Inv
<1> QED BY <1>3, <1>4, <1>5, <1>6 DEF Inv

\* A conversion goes on: no reference is released, and what is still to be
\* converted was alive.
LEMMA GoingOn ==
  ASSUME Inv, NEW c \in Calls, NEW call \in Call, Update(c, call), Sound(call),
         Running(c), UNCHANGED <<held, items>>, OwnedInv', taken' \in [Objects -> Nat],
         \A o \in Objects : taken[o] > 0 => taken'[o] > 0,
         call.input = calls[c].input, PendingObjects(call) \subseteq Alive
  PROVE  Inv'
<1>1. PhaseInv' /\ GilInv'
  BY CallKept DEF Inv
<1>2. calls'[c] = call /\ \A d \in Calls \ {c} : calls'[d] = calls[d]
  BY ChangedCall DEF Inv
<1>3. \A d \in Calls : calls'[d].input = calls[d].input
  BY <1>2
<1>4. Alive \subseteq Alive'
  BY <1>3, AliveGrows DEF Inv
<1>5. PendingInv'
  BY <1>4, PendingKept DEF Inv
<1>6. TypeOK'
  BY ChangedCall DEF TypeOK, Inv
<1> QED BY <1>1, <1>5, <1>6 DEF Inv

\* A call that converts, up to the nodes that remain.
SameConversion(call, old) ==
  /\ call.phase = "converting" /\ old.phase = "converting" /\ old.pending # <<>>
  /\ call.input = old.input /\ call.pending = old.pending /\ call.result = old.result
  /\ call.borrowed = old.borrowed /\ call.values = old.values
  /\ call.remaining_bytes = old.remaining_bytes /\ call.copied = old.copied

\* What is converted next is alive, and what follows it stays to be converted.
LEMMA HeadAndTail ==
  ASSUME Inv, NEW c \in Calls, NEW call \in Call, SameConversion(call, calls[c])
  PROVE  /\ Head(call.pending) \in Item /\ Head(call.pending).object \in Alive
         /\ Head(call.pending).object \in Objects
         /\ Tail(call.pending) \in Seq(Item)
         /\ \A i \in 1..Len(Tail(call.pending)) : Tail(call.pending)[i].object \in Alive
         /\ Sound(call)
<1>1. call.pending \in Seq(Item) /\ call.pending # <<>>
  BY DEF SameConversion, Call
<1>2. \A i \in 1..Len(call.pending) : call.pending[i].object \in Alive
  BY DEF Inv, PendingInv, PendingObjects, SameConversion
<1>3. /\ Head(call.pending) = call.pending[1] /\ 1 \in 1..Len(call.pending)
      /\ Head(call.pending) \in Item /\ Tail(call.pending) \in Seq(Item)
  BY <1>1
<1>4. ASSUME NEW i \in 1..Len(Tail(call.pending))
      PROVE  Tail(call.pending)[i] = call.pending[i + 1] /\ i + 1 \in 1..Len(call.pending)
  BY <1>1
<1>5. Head(call.pending).object \in Objects
  BY <1>3 DEF Item
<1>6. Sound(calls[c])
  BY DEF Inv, PhaseInv
<1>7. Sound(call)
  BY <1>6 DEF Sound, SameConversion
<1> QED BY <1>2, <1>3, <1>4, <1>5, <1>7

\* A text that is borrowed: listed first, then referred to.
LEMMA BorrowStep ==
  ASSUME Inv, NEW c \in Calls, NEW call \in Call, SameConversion(call, calls[c]),
         Head(call.pending).object \in Texts, UNCHANGED <<held, items>>,
         Borrow(c, Head(call.pending).object, call), Fail(c) => Inv'
  PROVE  Inv'
<1> DEFINE deducted(o) == [call EXCEPT !.remaining_bytes = @ - Size[o]]
           new(o) == [deducted(o) EXCEPT !.borrowed = Append(@, o), !.values = @ \cup {o},
                                         !.pending = Tail(@)]
<1> PICK o \in Texts : o = Head(call.pending).object
  OBVIOUS
<1>1. Size[o] \in Nat /\ o \in Objects /\ taken \in [Objects -> Nat]
  BY ObjectsAssumption DEF Objects, Inv, TypeOK
<1>2. CASE Size[o] > call.remaining_bytes
  BY <1>2 DEF Borrow
<1> SUFFICES ASSUME ~(Size[o] > call.remaining_bytes) PROVE Inv'
  BY <1>2
<1>3. call.remaining_bytes - Size[o] \in 0..max_bytes /\ call.remaining_bytes - Size[o] <= call.remaining_bytes
  <2>1. call.remaining_bytes \in 0..max_bytes /\ max_bytes \in Nat
    BY ObjectsAssumption DEF Call
  <2> QED BY <1>1, <2>1
<1>4. deducted(o) \in Call
  BY <1>3 DEF Call
<1>5. /\ deducted(o).result = calls[c].result /\ deducted(o).borrowed = calls[c].borrowed
      /\ deducted(o).copied = call.copied
      /\ deducted(o).remaining_bytes = call.remaining_bytes - Size[o]
  BY DEF SameConversion, Call
<1>6. deducted(o).copied + deducted(o).remaining_bytes <= max_bytes
  <2>1. call.copied + call.remaining_bytes <= max_bytes
    BY HeadAndTail DEF Sound
  <2>2. call.copied \in Nat /\ call.remaining_bytes \in Nat /\ max_bytes \in Nat
    BY ObjectsAssumption DEF Call
  <2> QED BY <1>1, <1>5, <2>1, <2>2
<1>7. CASE FailWith(c, taken, deducted(o))
  <2>1. Running(c)
    BY DEF Running, SameConversion
  <2> QED BY <1>4, <1>5, <1>6, <1>7, <2>1, FailingStep
<1>8. CASE Update(c, new(o)) /\ taken' = IncRef(taken, o)
  <2>1. /\ new(o).phase = "converting" /\ new(o).input = calls[c].input
        /\ new(o).pending = Tail(call.pending) /\ new(o).result = calls[c].result
        /\ new(o).borrowed = Append(calls[c].borrowed, o) /\ new(o).values = calls[c].values \cup {o}
        /\ new(o).copied = deducted(o).copied /\ new(o).remaining_bytes = deducted(o).remaining_bytes
    BY DEF SameConversion, Call
  <2>2. new(o) \in Call
    <3>1. Append(call.borrowed, o) \in Seq(Texts) /\ call.values \cup {o} \in SUBSET Texts
      BY DEF Call
    <3> QED BY <1>4, <3>1, HeadAndTail DEF Call
  <2>3. Sound(new(o))
    <3>1. Sound(calls[c]) /\ calls[c].borrowed \in Seq(Texts)
      BY DEF Inv, PhaseInv, TypeOK, Call
    <3>2. \A p \in new(o).values : \E i \in 1..Len(new(o).borrowed) : new(o).borrowed[i] = p
      <4>1. /\ Len(new(o).borrowed) = Len(calls[c].borrowed) + 1
            /\ new(o).borrowed[Len(calls[c].borrowed) + 1] = o
            /\ \A i \in 1..Len(calls[c].borrowed) : new(o).borrowed[i] = calls[c].borrowed[i]
            /\ Len(calls[c].borrowed) \in Nat
        BY <2>1, <3>1
      <4>2. \A p \in calls[c].values : \E i \in 1..Len(calls[c].borrowed) : calls[c].borrowed[i] = p
        BY <3>1 DEF Sound
      <4>3. 1..Len(calls[c].borrowed) \subseteq 1..Len(new(o).borrowed)
        BY <4>1
      <4>4. \A p \in calls[c].values : \E i \in 1..Len(new(o).borrowed) : new(o).borrowed[i] = p
        BY <4>1, <4>2, <4>3
      <4>5. Len(calls[c].borrowed) + 1 \in 1..Len(new(o).borrowed)
        BY <4>1
      <4> QED BY <2>1, <4>1, <4>4, <4>5
    <3> QED BY <2>1, <3>2, <1>6 DEF Sound
  <2>4. OwnedInv'
    <3>1. /\ <<c, Len(calls[c].borrowed) + 1>> \notin References(o)
          /\ References(o)' = References(o) \cup {<<c, Len(calls[c].borrowed) + 1>>}
          /\ \A p \in Objects \ {o} : References(p)' = References(p)
      BY <1>8, <2>1, <2>2, ReferencesWithListed DEF Inv
    <3> QED BY <1>1, <1>8, <3>1, OwnedMore DEF Inv
  <2>5. taken' \in [Objects -> Nat] /\ \A p \in Objects : taken[p] > 0 => taken'[p] > 0
    BY <1>1, <1>8 DEF IncRef
  <2>6. PendingObjects(new(o)) \subseteq Alive
    BY <2>1, HeadAndTail DEF PendingObjects
  <2>7. Running(c)
    BY DEF Running, SameConversion
  <2> QED BY <1>8, <2>1, <2>2, <2>3, <2>4, <2>5, <2>6, <2>7, GoingOn
<1> QED BY <1>7, <1>8 DEF Borrow

\* A text that is copied.
LEMMA CopyStep ==
  ASSUME Inv, NEW c \in Calls, NEW call \in Call, SameConversion(call, calls[c]),
         Head(call.pending).object \in Boxes, UNCHANGED <<held, items>>,
         Copy(c, Head(call.pending).object, call), Fail(c) => Inv'
  PROVE  Inv'
<1> DEFINE deducted(o) == [call EXCEPT !.remaining_bytes = @ - Size[o]]
           new(o) == [deducted(o) EXCEPT !.copied = @ + Size[o], !.pending = Tail(@)]
<1> PICK o \in Boxes : o = Head(call.pending).object
  OBVIOUS
<1>1. Size[o] \in Nat /\ taken \in [Objects -> Nat]
  BY ObjectsAssumption DEF Inv, TypeOK
<1>2. CASE Size[o] > call.remaining_bytes
  BY <1>2 DEF Copy
<1> SUFFICES ASSUME ~(Size[o] > call.remaining_bytes) PROVE Inv'
  BY <1>2
<1>3. /\ call.copied + call.remaining_bytes <= max_bytes
      /\ call.copied \in Nat /\ call.remaining_bytes \in Nat /\ max_bytes \in Nat
  BY HeadAndTail, ObjectsAssumption DEF Sound, Call
<1>4. /\ call.remaining_bytes - Size[o] \in 0..max_bytes
      /\ call.copied + Size[o] \in 0..max_bytes
      /\ call.copied + (call.remaining_bytes - Size[o]) <= max_bytes
      /\ (call.copied + Size[o]) + (call.remaining_bytes - Size[o]) <= max_bytes
  BY <1>1, <1>3
<1>5. deducted(o) \in Call
  BY <1>4 DEF Call
<1>6. /\ deducted(o).result = calls[c].result /\ deducted(o).borrowed = calls[c].borrowed
      /\ deducted(o).copied = call.copied
      /\ deducted(o).remaining_bytes = call.remaining_bytes - Size[o]
  BY DEF SameConversion, Call
<1>7. Running(c)
  BY DEF Running, SameConversion
<1>8. CASE FailWith(c, taken, deducted(o))
  BY <1>4, <1>5, <1>6, <1>7, <1>8, FailingStep
<1>9. CASE Update(c, new(o)) /\ UNCHANGED taken
  <2>1. /\ new(o).phase = "converting" /\ new(o).input = calls[c].input
        /\ new(o).pending = Tail(call.pending) /\ new(o).result = calls[c].result
        /\ new(o).borrowed = calls[c].borrowed /\ new(o).values = calls[c].values
        /\ new(o).copied = call.copied + Size[o]
        /\ new(o).remaining_bytes = call.remaining_bytes - Size[o]
    BY DEF SameConversion, Call
  <2>2. new(o) \in Call
    BY <1>4, <1>5, HeadAndTail DEF Call
  <2>3. Sound(new(o))
    <3>1. Sound(calls[c])
      BY DEF Inv, PhaseInv
    <3> QED BY <2>1, <3>1, <1>4 DEF Sound
  <2>4. OwnedInv'
    <3>1. calls'[c] = new(o) /\ \A d \in Calls : d = c \/ calls'[d] = calls[d]
      BY <1>9, ChangedCall DEF Inv
    <3>2. \A d \in Calls : calls'[d].result = calls[d].result /\ calls'[d].borrowed = calls[d].borrowed
      BY <2>1, <3>1
    <3> QED BY <1>9, <3>2, OwnedKept DEF Inv
  <2>5. PendingObjects(new(o)) \subseteq Alive
    BY <2>1, HeadAndTail DEF PendingObjects
  <2> QED BY <1>1, <1>7, <1>9, <2>1, <2>2, <2>3, <2>4, <2>5, GoingOn
<1> QED BY <1>8, <1>9 DEF Copy

\* Items that stand for objects.
ItemsFor(s, os) ==
  /\ s \in Seq(Item) /\ Len(s) = Len(os)
  /\ \A i \in 1..Len(s) : s[i].object = os[i] /\ os[i] \in ToSet(os) /\ os[i] \in Objects

\* One item for each object of a sequence.
LEMMA AreItemsFor ==
  ASSUME NEW os \in Seq(Objects), NEW s \in [1..Len(os) -> Item],
         \A i \in 1..Len(os) : s[i].object = os[i]
  PROVE  ItemsFor(s, os)
<1>1. Len(os) \in Nat /\ DOMAIN os = 1..Len(os) /\ \A i \in 1..Len(os) : os[i] \in Objects
  OBVIOUS
<1>2. \A i \in 1..Len(os) : os[i] \in ToSet(os)
  BY <1>1 DEF ToSet
<1>3. s \in Seq(Item) /\ Len(s) = Len(os)
  BY <1>1
<1> QED BY <1>1, <1>2, <1>3 DEF ItemsFor

\* What a list holds.
LEMMA ListItems ==
  ASSUME NEW os \in Seq(Objects), NEW depth \in 0..max_depth, NEW s, s = Pending(os, "value", depth)
  PROVE  ItemsFor(s, os)
<1>1. s \in [1..Len(os) -> Item] /\ \A i \in 1..Len(os) : s[i].object = os[i]
  <2>1. DOMAIN os = 1..Len(os) /\ \A i \in 1..Len(os) : os[i] \in Objects
    OBVIOUS
  <2> QED BY <2>1 DEF Pending, Item
<1> QED BY <1>1, AreItemsFor

\* What a dict holds.
LEMMA EntryItems ==
  ASSUME NEW os \in Seq(Objects), NEW depth \in 0..max_depth, NEW s, s = PendingEntries(os, depth)
  PROVE  ItemsFor(s, os)
<1>1. s \in [1..Len(os) -> Item] /\ \A i \in 1..Len(os) : s[i].object = os[i]
  <2>1. DOMAIN os = 1..Len(os) /\ \A i \in 1..Len(os) : os[i] \in Objects
    OBVIOUS
  <2> QED BY <2>1 DEF PendingEntries, Item
<1> QED BY <1>1, AreItemsFor

\* Bindings.
LEMMA BindingItems ==
  ASSUME NEW os \in Seq(Objects), NEW s, s = PendingBindings(os)
  PROVE  ItemsFor(s, os)
<1>1. s \in [1..Len(os) -> Item] /\ \A i \in 1..Len(os) : s[i].object = os[i]
  <2>1. DOMAIN os = 1..Len(os) /\ \A i \in 1..Len(os) : os[i] \in Objects
    OBVIOUS
  <2> QED BY <2>1, ObjectsAssumption DEF PendingBindings, Item
<1> QED BY <1>1, AreItemsFor

\* What holds of the items of two sequences holds of them together.
LEMMA AllAlive ==
  ASSUME NEW A, NEW s \in Seq(Item), NEW t \in Seq(Item),
         \A i \in 1..Len(s) : s[i].object \in A, \A i \in 1..Len(t) : t[i].object \in A
  PROVE  s \o t \in Seq(Item) /\ \A i \in 1..Len(s \o t) : (s \o t)[i].object \in A
<1>1. /\ s \o t \in Seq(Item) /\ Len(s \o t) = Len(s) + Len(t)
      /\ \A i \in 1..(Len(s) + Len(t)) : (s \o t)[i] = IF i <= Len(s) THEN s[i] ELSE t[i - Len(s)]
  BY ConcatProperties
<1>2. Len(s) \in Nat /\ Len(t) \in Nat
  OBVIOUS
<1>3. ASSUME NEW i \in 1..(Len(s) + Len(t)) PROVE (s \o t)[i].object \in A
  <2>1. CASE i <= Len(s)
    BY <1>1, <1>2, <2>1
  <2>2. CASE ~(i <= Len(s))
    <3>1. i - Len(s) \in 1..Len(t)
      BY <1>2, <2>2
    <3> QED BY <1>1, <2>2, <3>1
  <2> QED BY <2>1, <2>2
<1> QED BY <1>1, <1>3

\* A container makes way for what it holds.
LEMMA UnfoldStep ==
  ASSUME Inv, NEW c \in Calls, NEW call \in Call, SameConversion(call, calls[c]),
         Head(call.pending).object \in Containers, UNCHANGED <<held, items>>,
         Head(call.pending).role # "name", Head(call.pending).depth < max_depth,
         Unfold(c, Head(call.pending).object, call), Fail(c) => Inv'
  PROVE  Inv'
<1> PICK o \in Containers : o = Head(call.pending).object
  OBVIOUS
<1> PICK depth \in Nat : depth = Head(call.pending).depth
  BY HeadAndTail DEF Item
<1>1. items[o] \in Seq(Objects) /\ taken \in [Objects -> Nat] /\ o \in Alive
  BY HeadAndTail DEF Inv, TypeOK
<1>2. depth + 1 \in 0..max_depth
  BY ObjectsAssumption
<1> PICK inner : inner = IF o \in Lists THEN Pending(items[o], "value", depth + 1)
                         ELSE PendingEntries(items[o], depth + 1)
  OBVIOUS
<1>3. ItemsFor(inner, items[o])
  <2>1. CASE inner = Pending(items[o], "value", depth + 1)
    BY <1>1, <1>2, <2>1, ListItems
  <2>2. CASE inner = PendingEntries(items[o], depth + 1)
    BY <1>1, <1>2, <2>2, EntryItems
  <2> QED BY <2>1, <2>2
<1>4. \A i \in 1..Len(inner) : inner[i].object \in Alive
  BY <1>1, <1>3, ItemsReachable DEF Alive, ItemsFor
<1> DEFINE new == [call EXCEPT !.pending = inner \o Tail(@)]
<1>5. /\ new.phase = "converting" /\ new.input = calls[c].input
      /\ new.pending = inner \o Tail(call.pending) /\ new.result = calls[c].result
      /\ new.borrowed = calls[c].borrowed /\ new.values = calls[c].values
      /\ new.copied = call.copied /\ new.remaining_bytes = call.remaining_bytes
  BY DEF SameConversion, Call
<1>6. new.pending \in Seq(Item) /\ PendingObjects(new) \subseteq Alive
  <2> PICK rest \in Seq(Item) : rest = Tail(call.pending)
    BY HeadAndTail
  <2>1. /\ inner \in Seq(Item)
        /\ \A i \in 1..Len(rest) : rest[i].object \in Alive
    BY <1>3, HeadAndTail DEF ItemsFor
  <2>2. /\ inner \o rest \in Seq(Item)
        /\ \A i \in 1..Len(inner \o rest) : (inner \o rest)[i].object \in Alive
    BY <1>4, <2>1, AllAlive
  <2> QED BY <1>5, <2>2 DEF PendingObjects
<1>7. CASE Update(c, new) /\ UNCHANGED taken
  <2>1. new \in Call
    BY <1>5, <1>6 DEF Call
  <2>2. Sound(new)
    <3>1. Sound(calls[c]) /\ Sound(call)
      BY HeadAndTail DEF Inv, PhaseInv
    <3> QED BY <1>5, <3>1 DEF Sound
  <2>3. OwnedInv'
    <3>1. calls'[c] = new /\ \A d \in Calls : d = c \/ calls'[d] = calls[d]
      BY <1>7, ChangedCall DEF Inv
    <3>2. \A d \in Calls : calls'[d].result = calls[d].result /\ calls'[d].borrowed = calls[d].borrowed
      BY <1>5, <3>1
    <3> QED BY <1>7, <3>2, OwnedKept DEF Inv
  <2>4. Running(c)
    BY DEF Running, SameConversion
  <2> QED BY <1>1, <1>5, <1>6, <1>7, <2>1, <2>2, <2>3, <2>4, GoingOn
<1>8. CASE Fail(c)
  BY <1>8
<1> QED BY <1>7, <1>8 DEF Unfold

\* One object converted.
LEMMA ConvertStep ==
  ASSUME Inv, NEW c \in Calls, Convert(c)
  PROVE  Inv'
<1> DEFINE old == calls[c]
           call == Charged(old)
<1>1. /\ old \in Call /\ old.phase = "converting" /\ old.pending # <<>>
      /\ UNCHANGED <<held, items>> /\ Running(c) /\ Sound(old)
  BY DEF Convert, In, Running, Inv, TypeOK, PhaseInv
<1>2. Fail(c) => Inv'
  <2>1. old.copied + old.remaining_bytes <= max_bytes
    BY <1>1 DEF Sound
  <2> QED BY <1>1, <2>1, FailingStep DEF Fail
<1>3. CASE Refused(old)
  BY <1>2, <1>3 DEF Convert
<1> SUFFICES ASSUME ~Refused(old) PROVE Inv'
  BY <1>3
<1>4. Head(old.pending) \in Item
  BY <1>1 DEF Call
<1>5. call \in Call /\ SameConversion(call, old)
  <2>1. CASE Head(old.pending).role = "name"
    BY <1>1, <2>1 DEF Charged, SameConversion
  <2>2. CASE Head(old.pending).role # "name"
    <3>1. old.remaining - 1 \in 0..max_nodes
      <4>1. old.remaining # 0 /\ old.remaining \in 0..max_nodes /\ max_nodes \in Nat
        BY <1>1, <2>2, ObjectsAssumption DEF Refused, Call
      <4> QED BY <4>1
    <3>2. call = [old EXCEPT !.remaining = @ - 1]
      BY <2>2 DEF Charged
    <3> QED BY <1>1, <3>1, <3>2 DEF Call, SameConversion
  <2> QED BY <2>1, <2>2
<1>6. call.pending = old.pending
  BY <1>5 DEF SameConversion
<1> PICK next \in Item : next = Head(call.pending)
  BY <1>4, <1>6
<1>7. CASE next.object \in Texts
  BY <1>1, <1>2, <1>5, <1>7, BorrowStep DEF Convert
<1>8. CASE next.object \notin Texts /\ (next.role = "name" \/ (next.role = "key" /\ next.object \in Boxes))
  BY <1>2, <1>8 DEF Convert
<1>9. CASE /\ next.object \notin Texts /\ next.object \in Boxes
           /\ ~(next.role = "name" \/ (next.role = "key" /\ next.object \in Boxes))
  BY <1>1, <1>2, <1>5, <1>9, CopyStep DEF Convert
<1>10. CASE next.object \notin Texts /\ next.object \notin Boxes /\ next.role # "name"
  <2>1. next.object \in Containers
    BY <1>10 DEF Item, Objects
  <2>2. next.depth < max_depth
    BY <1>6, <1>10, ObjectsAssumption DEF Refused, Item
  <2>3. Unfold(c, next.object, call)
    BY <1>10 DEF Convert
  <2> QED BY <1>1, <1>2, <1>5, <1>10, <2>1, <2>2, <2>3, UnfoldStep
<1> QED BY <1>7, <1>8, <1>9, <1>10

-----------------------------------------------------------------------------
(* The other steps *)

\* A step of a call that leaves the references of the binding alone.
LEMMA QuietStep ==
  ASSUME Inv, NEW c \in Calls, NEW call \in Call, Update(c, call), Sound(call),
         Running(c) \/ HostRuns, UNCHANGED <<items, taken>>, held' \subseteq Objects,
         call.result = calls[c].result, call.borrowed = calls[c].borrowed,
         PendingObjects(call) \subseteq Alive'
  PROVE  Inv'
<1>1. PhaseInv' /\ GilInv' /\ PendingInv'
  BY CallKept, PendingKept DEF Inv
<1>2. calls'[c] = call /\ \A d \in Calls : d = c \/ calls'[d] = calls[d]
  BY ChangedCall DEF Inv
<1>3. \A d \in Calls : calls'[d].result = calls[d].result /\ calls'[d].borrowed = calls[d].borrowed
  BY <1>2
<1>4. OwnedInv'
  BY <1>3, OwnedKept DEF Inv
<1>5. TypeOK'
  BY ChangedCall DEF TypeOK, Inv
<1> QED BY <1>1, <1>4, <1>5 DEF Inv

\* Code of the host runs: nothing is being converted, and what it drops or
\* empties has no reference of the binding.
LEMMA HostStep ==
  ASSUME Inv, HostRuns, UNCHANGED <<taken, calls>>,
         held' \subseteq Objects, items' \in [Containers -> Seq(Objects)]
  PROVE  Inv'
<1>1. \A c \in Calls : calls[c].pending = <<>>
  BY DEF HostRuns, Inv, PhaseInv, Sound
<1>2. PendingInv'
  BY <1>1 DEF PendingInv, PendingObjects
<1>3. OwnedInv'
  BY OwnedKept DEF Inv
<1>4. PhaseInv' /\ GilInv' /\ TypeOK'
  BY DEF Inv, PhaseInv, GilInv, TypeOK, Running, Sound
<1> QED BY <1>2, <1>3, <1>4 DEF Inv

\* Each action of the host is such a step.
LEMMA HostActions ==
  ASSUME Inv, NEW o \in Objects, Drop(o) \/ Create(o) \/ (o \in Containers /\ Clear(o))
  PROVE  Inv'
<1>1. held \subseteq Objects /\ items \in [Containers -> Seq(Objects)] /\ Reachable(held) \subseteq Objects
  BY DEF Inv, TypeOK, Reachable
<1>2. CASE Drop(o)
  BY <1>1, <1>2, HostStep DEF Drop
<1>3. CASE Create(o)
  <2>1. items' \in [Containers -> Seq(Objects)]
    <3>1. CASE \E x \in Reachable(held) : o \in Lists /\ items' = [items EXCEPT ![o] = <<x>>]
      <4> PICK x \in Reachable(held) : o \in Lists /\ items' = [items EXCEPT ![o] = <<x>>]
        BY <3>1
      <4>1. <<x>> \in Seq(Objects)
        BY <1>1
      <4> QED BY <1>1, <4>1
    <3>2. CASE items' = [l \in Containers |-> IF l = o THEN <<>> ELSE items[l]]
      <4>1. <<>> \in Seq(Objects)
        OBVIOUS
      <4> QED BY <1>1, <3>2, <4>1
    <3> QED BY <1>3, <3>1, <3>2 DEF Create
  <2> QED BY <1>1, <1>3, <2>1, HostStep DEF Create
<1>4. CASE o \in Containers /\ Clear(o)
  <2>1. items' \in [Containers -> Seq(Objects)]
    <3>1. <<>> \in Seq(Objects)
      OBVIOUS
    <3> QED BY <1>1, <1>4, <3>1 DEF Clear
  <2> QED BY <1>1, <1>4, <2>1, HostStep DEF Clear
<1> QED BY <1>2, <1>3, <1>4

\* An evaluation begins: the caller's dict keeps alive what it binds.
LEMMA EvaluateStep ==
  ASSUME Inv, NEW c \in Calls, NEW input \in Dicts, Evaluate(c, input)
  PROVE  Inv'
<1>1. /\ calls[c].phase = "idle" /\ HostRuns /\ UNCHANGED <<items, taken>>
      /\ held' \subseteq Objects /\ calls[c].result = NoObject /\ calls[c].borrowed = <<>>
  BY DEF Evaluate, In, Inv, TypeOK, PhaseInv, Sound
<1>2. /\ Idle.result = NoObject /\ Idle.borrowed = <<>> /\ Idle.values = {} /\ Idle.pending = <<>>
      /\ Idle.copied = 0 /\ Idle.remaining_bytes = max_bytes
  BY DEF Idle
<1>3. CASE Update(c, [Releasing(Idle) EXCEPT !.input = input])
  <2> DEFINE new == [Releasing(Idle) EXCEPT !.input = input]
  <2>1. Idle.copied + Idle.remaining_bytes <= max_bytes
    BY <1>2, ObjectsAssumption
  <2>2. /\ Releasing(Idle) \in Call /\ Sound(Releasing(Idle)) /\ Releasing(Idle).result = NoObject
        /\ Releasing(Idle).borrowed = <<>> /\ PendingObjects(Releasing(Idle)) = {}
    BY <1>2, <2>1, IdleCall, ReleasingCall
  <2>3. new \in Call
    BY <2>2 DEF Call
  <2>4. Sound(new) /\ PendingObjects(new) = {} /\ new.result = NoObject /\ new.borrowed = <<>>
    <3>1. /\ new.phase = "releasing" /\ new.pending = <<>> /\ new.result = NoObject
          /\ new.borrowed = <<>> /\ new.values = {} /\ new.copied = 0 /\ new.remaining_bytes = max_bytes
      BY <1>2 DEF Releasing, Idle
    <3> QED BY <3>1, ObjectsAssumption DEF Sound, PendingObjects
  <2> QED BY <1>1, <1>3, <2>3, <2>4, QuietStep
<1>4. CASE Update(c, [Idle EXCEPT !.phase = "converting", !.input = input,
                                  !.pending = PendingBindings(items[input])])
  <2> DEFINE new == [Idle EXCEPT !.phase = "converting", !.input = input,
                                 !.pending = PendingBindings(items[input])]
  <2>1. items[input] \in Seq(Objects) /\ input \in Containers /\ input \in Objects
    BY DEF Containers, Objects, Inv, TypeOK
  <2> PICK os \in Seq(Objects) : os = items[input]
    BY <2>1
  <2> PICK s : s = PendingBindings(os)
    OBVIOUS
  <2>2. /\ s \in Seq(Item)
        /\ \A i \in 1..Len(s) : s[i].object = os[i] /\ os[i] \in ToSet(os) /\ os[i] \in Objects
    <3>1. ItemsFor(s, os)
      BY BindingItems
    <3> QED BY <3>1 DEF ItemsFor
  <2>3. /\ new.phase = "converting" /\ new.input = input /\ new.pending = s /\ new.result = NoObject
        /\ new.borrowed = <<>> /\ new.values = {} /\ new.copied = 0 /\ new.remaining_bytes = max_bytes
    BY <1>2 DEF Idle
  <2>4. new \in Call
    BY <2>2, IdleCall DEF Call
  <2>5. Sound(new)
    BY <2>3, ObjectsAssumption DEF Sound
  <2>6. calls'[c] = new
    BY <1>4, ChangedCall DEF Inv
  <2>7. input \in Roots'
    BY <2>3, <2>6 DEF Roots
  <2>8. input \in Reachable(Roots') /\ Alive' = Reachable(Roots')
    BY <1>1, <2>1, <2>7, RootsReachable DEF Alive, Reachable
  <2>9. \A i \in 1..Len(s) : s[i].object \in Alive'
    BY <2>1, <2>2, <2>8, ItemsReachable
  <2>10. PendingObjects(new) \subseteq Alive'
    BY <2>3, <2>9 DEF PendingObjects
  <2> QED BY <1>1, <1>4, <2>3, <2>4, <2>5, <2>10, QuietStep
<1> QED BY <1>3, <1>4 DEF Evaluate

\* The bindings or the result of a callback are converted.
LEMMA ConvertedStep ==
  ASSUME Inv, NEW c \in Calls, Converted(c)
  PROVE  Inv'
<1> DEFINE new == [calls[c] EXCEPT !.phase = "evaluating", !.result = NoObject]
<1>1. /\ calls[c] \in Call /\ calls[c].pending = <<>> /\ Running(c) /\ Sound(calls[c])
      /\ calls[c].phase = "converting"
      /\ Update(c, new) /\ taken' = ReleaseResult(taken, calls[c]) /\ UNCHANGED <<held, items>>
  BY DEF Converted, In, Running, Inv, TypeOK, PhaseInv
<1>2. new \in Call
  BY <1>1 DEF Call
<1>3. /\ new.phase = "evaluating" /\ new.pending = <<>> /\ new.result = NoObject
      /\ new.borrowed = calls[c].borrowed /\ new.values = calls[c].values
      /\ new.copied = calls[c].copied /\ new.remaining_bytes = calls[c].remaining_bytes
  BY <1>1 DEF Call
<1>4. Sound(new) /\ PendingObjects(new) = {}
  BY <1>1, <1>3 DEF Sound, PendingObjects
<1>5. OwnedInv' /\ taken' \in [Objects -> Nat]
  BY <1>1, <1>2, <1>3, ResultReleased
<1>6. PhaseInv' /\ GilInv' /\ PendingInv'
  BY <1>1, <1>2, <1>4, CallKept, PendingKept DEF Inv
<1>7. TypeOK'
  BY <1>1, <1>2, <1>5, ChangedCall DEF TypeOK, Inv
<1> QED BY <1>5, <1>6, <1>7 DEF Inv

\* Calls, exceptions and ends of an evaluation.
LEMMA PhaseStep ==
  ASSUME Inv, NEW c \in Calls, Invoke(c) \/ CallbackRaises(c) \/ Finish(c)
  PROVE  Inv'
<1>1. /\ calls[c] \in Call /\ Sound(calls[c]) /\ held' \subseteq Objects /\ UNCHANGED <<items, taken>>
      /\ Running(c) \/ HostRuns
      /\ calls[c].phase \in {"evaluating", "callback"}
  BY DEF Inv, TypeOK, PhaseInv, Invoke, CallbackRaises, Finish, In, Running
<1>2. /\ calls[c].pending = <<>> /\ calls[c].result = NoObject
      /\ calls[c].copied + calls[c].remaining_bytes <= max_bytes
  BY <1>1 DEF Sound, Invoke, CallbackRaises, Finish, In
<1>3. CASE Invoke(c)
  <2> DEFINE new == [calls[c] EXCEPT !.phase = "callback", !.callbacks = @ + 1]
  <2>1. calls[c].callbacks + 1 \in 0..MaxCallbacks
    <3>1. calls[c].callbacks \in 0..MaxCallbacks /\ MaxCallbacks \in Nat /\ calls[c].callbacks < MaxCallbacks
      BY <1>1, <1>3, ObjectsAssumption DEF Invoke, Call
    <3> QED BY <3>1
  <2>2. new \in Call
    BY <1>1, <2>1 DEF Call
  <2>3. /\ new.phase = "callback" /\ new.pending = <<>> /\ new.result = NoObject
        /\ new.borrowed = calls[c].borrowed /\ new.values = calls[c].values
        /\ new.copied = calls[c].copied /\ new.remaining_bytes = calls[c].remaining_bytes
    BY <1>1, <1>2 DEF Call
  <2>4. Sound(new) /\ PendingObjects(new) = {}
    BY <1>1, <2>3 DEF Sound, PendingObjects
  <2>5. Update(c, new)
    BY <1>3 DEF Invoke
  <2> QED BY <1>1, <1>2, <2>2, <2>3, <2>4, <2>5, QuietStep
<1>4. CASE CallbackRaises(c) \/ Finish(c)
  <2>1. Update(c, Releasing(calls[c]))
    BY <1>4 DEF CallbackRaises, Finish
  <2>2. /\ Releasing(calls[c]) \in Call /\ Sound(Releasing(calls[c]))
        /\ Releasing(calls[c]).result = calls[c].result
        /\ Releasing(calls[c]).borrowed = calls[c].borrowed
        /\ PendingObjects(Releasing(calls[c])) = {}
    BY <1>1, <1>2, ReleasingCall
  <2> QED BY <1>1, <2>1, <2>2, QuietStep
<1> QED BY <1>3, <1>4

\* The result of a callback is the one item to convert.
LEMMA OneItem ==
  ASSUME NEW o \in Objects, NEW s, s = Pending(<<o>>, "value", 0)
  PROVE  s \in Seq(Item) /\ Len(s) = 1 /\ \A i \in 1..Len(s) : s[i].object = o
<1> DEFINE item == [object |-> o, role |-> "value", depth |-> 0]
<1>1. item \in Item /\ item.object = o
  BY ObjectsAssumption DEF Item
<1>2. s = <<item>>
  BY DEF Pending
<1> HIDE DEF item
<1>3. /\ <<item>> \in Seq(Item) /\ Len(<<item>>) = 1
      /\ \A i \in 1..1 : <<item>>[i] = item
  BY <1>1
<1>4. \A i \in 1..Len(s) : s[i] = item
  BY <1>2, <1>3
<1> QED BY <1>1, <1>2, <1>3, <1>4

\* A callback returns: the binding owns the reference to its result.
LEMMA ReturnStep ==
  ASSUME Inv, NEW c \in Calls, NEW o \in Objects, CallbackReturns(c, o)
  PROVE  Inv'
<1> DEFINE new == [calls[c] EXCEPT !.phase = "converting", !.result = o,
                                   !.pending = Pending(<<o>>, "value", 0)]
<1>1. /\ calls[c] \in Call /\ Sound(calls[c]) /\ calls[c].phase = "callback" /\ HostRuns
      /\ calls[c].result = NoObject /\ held' \subseteq Objects /\ UNCHANGED items
      /\ Update(c, new) /\ taken' = IncRef(taken, o) /\ taken \in [Objects -> Nat]
  BY DEF CallbackReturns, In, Inv, TypeOK, PhaseInv, Sound
<1> PICK s : s = Pending(<<o>>, "value", 0)
  OBVIOUS
<1>2. s \in Seq(Item) /\ Len(s) = 1 /\ \A i \in 1..Len(s) : s[i].object = o
  BY OneItem
<1>3. /\ new.phase = "converting" /\ new.pending = s /\ new.result = o
      /\ new.borrowed = calls[c].borrowed /\ new.values = calls[c].values
      /\ new.copied = calls[c].copied /\ new.remaining_bytes = calls[c].remaining_bytes
  BY <1>1 DEF Call
<1>4. new \in Call
  BY <1>1, <1>2 DEF Call
<1>5. Sound(new)
  BY <1>1, <1>3 DEF Sound
<1>6. OwnedInv'
  <2>1. NoObject \notin Objects
    BY ObjectsAssumption
  <2>2. References(o)' = References(o) \cup {<<c, 0>>} /\ <<c, 0>> \notin References(o)
    BY <1>1, <1>3, <1>4, <2>1, ReferencesWithResult DEF Inv
  <2>3. \A p \in Objects \ {o} : References(p)' = References(p)
    BY <1>1, <1>3, <1>4, <2>1, ReferencesWithResult DEF Inv
  <2> QED BY <1>1, <2>2, <2>3, OwnedMore DEF Inv
<1>7. taken' \in [Objects -> Nat] /\ taken'[o] > 0
  BY <1>1 DEF IncRef
<1>8. o \in Alive'
  <2>1. o \in Roots'
    BY <1>7 DEF Roots
  <2>2. Alive' = Reachable(Roots')
    BY <1>1 DEF Alive, Reachable
  <2> QED BY <2>1, <2>2, RootsReachable
<1>9. PendingObjects(new) \subseteq Alive'
  BY <1>2, <1>3, <1>8 DEF PendingObjects
<1>10. PhaseInv' /\ GilInv' /\ PendingInv'
  BY <1>1, <1>4, <1>5, <1>9, CallKept, PendingKept DEF Inv
<1>11. TypeOK'
  BY <1>1, <1>4, <1>7, ChangedCall DEF TypeOK, Inv
<1> QED BY <1>6, <1>10, <1>11 DEF Inv

\* The references go one by one.
LEMMA ReleaseStep ==
  ASSUME Inv, NEW c \in Calls, Release(c)
  PROVE  Inv'
<1>1. /\ calls[c] \in Call /\ Sound(calls[c]) /\ calls[c].phase = "releasing" /\ HostRuns
      /\ calls[c].result = NoObject /\ calls[c].pending = <<>> /\ calls[c].values = {}
      /\ held' \subseteq Objects /\ UNCHANGED <<held, items>>
      /\ calls[c].copied + calls[c].remaining_bytes <= max_bytes
      /\ taken \in [Objects -> Nat]
  BY DEF Release, In, Inv, TypeOK, PhaseInv, Sound
<1>2. CASE calls[c].borrowed = <<>>
  <2>1. Update(c, Idle) /\ UNCHANGED taken
    BY <1>2 DEF Release
  <2>2. Idle.result = NoObject /\ Idle.borrowed = <<>> /\ PendingObjects(Idle) = {}
    BY DEF Idle, PendingObjects
  <2> QED BY <1>1, <1>2, <2>1, <2>2, IdleCall, QuietStep
<1>3. CASE calls[c].borrowed # <<>>
  <2> DEFINE new == [calls[c] EXCEPT !.borrowed = Tail(@)]
  <2>1. Update(c, new) /\ taken' = DecRef(taken, Head(calls[c].borrowed))
    BY <1>3 DEF Release
  <2>2. Tail(calls[c].borrowed) \in Seq(Texts)
    BY <1>1, <1>3 DEF Call
  <2>3. new \in Call
    BY <1>1, <2>2 DEF Call
  <2>4. /\ new.phase = "releasing" /\ new.pending = <<>> /\ new.result = NoObject
        /\ new.borrowed = Tail(calls[c].borrowed) /\ new.values = {}
        /\ new.copied = calls[c].copied /\ new.remaining_bytes = calls[c].remaining_bytes
    BY <1>1 DEF Call
  <2>5. Sound(new) /\ PendingObjects(new) = {}
    BY <1>1, <2>4 DEF Sound, PendingObjects
  <2> PICK x : x = Head(calls[c].borrowed)
    OBVIOUS
  <2>6. /\ x \in Objects /\ <<c, 1>> \in References(x)
        /\ ExistsBijection(References(x) \ {<<c, 1>>}, References(x)')
        /\ \A o \in Objects \ {x} : ExistsBijection(References(o), References(o)')
    BY <1>1, <1>3, <2>1, <2>3, <2>4, ReferencesWithTail DEF Inv
  <2>7. OwnedInv' /\ taken' \in [Objects -> Nat]
    BY <1>1, <2>1, <2>6, OwnedLess DEF Inv
  <2>8. PhaseInv' /\ GilInv' /\ PendingInv'
    BY <1>1, <2>1, <2>3, <2>5, CallKept, PendingKept DEF Inv
  <2>9. TypeOK'
    BY <1>1, <2>1, <2>3, <2>7, ChangedCall DEF TypeOK, Inv
  <2> QED BY <2>7, <2>8, <2>9 DEF Inv
<1> QED BY <1>2, <1>3

-----------------------------------------------------------------------------
(* The invariant *)

\* Nothing is taken to begin with.
LEMMA InitInv == Init => Inv
<1> SUFFICES ASSUME Init PROVE Inv
  OBVIOUS
<1>1. \A c \in Calls : calls[c] = Idle
  BY DEF Init
<1>2. TypeOK
  BY IdleCall, ObjectsAssumption DEF Init, TypeOK, Objects, Containers
<1>3. PhaseInv /\ GilInv
  BY <1>1, IdleCall DEF PhaseInv, GilInv, Running, Idle
<1>4. PendingInv
  BY <1>1 DEF PendingInv, PendingObjects, Idle
<1>5. OwnedInv
  <2>1. \A c \in Calls : Len(calls[c].borrowed) = 0 /\ calls[c].result = NoObject
    BY <1>1 DEF Idle
  <2>2. \A o \in Objects : References(o) = {}
    BY <2>1, ReferencePlaces, ObjectsAssumption DEF Refers
  <2> QED BY <2>2, FS_EmptySet DEF OwnedInv, Init
<1> QED BY <1>2, <1>3, <1>4, <1>5 DEF Inv

\* Nothing changes.
LEMMA StutterInv == Inv /\ UNCHANGED vars => Inv'
<1> SUFFICES ASSUME Inv, UNCHANGED vars PROVE Inv'
  OBVIOUS
<1>1. TypeOK' /\ PhaseInv' /\ GilInv'
  BY DEF vars, Inv, TypeOK, PhaseInv, GilInv, Running
<1>2. OwnedInv'
  BY OwnedKept DEF vars, Inv
<1>3. Alive' = Alive
  BY DEF vars, Alive, Reachable, Roots
<1>4. PendingInv'
  BY <1>3 DEF vars, Inv, PendingInv
<1> QED BY <1>1, <1>2, <1>4 DEF Inv

\* Every step keeps the invariant.
LEMMA NextInv == Inv /\ [Next]_vars => Inv'
<1> SUFFICES ASSUME Inv, Next PROVE Inv'
  BY StutterInv
<1>1. ASSUME NEW o \in Objects, Drop(o) \/ Create(o) PROVE Inv'
  BY <1>1, HostActions
<1>2. ASSUME NEW l \in Containers, Clear(l) PROVE Inv'
  BY <1>2, HostActions DEF Objects
<1>3. ASSUME NEW c \in Calls, Convert(c) PROVE Inv'
  BY <1>3, ConvertStep
<1>4. ASSUME NEW c \in Calls, Converted(c) PROVE Inv'
  BY <1>4, ConvertedStep
<1>5. ASSUME NEW c \in Calls, Invoke(c) \/ CallbackRaises(c) \/ Finish(c) PROVE Inv'
  BY <1>5, PhaseStep
<1>6. ASSUME NEW c \in Calls, Release(c) PROVE Inv'
  BY <1>6, ReleaseStep
<1>7. ASSUME NEW c \in Calls, NEW input \in Dicts, Evaluate(c, input) PROVE Inv'
  BY <1>7, EvaluateStep
<1>8. ASSUME NEW c \in Calls, NEW o \in Objects, CallbackReturns(c, o) PROVE Inv'
  BY <1>8, ReturnStep
<1> QED BY <1>1, <1>2, <1>3, <1>4, <1>5, <1>6, <1>7, <1>8 DEF Next

-----------------------------------------------------------------------------
(* Theorems *)

\* The invariant holds in every reachable state of the conversion.
THEOREM AlwaysInv == Spec => []Inv
BY InitInv, NextInv, PTL DEF Spec

\* The budgets of nodes, bytes and depth never run below zero.
THEOREM BudgetsHold == Spec => []TypeOK
BY AlwaysInv, PTL DEF Inv

\* The binding has taken just the references it will release.
THEOREM ReferencesAreOwned == Spec => []OwnedExactly
<1>1. Inv => OwnedExactly
  BY DEF Inv, OwnedInv, OwnedExactly
<1> QED BY <1>1, AlwaysInv, PTL

\* What an evaluation uses is alive, whatever the host drops in between: what
\* values point into has a reference of the binding (OwnedIsAlive).
THEOREM InputsStayAlive == Spec => []InputsAlive
<1>1. Inv => InputsAlive
  <2> SUFFICES ASSUME Inv, NEW c \in Calls, NEW o \in Needed(calls[c]) PROVE o \in Alive
    BY DEF InputsAlive
  <2>1. calls[c] \in Call /\ Len(calls[c].borrowed) \in Nat
    BY DEF Inv, TypeOK, Call
  <2>2. CASE o \in calls[c].values
    <3>1. PICK i \in 1..Len(calls[c].borrowed) : calls[c].borrowed[i] = o
      BY <2>2 DEF Inv, PhaseInv, Sound
    <3>2. i \in 0..Len(calls[c].borrowed) /\ i # 0
      BY <2>1
    <3>3. Refers(c, i) = o /\ o \in Objects
      BY <2>1, <2>2, <3>1, <3>2 DEF Refers, Call, Objects
    <3> QED BY <3>2, <3>3, OwnedIsAlive DEF Inv
  <2>3. CASE o = calls[c].result /\ o # NoObject
    <3>1. 0 \in 0..Len(calls[c].borrowed) /\ Refers(c, 0) = o /\ o \in Objects
      BY <2>1, <2>3 DEF Refers, Call
    <3> QED BY <3>1, OwnedIsAlive DEF Inv
  <2>4. CASE o \in {p.object : p \in ToSet(calls[c].pending)}
    <3>1. calls[c].pending \in Seq(Item)
      BY <2>1 DEF Call
    <3>2. PICK i \in 1..Len(calls[c].pending) : o = calls[c].pending[i].object
      BY <2>4, <3>1 DEF ToSet
    <3> QED BY <3>2 DEF Inv, PendingInv, PendingObjects
  <2> QED BY <2>2, <2>3, <2>4 DEF Needed
<1> QED BY <1>1, AlwaysInv, PTL
=============================================================================
