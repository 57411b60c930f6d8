-------------------------- MODULE UnificationProofs --------------------------
(***************************************************************************)
(* What holds of Unification for every store, every set of functions and   *)
(* every limit: terms keep their types, failed attempts are undone, the    *)
(* trees of variables stay balanced, and the store has exactly the         *)
(* solutions of the terms that were unified, with types that are finite.   *)
(***************************************************************************)
EXTENDS Solutions, FiniteSetTheorems, WellFoundedInduction, TLAPS

-----------------------------------------------------------------------------
(* Induction and recursion *)

\* A set of numbers has a least one: none of the intervals up to its elements
\* is a proper subset of all others.
LEMMA LeastElement ==
  ASSUME NEW N \in Nat, NEW T, T \subseteq 0..N, T # {}
  PROVE  \E m \in T : \A k \in T : m <= k
<1> DEFINE S == 0..N
           F == {0..n : n \in T}
           R == StrictSubsetOrdering(S)
<1>1. FiniteSubsetsOf(S) = SUBSET S
  <2>1. IsFiniteSet(S)
    BY FS_Interval
  <2> HIDE DEF S
  <2>2. QED
    BY <2>1, FS_FiniteSubsetsOfFinite
<1>2. F \subseteq SUBSET S /\ F # {}
  <2>1. ASSUME NEW A \in F PROVE A \in SUBSET S
    BY DEF F
  <2>2. PICK n : n \in T
    OBVIOUS
  <2>3. 0..n \in F
    BY <2>2
  <2>4. QED
    BY <2>1, <2>3
<1>3. IsWellFoundedOn(R, SUBSET S)
  BY <1>1, FS_StrictSubsetOrderingWellFounded, Zenon
<1>4. PICK A \in F : \A B \in F : <<B, A>> \notin R
  <2> HIDE DEF F, R, S
  <2> QED BY <1>2, <1>3, WFMin
<1>5. PICK m \in T : A = 0..m
  OBVIOUS
<1>6. ASSUME NEW k \in T, k < m PROVE FALSE
  <2>1. 0..k \subseteq A /\ m \in A /\ m \notin 0..k
    BY <1>5, <1>6
  <2>2. <<0..k, A>> \in R
    BY <2>1, <1>2, Zenon DEF StrictSubsetOrdering
  <2>3. QED
    BY <1>4, <2>2, Zenon
<1>7. QED
  BY <1>6

\* Induction on the numbers up to N, for the set of those with a property.
LEMMA Induction ==
  ASSUME NEW N \in Nat, NEW T, 0 \in T,
         \A n \in 1..N : n - 1 \in T => n \in T
  PROVE  0..N \subseteq T
<1> DEFINE Bad == (0..N) \ T
<1>1. SUFFICES ASSUME Bad # {} PROVE FALSE
  OBVIOUS
<1>2. PICK m \in Bad : \A k \in Bad : m <= k
  <2> HIDE DEF Bad
  <2>1. Bad \subseteq 0..N
    BY DEF Bad
  <2>2. QED
    BY <1>1, <2>1, LeastElement, Zenon
<1>3. m \in 1..N /\ m - 1 \notin Bad
  BY <1>2
<1>4. QED
  BY <1>2, <1>3

\* The functions that are defined by recursion are what their definitions say:
\* there is a function up to every depth, and so there is one for all.
LEMMA OccursDefinition ==
  /\ Occurs[0] = TooDeep(Searches)
  /\ \A n \in 1..max_depth : Occurs[n] = OccursWith(Occurs[n - 1])
<1> DEFINE F(g, n) == IF n = 0 THEN TooDeep(Searches) ELSE OccursWith(g[n - 1])
           T == {n \in 0..max_depth : \E g : g = [m \in 0..n |-> F(g, m)]}
<1>0. max_depth \in Nat
  BY LimitsAssumption
<1>1. 0 \in T
  <2> DEFINE g == [m \in 0..0 |-> TooDeep(Searches)]
  <2>1. g = [m \in 0..0 |-> F(g, m)]
    OBVIOUS
  <2> HIDE DEF g, F
  <2>2. QED
    BY <1>0, <2>1
<1>2. ASSUME NEW n \in 1..max_depth, n - 1 \in T PROVE n \in T
  <2>1. PICK g : g = [m \in 0..(n - 1) |-> F(g, m)]
    BY <1>2
  <2> DEFINE h == [m \in 0..n |-> IF m < n THEN g[m] ELSE F(g, n)]
  <2>2. \A m \in 0..n : h[m] = F(h, m)
    BY <2>1
  <2> HIDE DEF h, F
  <2>3. h = [m \in 0..n |-> F(h, m)]
    BY <2>2 DEF h
  <2>4. QED
    BY <2>3
<1>3. \E g : g = [m \in 0..max_depth |-> F(g, m)]
  <2>1. 0..max_depth \subseteq T
    <3> HIDE DEF T
    <3> QED BY <1>0, <1>1, <1>2, Induction
  <2>2. QED
    BY <1>0, <2>1
<1>4. Occurs = CHOOSE g : g = [n \in 0..max_depth |-> F(g, n)]
  BY DEF Occurs
<1>5. Occurs = [n \in 0..max_depth |-> F(Occurs, n)]
  <2> HIDE DEF F
  <2> QED BY <1>3, <1>4, Zenon
<1>6. QED
  BY <1>0, <1>5

LEMMA UnifyDefinition ==
  /\ Unify[0] = TooDeep(Pairs)
  /\ \A n \in 1..max_depth : Unify[n] = UnifyWith(Unify[n - 1], Occurs[n - 1])
<1> DEFINE F(g, n) == IF n = 0 THEN TooDeep(Pairs) ELSE UnifyWith(g[n - 1], Occurs[n - 1])
           T == {n \in 0..max_depth : \E g : g = [m \in 0..n |-> F(g, m)]}
<1>0. max_depth \in Nat
  BY LimitsAssumption
<1>1. 0 \in T
  <2> DEFINE g == [m \in 0..0 |-> TooDeep(Pairs)]
  <2>1. g = [m \in 0..0 |-> F(g, m)]
    OBVIOUS
  <2> HIDE DEF g, F
  <2>2. QED
    BY <1>0, <2>1
<1>2. ASSUME NEW n \in 1..max_depth, n - 1 \in T PROVE n \in T
  <2>1. PICK g : g = [m \in 0..(n - 1) |-> F(g, m)]
    BY <1>2
  <2> DEFINE h == [m \in 0..n |-> IF m < n THEN g[m] ELSE F(g, n)]
  <2>2. \A m \in 0..n : h[m] = F(h, m)
    BY <2>1
  <2> HIDE DEF h, F
  <2>3. h = [m \in 0..n |-> F(h, m)]
    BY <2>2 DEF h
  <2>4. QED
    BY <2>3
<1>3. \E g : g = [m \in 0..max_depth |-> F(g, m)]
  <2>1. 0..max_depth \subseteq T
    <3> HIDE DEF T
    <3> QED BY <1>0, <1>1, <1>2, Induction
  <2>2. QED
    BY <1>0, <2>1
<1>4. Unify = CHOOSE g : g = [n \in 0..max_depth |-> F(g, n)]
  BY DEF Unify
<1>5. Unify = [n \in 0..max_depth |-> F(Unify, n)]
  <2> HIDE DEF F
  <2> QED BY <1>3, <1>4
<1>6. QED
  BY <1>0, <1>5

LEMMA FinishDefinition ==
  /\ Finish[0] = TooDeep(Inputs)
  /\ \A n \in 1..max_depth : Finish[n] = FinishWith(Finish[n - 1])
<1> DEFINE F(g, n) == IF n = 0 THEN TooDeep(Inputs) ELSE FinishWith(g[n - 1])
           T == {n \in 0..max_depth : \E g : g = [m \in 0..n |-> F(g, m)]}
<1>0. max_depth \in Nat
  BY LimitsAssumption
<1>1. 0 \in T
  <2> DEFINE g == [m \in 0..0 |-> TooDeep(Inputs)]
  <2>1. g = [m \in 0..0 |-> F(g, m)]
    OBVIOUS
  <2> HIDE DEF g, F
  <2>2. QED
    BY <1>0, <2>1
<1>2. ASSUME NEW n \in 1..max_depth, n - 1 \in T PROVE n \in T
  <2>1. PICK g : g = [m \in 0..(n - 1) |-> F(g, m)]
    BY <1>2
  <2> DEFINE h == [m \in 0..n |-> IF m < n THEN g[m] ELSE F(g, n)]
  <2>2. \A m \in 0..n : h[m] = F(h, m)
    BY <2>1
  <2> HIDE DEF h, F
  <2>3. h = [m \in 0..n |-> F(h, m)]
    BY <2>2 DEF h
  <2>4. QED
    BY <2>3
<1>3. \E g : g = [m \in 0..max_depth |-> F(g, m)]
  <2>1. 0..max_depth \subseteq T
    <3> HIDE DEF T
    <3> QED BY <1>0, <1>1, <1>2, Induction
  <2>2. QED
    BY <1>0, <2>1
<1>4. Finish = CHOOSE g : g = [n \in 0..max_depth |-> F(g, n)]
  BY DEF Finish
<1>5. Finish = [n \in 0..max_depth |-> F(Finish, n)]
  <2> HIDE DEF F
  <2> QED BY <1>3, <1>4
<1>6. QED
  BY <1>0, <1>5

LEMMA InstantiateDefinition ==
  /\ Instantiate[0] = [q \in Declarations(0) |-> Fails(q.s, "DepthLimitExceeded")]
  /\ \A n \in 1..max_depth : Instantiate[n] = InstantiateWith(Instantiate[n - 1], n)
<1> DEFINE F(g, n) == IF n = 0 THEN [q \in Declarations(0) |-> Fails(q.s, "DepthLimitExceeded")] ELSE InstantiateWith(g[n - 1], n)
           T == {n \in 0..max_depth : \E g : g = [m \in 0..n |-> F(g, m)]}
<1>0. max_depth \in Nat
  BY LimitsAssumption
<1>1. 0 \in T
  <2> DEFINE g == [m \in 0..0 |-> [q \in Declarations(0) |-> Fails(q.s, "DepthLimitExceeded")]]
  <2>1. g = [m \in 0..0 |-> F(g, m)]
    OBVIOUS
  <2> HIDE DEF g, F
  <2>2. QED
    BY <1>0, <2>1
<1>2. ASSUME NEW n \in 1..max_depth, n - 1 \in T PROVE n \in T
  <2>1. PICK g : g = [m \in 0..(n - 1) |-> F(g, m)]
    BY <1>2
  <2> DEFINE h == [m \in 0..n |-> IF m < n THEN g[m] ELSE F(g, n)]
  <2>2. \A m \in 0..n : h[m] = F(h, m)
    BY <2>1
  <2> HIDE DEF h, F
  <2>3. h = [m \in 0..n |-> F(h, m)]
    BY <2>2 DEF h
  <2>4. QED
    BY <2>3
<1>3. \E g : g = [m \in 0..max_depth |-> F(g, m)]
  <2>1. 0..max_depth \subseteq T
    <3> HIDE DEF T
    <3> QED BY <1>0, <1>1, <1>2, Induction
  <2>2. QED
    BY <1>0, <2>1
<1>4. Instantiate = CHOOSE g : g = [n \in 0..max_depth |-> F(g, n)]
  BY DEF Instantiate
<1>5. Instantiate = [n \in 0..max_depth |-> F(Instantiate, n)]
  <2> HIDE DEF F
  <2> QED BY <1>3, <1>4
<1>6. QED
  BY <1>0, <1>5

LEMMA TypesDefinition ==
  /\ Types[0] = {}
  /\ \A n \in 1..(max_depth + 1) : Types[n] = TypesOver(Types[n - 1])
<1> DEFINE First == {}
           N == max_depth + 1
<1> DEFINE F(g, n) == IF n = 0 THEN First ELSE TypesOver(g[n - 1])
           T == {n \in 0..N : \E g : g = [m \in 0..n |-> F(g, m)]}
<1>0. N \in Nat
  BY LimitsAssumption
<1> HIDE DEF N, First
<1>1. 0 \in T
  <2> DEFINE g == [m \in 0..0 |-> First]
  <2>1. g = [m \in 0..0 |-> F(g, m)]
    OBVIOUS
  <2> HIDE DEF g, F
  <2>2. QED
    BY <1>0, <2>1
<1>2. ASSUME NEW n \in 1..N, n - 1 \in T PROVE n \in T
  <2>1. PICK g : g = [m \in 0..(n - 1) |-> F(g, m)]
    BY <1>2
  <2> DEFINE h == [m \in 0..n |-> IF m < n THEN g[m] ELSE F(g, n)]
  <2>2. \A m \in 0..n : h[m] = F(h, m)
    BY <2>1
  <2> HIDE DEF h, F
  <2>3. h = [m \in 0..n |-> F(h, m)]
    BY <2>2 DEF h
  <2>4. QED
    BY <2>3
<1>3. \E g : g = [m \in 0..N |-> F(g, m)]
  <2>1. 0..N \subseteq T
    <3> HIDE DEF T
    <3> QED BY <1>0, <1>1, <1>2, Induction
  <2> HIDE DEF F
  <2>2. QED
    BY <1>0, <2>1
<1>4. Types = CHOOSE g : g = [n \in 0..N |-> F(g, n)]
  BY DEF Types, N, First
<1>5. Types = [n \in 0..N |-> F(Types, n)]
  <2> HIDE DEF F
  <2> QED BY <1>3, <1>4, Zenon
<1>6. Types[0] = First /\ \A n \in 1..N : Types[n] = TypesOver(Types[n - 1])
  BY <1>0, <1>5
<1>7. QED
  BY <1>6, Zenon DEF N, First

\* So are the loops: f[n] is what there is after n rounds.
EachUpto(f, step, s, size) ==
  /\ f[0] = Returns(s, <<>>)
  /\ \A n \in 1..size : f[n] = After(step, f[n - 1], n)

LEMMA EachDefinition ==
  ASSUME NEW step, NEW s, NEW size \in Nat
  PROVE  \E f : EachUpto(f, step, s, size) /\ Each(step, s, size) = f[size]
<1> DEFINE F(g, n) == IF n = 0 THEN Returns(s, <<>>) ELSE After(step, g[n - 1], n)
           T == {n \in 0..size : \E g : g = [m \in 0..n |-> F(g, m)]}
<1>0. size \in Nat
  OBVIOUS
<1>1. 0 \in T
  <2> DEFINE g == [m \in 0..0 |-> Returns(s, <<>>)]
  <2>1. g = [m \in 0..0 |-> F(g, m)]
    OBVIOUS
  <2> HIDE DEF g, F
  <2>2. QED
    BY <1>0, <2>1
<1>2. ASSUME NEW n \in 1..size, n - 1 \in T PROVE n \in T
  <2>1. PICK g : g = [m \in 0..(n - 1) |-> F(g, m)]
    BY <1>2
  <2> DEFINE h == [m \in 0..n |-> IF m < n THEN g[m] ELSE F(g, n)]
  <2>2. \A m \in 0..n : h[m] = F(h, m)
    BY <2>1
  <2> HIDE DEF h, F
  <2>3. h = [m \in 0..n |-> F(h, m)]
    BY <2>2 DEF h
  <2>4. QED
    BY <2>3
<1>3. \E g : g = [m \in 0..size |-> F(g, m)]
  <2>1. 0..size \subseteq T
    <3> HIDE DEF T
    <3> QED BY <1>0, <1>1, <1>2, Induction
  <2> HIDE DEF F
  <2>2. QED
    BY <1>0, <2>1
<1> DEFINE f == CHOOSE g : g = [n \in 0..size |-> F(g, n)]
<1>4. f = [n \in 0..size |-> F(f, n)]
  <2> HIDE DEF F
  <2> QED BY <1>3
<1>5. Each(step, s, size) = f[size]
  BY DEF Each
<1> HIDE DEF f
<1>6. f[0] = Returns(s, <<>>) /\ \A n \in 1..size : f[n] = After(step, f[n - 1], n)
  BY <1>0, <1>4
<1>7. QED
  BY <1>5, <1>6 DEF EachUpto

OccursUpto(f, occurs, s, variable, inputs) ==
  /\ f[0] = Returns(s, FALSE)
  /\ \A n \in 1..Len(inputs) : f[n] = OccursAfter(occurs, f[n - 1], variable, inputs[n])

LEMMA OccursInAnyDefinition ==
  ASSUME NEW occurs, NEW s, NEW variable, NEW inputs, Len(inputs) \in Nat
  PROVE  \E f : /\ OccursUpto(f, occurs, s, variable, inputs)
              /\ OccursInAny(occurs, s, variable, inputs) = f[Len(inputs)]
<1> DEFINE First == Returns(s, FALSE)
           N == Len(inputs)
<1> DEFINE F(g, n) == IF n = 0 THEN First ELSE OccursAfter(occurs, g[n - 1], variable, inputs[n])
           T == {n \in 0..N : \E g : g = [m \in 0..n |-> F(g, m)]}
<1>0. N \in Nat
  OBVIOUS
<1> HIDE DEF N, First
<1>1. 0 \in T
  <2> DEFINE g == [m \in 0..0 |-> First]
  <2>1. g = [m \in 0..0 |-> F(g, m)]
    OBVIOUS
  <2> HIDE DEF g, F
  <2>2. QED
    BY <1>0, <2>1
<1>2. ASSUME NEW n \in 1..N, n - 1 \in T PROVE n \in T
  <2>1. PICK g : g = [m \in 0..(n - 1) |-> F(g, m)]
    BY <1>2
  <2> DEFINE h == [m \in 0..n |-> IF m < n THEN g[m] ELSE F(g, n)]
  <2>2. \A m \in 0..n : h[m] = F(h, m)
    BY <2>1
  <2> HIDE DEF h, F
  <2>3. h = [m \in 0..n |-> F(h, m)]
    BY <2>2 DEF h
  <2>4. QED
    BY <2>3
<1>3. \E g : g = [m \in 0..N |-> F(g, m)]
  <2>1. 0..N \subseteq T
    <3> HIDE DEF T
    <3> QED BY <1>0, <1>1, <1>2, Induction, Zenon
  <2> HIDE DEF F
  <2>2. QED
    BY <1>0, <2>1
<1> DEFINE f == CHOOSE g : g = [n \in 0..N |-> F(g, n)]
<1>4. f = [n \in 0..N |-> F(f, n)]
  <2> HIDE DEF F
  <2> QED BY <1>3, Zenon
<1>5. OccursInAny(occurs, s, variable, inputs) = f[N]
  BY DEF OccursInAny, N, First
<1> HIDE DEF f
<1>6. f[0] = First /\ \A n \in 1..N : f[n] = OccursAfter(occurs, f[n - 1], variable, inputs[n])
  BY <1>0, <1>4
<1>7. QED
  BY <1>5, <1>6, Zenon DEF N, First, OccursUpto

MatchingUpto(f, s, candidates, arguments) ==
  /\ f[0] = Returns(s, Found(<<>>, Nothing))
  /\ \A n \in 1..Len(candidates) : f[n] = MatchingAfter(f[n - 1], candidates[n], arguments)

LEMMA MatchingDefinition ==
  ASSUME NEW s, NEW candidates, NEW arguments, Len(candidates) \in Nat
  PROVE  \E f : /\ MatchingUpto(f, s, candidates, arguments)
              /\ Matching(s, candidates, arguments) = f[Len(candidates)]
<1> DEFINE N == Len(candidates)
<1> DEFINE F(g, n) == IF n = 0 THEN Returns(s, Found(<<>>, Nothing)) ELSE MatchingAfter(g[n - 1], candidates[n], arguments)
           T == {n \in 0..N : \E g : g = [m \in 0..n |-> F(g, m)]}
<1>0. N \in Nat
  OBVIOUS
<1> HIDE DEF N
<1>1. 0 \in T
  <2> DEFINE g == [m \in 0..0 |-> Returns(s, Found(<<>>, Nothing))]
  <2>1. g = [m \in 0..0 |-> F(g, m)]
    OBVIOUS
  <2> HIDE DEF g, F
  <2>2. QED
    BY <1>0, <2>1
<1>2. ASSUME NEW n \in 1..N, n - 1 \in T PROVE n \in T
  <2>1. PICK g : g = [m \in 0..(n - 1) |-> F(g, m)]
    BY <1>2
  <2> DEFINE h == [m \in 0..n |-> IF m < n THEN g[m] ELSE F(g, n)]
  <2>2. \A m \in 0..n : h[m] = F(h, m)
    BY <2>1
  <2> HIDE DEF h, F
  <2>3. h = [m \in 0..n |-> F(h, m)]
    BY <2>2 DEF h
  <2>4. QED
    BY <2>3
<1>3. \E g : g = [m \in 0..N |-> F(g, m)]
  <2>1. 0..N \subseteq T
    <3> HIDE DEF T
    <3> QED BY <1>0, <1>1, <1>2, Induction
  <2> HIDE DEF F
  <2>2. QED
    BY <1>0, <2>1
<1> DEFINE f == CHOOSE g : g = [n \in 0..N |-> F(g, n)]
<1>4. f = [n \in 0..N |-> F(f, n)]
  <2> HIDE DEF F
  <2> QED BY <1>3
<1>5. Matching(s, candidates, arguments) = f[N]
  BY DEF Matching, N
<1> HIDE DEF f
<1>6. f[0] = Returns(s, Found(<<>>, Nothing)) /\ \A n \in 1..N : f[n] = MatchingAfter(f[n - 1], candidates[n], arguments)
  BY <1>0, <1>4
<1>7. QED
  BY <1>5, <1>6 DEF N, MatchingUpto

OverloadsUpto(f, s, arity) ==
  /\ f[0] = Returns(s, <<>>)
  /\ \A n \in 1..Len(Functions) : f[n] = OverloadsAfter(f[n - 1], Functions[n], arity)

LEMMA OverloadsDefinition ==
  ASSUME NEW s, NEW arity, Len(Functions) \in Nat
  PROVE  \E f : /\ OverloadsUpto(f, s, arity)
              /\ Overloads(s, arity) = f[Len(Functions)]
<1> DEFINE N == Len(Functions)
<1> DEFINE F(g, n) == IF n = 0 THEN Returns(s, <<>>) ELSE OverloadsAfter(g[n - 1], Functions[n], arity)
           T == {n \in 0..N : \E g : g = [m \in 0..n |-> F(g, m)]}
<1>0. N \in Nat
  OBVIOUS
<1> HIDE DEF N
<1>1. 0 \in T
  <2> DEFINE g == [m \in 0..0 |-> Returns(s, <<>>)]
  <2>1. g = [m \in 0..0 |-> F(g, m)]
    OBVIOUS
  <2> HIDE DEF g, F
  <2>2. QED
    BY <1>0, <2>1
<1>2. ASSUME NEW n \in 1..N, n - 1 \in T PROVE n \in T
  <2>1. PICK g : g = [m \in 0..(n - 1) |-> F(g, m)]
    BY <1>2
  <2> DEFINE h == [m \in 0..n |-> IF m < n THEN g[m] ELSE F(g, n)]
  <2>2. \A m \in 0..n : h[m] = F(h, m)
    BY <2>1
  <2> HIDE DEF h, F
  <2>3. h = [m \in 0..n |-> F(h, m)]
    BY <2>2 DEF h
  <2>4. QED
    BY <2>3
<1>3. \E g : g = [m \in 0..N |-> F(g, m)]
  <2>1. 0..N \subseteq T
    <3> HIDE DEF T
    <3> QED BY <1>0, <1>1, <1>2, Induction
  <2> HIDE DEF F
  <2>2. QED
    BY <1>0, <2>1
<1> DEFINE f == CHOOSE g : g = [n \in 0..N |-> F(g, n)]
<1>4. f = [n \in 0..N |-> F(f, n)]
  <2> HIDE DEF F
  <2> QED BY <1>3
<1>5. Overloads(s, arity) = f[N]
  BY DEF Overloads, N
<1> HIDE DEF f
<1>6. f[0] = Returns(s, <<>>) /\ \A n \in 1..N : f[n] = OverloadsAfter(f[n - 1], Functions[n], arity)
  BY <1>0, <1>4
<1>7. QED
  BY <1>5, <1>6 DEF N, OverloadsUpto

-----------------------------------------------------------------------------
(* Stores *)

\* Named terms are neither linked nor bound; variables have no parameters, are
\* linked to variables and bound to named terms.
Shaped(store) ==
  \A t \in DOMAIN store :
    /\ \A i \in DOMAIN store[t].parameters : store[t].parameters[i] \in DOMAIN store /\ store[t].parameters[i] < t
    /\ store[t].name # NoName => store[t].parent = Nothing /\ store[t].binding = Nothing /\ store[t].rank = 0
    /\ store[t].name = NoName => store[t].parameters = <<>>
    /\ store[t].name = "wrapper" => store[t].parameters # <<>>
    /\ store[t].parent # Nothing =>
         store[t].parent \in DOMAIN store /\ store[store[t].parent].name = NoName
    /\ store[t].binding # Nothing =>
         store[t].binding \in DOMAIN store /\ store[store[t].binding].name # NoName

\* The trees of variables, as ForestBalanced has them; ranks have a bound.
Balanced(store) ==
  /\ \A t \in DOMAIN store :
       /\ store[t].parent # Nothing => store[store[t].parent].rank > store[t].rank
       /\ \A k \in Nat : k < store[t].rank =>
            \E w \in DOMAIN store : store[w].parent = t /\ store[w].rank = k
  /\ \E bound \in Nat : \A t \in DOMAIN store : store[t].rank <= bound

Sound(store) == store \in Seq(Terms) /\ Shaped(store) /\ Balanced(store)

Good(s) ==
  /\ s \in Stores
  /\ Sound(s.terms)
  /\ \A x \in s.variables : x.term \in DOMAIN s.terms
  /\ \A i \in DOMAIN s.changes : s.changes[i].variable \in DOMAIN s.terms

\* The terms that the functions of the checker get to from a term, and sets of
\* terms that they do not leave.
Links(store, t) ==
  IF store[t].parent # Nothing THEN {store[t].parent}
  ELSE IF store[t].binding # Nothing THEN {store[t].binding}
  ELSE {store[t].parameters[i] : i \in DOMAIN store[t].parameters}

Closed(store, R) == R \subseteq DOMAIN store /\ \A t \in R : Links(store, t) \subseteq R

LEMMA TermTypes ==
  ASSUME NEW store \in Seq(Terms), NEW t \in DOMAIN store
  PROVE  /\ store[t] \in Terms
         /\ store[t].parent \in Nat /\ store[t].binding \in Nat /\ store[t].rank \in Nat
         /\ store[t].parameters \in Seq(Nat) /\ store[t].name \in Names
<1>1. store[t] \in Terms
  OBVIOUS
<1>2. QED
  BY <1>1 DEF Terms

\* The whole store is closed.
LEMMA AllClosed ==
  ASSUME NEW store, Sound(store)
  PROVE  Closed(store, DOMAIN store)
BY DEF Closed, Links, Sound, Shaped

\* Climbing to the representative ends: ranks grow and have a bound.
RootMap(store, f) ==
  f = [t \in DOMAIN store |-> IF store[t].parent = Nothing THEN t ELSE f[store[t].parent]]

LEMMA RootMapExists ==
  ASSUME NEW store, Sound(store)
  PROVE  \E f : RootMap(store, f)
<1>1. PICK bound \in Nat : \A t \in DOMAIN store : store[t].rank <= bound
  BY DEF Sound, Balanced
<1> DEFINE D(k) == {t \in DOMAIN store : store[t].parent = Nothing \/ store[t].rank >= bound - k}
           F(g, t) == IF store[t].parent = Nothing THEN t ELSE g[store[t].parent]
           T == {k \in 0..bound : \E g : g = [t \in D(k) |-> F(g, t)]}
<1>2. \A t \in DOMAIN store : store[t].parent \in Nat /\ store[t].rank \in Nat
  BY TermTypes DEF Sound
<1>3. \A t \in DOMAIN store : store[t].parent # Nothing =>
        store[t].parent \in DOMAIN store /\ store[store[t].parent].rank > store[t].rank
  BY DEF Sound, Shaped, Balanced
<1>4. 0 \in T
  <2> DEFINE g == [t \in D(0) |-> t]
  <2>1. \A t \in D(0) : store[t].parent = Nothing
    BY <1>1, <1>2, <1>3
  <2>2. g = [t \in D(0) |-> F(g, t)]
    BY <2>1
  <2> HIDE DEF g, F, D
  <2>3. QED
    BY <2>2, <1>1
<1>5. ASSUME NEW k \in 1..bound, k - 1 \in T PROVE k \in T
  <2>1. PICK g : g = [t \in D(k - 1) |-> F(g, t)]
    BY <1>5
  <2> DEFINE h == [t \in D(k) |-> IF t \in D(k - 1) THEN g[t] ELSE F(g, t)]
  <2>2. ASSUME NEW t \in D(k), store[t].parent # Nothing
        PROVE  store[t].parent \in D(k - 1) /\ store[t].parent \in D(k)
    BY <1>2, <1>3, <2>2
  <2>3. ASSUME NEW t \in D(k) PROVE h[t] = F(h, t)
    <3>1. h[t] = F(g, t)
      <4> HIDE DEF D
      <4> QED BY <2>1
    <3>2. store[t].parent # Nothing => h[store[t].parent] = g[store[t].parent]
      <4> HIDE DEF D
      <4> QED BY <2>2
    <3>3. QED
      BY <3>1, <3>2
  <2> HIDE DEF h, F, D
  <2>4. h = [t \in D(k) |-> F(h, t)]
    BY <2>3 DEF h
  <2>5. QED
    BY <2>4
<1>6. bound \in T
  <2>1. 0..bound \subseteq T
    <3> HIDE DEF T
    <3> QED BY <1>4, <1>5, Induction
  <2> HIDE DEF T
  <2>2. QED
    BY <2>1, <1>1
<1>7. D(bound) = DOMAIN store
  BY <1>2
<1>8. QED
  <2>1. \E g : g = [t \in D(bound) |-> F(g, t)]
    BY <1>6
  <2>2. \E g : g = [t \in DOMAIN store |-> F(g, t)]
    <3> HIDE DEF D, F
    <3> QED BY <2>1, <1>7
  <2>3. QED
    BY <2>2 DEF RootMap

\* What representative returns.
IsRepresentative(store, t, r) ==
  /\ r \in DOMAIN store
  /\ store[r].parent = Nothing
  /\ store[t].name # NoName => r = t
  /\ store[t].name = NoName => store[r].name = NoName
  /\ store[t].rank <= store[r].rank
  /\ \A R : Closed(store, R) /\ t \in R => r \in R

LEMMA Representatives ==
  ASSUME NEW store, Sound(store)
  PROVE  \A t \in DOMAIN store :
           /\ IsRepresentative(store, t, Representative(store)[t])
           /\ store[t].parent = Nothing => Representative(store)[t] = t
           /\ store[t].parent # Nothing =>
                Representative(store)[t] = Representative(store)[store[t].parent]
<1> DEFINE f == Representative(store)
<1>1. RootMap(store, f)
  <2>1. f = CHOOSE g : RootMap(store, g)
    BY DEF Representative, RootMap
  <2> HIDE DEF f
  <2>2. QED
    BY <2>1, RootMapExists
<1>2. ASSUME NEW t \in DOMAIN store
      PROVE  /\ store[t].parent = Nothing => f[t] = t
             /\ store[t].parent # Nothing => f[t] = f[store[t].parent]
  <2> HIDE DEF f
  <2> QED BY <1>1 DEF RootMap
<1> HIDE DEF f
<1>3. PICK bound \in Nat : \A t \in DOMAIN store : store[t].rank <= bound
  BY DEF Sound, Balanced
<1>4. \A t \in DOMAIN store : store[t].parent \in Nat /\ store[t].rank \in Nat
  BY TermTypes DEF Sound
<1>5. \A t \in DOMAIN store : store[t].parent # Nothing =>
        /\ store[t].parent \in DOMAIN store /\ store[store[t].parent].rank > store[t].rank
        /\ store[store[t].parent].name = NoName /\ store[t].name = NoName
  BY DEF Sound, Shaped, Balanced
<1> DEFINE D(k) == {t \in DOMAIN store : store[t].parent = Nothing \/ store[t].rank >= bound - k}
           T == {k \in 0..bound : \A t \in D(k) : IsRepresentative(store, t, f[t])}
<1>6. ASSUME NEW t \in DOMAIN store, store[t].parent = Nothing
      PROVE  IsRepresentative(store, t, f[t])
  BY <1>2, <1>4, <1>6 DEF IsRepresentative
<1>7. 0 \in T
  BY <1>3, <1>4, <1>5, <1>6
<1>8. ASSUME NEW k \in 1..bound, k - 1 \in T PROVE k \in T
  <2>1. ASSUME NEW t \in D(k), store[t].parent # Nothing
        PROVE  IsRepresentative(store, t, f[t])
    <3> DEFINE p == store[t].parent
    <3>1. p \in D(k - 1) /\ t \in DOMAIN store
      BY <2>1, <1>4, <1>5
    <3>2. IsRepresentative(store, p, f[p])
      BY <3>1, <1>8
    <3>3. \A R : Closed(store, R) /\ t \in R => p \in R
      BY <2>1 DEF Closed, Links
    <3>4. f[p] \in DOMAIN store
      BY <3>2 DEF IsRepresentative
    <3> HIDE DEF D, T
    <3>5. QED
      BY <3>1, <3>2, <3>3, <3>4, <2>1, <1>2, <1>4, <1>5 DEF IsRepresentative
  <2>2. QED
    BY <2>1, <1>6
<1>9. \A t \in DOMAIN store : IsRepresentative(store, t, f[t])
  <2>1. 0..bound \subseteq T
    <3> HIDE DEF T
    <3> QED BY <1>7, <1>8, Induction
  <2>2. bound \in T
    <3> HIDE DEF T
    <3> QED BY <2>1, <1>3
  <2>3. D(bound) = DOMAIN store
    BY <1>4
  <2>4. QED
    BY <2>2, <2>3
<1>10. QED
  BY <1>2, <1>9 DEF f

\* What peek returns: the representative, or what it is bound to.
LEMMA Peeks ==
  ASSUME NEW store, Sound(store), NEW t \in DOMAIN store
  PROVE  Peek(store)[t] \in DOMAIN store
<1> DEFINE f == Representative(store)
           F(g, x) == IF store[f[x]].binding = Nothing THEN f[x] ELSE g[store[f[x]].binding]
           peeked == [x \in DOMAIN store |->
                        IF store[f[x]].binding = Nothing THEN f[x] ELSE store[f[x]].binding]
<1>1. \A x \in DOMAIN store : /\ f[x] \in DOMAIN store
                              /\ store[x].name # NoName => f[x] = x /\ store[x].binding = Nothing
  BY Representatives DEF IsRepresentative, Sound, Shaped
<1>2. \A x \in DOMAIN store : store[x].binding # Nothing =>
        store[x].binding \in DOMAIN store /\ store[store[x].binding].name # NoName
  BY DEF Sound, Shaped
<1>3. peeked = [x \in DOMAIN store |-> F(peeked, x)]
  <2> HIDE DEF f
  <2> QED BY <1>1, <1>2
<1>4. Peek(store) = CHOOSE g : g = [x \in DOMAIN store |-> F(g, x)]
  BY DEF Peek
<1>5. Peek(store) = [x \in DOMAIN store |-> F(Peek(store), x)]
  <2> HIDE DEF F, peeked
  <2> QED BY <1>3, <1>4
<1>6. QED
  <2> HIDE DEF f, peeked
  <2> QED BY <1>1, <1>2, <1>5

-----------------------------------------------------------------------------
(* What becomes of a store *)

\* The i-th change is the first of t after the checkpoint.
FirstChange(s, checkpoint, t, i) ==
  /\ i \in (checkpoint + 1)..Len(s.changes)
  /\ s.changes[i].variable = t
  /\ \A j \in (checkpoint + 1)..(i - 1) : s.changes[j].variable # t

\* A term as it was, or as it was made since.
Before(s0, s, t) ==
  IF t \in DOMAIN s0.terms THEN s0.terms[t] ELSE Named(s.terms[t].name, s.terms[t].parameters)

\* Every change since s0 was recorded, and the first of a term has what it was.
Trail(s0, s) ==
  /\ Len(s0.changes) <= Len(s.changes)
  /\ \A i \in 1..Len(s0.changes) : s.changes[i] = s0.changes[i]
  /\ \A t \in DOMAIN s.terms :
       \/ /\ \A i \in (Len(s0.changes) + 1)..Len(s.changes) : s.changes[i].variable # t
          /\ s.terms[t] = Before(s0, s, t)
       \/ \E i \in (Len(s0.changes) + 1)..Len(s.changes) :
            FirstChange(s, Len(s0.changes), t, i) /\ s.changes[i].previous = Before(s0, s, t)

\* s comes after s0.
Later(s0, s) ==
  /\ Good(s)
  /\ s.remaining <= s0.remaining
  /\ Len(s0.terms) <= Len(s.terms)
  /\ \A t \in DOMAIN s0.terms :
       s.terms[t].name = s0.terms[t].name /\ s.terms[t].parameters = s0.terms[t].parameters
  /\ Trail(s0, s)

\* Terms keep what they are made of.
Keeps(old, new) ==
  /\ DOMAIN old \subseteq DOMAIN new
  /\ \A t \in DOMAIN old : new[t].name = old[t].name /\ new[t].parameters = old[t].parameters

\* Terms of R, and those that were made since.
Grown(R, s0, s) == R \cup ((Len(s0.terms) + 1)..Len(s.terms))

\* Nothing changed but what is in R, which has no way out.
Within(R, s0, s) ==
  /\ \A t \in DOMAIN s0.terms \ R : s.terms[t] = s0.terms[t]
  /\ Closed(s.terms, Grown(R, s0, s))

Reached(R, s0, s) == Later(s0, s) /\ Within(R, s0, s)

LEMMA GoodTypes ==
  ASSUME NEW s, Good(s)
  PROVE  /\ s \in Stores /\ s.terms \in Seq(Terms) /\ s.remaining \in Nat
         /\ s.changes \in Seq(Changes)
         /\ Len(s.terms) \in Nat /\ DOMAIN s.terms = 1..Len(s.terms)
         /\ Len(s.changes) \in Nat /\ DOMAIN s.changes = 1..Len(s.changes)
         /\ Sound(s.terms)
BY DEF Good, Stores

LEMMA LaterGrows ==
  ASSUME NEW s0, NEW s, Good(s0), Later(s0, s)
  PROVE  /\ DOMAIN s0.terms \subseteq DOMAIN s.terms
         /\ DOMAIN s.terms = DOMAIN s0.terms \cup ((Len(s0.terms) + 1)..Len(s.terms))
         /\ \A t \in (Len(s0.terms) + 1)..Len(s.terms) : t \notin DOMAIN s0.terms
<1>1. Good(s)
  BY DEF Later
<1>2. QED
  BY <1>1, GoodTypes DEF Later

LEMMA ReachedItself ==
  ASSUME NEW s, Good(s), NEW R, Closed(s.terms, R)
  PROVE  Reached(R, s, s) /\ Grown(R, s, s) = R
<1>1. Grown(R, s, s) = R
  BY GoodTypes DEF Grown
<1>2. Trail(s, s)
  BY GoodTypes DEF Trail, Before
<1>3. QED
  BY <1>1, <1>2, GoodTypes DEF Reached, Later, Within

\* A trail continues.
LEMMA TrailContinues ==
  ASSUME NEW s0, NEW s1, NEW s2, Good(s0), Later(s0, s1), Later(s1, s2)
  PROVE  Trail(s0, s2)
<1> DEFINE c0 == Len(s0.changes)
           c1 == Len(s1.changes)
           c2 == Len(s2.changes)
<1>1. Good(s1) /\ Good(s2) /\ Trail(s0, s1) /\ Trail(s1, s2)
  BY DEF Later
<1>2. c0 \in Nat /\ c1 \in Nat /\ c2 \in Nat /\ c0 <= c1 /\ c1 <= c2
  BY <1>1, GoodTypes DEF Trail
<1>3. /\ \A i \in 1..c0 : s1.changes[i] = s0.changes[i]
      /\ \A i \in 1..c1 : s2.changes[i] = s1.changes[i]
  BY <1>1 DEF Trail
<1>4. ASSUME NEW t \in DOMAIN s2.terms
      PROVE  \/ /\ \A i \in (c0 + 1)..c2 : s2.changes[i].variable # t
                /\ s2.terms[t] = Before(s0, s2, t)
             \/ \E i \in (c0 + 1)..c2 :
                  FirstChange(s2, c0, t, i) /\ s2.changes[i].previous = Before(s0, s2, t)
  <2>1. CASE t \in DOMAIN s1.terms
    <3>1. Before(s0, s1, t) = Before(s0, s2, t) /\ Before(s1, s2, t) = s1.terms[t]
      BY <2>1 DEF Before, Later
    <3>2. CASE \E i \in (c0 + 1)..c1 : s1.changes[i].variable = t
      <4>1. PICK i \in (c0 + 1)..c1 :
              FirstChange(s1, c0, t, i) /\ s1.changes[i].previous = Before(s0, s1, t)
        BY <1>1, <2>1, <3>2 DEF Trail
      <4>2. FirstChange(s2, c0, t, i) /\ s2.changes[i].previous = Before(s0, s2, t) /\ i \in (c0 + 1)..c2
        BY <1>2, <1>3, <3>1, <4>1 DEF FirstChange
      <4>3. QED
        BY <4>2
    <3>3. CASE \A i \in (c0 + 1)..c1 : s1.changes[i].variable # t
      <4>1. s1.terms[t] = Before(s0, s1, t)
        BY <1>1, <2>1, <3>3 DEF Trail, FirstChange
      <4>2. \A i \in (c0 + 1)..c1 : s2.changes[i].variable # t
        BY <1>2, <1>3, <3>3
      <4>3. CASE \A i \in (c1 + 1)..c2 : s2.changes[i].variable # t
        <5>1. s2.terms[t] = s1.terms[t]
          BY <1>1, <3>1, <4>3 DEF Trail, FirstChange
        <5>2. QED
          BY <1>2, <3>1, <4>1, <4>2, <4>3, <5>1
      <4>4. CASE \E i \in (c1 + 1)..c2 : s2.changes[i].variable = t
        <5>1. PICK i \in (c1 + 1)..c2 :
                FirstChange(s2, c1, t, i) /\ s2.changes[i].previous = s1.terms[t]
          BY <1>1, <3>1, <4>4, Zenon DEF Trail
        <5>2. FirstChange(s2, c0, t, i) /\ i \in (c0 + 1)..c2
          BY <1>2, <4>2, <5>1 DEF FirstChange
        <5>3. QED
          BY <3>1, <4>1, <5>1, <5>2
      <4>5. QED
        BY <4>3, <4>4
    <3>4. QED
      BY <3>2, <3>3
  <2>2. CASE t \notin DOMAIN s1.terms
    <3>1. t \notin DOMAIN s0.terms
      BY <2>2, LaterGrows
    <3>2. Before(s0, s2, t) = Before(s1, s2, t)
      BY <2>2, <3>1 DEF Before
    <3>3. \A i \in (c0 + 1)..c1 : s2.changes[i].variable # t
      <4>1. c1 = Len(s1.changes) /\ DOMAIN s1.changes = 1..c1
        BY <1>1, GoodTypes
      <4>2. \A i \in 1..c1 : s1.changes[i].variable # t
        BY <1>1, <2>2, <4>1 DEF Good
      <4>3. QED
        BY <1>2, <1>3, <4>2
    <3>4. CASE \A i \in (c1 + 1)..c2 : s2.changes[i].variable # t
      <4>1. s2.terms[t] = Before(s1, s2, t)
        BY <1>1, <3>4 DEF Trail, FirstChange
      <4>2. QED
        BY <1>2, <3>2, <3>3, <3>4, <4>1
    <3>5. CASE \E i \in (c1 + 1)..c2 : s2.changes[i].variable = t
      <4>1. PICK i \in (c1 + 1)..c2 :
              FirstChange(s2, c1, t, i) /\ s2.changes[i].previous = Before(s1, s2, t)
        BY <1>1, <3>5 DEF Trail
      <4>2. FirstChange(s2, c0, t, i) /\ i \in (c0 + 1)..c2
        BY <1>2, <3>3, <4>1 DEF FirstChange
      <4>3. QED
        BY <3>2, <4>1, <4>2
    <3>6. QED
      BY <3>4, <3>5
  <2>3. QED
    BY <2>1, <2>2
<1>5. QED
  BY <1>2, <1>3, <1>4 DEF Trail

LEMMA LaterLater ==
  ASSUME NEW s0, NEW s1, NEW s2, Good(s0), Later(s0, s1), Later(s1, s2)
  PROVE  Later(s0, s2)
<1>1. Good(s1) /\ Good(s2)
  BY DEF Later
<1>2. \A t \in DOMAIN s0.terms :
        s2.terms[t].name = s0.terms[t].name /\ s2.terms[t].parameters = s0.terms[t].parameters
  BY LaterGrows DEF Later
<1>3. s2.remaining <= s0.remaining /\ Len(s0.terms) <= Len(s2.terms)
  BY <1>1, GoodTypes DEF Later
<1>4. QED
  BY <1>1, <1>2, <1>3, TrailContinues DEF Later

LEMMA ReachedGrows ==
  ASSUME NEW s0, NEW s1, NEW s2, NEW R, Good(s0), Later(s0, s1), Later(s1, s2)
  PROVE  Grown(Grown(R, s0, s1), s1, s2) = Grown(R, s0, s2)
<1>1. Good(s1) /\ Good(s2)
  BY DEF Later
<1>2. QED
  BY <1>1, GoodTypes DEF Later, Grown

\* What is reached from where one got to was reached from where one began.
LEMMA ReachedReached ==
  ASSUME NEW s0, NEW s1, NEW s2, NEW R, Good(s0),
         Reached(R, s0, s1), Reached(Grown(R, s0, s1), s1, s2)
  PROVE  Reached(R, s0, s2) /\ Grown(Grown(R, s0, s1), s1, s2) = Grown(R, s0, s2)
<1>1. Later(s0, s1) /\ Later(s1, s2)
  BY DEF Reached
<1>2. \A t \in DOMAIN s0.terms \ R : s2.terms[t] = s0.terms[t]
  BY <1>1, LaterGrows DEF Reached, Within, Grown
<1>3. Grown(Grown(R, s0, s1), s1, s2) = Grown(R, s0, s2)
  BY <1>1, ReachedGrows
<1>4. Closed(s2.terms, Grown(R, s0, s2))
  BY <1>3 DEF Reached, Within
<1>5. QED
  BY <1>1, <1>2, <1>3, <1>4, LaterLater DEF Reached, Within

\* A larger set that has no way out.
LEMMA ReachedInMore ==
  ASSUME NEW s0, NEW s, NEW R, NEW S, Good(s0),
         Reached(R, s0, s), R \subseteq S, Closed(s0.terms, S)
  PROVE  Reached(S, s0, s) /\ Grown(R, s0, s) \subseteq Grown(S, s0, s)
<1>1. Later(s0, s) /\ Good(s)
  BY DEF Reached, Later
<1>2. Grown(R, s0, s) \subseteq Grown(S, s0, s)
  BY DEF Grown
<1>3. Grown(S, s0, s) \subseteq DOMAIN s.terms
  BY <1>1, LaterGrows DEF Grown, Closed
<1>4. ASSUME NEW t \in Grown(S, s0, s) PROVE Links(s.terms, t) \subseteq Grown(S, s0, s)
  <2>1. CASE t \in Grown(R, s0, s)
    BY <2>1, <1>2 DEF Reached, Within, Closed
  <2>2. CASE t \notin Grown(R, s0, s)
    <3>1. t \in S /\ t \in DOMAIN s0.terms \ R
      BY <1>4, <2>2 DEF Grown, Closed
    <3>2. Links(s.terms, t) = Links(s0.terms, t)
      BY <3>1, Zenon DEF Reached, Within, Links
    <3>3. QED
      BY <3>1, <3>2 DEF Closed, Grown
  <2>3. QED
    BY <2>1, <2>2
<1>5. QED
  BY <1>1, <1>2, <1>3, <1>4 DEF Reached, Within, Closed

-----------------------------------------------------------------------------
(* One step *)

\* A change that touches neither terms nor changes.
Like(s0, s) ==
  /\ s \in Stores /\ s.terms = s0.terms /\ s.changes = s0.changes
  /\ s.remaining <= s0.remaining

LEMMA LikeReached ==
  ASSUME NEW s0, Good(s0), NEW s, Like(s0, s), \A x \in s.variables : x.term \in DOMAIN s.terms
  PROVE  /\ Good(s) /\ Later(s0, s)
         /\ \A R : Closed(s0.terms, R) => Reached(R, s0, s) /\ Grown(R, s0, s) = R
<1>1. Good(s)
  BY DEF Like, Good
<1>2. Trail(s0, s)
  BY GoodTypes DEF Like, Trail, Before
<1>3. Later(s0, s)
  BY <1>1, <1>2, GoodTypes DEF Later, Like
<1>4. \A R : Grown(R, s0, s) = R
  BY GoodTypes DEF Grown, Like
<1>5. QED
  BY <1>1, <1>3, <1>4 DEF Reached, Within, Like

Ticked(s) == [s EXCEPT !.remaining = @ - 1]

LEMMA TickedLike ==
  ASSUME NEW s, Good(s), s.remaining # 0
  PROVE  /\ Good(Ticked(s)) /\ Like(s, Ticked(s)) /\ Ticked(s).variables = s.variables
         /\ Later(s, Ticked(s))
         /\ \A R : Closed(s.terms, R) => Reached(R, s, Ticked(s)) /\ Grown(R, s, Ticked(s)) = R
<1>1. Like(s, Ticked(s)) /\ Ticked(s).variables = s.variables
  <2>1. s \in Stores /\ s.remaining \in Nat
    BY GoodTypes
  <2>2. s.remaining - 1 \in Nat
    BY <2>1
  <2>3. Ticked(s) \in Stores
    BY <2>1, <2>2, Zenon DEF Ticked, Stores
  <2>4. /\ Ticked(s).terms = s.terms /\ Ticked(s).changes = s.changes /\ Ticked(s).variables = s.variables
        /\ Ticked(s).remaining = s.remaining - 1
    BY <2>1 DEF Ticked, Stores
  <2>5. QED
    BY <2>1, <2>3, <2>4 DEF Like
<1>2. \A x \in Ticked(s).variables : x.term \in DOMAIN Ticked(s).terms
  BY <1>1 DEF Good, Like
<1>3. QED
  BY <1>1, <1>2, LikeReached

\* A new term of terms that there are.
Fits(s, term) ==
  /\ term = Named(term.name, term.parameters)
  /\ term.name \in Names
  /\ term.parameters \in Seq(DOMAIN s.terms)
  /\ term.name = NoName => term.parameters = <<>>
  /\ term.name = "wrapper" => term.parameters # <<>>

LEMMA AppendReached ==
  ASSUME NEW s0, Good(s0), NEW term, Fits(s0, term), NEW s, s.variables = s0.variables,
         s.terms = Append(s0.terms, term), s.changes = s0.changes, s \in Stores, s.remaining <= s0.remaining
  PROVE  /\ Good(s) /\ Later(s0, s)
         /\ DOMAIN s.terms = DOMAIN s0.terms \cup {Len(s0.terms) + 1} /\ Len(s0.terms) + 1 \notin DOMAIN s0.terms
         /\ Len(s.terms) = Len(s0.terms) + 1 /\ s.terms[Len(s0.terms) + 1] = term
         /\ \A t \in DOMAIN s0.terms : s.terms[t] = s0.terms[t]
         /\ \A R : Closed(s0.terms, R) /\ (\A i \in DOMAIN term.parameters : term.parameters[i] \in R) =>
                     Reached(R, s0, s) /\ Grown(R, s0, s) = R \cup {Len(s0.terms) + 1}
<1> DEFINE n == Len(s0.terms) + 1
<1>1. /\ s0.terms \in Seq(Terms) /\ Len(s0.terms) \in Nat /\ DOMAIN s0.terms = 1..Len(s0.terms)
      /\ Sound(s0.terms) /\ s.terms \in Seq(Terms)
  BY GoodTypes DEF Stores
<1>2. /\ Len(s.terms) = n /\ DOMAIN s.terms = DOMAIN s0.terms \cup {n} /\ n \notin DOMAIN s0.terms
      /\ s.terms[n] = term /\ \A t \in DOMAIN s0.terms : s.terms[t] = s0.terms[t]
  BY <1>1
<1>3. /\ term.parent = Nothing /\ term.binding = Nothing /\ term.rank = 0
      /\ \A i \in DOMAIN term.parameters : term.parameters[i] \in DOMAIN s0.terms
  BY DEF Fits, Named
<1> HIDE DEF n
<1>4. Shaped(s.terms)
  <2>1. ASSUME NEW t \in DOMAIN s0.terms
        PROVE  /\ \A i \in DOMAIN s.terms[t].parameters :
                    s.terms[t].parameters[i] \in DOMAIN s.terms /\ s.terms[t].parameters[i] < t
               /\ s.terms[t].parent # Nothing =>
                    s.terms[t].parent \in DOMAIN s.terms /\ s.terms[s.terms[t].parent].name = NoName
               /\ s.terms[t].binding # Nothing =>
                    s.terms[t].binding \in DOMAIN s.terms /\ s.terms[s.terms[t].binding].name # NoName
    BY <1>1, <1>2 DEF Sound, Shaped
  <2>2. ASSUME NEW t \in DOMAIN s.terms
        PROVE  /\ s.terms[t].name # NoName =>
                    s.terms[t].parent = Nothing /\ s.terms[t].binding = Nothing /\ s.terms[t].rank = 0
               /\ s.terms[t].name = NoName => s.terms[t].parameters = <<>>
               /\ s.terms[t].name = "wrapper" => s.terms[t].parameters # <<>>
    BY <1>1, <1>2, <1>3 DEF Sound, Shaped, Fits
  <2>3. \A i \in DOMAIN term.parameters : term.parameters[i] \in DOMAIN s.terms /\ term.parameters[i] < n
    BY <1>1, <1>2, <1>3 DEF n
  <2>4. QED
    BY <1>2, <1>3, <2>1, <2>2, <2>3 DEF Shaped
<1>5. Balanced(s.terms)
  <2>1. ASSUME NEW t \in DOMAIN s.terms, NEW k \in Nat, k < s.terms[t].rank
        PROVE  \E w \in DOMAIN s.terms : s.terms[w].parent = t /\ s.terms[w].rank = k
    <3>1. t \in DOMAIN s0.terms
      BY <1>2, <1>3, <2>1
    <3>2. PICK w \in DOMAIN s0.terms : s0.terms[w].parent = t /\ s0.terms[w].rank = k
      BY <1>1, <1>2, <2>1, <3>1 DEF Sound, Balanced
    <3>3. QED
      BY <1>2, <3>2
  <2>2. ASSUME NEW t \in DOMAIN s.terms, s.terms[t].parent # Nothing
        PROVE  s.terms[s.terms[t].parent].rank > s.terms[t].rank
    BY <1>1, <1>2, <1>3, <2>2 DEF Sound, Balanced, Shaped
  <2>3. PICK bound \in Nat : \A t \in DOMAIN s0.terms : s0.terms[t].rank <= bound
    BY <1>1, Zenon DEF Sound, Balanced
  <2>4. \A t \in DOMAIN s.terms : s.terms[t].rank <= bound
    BY <1>2, <1>3, <2>3
  <2>5. QED
    BY <2>1, <2>2, <2>4, Zenon DEF Balanced
<1>6. Good(s)
  BY <1>1, <1>2, <1>4, <1>5 DEF Good, Sound
<1>7. Trail(s0, s)
  <2>1. \A t \in DOMAIN s.terms : s.terms[t] = Before(s0, s, t)
    BY <1>2 DEF Before, Fits
  <2>2. QED
    BY <2>1, GoodTypes DEF Trail
<1>8. Later(s0, s)
  BY <1>1, <1>2, <1>6, <1>7, GoodTypes DEF Later, n
<1>9. ASSUME NEW R, Closed(s0.terms, R), \A i \in DOMAIN term.parameters : term.parameters[i] \in R
      PROVE  Reached(R, s0, s) /\ Grown(R, s0, s) = R \cup {n}
  <2>1. Grown(R, s0, s) = R \cup {n}
    BY <1>1, <1>2 DEF Grown, n
  <2>2. Links(s.terms, n) \subseteq R
    BY <1>2, <1>3, <1>9 DEF Links
  <2>3. \A t \in R : Links(s.terms, t) \subseteq R /\ t \in DOMAIN s.terms
    BY <1>2, <1>9 DEF Closed, Links
  <2>4. Closed(s.terms, R \cup {n})
    BY <1>2, <2>2, <2>3 DEF Closed
  <2>5. QED
    BY <1>2, <1>8, <2>1, <2>4 DEF Reached, Within
<1>10. QED
  BY <1>2, <1>6, <1>8, <1>9 DEF n

\* What NewTerm returns: the new term, or that there is no step left.
LEMMA NewTerms ==
  ASSUME NEW s0, Good(s0), NEW term, Fits(s0, term), NEW r, r = NewTerm(s0, term)
  PROVE  \/ r = Fails(s0, "CheckLimitExceeded")
         \/ /\ r.error = "none" /\ r.is = Len(s0.terms) + 1 /\ r.s.variables = s0.variables
            /\ r.s.changes = s0.changes /\ r.s.terms = Append(s0.terms, term)
            /\ r.s \in Stores /\ r.s.remaining <= s0.remaining
<1>1. CASE s0.remaining = 0
  BY <1>1 DEF NewTerm, Tick
<1>2. CASE s0.remaining # 0
  <2> DEFINE u == [Ticked(s0) EXCEPT !.terms = Append(@, term)]
  <2>1. r = Returns(u, Len(s0.terms) + 1)
    BY <1>2 DEF NewTerm, Tick, Ticked
  <2>2. Ticked(s0) \in Stores /\ Like(s0, Ticked(s0)) /\ Ticked(s0).variables = s0.variables
    BY <1>2, TickedLike, GoodTypes DEF Good
  <2>3. term \in Terms
    <3>1. term.parameters \in Seq(Nat)
      BY GoodTypes DEF Fits
    <3>2. QED
      BY <3>1 DEF Fits, Named, Terms, Nothing
  <2>4. u \in Stores /\ u.terms = Append(s0.terms, term) /\ u.changes = s0.changes
        /\ u.variables = s0.variables /\ u.remaining = Ticked(s0).remaining
    <3>1. Append(s0.terms, term) \in Seq(Terms)
      BY <2>3, GoodTypes
    <3>2. QED
      BY <2>2, <3>1, Zenon DEF Stores, Like
  <2> HIDE DEF u
  <2>5. QED
    BY <2>1, <2>2, <2>4 DEF Returns, Like
<1>3. QED
  BY <1>1, <1>2

-----------------------------------------------------------------------------
(* Changes of variables *)

\* Recording the previous contents of one more term.
LEMMA RecordedFields ==
  ASSUME NEW s, s \in Stores, NEW v \in DOMAIN s.terms
  PROVE  /\ Recorded(s, v) \in Stores
         /\ Recorded(s, v).terms = s.terms /\ Recorded(s, v).remaining = s.remaining
         /\ Recorded(s, v).variables = s.variables
         /\ Recorded(s, v).changes = Append(s.changes, [variable |-> v, previous |-> s.terms[v]])
<1>1. [variable |-> v, previous |-> s.terms[v]] \in Changes
  BY DEF Stores, Changes
<1>2. Append(s.changes, [variable |-> v, previous |-> s.terms[v]]) \in Seq(Changes)
  BY <1>1 DEF Stores
<1>3. QED
  BY <1>2, Zenon DEF Recorded, Stores

\* Variables V of a closed set were changed, each once and after it was recorded.
Changed(R, V, s0, s) ==
  /\ s \in Stores /\ s.remaining = s0.remaining /\ s.variables = s0.variables
  /\ V \subseteq R
  /\ DOMAIN s.terms = DOMAIN s0.terms
  /\ \A t \in DOMAIN s0.terms \ V : s.terms[t] = s0.terms[t]
  /\ \A t \in V : /\ s.terms[t].name = s0.terms[t].name
                  /\ s.terms[t].parameters = s0.terms[t].parameters
                  /\ Links(s.terms, t) \subseteq R
  /\ Len(s0.changes) <= Len(s.changes)
  /\ \A i \in 1..Len(s0.changes) : s.changes[i] = s0.changes[i]
  /\ \A i \in (Len(s0.changes) + 1)..Len(s.changes) :
       s.changes[i].variable \in V /\ s.changes[i].previous = s0.terms[s.changes[i].variable]
  /\ \A t \in V : \E i \in (Len(s0.changes) + 1)..Len(s.changes) : FirstChange(s, Len(s0.changes), t, i)

LEMMA ChangesReached ==
  ASSUME NEW s0, Good(s0), NEW R, Closed(s0.terms, R), NEW V, NEW s, Changed(R, V, s0, s),
         Shaped(s.terms), Balanced(s.terms)
  PROVE  Reached(R, s0, s) /\ Grown(R, s0, s) = R
<1> USE DEF Changed
<1>1. /\ Len(s.terms) = Len(s0.terms) /\ s.terms \in Seq(Terms)
      /\ Len(s.changes) \in Nat /\ DOMAIN s.changes = 1..Len(s.changes)
  BY GoodTypes DEF Stores
<1>2. Good(s)
  <2>1. \A i \in DOMAIN s.changes : s.changes[i].variable \in DOMAIN s.terms
    BY <1>1, GoodTypes DEF Good, Closed
  <2>2. QED
    BY <1>1, <2>1 DEF Good, Sound
<1>3. Trail(s0, s)
  <2>1. \A t \in DOMAIN s.terms : Before(s0, s, t) = s0.terms[t]
    BY DEF Before
  <2>2. ASSUME NEW t \in V
        PROVE  \E i \in (Len(s0.changes) + 1)..Len(s.changes) :
                 FirstChange(s, Len(s0.changes), t, i) /\ s.changes[i].previous = s0.terms[t]
    <3>1. PICK i \in (Len(s0.changes) + 1)..Len(s.changes) : FirstChange(s, Len(s0.changes), t, i)
      OBVIOUS
    <3>2. s.changes[i].previous = s0.terms[t]
      BY <3>1 DEF FirstChange
    <3>3. QED
      BY <3>1, <3>2
  <2>3. ASSUME NEW t \in DOMAIN s.terms, t \notin V
        PROVE  /\ s.terms[t] = s0.terms[t]
               /\ \A i \in (Len(s0.changes) + 1)..Len(s.changes) : s.changes[i].variable # t
    BY <2>3
  <2>4. /\ Len(s0.changes) <= Len(s.changes) /\ DOMAIN s.terms = DOMAIN s0.terms
        /\ \A i \in 1..Len(s0.changes) : s.changes[i] = s0.changes[i]
    OBVIOUS
  <2> HIDE DEF Changed
  <2>5. QED
    BY <2>1, <2>2, <2>3, <2>4 DEF Trail
<1>4. Later(s0, s)
  BY <1>1, <1>2, <1>3, GoodTypes DEF Later
<1>5. Grown(R, s0, s) = R
  BY <1>1, GoodTypes DEF Grown
<1>6. Closed(s.terms, R)
  BY DEF Closed, Links
<1>7. QED
  BY <1>4, <1>5, <1>6 DEF Reached, Within

\* Binding a variable to a named term.
LEMMA BoundReached ==
  ASSUME NEW s0, Good(s0), NEW R, Closed(s0.terms, R),
         NEW v \in R, s0.terms[v].name = NoName,
         NEW m \in R, s0.terms[m].name # NoName
  PROVE  /\ Reached(R, s0, Bound(s0, v, m)) /\ Grown(R, s0, Bound(s0, v, m)) = R
         /\ Bound(s0, v, m).variables = s0.variables
<1> DEFINE s == Bound(s0, v, m)
<1>1. /\ s0 \in Stores /\ s0.terms \in Seq(Terms) /\ v \in DOMAIN s0.terms /\ m \in DOMAIN s0.terms
      /\ m \in Nat /\ m # Nothing /\ Sound(s0.terms)
  BY GoodTypes DEF Closed, Nothing
<1>2. /\ s \in Stores /\ s.remaining = s0.remaining /\ s.variables = s0.variables
      /\ s.terms = [s0.terms EXCEPT ![v].binding = m]
      /\ s.changes = Append(s0.changes, [variable |-> v, previous |-> s0.terms[v]])
  <2>1. [s0.terms EXCEPT ![v].binding = m] \in Seq(Terms)
    <3>1. [s0.terms[v] EXCEPT !.binding = m] \in Terms
      BY <1>1, TermTypes, Zenon DEF Terms
    <3>2. QED
      BY <1>1, <3>1
  <2>2. QED
    BY <1>1, <2>1, RecordedFields, Zenon DEF Bound, Stores
<1>3. /\ DOMAIN s.terms = DOMAIN s0.terms
      /\ \A t \in DOMAIN s0.terms \ {v} : s.terms[t] = s0.terms[t]
      /\ s.terms[v] = [s0.terms[v] EXCEPT !.binding = m]
  BY <1>1, <1>2
<1>4. /\ s.terms[v].name = NoName /\ s.terms[v].parameters = s0.terms[v].parameters
      /\ s.terms[v].parent = s0.terms[v].parent
      /\ s.terms[v].rank = s0.terms[v].rank /\ s.terms[v].binding = m
  BY <1>1, <1>3, TermTypes DEF Terms
<1> HIDE DEF s
<1>5. Shaped(s.terms)
  <2>1. \A t \in DOMAIN s0.terms : s.terms[t].name = s0.terms[t].name /\ s.terms[t].parent = s0.terms[t].parent
          /\ s.terms[t].parameters = s0.terms[t].parameters /\ s.terms[t].rank = s0.terms[t].rank
    BY <1>3, <1>4, Zenon
  <2>2. ASSUME NEW t \in DOMAIN s0.terms, s.terms[t].binding # Nothing
        PROVE  s.terms[t].binding \in DOMAIN s.terms /\ s.terms[s.terms[t].binding].name # NoName
    <3>1. CASE t = v
      BY <1>1, <1>3, <1>4, <2>1, <3>1, Zenon
    <3>2. CASE t # v
      BY <1>1, <1>3, <2>1, <2>2, <3>2 DEF Shaped, Sound
    <3>3. QED
      BY <3>1, <3>2
  <2>3. ASSUME NEW t \in DOMAIN s0.terms, s.terms[t].name # NoName
        PROVE  s.terms[t].binding = Nothing
    BY <1>1, <1>3, <1>4, <2>3, Zenon DEF Shaped, Sound
  <2>4. Shaped(s0.terms)
    BY <1>1 DEF Sound
  <2>5. QED
    BY <1>3, <2>1, <2>2, <2>3, <2>4 DEF Shaped
<1>6. Balanced(s.terms)
  <2>1. \A t \in DOMAIN s0.terms : s.terms[t].rank = s0.terms[t].rank /\ s.terms[t].parent = s0.terms[t].parent
    BY <1>3, <1>4, Zenon
  <2>2. \A t \in DOMAIN s0.terms : s0.terms[t].parent # Nothing => s0.terms[t].parent \in DOMAIN s0.terms
    BY <1>1 DEF Sound, Shaped
  <2>3. Balanced(s0.terms)
    BY <1>1 DEF Sound
  <2>4. QED
    BY <1>3, <2>1, <2>2, <2>3 DEF Balanced
<1>7. Links(s.terms, v) \subseteq R
  BY <1>1, <1>4 DEF Links, Closed
<1>8. /\ Len(s0.changes) \in Nat /\ Len(s.changes) = Len(s0.changes) + 1
      /\ \A i \in 1..Len(s0.changes) : s.changes[i] = s0.changes[i]
      /\ s.changes[Len(s0.changes) + 1] = [variable |-> v, previous |-> s0.terms[v]]
  BY <1>2, GoodTypes
<1>9. FirstChange(s, Len(s0.changes), v, Len(s0.changes) + 1)
  BY <1>8 DEF FirstChange
<1>10. \A i \in (Len(s0.changes) + 1)..Len(s.changes) :
          s.changes[i].variable = v /\ s.changes[i].previous = s0.terms[v]
  BY <1>8
<1>11. Len(s0.changes) + 1 \in (Len(s0.changes) + 1)..Len(s.changes) /\ Len(s0.changes) <= Len(s.changes)
  BY <1>8
<1>12. Reached(R, s0, s) /\ Grown(R, s0, s) = R
  <2>1. Changed(R, {v}, s0, s)
    BY <1>2, <1>3, <1>4, <1>7, <1>8, <1>9, <1>10, <1>11 DEF Changed
  <2>2. QED
    BY <1>5, <1>6, <2>1, ChangesReached
<1>13. QED
  BY <1>2, <1>12 DEF s

\* Putting one root under another, for the constraint that both then have.
LEMMA MergedReached ==
  ASSUME NEW s0, Good(s0), NEW R, Closed(s0.terms, R), NEW a \in R, NEW b \in R, a # b,
         s0.terms[a].name = NoName, s0.terms[a].parent = Nothing,
         s0.terms[b].name = NoName, s0.terms[b].parent = Nothing,
         NEW c, c = Nothing \/ (c \in R /\ s0.terms[c].name # NoName)
  PROVE  /\ Reached(R, s0, Merged(s0, a, b, c)) /\ Grown(R, s0, Merged(s0, a, b, c)) = R
         /\ Merged(s0, a, b, c).variables = s0.variables /\ Root(s0, a, b) \in {a, b}
<1> DEFINE s == Merged(s0, a, b, c)
           root == Root(s0, a, b)
           leaf == Leaf(s0, a, b)
           x == s0.terms
           y == s.terms
           rank == IF x[a].rank = x[b].rank THEN x[root].rank + 1 ELSE x[root].rank
<1>1. /\ s0 \in Stores /\ x \in Seq(Terms) /\ R \subseteq DOMAIN x /\ c \in Nat /\ Sound(x)
      /\ \A t \in DOMAIN x : t # Nothing /\ t \in Nat
      /\ c # Nothing => c \in DOMAIN x /\ x[c].name # NoName
  BY GoodTypes DEF Closed, Nothing
<1>2. /\ root \in {a, b} /\ leaf \in {a, b} /\ root # leaf
      /\ x[root].name = NoName /\ x[root].parent = Nothing /\ x[leaf].name = NoName /\ x[leaf].parent = Nothing
      /\ x[leaf].rank <= x[root].rank /\ x[leaf].rank < rank
      /\ (rank = x[root].rank \/ (rank = x[root].rank + 1 /\ x[leaf].rank = x[root].rank))
      /\ rank \in Nat /\ x[root].rank \in Nat /\ x[leaf].rank \in Nat
  <2>1. x[a].rank \in Nat /\ x[b].rank \in Nat
    BY <1>1, TermTypes
  <2>2. QED
    BY <2>1 DEF Root, Leaf
<1> DEFINE down == [x[leaf] EXCEPT !.parent = root]
           up == [x[root] EXCEPT !.binding = c, !.rank = rank]
<1>3. /\ down \in Terms /\ up \in Terms
      /\ down.name = NoName /\ down.parameters = x[leaf].parameters /\ down.parent = root /\ down.rank = x[leaf].rank
      /\ down.binding = x[leaf].binding
      /\ up.name = NoName /\ up.parameters = x[root].parameters /\ up.parent = Nothing /\ up.rank = rank
      /\ up.binding = c
  <2>1. x[leaf] \in Terms /\ x[root] \in Terms /\ root \in Nat
    BY <1>1, <1>2, TermTypes
  <2> HIDE DEF x, root, leaf, rank
  <2>2. QED
    BY <1>1, <1>2, <2>1, Zenon DEF Terms
<1>4. /\ s \in Stores /\ s.remaining = s0.remaining /\ s.variables = s0.variables
      /\ y = [x EXCEPT ![leaf] = down, ![root] = up]
      /\ s.changes = Append(Append(s0.changes, [variable |-> root, previous |-> x[root]]),
                            [variable |-> leaf, previous |-> x[leaf]])
  <2> DEFINE z == [[[x EXCEPT ![leaf].parent = root] EXCEPT ![root].binding = c]
                     EXCEPT ![root].rank = IF x[a].rank = x[b].rank THEN @ + 1 ELSE @]
             w == Recorded(Recorded(s0, root), leaf)
  <2>1. root \in DOMAIN x /\ leaf \in DOMAIN x
    BY <1>1, <1>2
  <2>2. z = [x EXCEPT ![leaf] = down, ![root] = up]
    <3>1. x[leaf] \in Terms /\ x[root] \in Terms
      BY <1>1, <1>2, TermTypes
    <3> HIDE DEF x, root, leaf
    <3>2. [x EXCEPT ![leaf].parent = root] = [x EXCEPT ![leaf] = down]
      OBVIOUS
    <3>3. [x EXCEPT ![leaf] = down][root] = x[root]
      BY <1>2
    <3>4. QED
      BY <1>2, <2>1, <3>1, <3>2, <3>3, Zenon DEF Terms
  <2>3. z \in Seq(Terms)
    <3> HIDE DEF x, root, leaf, down, up, z
    <3> QED BY <1>1, <1>3, <2>1, <2>2
  <2>4. /\ w \in Stores /\ w.terms = x /\ w.remaining = s0.remaining /\ w.variables = s0.variables
        /\ w.changes = Append(Append(s0.changes, [variable |-> root, previous |-> x[root]]),
                              [variable |-> leaf, previous |-> x[leaf]])
    <3> HIDE DEF root, leaf
    <3>1. /\ Recorded(s0, root) \in Stores /\ Recorded(s0, root).terms = x
          /\ Recorded(s0, root).remaining = s0.remaining /\ Recorded(s0, root).variables = s0.variables
          /\ Recorded(s0, root).changes = Append(s0.changes, [variable |-> root, previous |-> x[root]])
      BY <1>1, <2>1, RecordedFields, Zenon
    <3>2. leaf \in DOMAIN Recorded(s0, root).terms
      BY <2>1, <3>1
    <3>3. /\ w \in Stores /\ w.terms = Recorded(s0, root).terms /\ w.remaining = Recorded(s0, root).remaining
          /\ w.variables = Recorded(s0, root).variables
          /\ w.changes = Append(Recorded(s0, root).changes,
                                [variable |-> leaf, previous |-> Recorded(s0, root).terms[leaf]])
      BY <3>1, <3>2, RecordedFields, Zenon
    <3> HIDE DEF x, w
    <3>4. QED
      BY <3>1, <3>3
  <2>5. s = [w EXCEPT !.terms = z]
    <3>1. s = [w EXCEPT !.terms = [w.terms EXCEPT
                 ![leaf].parent = root, ![root].binding = c,
                 ![root].rank = IF x[a].rank = x[b].rank THEN @ + 1 ELSE @]]
      BY DEF Merged
    <3>2. w.terms = x
      BY <2>4
    <3> HIDE DEF x, root, leaf, w, s
    <3>3. QED
      BY <3>1, <3>2
  <2> HIDE DEF x, root, leaf, down, up, z, w, s, rank
  <2>6. QED
    BY <2>2, <2>3, <2>4, <2>5, Zenon DEF Stores
<1>5. /\ DOMAIN y = DOMAIN x /\ y[leaf] = down /\ y[root] = up
      /\ \A t \in DOMAIN x \ {leaf, root} : y[t] = x[t]
  <2> HIDE DEF x, root, leaf, down, up, y
  <2>1. root \in DOMAIN x /\ leaf \in DOMAIN x
    BY <1>1, <1>2
  <2>2. QED
    BY <1>1, <1>2, <1>4, <2>1
<1>6. /\ leaf \in R /\ root \in R
      /\ \A t \in DOMAIN x : y[t].name = x[t].name /\ y[t].parameters = x[t].parameters
      /\ \A t \in DOMAIN x : t # root => y[t].rank = x[t].rank /\ y[t].binding = x[t].binding
      /\ \A t \in DOMAIN x : t # leaf => y[t].parent = x[t].parent
      /\ y[leaf].parent = root /\ y[root].rank = rank /\ y[root].binding = c
  <2> HIDE DEF x, root, leaf, down, up, y, rank
  <2> QED BY <1>2, <1>3, <1>5
<1>7. Shaped(x) /\ Balanced(x)
  BY <1>1 DEF Sound
<1>8. /\ root \in DOMAIN x /\ leaf \in DOMAIN x /\ leaf # Nothing /\ root # Nothing
      /\ \A t \in DOMAIN x : x[t].rank \in Nat
  BY <1>1, <1>6, TermTypes, Zenon
<1> HIDE DEF x, y, s, root, leaf, rank, up, down
<1>9. Shaped(y)
  <2>1. ASSUME NEW t \in DOMAIN y
        PROVE  /\ \A i \in DOMAIN y[t].parameters : y[t].parameters[i] \in DOMAIN y /\ y[t].parameters[i] < t
               /\ y[t].name # NoName => y[t].parent = Nothing /\ y[t].binding = Nothing /\ y[t].rank = 0
               /\ y[t].name = NoName => y[t].parameters = <<>>
               /\ y[t].name = "wrapper" => y[t].parameters # <<>>
    BY <1>2, <1>5, <1>6, <1>7 DEF Shaped
  <2>2. ASSUME NEW t \in DOMAIN y, y[t].parent # Nothing
        PROVE  y[t].parent \in DOMAIN y /\ y[y[t].parent].name = NoName
    BY <1>2, <1>5, <1>6, <1>7, <1>8, <2>2 DEF Shaped
  <2>3. ASSUME NEW t \in DOMAIN y, y[t].binding # Nothing
        PROVE  y[t].binding \in DOMAIN y /\ y[y[t].binding].name # NoName
    <3>1. CASE t = root
      <4>1. c # Nothing /\ y[t].binding = c
        BY <1>6, <2>3, <3>1
      <4>2. QED
        BY <1>1, <1>5, <1>6, <4>1
    <3>2. CASE t # root
      <4>1. t \in DOMAIN x /\ y[t].binding = x[t].binding
        BY <1>5, <1>6, <3>2
      <4>2. x[t].binding \in DOMAIN x /\ x[x[t].binding].name # NoName
        BY <1>7, <2>3, <4>1 DEF Shaped
      <4>3. QED
        BY <1>5, <1>6, <4>1, <4>2
    <3>3. QED
      BY <3>1, <3>2
  <2>4. QED
    BY <2>1, <2>2, <2>3 DEF Shaped
<1>10. Balanced(y)
  <2>1. ASSUME NEW t \in DOMAIN y, y[t].parent # Nothing
        PROVE  y[y[t].parent].rank > y[t].rank
    <3>1. CASE t = leaf
      BY <1>2, <1>5, <1>6, <1>8, <3>1
    <3>2. CASE t # leaf
      <4>1. y[t].parent = x[t].parent /\ x[t].parent \in DOMAIN x /\ x[x[t].parent].rank > x[t].rank
        BY <1>5, <1>6, <1>7, <2>1, <3>2 DEF Balanced, Shaped
      <4>2. t # root
        BY <1>2, <1>6, <2>1, <4>1
      <4>3. y[t].rank = x[t].rank /\ y[x[t].parent].rank >= x[x[t].parent].rank
        BY <1>2, <1>5, <1>6, <1>8, <4>1, <4>2
      <4>4. y[x[t].parent].rank \in Nat /\ x[t].rank \in Nat
        BY <1>2, <1>5, <1>6, <1>8, <4>1
      <4>5. QED
        BY <1>5, <1>8, <4>1, <4>3, <4>4
    <3>3. QED
      BY <3>1, <3>2
  <2>2. ASSUME NEW t \in DOMAIN y, NEW k \in Nat, k < y[t].rank
        PROVE  \E w \in DOMAIN y : y[w].parent = t /\ y[w].rank = k
    <3>1. CASE k < x[t].rank
      <4>1. PICK w \in DOMAIN x : x[w].parent = t /\ x[w].rank = k
        BY <1>5, <1>7, <3>1 DEF Balanced
      <4>2. w # leaf /\ w # root
        BY <1>1, <1>2, <1>5, <4>1, Zenon
      <4>3. QED
        BY <1>5, <1>6, <4>1, <4>2
    <3>2. CASE ~(k < x[t].rank)
      <4>1. t = root /\ k = x[leaf].rank
        BY <1>2, <1>5, <1>6, <1>8, <2>2, <3>2
      <4>2. QED
        BY <1>2, <1>5, <1>6, <1>8, <4>1
    <3>3. QED
      BY <3>1, <3>2
  <2>3. PICK bound \in Nat : \A t \in DOMAIN x : x[t].rank <= bound
    BY <1>7 DEF Balanced
  <2>4. \A t \in DOMAIN y : y[t].rank <= bound + 1
    BY <1>2, <1>5, <1>6, <1>8, <2>3
  <2>5. \E n \in Nat : \A t \in DOMAIN y : y[t].rank <= n
    <3>1. bound + 1 \in Nat
      OBVIOUS
    <3>2. QED
      BY <2>4, <3>1
  <2> HIDE DEF x, y
  <2>6. QED
    BY <2>1, <2>2, <2>5 DEF Balanced
<1>11. Links(y, leaf) \subseteq R /\ Links(y, root) \subseteq R
  <2>1. Links(y, leaf) \subseteq R
    BY <1>6, <1>8 DEF Links
  <2>2. y[root].parent = Nothing /\ x[root].parent = Nothing
    BY <1>2, <1>5, <1>6, <1>8
  <2>3. CASE c # Nothing
    BY <1>6, <2>1, <2>2, <2>3 DEF Links
  <2>4. CASE c = Nothing
    <3>1. y[root].parameters = <<>>
      BY <1>2, <1>5, <1>6, <1>7, <1>8 DEF Shaped
    <3>2. QED
      BY <1>6, <2>1, <2>2, <2>4, <3>1 DEF Links
  <2>5. QED
    BY <2>1, <2>3, <2>4
<1>12. Changed(R, {root, leaf}, s0, s)
  <2> DEFINE n == Len(s0.changes)
  <2>1. /\ n \in Nat /\ Len(s.changes) = n + 2
        /\ \A i \in 1..n : s.changes[i] = s0.changes[i]
        /\ s.changes[n + 1] = [variable |-> root, previous |-> x[root]]
        /\ s.changes[n + 2] = [variable |-> leaf, previous |-> x[leaf]]
    BY <1>4, GoodTypes
  <2>2. \A i \in (n + 1)..Len(s.changes) : i = n + 1 \/ i = n + 2
    BY <2>1
  <2> HIDE DEF n
  <2>3. /\ FirstChange(s, n, root, n + 1) /\ FirstChange(s, n, leaf, n + 2)
        /\ n + 1 \in (n + 1)..Len(s.changes) /\ n + 2 \in (n + 1)..Len(s.changes)
    BY <1>2, <2>1 DEF FirstChange
  <2>4. \A i \in (n + 1)..Len(s.changes) :
          s.changes[i].variable \in {root, leaf} /\ s.changes[i].previous = x[s.changes[i].variable]
    BY <2>1, <2>2
  <2>5. n <= Len(s.changes)
    BY <2>1
  <2>6. /\ s \in Stores /\ s.remaining = s0.remaining /\ s.variables = s0.variables
        /\ {root, leaf} \subseteq R /\ DOMAIN y = DOMAIN x
        /\ \A t \in DOMAIN x \ {root, leaf} : y[t] = x[t]
        /\ \A t \in {root, leaf} : /\ y[t].name = x[t].name /\ y[t].parameters = x[t].parameters
                                  /\ Links(y, t) \subseteq R
    BY <1>4, <1>5, <1>6, <1>8, <1>11, Zenon
  <2>7. \A t \in {root, leaf} : \E i \in (n + 1)..Len(s.changes) : FirstChange(s, n, t, i)
    BY <2>3
  <2>8. QED
    BY <2>1, <2>4, <2>5, <2>6, <2>7 DEF Changed, n, x, y
<1>13. QED
  <2>1. Shaped(s.terms) /\ Balanced(s.terms)
    BY <1>9, <1>10 DEF y
  <2>2. Reached(R, s0, s) /\ Grown(R, s0, s) = R
    BY <1>12, <2>1, ChangesReached
  <2>3. QED
    BY <1>2, <1>4, <2>2 DEF s, root

-----------------------------------------------------------------------------
(* occurs *)

\* A closed set without v, in which every path ends: h counts its steps.
GroundedIn(store, v, R, h, bound) ==
  /\ Closed(store, R) /\ v \notin R
  /\ bound \in Nat /\ h \in [R -> 0..bound]
  /\ \A x \in R : \A y \in Links(store, x) : h[y] < h[x]

Grounded(store, v, S) ==
  \E R, h, bound : S \subseteq R /\ GroundedIn(store, v, R, h, bound)

LEMMA GroundedNothing ==
  ASSUME NEW store, NEW v
  PROVE  Grounded(store, v, {})
<1>1. GroundedIn(store, v, {}, [x \in {} |-> 0], 0)
  BY DEF GroundedIn, Closed
<1>2. QED
  BY <1>1 DEF Grounded

LEMMA GroundedUnion ==
  ASSUME NEW store, NEW v, NEW S, NEW T, Grounded(store, v, S), Grounded(store, v, T)
  PROVE  Grounded(store, v, S \cup T)
<1>1. PICK R1, h1, b1 : S \subseteq R1 /\ GroundedIn(store, v, R1, h1, b1)
  BY DEF Grounded
<1>2. PICK R2, h2, b2 : T \subseteq R2 /\ GroundedIn(store, v, R2, h2, b2)
  BY DEF Grounded
<1> DEFINE R == R1 \cup R2
           bound == b1 + b2
           h == [x \in R |-> IF x \notin R2 THEN h1[x] ELSE IF x \notin R1 THEN h2[x]
                             ELSE IF h1[x] <= h2[x] THEN h1[x] ELSE h2[x]]
<1>3. /\ b1 \in Nat /\ b2 \in Nat
      /\ \A x \in R1 : h1[x] \in Nat /\ h1[x] <= b1
      /\ \A x \in R2 : h2[x] \in Nat /\ h2[x] <= b2
  BY <1>1, <1>2 DEF GroundedIn
<1>4. /\ \A x \in R1 : h[x] \in Nat /\ h[x] <= h1[x]
      /\ \A x \in R2 : h[x] \in Nat /\ h[x] <= h2[x]
      /\ \A x \in R : (x \in R1 /\ h[x] = h1[x]) \/ (x \in R2 /\ h[x] = h2[x])
  BY <1>3
<1>5. h \in [R -> 0..bound]
  BY <1>3, <1>4
<1>6. ASSUME NEW x \in R, NEW y \in Links(store, x) PROVE h[y] < h[x]
  <2> HIDE DEF h
  <2>1. CASE x \in R1 /\ h[x] = h1[x]
    BY <1>1, <1>3, <1>4, <1>6, <2>1 DEF GroundedIn, Closed
  <2>2. CASE x \in R2 /\ h[x] = h2[x]
    BY <1>2, <1>3, <1>4, <1>6, <2>2 DEF GroundedIn, Closed
  <2>3. QED
    BY <1>4, <2>1, <2>2
<1>7. Closed(store, R) /\ v \notin R
  BY <1>1, <1>2 DEF GroundedIn, Closed
<1>8. QED
  <2> HIDE DEF h
  <2>1. GroundedIn(store, v, R, h, bound)
    BY <1>3, <1>5, <1>6, <1>7 DEF GroundedIn
  <2>2. S \cup T \subseteq R
    BY <1>1, <1>2
  <2> HIDE DEF R, bound
  <2>3. QED
    BY <2>1, <2>2 DEF Grounded

\* What the representative of t leads to is grounded, and so is t: the variables
\* of a tree get to its root, by growing ranks.
LEMMA GroundedTerm ==
  ASSUME NEW store, Sound(store), NEW v \in DOMAIN store, store[v].parent = Nothing,
         NEW t \in DOMAIN store, Representative(store)[t] # v,
         Grounded(store, v, Links(store, Representative(store)[t]))
  PROVE  Grounded(store, v, {t})
<1> DEFINE f == Representative(store)
           r == f[t]
           W == {w \in DOMAIN store : f[w] = r}
<1>1. PICK Q, g, b : Links(store, r) \subseteq Q /\ GroundedIn(store, v, Q, g, b)
  BY DEF Grounded
<1>2. /\ \A w \in DOMAIN store : /\ f[w] \in DOMAIN store
                                 /\ store[w].rank <= store[f[w]].rank
                                 /\ store[w].parent = Nothing => f[w] = w
                                 /\ store[w].parent # Nothing => f[w] = f[store[w].parent]
      /\ store[r].parent = Nothing /\ r # v
  BY Representatives DEF IsRepresentative
<1>3. \A w \in DOMAIN store : store[w].parent # Nothing =>
        store[w].parent \in DOMAIN store /\ store[store[w].parent].rank > store[w].rank
  BY DEF Sound, Shaped, Balanced
<1>4. \A w \in DOMAIN store : store[w].rank \in Nat
  BY TermTypes DEF Sound
<1> HIDE DEF f
<1>5. v \notin W /\ r \in W /\ t \in W
  BY <1>2
<1> DEFINE R == Q \cup W
           bound == b + 1 + store[r].rank
           h == [x \in R |-> IF x \in Q THEN g[x] ELSE b + 1 + (store[r].rank - store[x].rank)]
<1>6. /\ b \in Nat /\ \A x \in Q : g[x] \in Nat /\ g[x] <= b
      /\ store[r].rank \in Nat /\ r \in DOMAIN store
  BY <1>1, <1>2, <1>4 DEF GroundedIn
<1>7. \A x \in W \ Q : store[r].rank - store[x].rank \in 0..store[r].rank
  BY <1>2, <1>4, <1>6
<1>8. h \in [R -> 0..bound]
  BY <1>6, <1>7
<1>9. ASSUME NEW x \in R PROVE Links(store, x) \subseteq R /\ \A y \in Links(store, x) : h[y] < h[x]
  <2>1. CASE x \in Q
    BY <1>1, <2>1 DEF GroundedIn, Closed
  <2>2. CASE x \notin Q /\ x # r
    <3>1. x \in W /\ x \in DOMAIN store /\ f[x] = r
      BY <1>9, <2>2
    <3>2. store[x].parent # Nothing
      BY <1>2, <2>2, <3>1
    <3>3. Links(store, x) = {store[x].parent} /\ store[x].parent \in W
      BY <1>2, <1>3, <3>1, <3>2 DEF Links
    <3>4. CASE store[x].parent \in Q
      BY <1>6, <1>7, <2>2, <3>1, <3>3, <3>4
    <3>5. CASE store[x].parent \notin Q
      <4> DEFINE q == store[x].parent
      <4>1. q \in W \ Q /\ q \in DOMAIN store /\ store[q].rank > store[x].rank
        BY <1>3, <3>1, <3>2, <3>3, <3>5
      <4>2. h[q] = b + 1 + (store[r].rank - store[q].rank)
        BY <4>1
      <4>3. h[x] = b + 1 + (store[r].rank - store[x].rank)
        BY <2>2, <3>1
      <4> HIDE DEF h, W
      <4>4. h[q] < h[x]
        BY <1>4, <1>6, <3>1, <4>1, <4>2, <4>3
      <4>5. QED
        BY <3>3, <4>4
    <3>6. QED
      BY <3>4, <3>5
  <2>3. CASE x \notin Q /\ x = r
    BY <1>1, <1>6, <1>5, <2>3
  <2>4. QED
    BY <2>1, <2>2, <2>3
<1>10. QED
  <2>1. Closed(store, R) /\ v \notin R
    BY <1>1, <1>5, <1>9 DEF GroundedIn, Closed
  <2>2. {t} \subseteq R /\ bound \in Nat
    BY <1>5, <1>6
  <2> HIDE DEF R, h, bound
  <2>3. GroundedIn(store, v, R, h, bound)
    BY <1>8, <1>9, <2>1, <2>2 DEF GroundedIn
  <2>4. QED
    BY <2>2, <2>3 DEF Grounded

\* The answer to a search for v in the terms of S.
Searched(s0, v, S, r) ==
  /\ Like(s0, r.s) /\ r.s.variables = s0.variables
  /\ r.error = "none" => r.is \in BOOLEAN /\ (r.is = FALSE => Grounded(s0.terms, v, S))

Finds(occurs) ==
  \A s, v, t :
    Good(s) /\ v \in DOMAIN s.terms /\ s.terms[v].parent = Nothing /\ t \in DOMAIN s.terms =>
      Searched(s, v, {t}, occurs[Search(s, v, t)])

\* What is like a good store is good, and the same is grounded in it.
LEMMA LikeGood ==
  ASSUME NEW s0, Good(s0), NEW s, Like(s0, s), s.variables = s0.variables
  PROVE  Good(s)
BY DEF Good, Like

LEMMA SearchedAfter ==
  ASSUME NEW s0, Good(s0), NEW s1, Like(s0, s1), s1.variables = s0.variables,
         NEW v, NEW S, NEW r, Searched(s1, v, S, r)
  PROVE  Searched(s0, v, S, r)
BY LikeGood, GoodTypes DEF Searched, Like

LEMMA SearchesInAny ==
  ASSUME NEW occurs, Finds(occurs), NEW s, Good(s), NEW v \in DOMAIN s.terms, s.terms[v].parent = Nothing,
         NEW inputs \in Seq(DOMAIN s.terms)
  PROVE  Searched(s, v, {inputs[i] : i \in DOMAIN inputs}, OccursInAny(occurs, s, v, inputs))
<1> DEFINE size == Len(inputs)
           S(n) == {inputs[i] : i \in 1..n}
<1>1. PICK f : OccursUpto(f, occurs, s, v, inputs) /\ OccursInAny(occurs, s, v, inputs) = f[size]
  <2>1. Len(inputs) \in Nat
    OBVIOUS
  <2>2. QED
    BY <2>1, OccursInAnyDefinition
<1> DEFINE T == {n \in 0..size : Searched(s, v, S(n), f[n])}
<1>2. 0 \in T
  <2>1. Like(s, s)
    BY GoodTypes DEF Like
  <2>2. S(0) = {}
    OBVIOUS
  <2>3. Grounded(s.terms, v, {})
    BY GroundedNothing
  <2>4. f[0].s = s /\ f[0].error = "none" /\ f[0].is = FALSE
    BY <1>1 DEF Returns, OccursUpto
  <2> HIDE DEF S
  <2>5. Searched(s, v, S(0), f[0])
    BY <2>1, <2>2, <2>3, <2>4, Zenon DEF Searched
  <2>6. QED
    BY <2>5
<1>3. ASSUME NEW n \in 1..size, n - 1 \in T PROVE n \in T
  <2> DEFINE q == f[n - 1]
             a == occurs[Search(q.s, v, inputs[n])]
  <2>1. Searched(s, v, S(n - 1), q)
    BY <1>3
  <2>2. f[n] = IF q.error = "none" THEN (IF q.is THEN Returns(q.s, TRUE) ELSE a) ELSE q
    BY <1>1, Zenon DEF OccursUpto, OccursAfter, Then
  <2>3. S(n) = S(n - 1) \cup {inputs[n]}
    OBVIOUS
  <2> HIDE DEF q, S
  <2>4. CASE q.error # "none"
    BY <2>1, <2>2, <2>4 DEF Searched
  <2>5. CASE q.error = "none" /\ q.is = TRUE
    <3>1. f[n] = Returns(q.s, TRUE)
      BY <2>2, <2>5, Zenon
    <3>2. Searched(s, v, S(n), f[n])
      BY <2>1, <3>1 DEF Searched, Returns
    <3>3. QED
      BY <3>2
  <2>6. CASE q.error = "none" /\ q.is = FALSE
    <3>1. Like(s, q.s) /\ q.s.variables = s.variables /\ Grounded(s.terms, v, S(n - 1))
      BY <2>1, <2>6 DEF Searched
    <3>2. Good(q.s) /\ q.s.terms = s.terms
      BY <3>1, LikeGood DEF Like
    <3>3. Searched(q.s, v, {inputs[n]}, a)
      <4>1. inputs[n] \in DOMAIN s.terms
        OBVIOUS
      <4>2. QED
        BY <3>2, <4>1, Zenon DEF Finds
    <3> HIDE DEF a
    <3>4. Searched(s, v, {inputs[n]}, a)
      BY <3>1, <3>3, SearchedAfter
    <3>5. Grounded(s.terms, v, {inputs[n]}) => Grounded(s.terms, v, S(n))
      BY <2>3, <3>1, GroundedUnion
    <3>6. f[n] = a
      BY <2>1, <2>2, <2>6, Zenon DEF Searched
    <3>7. QED
      BY <3>4, <3>5, <3>6 DEF Searched
  <2>7. QED
    BY <2>1, <2>4, <2>5, <2>6, Zenon DEF Searched
<1>4. size \in T
  <2>1. size \in Nat
    OBVIOUS
  <2> HIDE DEF T, size
  <2>2. 0..size \subseteq T
    BY <1>2, <1>3, <2>1, Induction, Zenon
  <2>3. QED
    BY <2>1, <2>2
<1>5. DOMAIN inputs = 1..size
  OBVIOUS
<1>6. Searched(s, v, S(size), OccursInAny(occurs, s, v, inputs))
  BY <1>1, <1>4
<1>7. QED
  BY <1>5, <1>6, Zenon

\* A variable that is not found in a term is not reached from it, and every path
\* from it ends.
LEMMA OccursFinds ==
  \A n \in 0..max_depth : Finds(Occurs[n])
<1> DEFINE T == {n \in 0..max_depth : Finds(Occurs[n])}
<1>0. max_depth \in Nat
  BY LimitsAssumption
<1>1. ASSUME NEW s, Good(s), NEW v \in DOMAIN s.terms, NEW t \in DOMAIN s.terms
      PROVE  /\ Search(s, v, t) \in Searches
             /\ Search(s, v, t).s = s /\ Search(s, v, t).variable = v /\ Search(s, v, t).input = t
  BY <1>1, GoodTypes DEF Search, Searches
<1>2. 0 \in T
  <2>1. ASSUME NEW s, Good(s), NEW v \in DOMAIN s.terms, NEW t \in DOMAIN s.terms
        PROVE  Searched(s, v, {t}, Occurs[0][Search(s, v, t)])
    <3>1. Occurs[0][Search(s, v, t)] =
            IF s.remaining = 0 THEN Fails(s, "CheckLimitExceeded") ELSE Fails(Ticked(s), "DepthLimitExceeded")
      BY <2>1, <1>1, OccursDefinition DEF TooDeep, Tick, Ticked
    <3>2. Like(s, s)
      BY <2>1, GoodTypes DEF Like
    <3>3. QED
      BY <2>1, <3>1, <3>2, TickedLike DEF Searched, Fails
  <2>2. QED
    BY <1>0, <2>1 DEF Finds
<1>3. ASSUME NEW n \in 1..max_depth, n - 1 \in T PROVE n \in T
  <2> DEFINE occurs == Occurs[n - 1]
  <2>1. ASSUME NEW s, Good(s), NEW v \in DOMAIN s.terms, s.terms[v].parent = Nothing, NEW t \in DOMAIN s.terms
        PROVE  Searched(s, v, {t}, Occurs[n][Search(s, v, t)])
    <3> DEFINE u == Ticked(s)
               r == Representative(u.terms)[t]
               a == Occurs[n][Search(s, v, t)]
    <3>1. a = IF s.remaining = 0 THEN Fails(s, "CheckLimitExceeded") ELSE OccursIn(occurs, u, v, r)
      <4>1. Occurs[n] = OccursWith(occurs)
        BY OccursDefinition
      <4> HIDE DEF occurs
      <4>2. QED
        BY <2>1, <1>1, <4>1 DEF OccursWith, Tick, Ticked
    <3>2. CASE s.remaining = 0
      <4>1. Like(s, s)
        BY <2>1, GoodTypes DEF Like
      <4>2. QED
        BY <3>1, <3>2, <4>1 DEF Searched, Fails
    <3>3. CASE s.remaining # 0
      <4> HIDE DEF a
      <4>1. Good(u) /\ Like(s, u) /\ u.variables = s.variables /\ u.terms = s.terms
        BY <2>1, <3>3, TickedLike DEF Like
      <4>2. IsRepresentative(s.terms, t, r) /\ Sound(s.terms)
        BY <4>1, Representatives DEF Good
      <4> HIDE DEF u
      <4>3. r \in DOMAIN s.terms /\ s.terms[r].parent = Nothing
        BY <4>2 DEF IsRepresentative
      <4>4. CASE v = r
        <5>1. a = Returns(u, TRUE)
          BY <3>1, <3>3, <4>4 DEF OccursIn
        <5>2. a.s = u /\ a.error = "none" /\ a.is = TRUE
          BY <5>1 DEF Returns
        <5>3. QED
          BY <4>1, <5>2, Zenon DEF Searched, a
      <4>5. CASE v # r /\ s.terms[r].binding # Nothing
        <5>1. a = occurs[Search(u, v, s.terms[r].binding)]
          BY <3>1, <3>3, <4>1, <4>5 DEF OccursIn
        <5>2. s.terms[r].binding \in DOMAIN s.terms
          BY <4>2, <4>3, <4>5 DEF Sound, Shaped
        <5>3. Searched(u, v, {s.terms[r].binding}, a)
          BY <1>3, <2>1, <4>1, <5>1, <5>2 DEF Finds
        <5>4. Links(s.terms, r) = {s.terms[r].binding}
          BY <4>3, <4>5 DEF Links
        <5>5. QED
          <6>1. Searched(s, v, Links(s.terms, r), a)
            BY <2>1, <4>1, <5>3, <5>4, SearchedAfter
          <6>2. QED
            BY <2>1, <4>1, <4>2, <4>5, <6>1, GroundedTerm, Zenon DEF Searched, a
      <4>6. CASE v # r /\ s.terms[r].binding = Nothing
        <5> DEFINE inputs == s.terms[r].parameters
        <5>1. a = OccursInAny(occurs, u, v, inputs)
          BY <3>1, <3>3, <4>1, <4>6 DEF OccursIn
        <5>2. inputs \in Seq(DOMAIN s.terms)
          <6>1. inputs \in Seq(Nat)
            BY <4>2, <4>3, TermTypes DEF Sound
          <6>2. \A i \in 1..Len(inputs) : inputs[i] \in DOMAIN s.terms
            BY <4>2, <4>3, <6>1 DEF Sound, Shaped
          <6>3. QED
            BY <6>1, <6>2
        <5>3. Finds(occurs)
          BY <1>3
        <5>4. Searched(u, v, {inputs[i] : i \in DOMAIN inputs}, a)
          <6> HIDE DEF inputs, occurs
          <6> QED BY <2>1, <4>1, <5>1, <5>2, <5>3, SearchesInAny
        <5>5. Links(s.terms, r) = {inputs[i] : i \in DOMAIN inputs}
          BY <4>3, <4>6 DEF Links
        <5>6. QED
          <6>1. Searched(s, v, Links(s.terms, r), a)
            BY <2>1, <4>1, <5>4, <5>5, SearchedAfter
          <6>2. QED
            BY <2>1, <4>1, <4>2, <4>6, <6>1, GroundedTerm DEF Searched, a
      <4>7. QED
        BY <4>4, <4>5, <4>6
    <3>4. QED
      BY <3>2, <3>3
  <2>2. Finds(Occurs[n])
    BY <2>1 DEF Finds
  <2>3. QED
    BY <2>2
<1>4. 0..max_depth \subseteq T
  <2> HIDE DEF T
  <2> QED BY <1>0, <1>2, <1>3, Induction
<1>5. QED
  BY <1>4

-----------------------------------------------------------------------------
(* unify *)

\* Nothing but named terms was made.
OnlyNamed(s0, s) == \A t \in (Len(s0.terms) + 1)..Len(s.terms) : s.terms[t].name # NoName

\* What unify leaves: no new variables, and nothing changed but what is in R.
Went(R, s0, s) == Reached(R, s0, s) /\ OnlyNamed(s0, s)

\* What comes of unifying two terms of a closed set.
Unified(R, s0, left, right, r) ==
  /\ Went(R, s0, r.s) /\ r.s.variables = s0.variables
  /\ r.error = "none" =>
       /\ r.is \in Grown(R, s0, r.s)
       /\ s0.terms[left].name # NoName /\ s0.terms[right].name # NoName => r.s.terms[r.is].name # NoName

Unifies(unify) ==
  \A s, R, left, right :
    Good(s) /\ Closed(s.terms, R) /\ left \in R /\ right \in R =>
      Unified(R, s, left, right, unify[Pair(s, left, right)])

\* What holds wherever one got to.
LEMMA ReachedGood ==
  ASSUME NEW s0, Good(s0), NEW s, NEW R, Reached(R, s0, s)
  PROVE  /\ Good(s) /\ Later(s0, s) /\ Closed(s.terms, Grown(R, s0, s)) /\ R \subseteq Grown(R, s0, s)
         /\ \A t \in DOMAIN s0.terms : s.terms[t].name = s0.terms[t].name /\ t \in DOMAIN s.terms
BY LaterGrows DEF Reached, Later, Within, Grown

LEMMA GrownGrows ==
  ASSUME NEW s0, Good(s0), NEW s1, Later(s0, s1), NEW s2, Later(s1, s2), NEW R
  PROVE  Grown(R, s0, s1) \subseteq Grown(R, s0, s2)
BY GoodTypes DEF Later, Grown

\* A new term, at the end.
LEMMA NewTermReached ==
  ASSUME NEW s0, Good(s0), NEW R, NEW s, Reached(R, s0, s), NEW term, Fits(s, term),
         \A i \in DOMAIN term.parameters : term.parameters[i] \in Grown(R, s0, s),
         NEW r, r = NewTerm(s, term)
  PROVE  /\ Reached(R, s0, r.s) /\ r.s.variables = s.variables /\ r.s.changes = s.changes
         /\ r.error = "none" => r.is \in Grown(R, s0, r.s) /\ r.s.terms[r.is].name = term.name
<1>1. Good(s) /\ Later(s0, s) /\ Closed(s.terms, Grown(R, s0, s))
  BY ReachedGood
<1>2. CASE r = Fails(s, "CheckLimitExceeded")
  BY <1>2 DEF Fails
<1>3. CASE /\ r.error = "none" /\ r.is = Len(s.terms) + 1 /\ r.s.variables = s.variables
           /\ r.s.changes = s.changes /\ r.s.terms = Append(s.terms, term)
           /\ r.s \in Stores /\ r.s.remaining <= s.remaining
  <2>1. /\ Reached(Grown(R, s0, s), s, r.s) /\ Grown(Grown(R, s0, s), s, r.s) = Grown(R, s0, s) \cup {Len(s.terms) + 1}
        /\ r.s.terms[Len(s.terms) + 1] = term
    BY <1>1, <1>3, AppendReached
  <2>2. Reached(R, s0, r.s) /\ Grown(Grown(R, s0, s), s, r.s) = Grown(R, s0, r.s)
    BY <2>1, ReachedReached
  <2>3. QED
    BY <1>3, <2>1, <2>2, Zenon
<1>4. QED
  BY <1>1, <1>2, <1>3, NewTerms

LEMMA WentGood ==
  ASSUME NEW s0, Good(s0), NEW s, NEW R, Went(R, s0, s)
  PROVE  /\ Good(s) /\ Later(s0, s) /\ Closed(s.terms, Grown(R, s0, s)) /\ R \subseteq Grown(R, s0, s)
         /\ \A t \in DOMAIN s0.terms : s.terms[t].name = s0.terms[t].name /\ t \in DOMAIN s.terms
BY ReachedGood DEF Went

LEMMA SameSize ==
  ASSUME NEW s0, Good(s0), NEW s, Len(s.terms) = Len(s0.terms)
  PROVE  OnlyNamed(s0, s)
BY GoodTypes DEF OnlyNamed

LEMMA WentItself ==
  ASSUME NEW s, Good(s), NEW R, Closed(s.terms, R)
  PROVE  Went(R, s, s) /\ Grown(R, s, s) = R
BY ReachedItself, SameSize DEF Went

LEMMA WentWent ==
  ASSUME NEW s0, NEW s1, NEW s2, NEW R, Good(s0), Went(R, s0, s1), Went(Grown(R, s0, s1), s1, s2)
  PROVE  Went(R, s0, s2) /\ Grown(Grown(R, s0, s1), s1, s2) = Grown(R, s0, s2)
<1>1. Reached(R, s0, s2) /\ Grown(Grown(R, s0, s1), s1, s2) = Grown(R, s0, s2)
  BY ReachedReached DEF Went
<1>2. Good(s1) /\ Good(s2)
  BY DEF Went, Reached, Later
<1>3. ASSUME NEW t \in (Len(s0.terms) + 1)..Len(s2.terms) PROVE s2.terms[t].name # NoName
  <2>1. Len(s0.terms) \in Nat /\ Len(s1.terms) \in Nat /\ Len(s2.terms) \in Nat /\ DOMAIN s1.terms = 1..Len(s1.terms)
    BY <1>2, GoodTypes
  <2>2. CASE t > Len(s1.terms)
    BY <2>1, <2>2 DEF Went, OnlyNamed
  <2>3. CASE t <= Len(s1.terms)
    <3>1. s1.terms[t].name # NoName /\ t \in DOMAIN s1.terms
      BY <2>1, <2>3 DEF Went, OnlyNamed
    <3>2. s2.terms[t].name = s1.terms[t].name
      BY <3>1 DEF Went, Reached, Later
    <3>3. QED
      BY <3>1, <3>2
  <2>4. QED
    BY <2>1, <2>2, <2>3
<1>4. QED
  BY <1>1, <1>3 DEF Went, OnlyNamed

LEMMA WentInMore ==
  ASSUME NEW s0, NEW s, NEW R, NEW S, Good(s0), Went(R, s0, s), R \subseteq S, Closed(s0.terms, S)
  PROVE  Went(S, s0, s) /\ Grown(R, s0, s) \subseteq Grown(S, s0, s)
BY ReachedInMore, Zenon DEF Went

LEMMA TickedWent ==
  ASSUME NEW s, Good(s), s.remaining # 0
  PROVE  /\ Good(Ticked(s)) /\ Like(s, Ticked(s)) /\ Ticked(s).variables = s.variables
         /\ \A R : Closed(s.terms, R) => Went(R, s, Ticked(s)) /\ Grown(R, s, Ticked(s)) = R
BY TickedLike, SameSize DEF Went, Like

LEMMA BoundWent ==
  ASSUME NEW s0, Good(s0), NEW R, Closed(s0.terms, R),
         NEW v \in R, s0.terms[v].name = NoName,
         NEW m \in R, s0.terms[m].name # NoName
  PROVE  /\ Went(R, s0, Bound(s0, v, m)) /\ Grown(R, s0, Bound(s0, v, m)) = R
         /\ Bound(s0, v, m).variables = s0.variables
<1>1. /\ Reached(R, s0, Bound(s0, v, m)) /\ Grown(R, s0, Bound(s0, v, m)) = R
      /\ Bound(s0, v, m).variables = s0.variables
  BY BoundReached
<1>2. OnlyNamed(s0, Bound(s0, v, m))
  <2>1. Len(Bound(s0, v, m).terms) = Len(s0.terms)
    <3>1. s0 \in Stores /\ v \in DOMAIN s0.terms
      BY GoodTypes DEF Closed
    <3>2. Recorded(s0, v) \in Stores /\ Recorded(s0, v).terms = s0.terms
      BY <3>1, RecordedFields, Zenon
    <3>3. s0.terms \in Seq(Terms)
      BY GoodTypes
    <3>4. Bound(s0, v, m).terms = [s0.terms EXCEPT ![v].binding = m]
      BY <3>2 DEF Bound, Stores
    <3>5. QED
      BY <3>3, <3>4
  <2>2. QED
    BY <2>1, SameSize
<1>3. QED
  BY <1>1, <1>2 DEF Went

LEMMA MergedWent ==
  ASSUME NEW s0, Good(s0), NEW R, Closed(s0.terms, R), NEW a \in R, NEW b \in R, a # b,
         s0.terms[a].name = NoName, s0.terms[a].parent = Nothing,
         s0.terms[b].name = NoName, s0.terms[b].parent = Nothing,
         NEW c, c = Nothing \/ (c \in R /\ s0.terms[c].name # NoName)
  PROVE  /\ Went(R, s0, Merged(s0, a, b, c)) /\ Grown(R, s0, Merged(s0, a, b, c)) = R
         /\ Merged(s0, a, b, c).variables = s0.variables /\ Root(s0, a, b) \in {a, b}
<1> DEFINE w == Merged(s0, a, b, c)
<1>1. /\ Reached(R, s0, w) /\ Grown(R, s0, w) = R
      /\ w.variables = s0.variables /\ Root(s0, a, b) \in {a, b}
  BY MergedReached
<1> HIDE DEF w
<1>2. Len(w.terms) \in Nat /\ Len(s0.terms) \in Nat /\ Len(s0.terms) <= Len(w.terms) /\ R \subseteq DOMAIN s0.terms
  BY <1>1, GoodTypes DEF Reached, Later, Closed
<1>3. \A t \in (Len(s0.terms) + 1)..Len(w.terms) : t \in R
  BY <1>1 DEF Grown
<1>4. OnlyNamed(s0, w)
  BY <1>2, <1>3, GoodTypes DEF OnlyNamed
<1>5. QED
  BY <1>1, <1>4 DEF Went, w

\* A new named term, at the end.
LEMMA NewTermWent ==
  ASSUME NEW s0, Good(s0), NEW R, NEW s, Went(R, s0, s), NEW term, Fits(s, term), term.name # NoName,
         \A i \in DOMAIN term.parameters : term.parameters[i] \in Grown(R, s0, s),
         NEW r, r = NewTerm(s, term)
  PROVE  /\ Went(R, s0, r.s) /\ r.s.variables = s.variables /\ r.s.changes = s.changes
         /\ r.error = "none" => r.is \in Grown(R, s0, r.s) /\ r.s.terms[r.is].name = term.name
<1>1. /\ Reached(R, s0, r.s) /\ r.s.variables = s.variables /\ r.s.changes = s.changes
      /\ r.error = "none" => r.is \in Grown(R, s0, r.s) /\ r.s.terms[r.is].name = term.name
  BY NewTermReached DEF Went
<1>2. Good(s) /\ Good(s0)
  BY DEF Went, Reached, Later
<1>3. OnlyNamed(s, r.s)
  <2>1. CASE r = Fails(s, "CheckLimitExceeded")
    BY <1>2, <2>1, SameSize DEF Fails
  <2>2. CASE r.error = "none" /\ r.s.terms = Append(s.terms, term)
    <3>1. s.terms \in Seq(Terms) /\ Len(s.terms) \in Nat
      BY <1>2, GoodTypes
    <3>2. /\ Len(Append(s.terms, term)) = Len(s.terms) + 1
          /\ Append(s.terms, term)[Len(s.terms) + 1] = term
      BY <3>1
    <3>3. QED
      BY <2>2, <3>1, <3>2 DEF OnlyNamed
  <2>3. QED
    BY <1>2, <2>1, <2>2, NewTerms
<1>4. OnlyNamed(s0, r.s)
  <2>1. ASSUME NEW t \in (Len(s0.terms) + 1)..Len(r.s.terms) PROVE r.s.terms[t].name # NoName
    <3>1. Good(r.s) /\ \A u \in DOMAIN s.terms : r.s.terms[u].name = s.terms[u].name
      <4>1. r.s = s \/ Later(s, r.s)
        BY <1>2, NewTerms, AppendReached DEF Fails
      <4>2. QED
        BY <1>2, <4>1 DEF Later
    <3>2. Len(s.terms) \in Nat /\ Len(r.s.terms) \in Nat /\ Len(s0.terms) \in Nat /\ DOMAIN s.terms = 1..Len(s.terms)
      BY <1>2, <3>1, GoodTypes
    <3>3. CASE t > Len(s.terms)
      BY <1>3, <3>2, <3>3 DEF OnlyNamed
    <3>4. CASE t <= Len(s.terms)
      BY <3>1, <3>2, <3>4 DEF Went, OnlyNamed
    <3>5. QED
      BY <3>2, <3>3, <3>4
  <2>2. QED
    BY <2>1 DEF OnlyNamed
<1>5. QED
  BY <1>1, <1>4 DEF Went

UnifiedAll(R, s0, n, r) ==
  /\ Went(R, s0, r.s) /\ r.s.variables = s0.variables
  /\ r.error = "none" => r.is \in Seq(Grown(R, s0, r.s)) /\ Len(r.is) = n

LEMMA UnifiesAll ==
  ASSUME NEW unify, Unifies(unify), NEW s, Good(s), NEW R, Closed(s.terms, R),
         NEW xs \in Seq(R), NEW ys \in Seq(R), Len(xs) <= Len(ys)
  PROVE  UnifiedAll(R, s, Len(xs), UnifyAll(unify, s, xs, ys))
<1> DEFINE size == Len(xs)
           step == [q \in Steps |-> unify[Pair(q.s, xs[q.i], ys[q.i])]]
<1>1. size \in Nat
  OBVIOUS
<1>2. PICK f : EachUpto(f, step, s, size) /\ Each(step, s, size) = f[size]
  <2> HIDE DEF size, step
  <2> QED BY <1>1, EachDefinition
<1>3. UnifyAll(unify, s, xs, ys) = f[size]
  BY <1>2 DEF UnifyAll
<1> DEFINE T == {n \in 0..size : UnifiedAll(R, s, n, f[n])}
<1>4. 0 \in T
  <2>1. f[0].s = s /\ f[0].error = "none" /\ f[0].is = <<>>
    BY <1>2 DEF EachUpto, Returns
  <2>2. Went(R, s, s)
    BY WentItself
  <2>3. UnifiedAll(R, s, 0, f[0])
    BY <2>1, <2>2 DEF UnifiedAll
  <2>4. QED
    BY <1>1, <2>3
<1>5. ASSUME NEW n \in 1..size, n - 1 \in T PROVE n \in T
  <2> DEFINE q == f[n - 1]
             S == Grown(R, s, q.s)
             a == unify[Pair(q.s, xs[n], ys[n])]
  <2>1. UnifiedAll(R, s, n - 1, q)
    BY <1>5
  <2>2. Went(R, s, q.s) /\ q.s.variables = s.variables
    BY <2>1 DEF UnifiedAll
  <2>3. Good(q.s) /\ Closed(q.s.terms, S) /\ R \subseteq S
    BY <2>2, WentGood
  <2>4. step[[s |-> q.s, i |-> n]] = a
    <3>1. [s |-> q.s, i |-> n] \in Steps
      BY <2>3, <1>1, GoodTypes DEF Steps
    <3>2. QED
      BY <3>1
  <2>5. f[n] = IF q.error # "none" THEN q
               ELSE IF a.error = "none" THEN Returns(a.s, Append(q.is, a.is)) ELSE a
    <3> HIDE DEF step, a
    <3> QED BY <1>2, <2>4 DEF EachUpto, After, Then
  <2>6. CASE q.error # "none"
    <3>1. UnifiedAll(R, s, n, f[n])
      BY <2>1, <2>5, <2>6 DEF UnifiedAll
    <3>2. QED
      BY <3>1
  <2>7. CASE q.error = "none"
    <3>1. xs[n] \in S /\ ys[n] \in S
      BY <2>3
    <3>2. Unified(S, q.s, xs[n], ys[n], a)
      <4> HIDE DEF S, q
      <4> QED BY <2>3, <3>1 DEF Unifies
    <3>3. Went(S, q.s, a.s) /\ a.s.variables = q.s.variables
      BY <3>2 DEF Unified
    <3>4. Went(R, s, a.s) /\ Grown(S, q.s, a.s) = Grown(R, s, a.s)
      BY <2>2, <3>3, WentWent
    <3>5. S \subseteq Grown(R, s, a.s)
      BY <2>2, <3>3, GrownGrows DEF Went, Reached
    <3>6. UnifiedAll(R, s, n, f[n])
      <4>1. CASE a.error # "none"
        BY <2>2, <2>5, <2>7, <3>3, <3>4, <4>1 DEF UnifiedAll
      <4>2. CASE a.error = "none"
        <5>1. a.is \in Grown(R, s, a.s)
          BY <3>2, <3>4, <4>2 DEF Unified
        <5>2. q.is \in Seq(Grown(R, s, a.s)) /\ Len(q.is) = n - 1
          BY <2>1, <2>7, <3>5 DEF UnifiedAll
        <5>3. f[n] = Returns(a.s, Append(q.is, a.is))
          BY <2>5, <2>7, <4>2
        <5>4. Append(q.is, a.is) \in Seq(Grown(R, s, a.s)) /\ Len(Append(q.is, a.is)) = n
          <6> HIDE DEF q, a
          <6> QED BY <5>1, <5>2
        <5>5. f[n].s = a.s /\ f[n].error = "none" /\ f[n].is = Append(q.is, a.is)
          BY <5>3 DEF Returns
        <5> HIDE DEF q, a
        <5>6. QED
          BY <2>2, <3>3, <3>4, <5>4, <5>5 DEF UnifiedAll
      <4>3. QED
        BY <4>1, <4>2
    <3>7. QED
      BY <3>6
  <2>8. QED
    BY <2>6, <2>7
<1>6. 0..size \subseteq T
  <2> HIDE DEF T, size
  <2> QED BY <1>1, <1>4, <1>5, Induction, Zenon
<1>7. QED
  BY <1>1, <1>3, <1>6

\* A search on the way reaches nothing new.
LEMMA LikeWent ==
  ASSUME NEW s, Good(s), NEW R, Closed(s.terms, R), NEW u, Like(s, u), u.variables = s.variables
  PROVE  Good(u) /\ Closed(u.terms, R) /\ Went(R, s, u) /\ Grown(R, s, u) = R
<1>1. Good(u)
  BY LikeGood
<1>2. u.terms = s.terms
  BY DEF Like
<1>3. \A x \in u.variables : x.term \in DOMAIN u.terms
  BY <1>2 DEF Good
<1>4. QED
  BY <1>1, <1>2, <1>3, LikeReached, SameSize DEF Went

LEMMA UnifiedAfter ==
  ASSUME NEW s, Good(s), NEW R, Closed(s.terms, R), NEW u, Like(s, u), u.variables = s.variables,
         NEW left \in R, NEW right \in R, NEW r, Unified(R, u, left, right, r)
  PROVE  Unified(R, s, left, right, r)
<1>1. Went(R, s, u) /\ Grown(R, s, u) = R /\ u.terms = s.terms
  BY LikeWent DEF Like
<1>2. Went(R, u, r.s) /\ r.s.variables = u.variables
  BY DEF Unified
<1>3. Went(R, s, r.s) /\ Grown(R, u, r.s) = Grown(R, s, r.s)
  BY <1>1, <1>2, WentWent
<1>4. QED
  BY <1>1, <1>2, <1>3 DEF Unified

LEMMA SmallTuples ==
  ASSUME NEW S
  PROVE  <<>> \in Seq(S) /\ \A t \in S : <<t>> \in Seq(S) /\ <<t>> # <<>>
OBVIOUS

LEMMA SameSequence ==
  ASSUME NEW S, NEW p \in Seq(S), NEW q \in Seq(S), Len(p) = Len(q), \A i \in 1..Len(p) : p[i] = q[i]
  PROVE  p = q
<1>1. /\ p = [i \in 1..Len(p) |-> p[i]] /\ q = [i \in 1..Len(q) |-> q[i]]
  OBVIOUS
<1>2. QED
  BY <1>1

LEMMA ElementsIn ==
  ASSUME NEW S, NEW q \in Seq(S), NEW R, \A i \in 1..Len(q) : q[i] \in R
  PROVE  q \in Seq(R)
OBVIOUS

LEMMA UnifiesNamed ==
  ASSUME NEW unify, Unifies(unify), NEW s, Good(s), NEW R, Closed(s.terms, R),
         NEW a \in R, NEW b \in R, s.terms[a].name # NoName, s.terms[b].name # NoName
  PROVE  Unified(R, s, a, b, UnifyNamed(unify, s, a, b))
<1> DEFINE x == s.terms[a]
           y == s.terms[b]
           r == UnifyNamed(unify, s, a, b)
           inner == IF y.name = "wrapper" THEN y.parameters[1] ELSE b
           content == unify[Pair(s, x.parameters[1], inner)]
           all == UnifyAll(unify, s, x.parameters, y.parameters)
           wrapper(t) == Named("wrapper", <<t>>)
<1>1. Went(R, s, s) /\ Grown(R, s, s) = R
  BY WentItself
<1>2. /\ a \in DOMAIN s.terms /\ b \in DOMAIN s.terms /\ Sound(s.terms)
      /\ x.parameters \in Seq(Nat) /\ y.parameters \in Seq(Nat)
  BY GoodTypes, TermTypes DEF Closed
<1>3. \A t \in R : s.terms[t].name # NoName =>
        /\ \A i \in DOMAIN s.terms[t].parameters : s.terms[t].parameters[i] \in R
        /\ s.terms[t].name = "wrapper" => s.terms[t].parameters # <<>>
  BY <1>2, Zenon DEF Sound, Shaped, Closed, Links
<1>4. /\ x.parameters \in Seq(R) /\ y.parameters \in Seq(R)
      /\ x.name = "wrapper" => x.parameters[1] \in R
      /\ y.name = "wrapper" => y.parameters[1] \in R
      /\ x.name \in Names
  <2>1. x.parameters \in Seq(R) /\ y.parameters \in Seq(R)
    <3>1. /\ \A i \in 1..Len(x.parameters) : x.parameters[i] \in R
          /\ \A i \in 1..Len(y.parameters) : y.parameters[i] \in R
      BY <1>2, <1>3
    <3> HIDE DEF x, y
    <3>2. QED
      BY <1>2, <3>1, ElementsIn
  <2>2. /\ x.name = "wrapper" => 1 \in DOMAIN x.parameters
        /\ y.name = "wrapper" => 1 \in DOMAIN y.parameters
    BY <1>2, <1>3
  <2>3. x.name \in Names
    BY <1>2, TermTypes DEF Sound
  <2>4. QED
    BY <1>3, <2>1, <2>2, <2>3
<1>5. CASE r = Returns(s, a) \/ r = Returns(s, b) \/ r = Fails(s, "TypeMismatch")
  <2> HIDE DEF r
  <2> QED BY <1>1, <1>5 DEF Unified, Returns, Fails, r
<1>6. CASE r = NewTerm(s, Named("type", <<>>))
  <2> DEFINE term == Named("type", <<>>)
  <2>1. term.name = "type" /\ term.parameters = <<>>
    BY DEF Named
  <2>2. Fits(s, term)
    <3>1. term = Named(term.name, term.parameters)
      BY <2>1
    <3>2. term.name # NoName /\ term.name # "wrapper" /\ term.name \in Names /\ term.parameters \in Seq(DOMAIN s.terms)
      <4> HIDE DEF term
      <4> QED BY <2>1, SmallTuples, NamesAssumption DEF NoName
    <3> HIDE DEF term
    <3>3. QED
      BY <3>1, <3>2 DEF Fits
  <2> HIDE DEF term, r
  <2>3. /\ Went(R, s, r.s) /\ r.s.variables = s.variables
        /\ r.error = "none" => r.is \in Grown(R, s, r.s) /\ r.s.terms[r.is].name = "type"
    BY <1>1, <1>6, <2>1, <2>2, NewTermWent DEF term, NoName
  <2>4. QED
    BY <2>3 DEF Unified, NoName, r
<1>7. CASE y.name = "wrapper" /\ r = unify[Pair(s, b, a)]
  <2>1. Unified(R, s, b, a, r)
    BY <1>7 DEF Unifies
  <2>2. QED
    BY <2>1 DEF Unified
<1>8. CASE x.name = "wrapper" /\ r = Then(content, LAMBDA u, t : NewTerm(u, wrapper(t)))
  <2>1. Unified(R, s, x.parameters[1], inner, content)
    <3>1. x.parameters[1] \in R /\ inner \in R
      BY <1>4, <1>8
    <3> HIDE DEF x, inner
    <3>2. QED
      BY <3>1 DEF Unifies
  <2> HIDE DEF content, inner
  <2>2. r = IF content.error = "none" THEN NewTerm(content.s, wrapper(content.is)) ELSE content
    BY <1>8 DEF Then
  <2>3. CASE content.error # "none"
    <3> HIDE DEF r
    <3> QED BY <2>1, <2>2, <2>3 DEF Unified, r
  <2>4. CASE content.error = "none"
    <3> DEFINE term == wrapper(content.is)
    <3>1. Went(R, s, content.s) /\ content.s.variables = s.variables /\ content.is \in Grown(R, s, content.s)
      BY <2>1, <2>4 DEF Unified
    <3>2. content.is \in DOMAIN content.s.terms
      BY <3>1, WentGood DEF Closed
    <3>3. term = Named("wrapper", <<content.is>>) /\ term.name = "wrapper" /\ term.parameters = <<content.is>>
      BY DEF Named
    <3>4. Fits(content.s, term)
      <4>1. /\ term.name # NoName /\ term.name \in Names /\ term.parameters \in Seq(DOMAIN content.s.terms)
            /\ term.parameters # <<>> /\ term = Named(term.name, term.parameters)
        <5> HIDE DEF term
        <5>1. <<content.is>> \in Seq(DOMAIN content.s.terms) /\ <<content.is>> # <<>>
          BY <3>2, SmallTuples, Zenon
        <5>2. term = Named(term.name, term.parameters)
          BY <3>3
        <5>3. QED
          BY <3>3, <5>1, <5>2, NamesAssumption, Zenon DEF NoName
      <4> HIDE DEF term
      <4>2. QED
        BY <4>1 DEF Fits
    <3> HIDE DEF term, r
    <3>5. \A i \in DOMAIN term.parameters : term.parameters[i] \in Grown(R, s, content.s)
      BY <3>1, <3>3
    <3>6. /\ Went(R, s, r.s) /\ r.s.variables = content.s.variables
          /\ r.error = "none" => r.is \in Grown(R, s, r.s) /\ r.s.terms[r.is].name = "wrapper"
      BY <2>2, <2>4, <3>1, <3>3, <3>4, <3>5, NewTermWent DEF term, NoName
    <3>7. QED
      BY <3>1, <3>6 DEF Unified, NoName, r
  <2>5. QED
    BY <2>3, <2>4
<1>9. CASE /\ Len(x.parameters) = Len(y.parameters)
           /\ x.name # "wrapper"
           /\ r = Then(all, LAMBDA u, ts : NewTerm(u, Named(x.name, ts)))
  <2>1. UnifiedAll(R, s, Len(x.parameters), all)
    <3> HIDE DEF x, y
    <3>1. Len(x.parameters) <= Len(y.parameters)
      <4>1. Len(x.parameters) = Len(y.parameters) /\ Len(x.parameters) \in Nat
        BY <1>4, <1>9 DEF Then
      <4>2. QED
        BY <4>1
    <3>2. QED
      BY <1>4, <3>1, UnifiesAll
  <2> HIDE DEF all
  <2>2. r = IF all.error = "none" THEN NewTerm(all.s, Named(x.name, all.is)) ELSE all
    BY <1>9 DEF Then
  <2>3. CASE all.error # "none"
    <3> HIDE DEF r
    <3> QED BY <2>1, <2>2, <2>3 DEF Unified, UnifiedAll, r
  <2>4. CASE all.error = "none"
    <3> DEFINE term == Named(x.name, all.is)
    <3>1. Went(R, s, all.s) /\ all.s.variables = s.variables /\ all.is \in Seq(Grown(R, s, all.s))
      BY <2>1, <2>4 DEF UnifiedAll
    <3>2. Grown(R, s, all.s) \subseteq DOMAIN all.s.terms
      BY <3>1, WentGood DEF Closed
    <3>3. term = Named(term.name, term.parameters) /\ term.name = x.name /\ term.parameters = all.is
      BY DEF Named
    <3>4. Fits(all.s, term)
      <4>1. term.parameters \in Seq(DOMAIN all.s.terms)
        BY <3>1, <3>2, <3>3
      <4> HIDE DEF term
      <4>2. QED
        BY <1>4, <1>9, <3>3, <4>1 DEF Fits
    <3> HIDE DEF term, r
    <3>5. \A i \in DOMAIN term.parameters : term.parameters[i] \in Grown(R, s, all.s)
      BY <3>1, <3>3
    <3>6. /\ Went(R, s, r.s) /\ r.s.variables = all.s.variables
          /\ r.error = "none" => r.is \in Grown(R, s, r.s) /\ r.s.terms[r.is].name = x.name
      BY <2>2, <2>4, <3>1, <3>3, <3>4, <3>5, NewTermWent DEF term
    <3>7. QED
      BY <3>1, <3>6 DEF Unified, r
  <2>5. QED
    BY <2>3, <2>4
<1>10. QED
  <2>1. \/ r = Returns(s, a) \/ r = Returns(s, b) \/ r = Fails(s, "TypeMismatch")
        \/ r = NewTerm(s, Named("type", <<>>))
        \/ y.name = "wrapper" /\ r = unify[Pair(s, b, a)]
        \/ x.name = "wrapper" /\ r = Then(content, LAMBDA u, t : NewTerm(u, wrapper(t)))
        \/ /\ Len(x.parameters) = Len(y.parameters)
           /\ x.name # "wrapper"
           /\ r = Then(all, LAMBDA u, ts : NewTerm(u, Named(x.name, ts)))
    BY DEF UnifyNamed
  <2>2. QED
    BY <1>5, <1>6, <1>7, <1>8, <1>9, <2>1

LEMMA UnifiesVariable ==
  ASSUME NEW unify, Unifies(unify), NEW occurs, Finds(occurs), NEW s, Good(s), NEW R, Closed(s.terms, R),
         NEW a \in R, s.terms[a].name = NoName, s.terms[a].parent = Nothing,
         NEW b \in R, s.terms[b].name # NoName
  PROVE  Unified(R, s, a, b, UnifyVariable(unify, occurs, s, a, b))
<1> DEFINE x == s.terms[a].binding
           c == occurs[Search(s, a, b)]
           first == IF x # Nothing THEN unify[Pair(s, x, b)] ELSE BindsTo(occurs, s, a, b)
           r == UnifyVariable(unify, occurs, s, a, b)
<1>1. r = IF first.error = "none" THEN Returns(Bound(first.s, a, first.is), a) ELSE first
  <2> DEFINE f == first
  <2>1. r = Then(f, LAMBDA u, merged : Returns(Bound(u, a, merged), a))
    BY DEF UnifyVariable
  <2> HIDE DEF f, r
  <2>2. r = IF f.error = "none" THEN Returns(Bound(f.s, a, f.is), a) ELSE f
    BY <2>1 DEF Then
  <2>3. QED
    BY <2>2 DEF f
<1>2. a \in DOMAIN s.terms /\ b \in DOMAIN s.terms /\ Sound(s.terms)
  BY GoodTypes DEF Closed
<1>3. /\ Went(R, s, first.s) /\ first.s.variables = s.variables
      /\ first.error = "none" => first.is \in Grown(R, s, first.s) /\ first.s.terms[first.is].name # NoName
  <2>1. CASE x # Nothing
    <3>1. x \in R /\ s.terms[x].name # NoName
      BY <1>2, <2>1 DEF Sound, Shaped, Closed, Links
    <3>2. first = unify[Pair(s, x, b)]
      BY <2>1
    <3> HIDE DEF first, x
    <3>3. Unified(R, s, x, b, first)
      BY <3>1, <3>2 DEF Unifies
    <3>4. QED
      BY <3>1, <3>3 DEF Unified
  <2>2. CASE x = Nothing
    <3>1. Searched(s, a, {b}, c)
      BY <1>2, Zenon DEF Finds
    <3>2. first = IF c.error = "none" THEN (IF c.is THEN Fails(c.s, "TypeMismatch") ELSE Returns(c.s, b)) ELSE c
      BY <2>2 DEF BindsTo, Absent, Then
    <3> HIDE DEF c, first
    <3>3. Like(s, c.s) /\ c.s.variables = s.variables
      BY <3>1 DEF Searched
    <3>4. Went(R, s, c.s) /\ Grown(R, s, c.s) = R /\ c.s.terms = s.terms
      BY <3>3, LikeWent DEF Like
    <3>5. first.s = c.s /\ (first.error = "none" => first.is = b)
      BY <3>2 DEF Fails, Returns
    <3>6. QED
      BY <3>3, <3>4, <3>5
  <2>3. QED
    BY <2>1, <2>2
<1> HIDE DEF first
<1>4. CASE first.error # "none"
  <2>1. r = first
    BY <1>1, <1>4
  <2> HIDE DEF r
  <2>2. Unified(R, s, a, b, r)
    BY <1>3, <1>4, <2>1 DEF Unified
  <2>3. QED
    BY <2>2 DEF r
<1>5. CASE first.error = "none"
  <2> DEFINE u == first.s
             S == Grown(R, s, u)
             w == Bound(u, a, first.is)
  <2>1. Good(u) /\ Closed(u.terms, S) /\ R \subseteq S /\ u.terms[a].name = NoName
    BY <1>2, <1>3, WentGood
  <2>2. first.is \in S /\ u.terms[first.is].name # NoName /\ a \in S
    BY <1>3, <1>5, <2>1
  <2>3. r.s = w /\ r.error = "none" /\ r.is = a
    BY <1>1, <1>5 DEF Returns
  <2> HIDE DEF r, w, S, u
  <2>4. Went(S, u, w) /\ Grown(S, u, w) = S /\ w.variables = u.variables
    BY <2>1, <2>2, BoundWent DEF w
  <2>5. Went(R, s, w) /\ Grown(R, s, w) = S
    BY <1>3, <2>4, WentWent DEF S, u
  <2>6. Unified(R, s, a, b, r)
    BY <1>3, <2>2, <2>3, <2>4, <2>5 DEF Unified, u
  <2>7. QED
    BY <2>6 DEF r
<1>6. QED
  BY <1>4, <1>5

LEMMA MergedUnified ==
  ASSUME NEW s, Good(s), NEW R, Closed(s.terms, R), NEW a \in R, NEW b \in R, a # b, s.terms[a].name = NoName,
         NEW u, Went(R, s, u), u.variables = s.variables,
         u.terms[a].name = NoName, u.terms[a].parent = Nothing,
         u.terms[b].name = NoName, u.terms[b].parent = Nothing,
         NEW c, c = Nothing \/ (c \in Grown(R, s, u) /\ u.terms[c].name # NoName)
  PROVE  Unified(R, s, a, b, Returns(Merged(u, a, b, c), Root(u, a, b)))
<1> DEFINE S == Grown(R, s, u)
           w == Merged(u, a, b, c)
<1>1. Good(u) /\ Closed(u.terms, S) /\ R \subseteq S
  BY WentGood
<1> HIDE DEF S
<1>2. Went(S, u, w) /\ Grown(S, u, w) = S /\ w.variables = u.variables /\ Root(u, a, b) \in {a, b}
  BY <1>1, MergedWent DEF S
<1>3. Went(R, s, w) /\ Grown(R, s, w) = S
  BY <1>2, WentWent DEF S
<1>4. QED
  BY <1>1, <1>2, <1>3 DEF Unified, Returns

\* Neither variable is reached from the binding of the other, nor from its own:
\* the paths from the bindings end.  So both are roots until they are merged.
LEMMA UnifiesApart ==
  ASSUME NEW unify, Unifies(unify), NEW s, Good(s), NEW R, Closed(s.terms, R),
         NEW a \in R, s.terms[a].name = NoName, s.terms[a].parent = Nothing,
         NEW b \in R, s.terms[b].name = NoName, s.terms[b].parent = Nothing,
         a # b,
         s.terms[a].binding # Nothing => Grounded(s.terms, b, {s.terms[a].binding}),
         s.terms[b].binding # Nothing => Grounded(s.terms, a, {s.terms[b].binding})
  PROVE  Unified(R, s, a, b, UnifyApart(unify, s, a, b))
<1> DEFINE x == s.terms[a].binding
           y == s.terms[b].binding
           first == IF x # Nothing /\ y # Nothing THEN unify[Pair(s, x, y)]
                    ELSE Returns(s, IF x # Nothing THEN x ELSE y)
           r == UnifyApart(unify, s, a, b)
<1>1. r = IF first.error = "none" THEN Returns(Merged(first.s, a, b, first.is), Root(first.s, a, b)) ELSE first
  <2> DEFINE f == first
  <2>1. r = Then(f, LAMBDA u, constraint : Returns(Merged(u, a, b, constraint), Root(u, a, b)))
    BY DEF UnifyApart
  <2> HIDE DEF f, r
  <2>2. r = IF f.error = "none" THEN Returns(Merged(f.s, a, b, f.is), Root(f.s, a, b)) ELSE f
    BY <2>1 DEF Then
  <2>3. QED
    BY <2>2 DEF f
<1>2. a \in DOMAIN s.terms /\ b \in DOMAIN s.terms /\ Sound(s.terms)
  BY GoodTypes DEF Closed
<1>3. /\ x # Nothing => x \in R /\ s.terms[x].name # NoName /\ Links(s.terms, a) = {x}
      /\ y # Nothing => y \in R /\ s.terms[y].name # NoName /\ Links(s.terms, b) = {y}
  BY <1>2 DEF Sound, Shaped, Closed, Links
<1>4. CASE ~(x # Nothing /\ y # Nothing)
  <2> DEFINE c == IF x # Nothing THEN x ELSE y
  <2>1. first = Returns(s, c)
    BY <1>4
  <2>2. r = Returns(Merged(s, a, b, c), Root(s, a, b))
    BY <1>1, <2>1 DEF Returns
  <2>3. Went(R, s, s) /\ Grown(R, s, s) = R
    BY WentItself
  <2>4. c = Nothing \/ (c \in Grown(R, s, s) /\ s.terms[c].name # NoName)
    BY <1>3, <2>3
  <2> HIDE DEF c, r
  <2>5. Unified(R, s, a, b, r)
    BY <2>2, <2>3, <2>4, MergedUnified
  <2>6. QED
    BY <2>5 DEF r
<1>5. CASE x # Nothing /\ y # Nothing
  <2>1. PICK R1, h1, b1 : x \in R1 /\ GroundedIn(s.terms, b, R1, h1, b1)
    BY <1>5 DEF Grounded
  <2>2. PICK R2, h2, b2 : y \in R2 /\ GroundedIn(s.terms, a, R2, h2, b2)
    BY <1>5 DEF Grounded
  <2> DEFINE P == {t \in R1 : h1[t] <= h1[x]}
             Q == {t \in R2 : h2[t] <= h2[y]}
             D == (P \cup Q) \cap R
  <2>3. a \notin P /\ b \notin P /\ x \in P /\ \A t \in P : Links(s.terms, t) \subseteq P
    <3>1. b1 \in Nat /\ \A t \in R1 : h1[t] \in Nat
      BY <2>1 DEF GroundedIn
    <3>2. b \notin R1 /\ \A t \in R1 : Links(s.terms, t) \subseteq R1 /\ \A z \in Links(s.terms, t) : h1[z] < h1[t]
      BY <2>1 DEF GroundedIn, Closed
    <3>3. a \in R1 => h1[x] < h1[a]
      BY <1>3, <1>5, <3>2
    <3> HIDE DEF x, y
    <3>4. QED
      BY <2>1, <3>1, <3>2, <3>3
  <2>4. a \notin Q /\ b \notin Q /\ y \in Q /\ \A t \in Q : Links(s.terms, t) \subseteq Q
    <3>1. b2 \in Nat /\ \A t \in R2 : h2[t] \in Nat
      BY <2>2 DEF GroundedIn
    <3>2. a \notin R2 /\ \A t \in R2 : Links(s.terms, t) \subseteq R2 /\ \A z \in Links(s.terms, t) : h2[z] < h2[t]
      BY <2>2 DEF GroundedIn, Closed
    <3>3. b \in R2 => h2[y] < h2[b]
      BY <1>3, <1>5, <3>2
    <3> HIDE DEF x, y
    <3>4. QED
      BY <2>2, <3>1, <3>2, <3>3
  <2> HIDE DEF P, Q
  <2>5. Closed(s.terms, D) /\ D \subseteq R /\ x \in D /\ y \in D /\ a \notin D /\ b \notin D
    BY <1>3, <1>5, <2>3, <2>4 DEF Closed
  <2> HIDE DEF D
  <2>6. first = unify[Pair(s, x, y)]
    BY <1>5
  <2> HIDE DEF first
  <2>7. Unified(D, s, x, y, first)
    <3> HIDE DEF x, y
    <3> QED BY <2>5, <2>6 DEF Unifies
  <2>8. Went(D, s, first.s) /\ first.s.variables = s.variables
    BY <2>7 DEF Unified
  <2>9. Went(R, s, first.s) /\ Grown(D, s, first.s) \subseteq Grown(R, s, first.s)
    BY <2>5, <2>8, WentInMore, Zenon
  <2>10. first.s.terms[a] = s.terms[a] /\ first.s.terms[b] = s.terms[b]
    BY <1>2, <2>5, <2>8 DEF Went, Reached, Within
  <2> DEFINE u == first.s
             c == first.is
  <2>11. CASE first.error # "none"
    <3>1. r = first
      BY <1>1, <2>11
    <3> HIDE DEF r
    <3>2. Unified(R, s, a, b, r)
      BY <2>8, <2>9, <2>11, <3>1 DEF Unified
    <3>3. QED
      BY <3>2 DEF r
  <2>12. CASE first.error = "none"
    <3>1. r = Returns(Merged(u, a, b, c), Root(u, a, b))
      BY <1>1, <2>12
    <3>2. c \in Grown(R, s, u) /\ u.terms[c].name # NoName
      BY <1>3, <1>5, <2>7, <2>9, <2>12 DEF Unified
    <3>3. u.terms[a].name = NoName /\ u.terms[a].parent = Nothing /\ u.terms[b].name = NoName /\ u.terms[b].parent = Nothing
      BY <2>10
    <3> HIDE DEF u, c, r
    <3>4. Unified(R, s, a, b, r)
      BY <2>8, <2>9, <3>1, <3>2, <3>3, MergedUnified DEF u
    <3>5. QED
      BY <3>4 DEF r
  <2>13. QED
    BY <2>11, <2>12
<1>6. QED
  BY <1>4, <1>5

\* The second half: b's binding y is searched for a.
SearchedApart(unify, s, a, b, c) ==
  IF c.error = "none" THEN (IF c.is THEN Fails(c.s, "TypeMismatch") ELSE UnifyApart(unify, c.s, a, b)) ELSE c

SecondApart(unify, occurs, s, a, b, y) ==
  IF y = Nothing THEN UnifyApart(unify, s, a, b) ELSE SearchedApart(unify, s, a, b, occurs[Search(s, a, y)])

LEMMA UnifiesSecond ==
  ASSUME NEW unify, Unifies(unify), NEW occurs, Finds(occurs), NEW s, Good(s), NEW R, Closed(s.terms, R),
         NEW a \in R, s.terms[a].name = NoName, s.terms[a].parent = Nothing,
         NEW b \in R, s.terms[b].name = NoName, s.terms[b].parent = Nothing,
         a # b,
         s.terms[a].binding # Nothing => Grounded(s.terms, b, {s.terms[a].binding}),
         NEW y, y = s.terms[b].binding,
         NEW r, r = SecondApart(unify, occurs, s, a, b, y)
  PROVE  Unified(R, s, a, b, r)
<1>1. a \in DOMAIN s.terms /\ b \in DOMAIN s.terms /\ Sound(s.terms)
  BY GoodTypes DEF Closed
<1>2. CASE y = Nothing
  BY <1>2, UnifiesApart, Zenon DEF SecondApart
<1>3. CASE y # Nothing
  <2> DEFINE c == occurs[Search(s, a, y)]
             last == UnifyApart(unify, c.s, a, b)
  <2>1. y \in DOMAIN s.terms
    BY <1>1, <1>3 DEF Sound, Shaped
  <2>2. Searched(s, a, {y}, c)
    BY <1>1, <2>1, Zenon DEF Finds
  <2>3. r = IF c.error = "none" THEN (IF c.is THEN Fails(c.s, "TypeMismatch") ELSE last) ELSE c
    BY <1>3 DEF SecondApart, SearchedApart
  <2> HIDE DEF c
  <2>4. Like(s, c.s) /\ c.s.variables = s.variables /\ c.s.terms = s.terms
    BY <2>2 DEF Searched, Like
  <2>5. Good(c.s) /\ Closed(c.s.terms, R) /\ Went(R, s, c.s)
    BY <2>4, LikeWent
  <2>6. CASE c.error = "none" /\ c.is = FALSE
    <3>1. Grounded(s.terms, a, {y})
      BY <2>2, <2>6 DEF Searched
    <3>2. Unified(R, c.s, a, b, last)
      BY <2>4, <2>5, <3>1, UnifiesApart, Zenon
    <3>3. r = last
      BY <2>3, <2>6
    <3> HIDE DEF last
    <3>4. QED
      BY <2>4, <3>2, <3>3, UnifiedAfter
  <2>7. CASE c.error # "none" \/ c.is = TRUE
    <3>1. r.s = c.s /\ r.error # "none"
      BY <2>3, <2>7 DEF Fails
    <3>2. QED
      BY <2>4, <2>5, <3>1 DEF Unified
  <2>8. c.error = "none" => c.is \in BOOLEAN
    BY <2>2 DEF Searched
  <2>9. QED
    BY <2>6, <2>7, <2>8, Zenon
<1>4. QED
  BY <1>2, <1>3

LEMMA UnifiesVariables ==
  ASSUME NEW unify, Unifies(unify), NEW occurs, Finds(occurs), NEW s, Good(s), NEW R, Closed(s.terms, R),
         NEW a \in R, s.terms[a].name = NoName, s.terms[a].parent = Nothing,
         NEW b \in R, s.terms[b].name = NoName, s.terms[b].parent = Nothing,
         a # b
  PROVE  Unified(R, s, a, b, UnifyVariables(unify, occurs, s, a, b))
<1> DEFINE x == s.terms[a].binding
           y == s.terms[b].binding
           r == UnifyVariables(unify, occurs, s, a, b)
           second(u) == SecondApart(unify, occurs, u, a, b, y)
<1>1. a \in DOMAIN s.terms /\ b \in DOMAIN s.terms /\ Sound(s.terms)
  BY GoodTypes DEF Closed
<1>2. CASE x = Nothing
  <2>1. r = second(s)
    BY <1>2 DEF UnifyVariables, SecondApart, SearchedApart, Absent, Then
  <2>2. Unified(R, s, a, b, second(s))
    BY <1>2, UnifiesSecond, Zenon
  <2> HIDE DEF r, second
  <2>3. Unified(R, s, a, b, r)
    BY <2>1, <2>2
  <2>4. QED
    BY <2>3 DEF r
<1>3. CASE x # Nothing
  <2> DEFINE c == occurs[Search(s, b, x)]
             last == second(c.s)
  <2>1. x \in DOMAIN s.terms
    BY <1>1, <1>3 DEF Sound, Shaped
  <2>2. Searched(s, b, {x}, c)
    BY <1>1, <2>1, Zenon DEF Finds
  <2>3. r = IF c.error = "none" THEN (IF c.is THEN Fails(c.s, "TypeMismatch") ELSE last) ELSE c
    BY <1>3 DEF UnifyVariables, SecondApart, SearchedApart, Absent, Then
  <2> HIDE DEF c
  <2>4. Like(s, c.s) /\ c.s.variables = s.variables /\ c.s.terms = s.terms
    BY <2>2 DEF Searched, Like
  <2>5. Good(c.s) /\ Closed(c.s.terms, R) /\ Went(R, s, c.s)
    BY <2>4, LikeWent
  <2> HIDE DEF r
  <2>6. CASE c.error = "none" /\ c.is = FALSE
    <3>1. Grounded(s.terms, b, {x})
      BY <2>2, <2>6 DEF Searched
    <3>2. Unified(R, c.s, a, b, last)
      BY <2>4, <2>5, <3>1, UnifiesSecond, Zenon
    <3>3. r = last
      BY <2>3, <2>6
    <3> HIDE DEF last
    <3>4. QED
      BY <2>4, <3>2, <3>3, UnifiedAfter DEF r
  <2>7. CASE c.error # "none" \/ c.is = TRUE
    <3>1. r.s = c.s /\ r.error # "none"
      BY <2>3, <2>7 DEF Fails
    <3>2. QED
      BY <2>4, <2>5, <3>1 DEF Unified, r
  <2>8. c.error = "none" => c.is \in BOOLEAN
    BY <2>2 DEF Searched
  <2>9. QED
    BY <2>6, <2>7, <2>8, Zenon
<1>4. QED
  BY <1>2, <1>3

\* Unifying two terms changes nothing but what they lead to, records every
\* change, and keeps the store sound.
LEMMA UnifyUnifies ==
  \A n \in 0..max_depth : Unifies(Unify[n])
<1> DEFINE T == {n \in 0..max_depth : Unifies(Unify[n])}
<1>0. max_depth \in Nat
  BY LimitsAssumption
<1>1. ASSUME NEW s, Good(s), NEW R, Closed(s.terms, R), NEW left \in R, NEW right \in R
      PROVE  /\ Pair(s, left, right) \in Pairs /\ Pair(s, left, right).s = s
             /\ Pair(s, left, right).left = left /\ Pair(s, left, right).right = right
             /\ Went(R, s, s) /\ left \in DOMAIN s.terms /\ right \in DOMAIN s.terms
  BY <1>1, GoodTypes, WentItself DEF Pair, Pairs, Closed
<1>2. 0 \in T
  <2>1. ASSUME NEW s, Good(s), NEW R, Closed(s.terms, R), NEW left \in R, NEW right \in R
        PROVE  Unified(R, s, left, right, Unify[0][Pair(s, left, right)])
    <3>0. /\ Pair(s, left, right) \in Pairs /\ Pair(s, left, right).s = s
          /\ Pair(s, left, right).left = left /\ Pair(s, left, right).right = right
      BY <2>1, <1>1
    <3>1. Unify[0][Pair(s, left, right)] =
            IF s.remaining = 0 THEN Fails(s, "CheckLimitExceeded") ELSE Fails(Ticked(s), "DepthLimitExceeded")
      BY <3>0, UnifyDefinition DEF TooDeep, Tick, Ticked
    <3>2. s.remaining # 0 => Went(R, s, Ticked(s)) /\ Ticked(s).variables = s.variables
      BY <2>1, TickedWent
    <3>3. QED
      BY <2>1, <1>1, <3>1, <3>2 DEF Unified, Fails
  <2>2. QED
    BY <1>0, <2>1 DEF Unifies
<1>3. ASSUME NEW n \in 1..max_depth, n - 1 \in T PROVE n \in T
  <2> DEFINE unify == Unify[n - 1]
             occurs == Occurs[n - 1]
  <2>1. Unifies(unify) /\ Finds(occurs)
    BY <1>3, OccursFinds
  <2>2. Unify[n] = UnifyWith(unify, occurs)
    BY UnifyDefinition
  <2> HIDE DEF unify, occurs
  <2>3. ASSUME NEW s, Good(s), NEW R, Closed(s.terms, R), NEW left \in R, NEW right \in R
        PROVE  Unified(R, s, left, right, Unify[n][Pair(s, left, right)])
    <3> DEFINE u == Ticked(s)
               a == Representative(u.terms)[left]
               b == Representative(u.terms)[right]
               r == Unify[n][Pair(s, left, right)]
    <3>0. /\ Pair(s, left, right) \in Pairs /\ Pair(s, left, right).s = s
          /\ Pair(s, left, right).left = left /\ Pair(s, left, right).right = right
      BY <2>3, <1>1
    <3>1. r = IF s.remaining = 0 THEN Fails(s, "CheckLimitExceeded") ELSE UnifyIn(unify, occurs, u, a, b)
      BY <2>2, <3>0 DEF UnifyWith, Tick, Ticked
    <3> HIDE DEF r
    <3>2. CASE s.remaining = 0
      BY <2>3, <1>1, <3>1, <3>2 DEF Unified, Fails, r
    <3>3. CASE s.remaining # 0
      <4>1. Good(u) /\ Like(s, u) /\ u.variables = s.variables /\ u.terms = s.terms
        BY <2>3, <3>3, TickedWent DEF Like
      <4>2. Closed(u.terms, R) /\ Sound(u.terms) /\ left \in DOMAIN u.terms /\ right \in DOMAIN u.terms
        BY <2>3, <4>1, <1>1, Zenon DEF Good
      <4> HIDE DEF u
      <4>3. IsRepresentative(u.terms, left, a) /\ IsRepresentative(u.terms, right, b)
        BY <4>2, Representatives
      <4> HIDE DEF a, b
      <4>4. /\ a \in R /\ b \in R /\ u.terms[a].parent = Nothing /\ u.terms[b].parent = Nothing
            /\ u.terms[left].name # NoName => a = left
            /\ u.terms[right].name # NoName => b = right
        BY <2>3, <4>2, <4>3 DEF IsRepresentative
      <4>5. Unified(R, u, a, b, r)
        <5>1. r = UnifyIn(unify, occurs, u, a, b)
          BY <3>1, <3>3
        <5>2. CASE a = b
          <6>1. r = Returns(u, a)
            BY <5>1, <5>2 DEF UnifyIn
          <6>2. Went(R, u, u) /\ Grown(R, u, u) = R
            BY <4>1, <4>2, WentItself
          <6>3. r.s = u /\ r.error = "none" /\ r.is = a
            BY <6>1 DEF Returns
          <6>4. QED
            BY <4>4, <6>2, <6>3 DEF Unified
        <5>3. CASE a # b /\ u.terms[a].name = NoName /\ u.terms[b].name = NoName
          <6>1. r = UnifyVariables(unify, occurs, u, a, b)
            BY <5>1, <5>3 DEF UnifyIn, IsVariable
          <6>2. QED
            BY <2>1, <4>1, <4>2, <4>4, <5>3, <6>1, UnifiesVariables
        <5>4. CASE a # b /\ u.terms[a].name = NoName /\ u.terms[b].name # NoName
          <6>1. r = UnifyVariable(unify, occurs, u, a, b)
            BY <5>1, <5>4 DEF UnifyIn, IsVariable
          <6>2. QED
            BY <2>1, <4>1, <4>2, <4>4, <5>4, <6>1, UnifiesVariable
        <5>5. CASE a # b /\ u.terms[a].name # NoName /\ u.terms[b].name = NoName
          <6>1. r = unify[Pair(u, b, a)]
            BY <5>1, <5>5 DEF UnifyIn, IsVariable
          <6>2. Unified(R, u, b, a, r)
            BY <2>1, <4>1, <4>2, <4>4, <6>1 DEF Unifies
          <6>3. QED
            BY <6>2 DEF Unified
        <5>6. CASE a # b /\ u.terms[a].name # NoName /\ u.terms[b].name # NoName
          <6>1. r = UnifyNamed(unify, u, a, b)
            BY <5>1, <5>6 DEF UnifyIn, IsVariable
          <6>2. QED
            BY <2>1, <4>1, <4>2, <4>4, <5>6, <6>1, UnifiesNamed
        <5>7. QED
          BY <5>2, <5>3, <5>4, <5>5, <5>6
      <4>6. Unified(R, s, a, b, r)
        BY <2>3, <4>1, <4>4, <4>5, UnifiedAfter
      <4>7. Unified(R, s, left, right, r)
        BY <4>1, <4>4, <4>6 DEF Unified
      <4>8. QED
        BY <4>7 DEF r
    <3>4. QED
      BY <3>2, <3>3
  <2>4. Unifies(Unify[n])
    BY <2>3 DEF Unifies
  <2>5. QED
    BY <2>4
<1>4. 0..max_depth \subseteq T
  <2> HIDE DEF T
  <2> QED BY <1>0, <1>2, <1>3, Induction
<1>5. QED
  BY <1>4

-----------------------------------------------------------------------------
(* finish *)

\* Types of fewer levels are types of more.
LEMMA TypesGrow ==
  \A n \in 0..max_depth : Types[n] \subseteq Types[n + 1]
<1> DEFINE T == {n \in 0..max_depth : Types[n] \subseteq Types[n + 1]}
<1>0. max_depth \in Nat
  BY LimitsAssumption
<1>1. 0 \in T
  BY <1>0, TypesDefinition
<1>2. ASSUME NEW n \in 1..max_depth, n - 1 \in T PROVE n \in T
  <2>1. Types[n] = TypesOver(Types[n - 1]) /\ Types[n + 1] = TypesOver(Types[n])
    <3>1. n \in 1..(max_depth + 1) /\ n + 1 \in 1..(max_depth + 1) /\ (n + 1) - 1 = n
      BY <1>0
    <3>2. QED
      BY <3>1, TypesDefinition
  <2>2. Types[n - 1] \subseteq Types[n]
    BY <1>2
  <2>3. ASSUME NEW S, NEW U, S \subseteq U PROVE TypesOver(S) \subseteq TypesOver(U)
    BY <2>3 DEF TypesOver
  <2>4. QED
    BY <2>1, <2>2, <2>3
<1>3. 0..max_depth \subseteq T
  <2> HIDE DEF T
  <2> QED BY <1>0, <1>1, <1>2, Induction
<1>4. QED
  BY <1>3

\* The type of a term, which is left as it was.
Finished(s0, types, r) ==
  /\ Like(s0, r.s) /\ r.s.variables = s0.variables
  /\ r.error = "none" => r.is \in types

FinishesTo(finish, types) ==
  \A s, t : Good(s) /\ t \in DOMAIN s.terms => Finished(s, types, finish[[s |-> s, input |-> t]])

LEMMA LikeLike ==
  ASSUME NEW s0, Good(s0), NEW s1, Like(s0, s1), NEW s2, Like(s1, s2)
  PROVE  Like(s0, s2)
BY GoodTypes DEF Like, Stores

LEMMA FinishesAll ==
  ASSUME NEW finish, NEW types, FinishesTo(finish, types), NEW s, Good(s), NEW inputs \in Seq(DOMAIN s.terms),
         NEW r, r = FinishAll(finish, s, inputs)
  PROVE  /\ Like(s, r.s) /\ r.s.variables = s.variables
         /\ r.error = "none" => r.is \in Seq(types) /\ Len(r.is) = Len(inputs)
<1> DEFINE size == Len(inputs)
           step == [q \in Steps |-> finish[[s |-> q.s, input |-> inputs[q.i]]]]
           All(n, q) == /\ Like(s, q.s) /\ q.s.variables = s.variables
                        /\ q.error = "none" => q.is \in Seq(types) /\ Len(q.is) = n
<1>1. size \in Nat
  OBVIOUS
<1>2. PICK f : EachUpto(f, step, s, size) /\ Each(step, s, size) = f[size]
  <2> HIDE DEF size, step
  <2> QED BY <1>1, EachDefinition
<1>3. r = f[size]
  BY <1>2 DEF FinishAll
<1> DEFINE T == {n \in 0..size : All(n, f[n])}
<1>4. 0 \in T
  <2>1. f[0].s = s /\ f[0].error = "none" /\ f[0].is = <<>>
    BY <1>2 DEF EachUpto, Returns
  <2>2. Like(s, s)
    BY GoodTypes DEF Like
  <2>3. All(0, f[0])
    BY <2>1, <2>2
  <2>4. QED
    BY <1>1, <2>3
<1>5. ASSUME NEW n \in 1..size, n - 1 \in T PROVE n \in T
  <2> DEFINE q == f[n - 1]
             a == finish[[s |-> q.s, input |-> inputs[n]]]
  <2>1. All(n - 1, q)
    BY <1>5
  <2>2. Good(q.s) /\ q.s.terms = s.terms
    BY <2>1, LikeGood DEF Like
  <2>3. step[[s |-> q.s, i |-> n]] = a
    <3>1. [s |-> q.s, i |-> n] \in Steps
      BY <2>2, <1>1, GoodTypes DEF Steps
    <3>2. QED
      BY <3>1
  <2>4. f[n] = IF q.error # "none" THEN q
               ELSE IF a.error = "none" THEN Returns(a.s, Append(q.is, a.is)) ELSE a
    <3> HIDE DEF step, a
    <3> QED BY <1>2, <2>3 DEF EachUpto, After, Then
  <2>5. Finished(q.s, types, a)
    <3>1. inputs[n] \in DOMAIN q.s.terms
      BY <2>2
    <3>2. QED
      BY <2>2, <3>1 DEF FinishesTo
  <2> HIDE DEF a, q
  <2>6. Like(s, a.s) /\ a.s.variables = s.variables
    BY <2>1, <2>5, LikeLike DEF Finished
  <2>7. All(n, f[n])
    <3>1. CASE q.error # "none"
      BY <2>1, <2>4, <3>1
    <3>2. CASE q.error = "none" /\ a.error # "none"
      BY <2>4, <2>6, <3>2
    <3>3. CASE q.error = "none" /\ a.error = "none"
      <4>1. f[n].s = a.s /\ f[n].error = "none" /\ f[n].is = Append(q.is, a.is)
        BY <2>4, <3>3 DEF Returns
      <4>2. q.is \in Seq(types) /\ Len(q.is) = n - 1 /\ a.is \in types
        BY <2>1, <2>5, <3>3 DEF Finished
      <4>3. Append(q.is, a.is) \in Seq(types) /\ Len(Append(q.is, a.is)) = n
        BY <4>2
      <4>4. QED
        BY <2>6, <4>1, <4>3
    <3>4. QED
      BY <3>1, <3>2, <3>3
  <2> HIDE DEF All
  <2>8. QED
    BY <2>7
<1>6. 0..size \subseteq T
  <2> HIDE DEF T, size
  <2> QED BY <1>1, <1>4, <1>5, Induction, Zenon
<1>7. QED
  BY <1>1, <1>3, <1>6

\* Types without type parameters.
Ground(type) ==
  \E G : type \in G /\ \A x \in G : x.parameter = Nothing /\ \A i \in DOMAIN x.parameters : x.parameters[i] \in G
GroundTypes(n) == {type \in Types[n] : Ground(type)}

LEMMA GroundMade ==
  ASSUME NEW name, NEW ts, \A i \in DOMAIN ts : Ground(ts[i])
  PROVE  Ground(Type(name, ts))
<1> DEFINE Of(i) == CHOOSE G : ts[i] \in G /\ \A x \in G : x.parameter = Nothing /\ \A j \in DOMAIN x.parameters : x.parameters[j] \in G
           type == Type(name, ts)
           G == {type} \cup UNION {Of(i) : i \in DOMAIN ts}
<1>1. ASSUME NEW i \in DOMAIN ts
      PROVE  ts[i] \in Of(i) /\ \A x \in Of(i) : x.parameter = Nothing /\ \A j \in DOMAIN x.parameters : x.parameters[j] \in Of(i)
  BY Zenon DEF Ground
<1> HIDE DEF Of
<1>2. type.parameter = Nothing /\ type.parameters = ts
  BY DEF Type
<1> HIDE DEF type
<1>3. ASSUME NEW x \in G PROVE x.parameter = Nothing /\ \A j \in DOMAIN x.parameters : x.parameters[j] \in G
  <2>1. CASE x = type
    BY <1>1, <1>2, <2>1
  <2>2. CASE \E i \in DOMAIN ts : x \in Of(i)
    BY <1>1, <2>2
  <2>3. QED
    BY <2>1, <2>2
<1>4. type \in G
  OBVIOUS
<1> HIDE DEF G
<1>5. Ground(type)
  BY <1>3, <1>4 DEF Ground
<1>6. QED
  BY <1>5 DEF type

LEMMA FinishFinishes ==
  \A n \in 0..max_depth : FinishesTo(Finish[n], GroundTypes(n))
<1> DEFINE T == {n \in 0..max_depth : FinishesTo(Finish[n], GroundTypes(n))}
<1>0. max_depth \in Nat
  BY LimitsAssumption
<1>1. ASSUME NEW s, Good(s), NEW t \in DOMAIN s.terms
      PROVE  [s |-> s, input |-> t] \in Inputs /\ Like(s, s)
  BY <1>1, GoodTypes DEF Inputs, Like
<1>2. 0 \in T
  <2>1. ASSUME NEW s, Good(s), NEW t \in DOMAIN s.terms
        PROVE  Finished(s, GroundTypes(0), Finish[0][[s |-> s, input |-> t]])
    <3>0. [s |-> s, input |-> t] \in Inputs /\ Like(s, s)
      BY <2>1, <1>1
    <3>1. Finish[0][[s |-> s, input |-> t]] =
            IF s.remaining = 0 THEN Fails(s, "CheckLimitExceeded") ELSE Fails(Ticked(s), "DepthLimitExceeded")
      BY <3>0, FinishDefinition DEF TooDeep, Tick, Ticked
    <3>2. QED
      BY <2>1, <3>0, <3>1, TickedLike DEF Finished, Fails
  <2>2. QED
    BY <1>0, <2>1 DEF FinishesTo
<1>3. ASSUME NEW n \in 1..max_depth, n - 1 \in T PROVE n \in T
  <2> DEFINE finish == Finish[n - 1]
  <2>1. FinishesTo(finish, GroundTypes(n - 1)) /\ Types[n] = TypesOver(Types[n - 1])
    BY <1>0, <1>3, TypesDefinition
  <2>2. Finish[n] = FinishWith(finish)
    BY FinishDefinition
  <2> HIDE DEF finish
  <2>3. ASSUME NEW s, Good(s), NEW t \in DOMAIN s.terms
        PROVE  Finished(s, GroundTypes(n), Finish[n][[s |-> s, input |-> t]])
    <3> DEFINE u == Ticked(s)
               p == Peek(u.terms)[t]
               r == Finish[n][[s |-> s, input |-> t]]
    <3>0. [s |-> s, input |-> t] \in Inputs /\ Like(s, s)
      BY <2>3, <1>1
    <3>1. r = IF s.remaining = 0 THEN Fails(s, "CheckLimitExceeded") ELSE FinishIn(finish, u, p)
      BY <2>2, <3>0 DEF FinishWith, Tick, Ticked
    <3> HIDE DEF r
    <3>2. CASE s.remaining = 0
      BY <3>0, <3>1, <3>2 DEF Finished, Fails, r
    <3>3. CASE s.remaining # 0
      <4>1. Good(u) /\ Like(s, u) /\ u.variables = s.variables /\ u.terms = s.terms
        BY <2>3, <3>3, TickedLike DEF Like
      <4>2. Sound(u.terms) /\ t \in DOMAIN u.terms
        BY <2>3, <4>1 DEF Good
      <4> HIDE DEF u
      <4>3. p \in DOMAIN u.terms
        BY <4>2, Peeks
      <4> HIDE DEF p
      <4> DEFINE x == u.terms[p]
                 all == FinishAll(finish, u, x.parameters)
                 name == IF x.name = NoName THEN "dyn" ELSE x.name
      <4>4. /\ x.parameters \in Seq(DOMAIN u.terms) /\ x.name \in Names
            /\ x.name = NoName => x.parameters = <<>>
            /\ x.name = "wrapper" => x.parameters # <<>>
        <5>1. x.parameters \in Seq(Nat) /\ x.name \in Names
          BY <4>2, <4>3, TermTypes DEF Sound
        <5>2. /\ \A i \in 1..Len(x.parameters) : x.parameters[i] \in DOMAIN u.terms
              /\ x.name = NoName => x.parameters = <<>>
              /\ x.name = "wrapper" => x.parameters # <<>>
          BY <4>2, <4>3, <5>1 DEF Sound, Shaped
        <5> HIDE DEF x
        <5>3. QED
          BY <5>1, <5>2, ElementsIn, Zenon
      <4>5. /\ Like(u, all.s) /\ all.s.variables = u.variables
            /\ all.error = "none" => all.is \in Seq(GroundTypes(n - 1)) /\ Len(all.is) = Len(x.parameters)
        <5> HIDE DEF x
        <5> QED BY <2>1, <4>1, <4>4, FinishesAll
      <4>6. r = IF all.error = "none" THEN Returns(all.s, Type(name, all.is)) ELSE all
        BY <3>1, <3>3 DEF FinishIn, Then, IsVariable
      <4> HIDE DEF all
      <4>7. Like(s, all.s) /\ all.s.variables = s.variables
        BY <2>3, <4>1, <4>5, LikeLike
      <4>8. CASE all.error # "none"
        BY <4>6, <4>7, <4>8 DEF Finished, r
      <4>9. CASE all.error = "none"
        <5> DEFINE type == Type(name, all.is)
        <5>1. name \in Names /\ name # NoName /\ (name = "wrapper" => x.parameters # <<>>)
          BY <4>4, NamesAssumption DEF NoName
        <5>2. all.is \in Seq(Types[n - 1]) /\ Len(all.is) = Len(x.parameters) /\ \A i \in DOMAIN all.is : Ground(all.is[i])
          <6>1. all.is \in Seq(GroundTypes(n - 1)) /\ Len(all.is) = Len(x.parameters)
            BY <4>5, <4>9
          <6>2. \A i \in DOMAIN all.is : all.is[i] \in GroundTypes(n - 1)
            BY <6>1
          <6>3. GroundTypes(n - 1) \subseteq Types[n - 1] /\ \A ground \in GroundTypes(n - 1) : Ground(ground)
            BY DEF GroundTypes
          <6> DEFINE S == GroundTypes(n - 1)
                     P == Types[n - 1]
          <6>4. S \subseteq P /\ all.is \in Seq(S)
            BY <6>1, <6>3
          <6> HIDE DEF S, P
          <6>5. all.is \in Seq(P)
            BY <6>4
          <6>6. QED
            BY <6>1, <6>2, <6>3, <6>5 DEF P
        <5>3. name = "wrapper" => all.is # <<>>
          <6> HIDE DEF x, name
          <6> QED BY <4>4, <5>1, <5>2
        <5>4. type \in TypesOver(Types[n - 1])
          <6> HIDE DEF name
          <6> QED BY <5>1, <5>2, <5>3 DEF TypesOver, Type, Nothing
        <5>5. Ground(type)
          <6> HIDE DEF name
          <6> QED BY <5>2, GroundMade
        <5> HIDE DEF type
        <5>6. r.s = all.s /\ r.error = "none" /\ r.is = type
          BY <4>6, <4>9 DEF Returns, type
        <5>7. Finished(s, GroundTypes(n), r)
          BY <2>1, <4>7, <5>4, <5>5, <5>6 DEF Finished, GroundTypes
        <5>8. QED
          BY <5>7 DEF r
      <4>10. QED
        BY <4>8, <4>9
    <3>4. QED
      BY <3>2, <3>3
  <2>4. FinishesTo(Finish[n], GroundTypes(n))
    BY <2>3 DEF FinishesTo
  <2>5. QED
    BY <2>4
<1>4. 0..max_depth \subseteq T
  <2> HIDE DEF T
  <2> QED BY <1>0, <1>2, <1>3, Induction
<1>5. QED
  BY <1>4

-----------------------------------------------------------------------------
(* instantiate *)

\* The variables of a declaration stand for terms of a closed set.
Standing(R, s) == \A x \in s.variables : x.term \in R

Instantiated(R, s0, r) ==
  /\ Reached(R, s0, r.s) /\ r.s.changes = s0.changes /\ Standing(Grown(R, s0, r.s), r.s)
  /\ r.error = "none" => r.is \in Grown(R, s0, r.s)

Instantiates(instantiate, types) ==
  \A s, R, type :
    Good(s) /\ Closed(s.terms, R) /\ Standing(R, s) /\ type \in types =>
      Instantiated(R, s, instantiate[[s |-> s, type |-> type]])

LEMMA LikeReachedIn ==
  ASSUME NEW s0, Good(s0), NEW R, Closed(s0.terms, R),
         NEW s, Like(s0, s), \A x \in s.variables : x.term \in DOMAIN s.terms
  PROVE  Good(s) /\ Reached(R, s0, s) /\ Grown(R, s0, s) = R
BY LikeReached

\* Other variables of a declaration leave the store as it is.
LEMMA VariablesReached ==
  ASSUME NEW s0, Good(s0), NEW R, NEW s, Reached(R, s0, s),
         NEW V, V \subseteq Formals, \A x \in V : x.term \in DOMAIN s.terms,
         NEW w, w = [s EXCEPT !.variables = V]
  PROVE  /\ Good(w) /\ Reached(R, s0, w) /\ Grown(R, s0, w) = Grown(R, s0, s)
         /\ w.variables = V /\ w.terms = s.terms /\ w.remaining = s.remaining /\ w.changes = s.changes
<1>1. Good(s) /\ Closed(s.terms, Grown(R, s0, s))
  BY ReachedGood
<1>2. /\ w \in Stores /\ w.variables = V /\ w.terms = s.terms /\ w.remaining = s.remaining
      /\ w.changes = s.changes
  BY <1>1, GoodTypes DEF Stores
<1>3. Like(s, w)
  BY <1>1, <1>2, GoodTypes DEF Like
<1>4. /\ Good(w) /\ Reached(Grown(R, s0, s), s, w)
      /\ Grown(Grown(R, s0, s), s, w) = Grown(R, s0, s)
  <2>1. \A x \in w.variables : x.term \in DOMAIN w.terms
    BY <1>2
  <2> DEFINE S == Grown(R, s0, s)
  <2>2. Closed(s.terms, S)
    BY <1>1
  <2> HIDE DEF S
  <2>3. Good(w) /\ Reached(S, s, w) /\ Grown(S, s, w) = S
    BY <1>1, <1>3, <2>1, <2>2, LikeReachedIn, Zenon
  <2>4. QED
    BY <2>3 DEF S
<1>5. QED
  BY <1>2, <1>4, ReachedReached

LEMMA InstantiatesParameter ==
  ASSUME NEW s, Good(s), NEW R, Closed(s.terms, R), Standing(R, s), NEW p \in Nat
  PROVE  Instantiated(R, s, InstantiateParameter(s, p))
<1> DEFINE r == InstantiateParameter(s, p)
           new == NewTerm(s, Variable)
<1>1. Reached(R, s, s) /\ Grown(R, s, s) = R
  BY ReachedItself
<1>2. CASE \E x \in s.variables : x.parameter = p
  <2> DEFINE y == CHOOSE x \in s.variables : x.parameter = p
  <2>1. y \in s.variables
    BY <1>2
  <2>2. r = Returns(s, y.term)
    BY <1>2 DEF InstantiateParameter
  <2> HIDE DEF y
  <2>3. r.s = s /\ r.error = "none" /\ r.is = y.term
    BY <2>2 DEF Returns
  <2> HIDE DEF r
  <2>4. Instantiated(R, s, r)
    BY <1>1, <2>1, <2>3 DEF Instantiated, Standing
  <2>5. QED
    BY <2>4 DEF r
<1>3. CASE ~\E x \in s.variables : x.parameter = p
  <2>1. Fits(s, Variable) /\ Variable.parameters = <<>>
    <3>1. Variable.name = NoName /\ Variable.parameters = <<>> /\ Variable = Named(Variable.name, Variable.parameters)
      BY DEF Variable, Named
    <3>2. NoName # "wrapper" /\ NoName \in Names
      BY NamesAssumption DEF NoName
    <3>3. QED
      BY <3>1, <3>2, SmallTuples DEF Fits
  <2>2. /\ Reached(R, s, new.s) /\ new.s.variables = s.variables /\ new.s.changes = s.changes
        /\ new.error = "none" => new.is \in Grown(R, s, new.s)
    <3>1. \A i \in DOMAIN Variable.parameters : Variable.parameters[i] \in Grown(R, s, s)
      BY <2>1
    <3>2. QED
      BY <1>1, <2>1, <3>1, NewTermReached
  <2> DEFINE w == [new.s EXCEPT !.variables = @ \cup {[parameter |-> p, term |-> new.is]}]
  <2>3. r = IF new.error = "none" THEN Returns(w, new.is) ELSE new
    BY <1>3 DEF InstantiateParameter, Then
  <2> HIDE DEF new, r
  <2>4. CASE new.error # "none"
    <3>1. Standing(Grown(R, s, new.s), new.s)
      BY <2>2, ReachedGood DEF Standing
    <3>2. Instantiated(R, s, r)
      BY <2>2, <2>3, <2>4, <3>1 DEF Instantiated
    <3>3. QED
      BY <3>2 DEF r
  <2>5. CASE new.error = "none"
    <3> DEFINE V == s.variables \cup {[parameter |-> p, term |-> new.is]}
    <3>1. Good(new.s) /\ Grown(R, s, new.s) \subseteq DOMAIN new.s.terms /\ R \subseteq Grown(R, s, new.s)
      BY <2>2, ReachedGood DEF Closed
    <3>2. new.is \in Grown(R, s, new.s) /\ new.is \in Nat
      BY <2>2, <2>5, <3>1, GoodTypes
    <3>3. V \subseteq Formals
      <4>1. s.variables \subseteq Formals
        BY GoodTypes DEF Stores
      <4>2. [parameter |-> p, term |-> new.is] \in Formals
        BY <3>2 DEF Formals
      <4>3. QED
        BY <4>1, <4>2
    <3>4. \A x \in V : x.term \in Grown(R, s, new.s)
      BY <3>1, <3>2 DEF Standing
    <3>5. w = [new.s EXCEPT !.variables = V]
      BY <2>2, <3>1, GoodTypes DEF Stores
    <3> HIDE DEF w, V
    <3>6. Reached(R, s, w) /\ Grown(R, s, w) = Grown(R, s, new.s) /\ w.variables = V /\ w.changes = new.s.changes
      <4>1. \A x \in V : x.term \in DOMAIN new.s.terms
        BY <3>1, <3>4
      <4>2. QED
        BY <2>2, <3>3, <3>5, <4>1, VariablesReached
    <3>7. r.s = w /\ r.is = new.is
      BY <2>3, <2>5 DEF Returns
    <3>8. Instantiated(R, s, r)
      BY <2>2, <3>2, <3>4, <3>6, <3>7 DEF Instantiated, Standing
    <3>9. QED
      BY <3>8 DEF r
  <2>6. QED
    BY <2>4, <2>5
<1>4. QED
  BY <1>2, <1>3

InstantiatedAll(R, s0, n, r) ==
  /\ Reached(R, s0, r.s) /\ r.s.changes = s0.changes /\ Standing(Grown(R, s0, r.s), r.s)
  /\ r.error = "none" => r.is \in Seq(Grown(R, s0, r.s)) /\ Len(r.is) = n

LEMMA InstantiatesAll ==
  ASSUME NEW instantiate, NEW domain, Instantiates(instantiate, domain), NEW s, Good(s), NEW R, Closed(s.terms, R),
         Standing(R, s), NEW types \in Seq(domain)
  PROVE  InstantiatedAll(R, s, Len(types), InstantiateAll(instantiate, s, types))
<1> DEFINE size == Len(types)
           step == [q \in Steps |-> instantiate[[s |-> q.s, type |-> types[q.i]]]]
<1>1. size \in Nat
  OBVIOUS
<1>2. PICK f : EachUpto(f, step, s, size) /\ Each(step, s, size) = f[size]
  <2> HIDE DEF size, step
  <2> QED BY <1>1, EachDefinition
<1>3. InstantiateAll(instantiate, s, types) = f[size]
  BY <1>2 DEF InstantiateAll
<1> DEFINE T == {n \in 0..size : InstantiatedAll(R, s, n, f[n])}
<1>4. 0 \in T
  <2>1. f[0].s = s /\ f[0].error = "none" /\ f[0].is = <<>>
    BY <1>2 DEF EachUpto, Returns
  <2>2. Reached(R, s, s) /\ Grown(R, s, s) = R
    BY ReachedItself
  <2>3. InstantiatedAll(R, s, 0, f[0])
    BY <2>1, <2>2 DEF InstantiatedAll
  <2>4. QED
    BY <1>1, <2>3
<1>5. ASSUME NEW n \in 1..size, n - 1 \in T PROVE n \in T
  <2> DEFINE q == f[n - 1]
             S == Grown(R, s, q.s)
             a == instantiate[[s |-> q.s, type |-> types[n]]]
  <2>1. InstantiatedAll(R, s, n - 1, q)
    BY <1>5
  <2>2. Reached(R, s, q.s) /\ q.s.changes = s.changes /\ Standing(S, q.s)
    BY <2>1 DEF InstantiatedAll
  <2>3. Good(q.s) /\ Closed(q.s.terms, S) /\ R \subseteq S
    BY <2>2, ReachedGood
  <2>4. step[[s |-> q.s, i |-> n]] = a
    <3>1. [s |-> q.s, i |-> n] \in Steps
      BY <2>3, <1>1, GoodTypes DEF Steps
    <3>2. QED
      BY <3>1
  <2>5. f[n] = IF q.error # "none" THEN q
               ELSE IF a.error = "none" THEN Returns(a.s, Append(q.is, a.is)) ELSE a
    <3> HIDE DEF step, a
    <3> QED BY <1>2, <2>4 DEF EachUpto, After, Then
  <2>6. CASE q.error # "none"
    <3>1. InstantiatedAll(R, s, n, f[n])
      BY <2>1, <2>5, <2>6 DEF InstantiatedAll
    <3>2. QED
      BY <3>1
  <2>7. CASE q.error = "none"
    <3>1. types[n] \in domain
      OBVIOUS
    <3>2. Instantiated(S, q.s, a)
      <4> HIDE DEF S, q
      <4> QED BY <2>2, <2>3, <3>1 DEF Instantiates
    <3>3. Reached(S, q.s, a.s) /\ a.s.changes = s.changes
      BY <2>2, <3>2 DEF Instantiated
    <3>4. Reached(R, s, a.s) /\ Grown(S, q.s, a.s) = Grown(R, s, a.s)
      BY <2>2, <3>3, ReachedReached
    <3>5. S \subseteq Grown(R, s, a.s) /\ Standing(Grown(R, s, a.s), a.s)
      BY <2>2, <3>2, <3>3, <3>4, GrownGrows DEF Reached, Instantiated
    <3>6. InstantiatedAll(R, s, n, f[n])
      <4>1. CASE a.error # "none"
        BY <2>2, <2>5, <2>7, <3>3, <3>4, <3>5, <4>1 DEF InstantiatedAll
      <4>2. CASE a.error = "none"
        <5>1. a.is \in Grown(R, s, a.s)
          BY <3>2, <3>4, <4>2 DEF Instantiated
        <5>2. q.is \in Seq(Grown(R, s, a.s)) /\ Len(q.is) = n - 1
          BY <2>1, <2>7, <3>5 DEF InstantiatedAll
        <5>3. f[n] = Returns(a.s, Append(q.is, a.is))
          BY <2>5, <2>7, <4>2
        <5>4. Append(q.is, a.is) \in Seq(Grown(R, s, a.s)) /\ Len(Append(q.is, a.is)) = n
          <6> HIDE DEF q, a
          <6> QED BY <5>1, <5>2
        <5>5. f[n].s = a.s /\ f[n].error = "none" /\ f[n].is = Append(q.is, a.is)
          BY <5>3 DEF Returns
        <5> HIDE DEF q, a
        <5>6. QED
          BY <3>3, <3>4, <3>5, <5>4, <5>5 DEF InstantiatedAll
      <4>3. QED
        BY <4>1, <4>2
    <3>7. QED
      BY <3>6
  <2>8. QED
    BY <2>6, <2>7
<1>6. 0..size \subseteq T
  <2> HIDE DEF T, size
  <2> QED BY <1>1, <1>4, <1>5, Induction, Zenon
<1>7. QED
  BY <1>1, <1>3, <1>6

LEMMA InstantiateInstantiates ==
  \A n \in 0..max_depth : Instantiates(Instantiate[n], Types[n + 1])
<1> DEFINE T == {n \in 0..max_depth : Instantiates(Instantiate[n], Types[n + 1])}
<1>0. max_depth \in Nat
  BY LimitsAssumption
<1>1. 0 \in T
  <2>1. ASSUME NEW s, Good(s), NEW R, Closed(s.terms, R), Standing(R, s), NEW type \in Types[0 + 1]
        PROVE  Instantiated(R, s, Instantiate[0][[s |-> s, type |-> type]])
    <3>1. [s |-> s, type |-> type] \in Declarations(0)
      BY <2>1, GoodTypes DEF Declarations
    <3>2. Instantiate[0][[s |-> s, type |-> type]] = Fails(s, "DepthLimitExceeded")
      BY <3>1, InstantiateDefinition
    <3>3. Reached(R, s, s) /\ Grown(R, s, s) = R
      BY <2>1, ReachedItself
    <3>4. QED
      BY <2>1, <3>2, <3>3 DEF Instantiated, Fails
  <2>2. QED
    BY <1>0, <2>1 DEF Instantiates
<1>2. ASSUME NEW n \in 1..max_depth, n - 1 \in T PROVE n \in T
  <2> DEFINE instantiate == Instantiate[n - 1]
  <2>1. Instantiates(instantiate, Types[n]) /\ Types[n + 1] = TypesOver(Types[n])
    <3>1. n + 1 \in 1..(max_depth + 1) /\ (n + 1) - 1 = n /\ (n - 1) + 1 = n
      BY <1>0
    <3>2. QED
      BY <1>2, <3>1, TypesDefinition
  <2>2. Instantiate[n] = InstantiateWith(instantiate, n)
    BY InstantiateDefinition
  <2> HIDE DEF instantiate
  <2>3. ASSUME NEW s, Good(s), NEW R, Closed(s.terms, R), Standing(R, s), NEW type \in Types[n + 1]
        PROVE  Instantiated(R, s, Instantiate[n][[s |-> s, type |-> type]])
    <3> DEFINE all == InstantiateAll(instantiate, s, type.parameters)
               r == Instantiate[n][[s |-> s, type |-> type]]
               term == Named(type.name, all.is)
    <3>1. [s |-> s, type |-> type] \in Declarations(n)
      BY <2>3, GoodTypes DEF Declarations
    <3>2. r = IF type.parameter # Nothing THEN InstantiateParameter(s, type.parameter)
              ELSE IF all.error = "none" THEN NewTerm(all.s, term) ELSE all
      BY <2>2, <3>1 DEF InstantiateWith, Then
    <3>3. /\ type.parameter \in Nat /\ type.name \in Names /\ type.parameters \in Seq(Types[n])
          /\ type.parameter = Nothing => type.name # NoName
          /\ type.name = "wrapper" => type.parameters # <<>>
      BY <2>1, <2>3 DEF TypesOver
    <3> HIDE DEF r
    <3>4. CASE type.parameter # Nothing
      BY <2>3, <3>2, <3>3, <3>4, InstantiatesParameter DEF r
    <3>5. CASE type.parameter = Nothing
      <4>1. InstantiatedAll(R, s, Len(type.parameters), all)
        BY <2>1, <2>3, <3>3, InstantiatesAll
      <4> HIDE DEF all
      <4>2. Reached(R, s, all.s) /\ all.s.changes = s.changes /\ Standing(Grown(R, s, all.s), all.s)
        BY <4>1 DEF InstantiatedAll
      <4>3. CASE all.error # "none"
        <5>1. Instantiated(R, s, r)
          BY <3>2, <3>5, <4>2, <4>3 DEF Instantiated
        <5>2. QED
          BY <5>1 DEF r
      <4>4. CASE all.error = "none"
        <5>1. all.is \in Seq(Grown(R, s, all.s)) /\ Len(all.is) = Len(type.parameters)
          BY <4>1, <4>4 DEF InstantiatedAll
        <5>2. Good(all.s) /\ Grown(R, s, all.s) \subseteq DOMAIN all.s.terms
          BY <2>3, <4>2, ReachedGood DEF Closed
        <5>3. term = Named(term.name, term.parameters) /\ term.name = type.name /\ term.parameters = all.is
          BY DEF Named
        <5> HIDE DEF term
        <5>4. Fits(all.s, term)
          <6>1. term.parameters \in Seq(DOMAIN all.s.terms)
            BY <5>1, <5>2, <5>3
          <6>2. type.name = "wrapper" => all.is # <<>>
            BY <3>3, <5>1
          <6>3. QED
            BY <3>3, <3>5, <5>3, <6>1, <6>2 DEF Fits
        <5>5. \A i \in DOMAIN term.parameters : term.parameters[i] \in Grown(R, s, all.s)
          BY <5>1, <5>3
        <5>6. /\ Reached(R, s, r.s) /\ r.s.variables = all.s.variables /\ r.s.changes = s.changes
              /\ r.error = "none" => r.is \in Grown(R, s, r.s)
          BY <2>3, <3>2, <3>5, <4>2, <4>4, <5>4, <5>5, NewTermReached
        <5>7. Standing(Grown(R, s, r.s), r.s)
          <6>1. Later(s, all.s) /\ Later(s, r.s)
            BY <4>2, <5>6 DEF Reached
          <6>2. Later(all.s, r.s)
            <7>1. NewTerm(all.s, term) = r
              BY <3>2, <3>5, <4>4
            <7>2. Closed(all.s.terms, DOMAIN all.s.terms) /\ Reached(DOMAIN all.s.terms, all.s, all.s)
                  /\ Grown(DOMAIN all.s.terms, all.s, all.s) = DOMAIN all.s.terms
              BY <5>2, AllClosed, ReachedItself, GoodTypes
            <7>3. \A i \in DOMAIN term.parameters : term.parameters[i] \in DOMAIN all.s.terms
              BY <5>4 DEF Fits
            <7>4. Reached(DOMAIN all.s.terms, all.s, r.s)
              BY <5>2, <5>4, <7>1, <7>2, <7>3, NewTermReached
            <7>5. QED
              BY <7>4 DEF Reached
          <6>3. Grown(R, s, all.s) \subseteq Grown(R, s, r.s)
            BY <2>3, <6>1, <6>2, GrownGrows
          <6>4. QED
            BY <4>2, <5>6, <6>3 DEF Standing
        <5>8. Instantiated(R, s, r)
          BY <5>6, <5>7 DEF Instantiated
        <5>9. QED
          BY <5>8 DEF r
      <4>5. QED
        BY <4>3, <4>4
    <3>6. QED
      BY <3>4, <3>5
  <2>4. Instantiates(Instantiate[n], Types[n + 1])
    BY <2>3 DEF Instantiates
  <2>5. QED
    BY <2>4
<1>3. 0..max_depth \subseteq T
  <2> HIDE DEF T
  <2> QED BY <1>0, <1>1, <1>2, Induction
<1>4. QED
  BY <1>3

\* Without type parameters nothing but named terms is made.
MakesNamed(instantiate, types) ==
  \A s, type : Good(s) /\ type \in types /\ Ground(type) => OnlyNamed(s, instantiate[[s |-> s, type |-> type]].s)

LEMMA OnlyNamedTwice ==
  ASSUME NEW s0, Good(s0), NEW s1, Later(s0, s1), OnlyNamed(s0, s1), NEW s2, Later(s1, s2), OnlyNamed(s1, s2)
  PROVE  OnlyNamed(s0, s2)
<1>1. Good(s1) /\ Good(s2) /\ Len(s0.terms) <= Len(s1.terms) /\ Len(s1.terms) <= Len(s2.terms)
      /\ \A t \in DOMAIN s1.terms : s2.terms[t].name = s1.terms[t].name
  BY DEF Later
<1>2. ASSUME NEW t \in (Len(s0.terms) + 1)..Len(s2.terms) PROVE s2.terms[t].name # NoName
  <2>1. CASE t \in (Len(s0.terms) + 1)..Len(s1.terms)
    <3>1. t \in DOMAIN s1.terms
      BY <1>1, <2>1, GoodTypes
    <3>2. QED
      BY <1>1, <2>1, <3>1 DEF OnlyNamed
  <2>2. CASE t \in (Len(s1.terms) + 1)..Len(s2.terms)
    BY <2>2 DEF OnlyNamed
  <2>3. QED
    BY <1>1, <2>1, <2>2, GoodTypes
<1>3. QED
  BY <1>2 DEF OnlyNamed

LEMMA MakesNamedAll ==
  ASSUME NEW instantiate, NEW domain, Instantiates(instantiate, domain), MakesNamed(instantiate, domain),
         NEW s, Good(s), NEW types \in Seq(domain), \A i \in DOMAIN types : Ground(types[i])
  PROVE  /\ Later(s, InstantiateAll(instantiate, s, types).s) /\ OnlyNamed(s, InstantiateAll(instantiate, s, types).s)
<1> DEFINE size == Len(types)
           step == [q \in Steps |-> instantiate[[s |-> q.s, type |-> types[q.i]]]]
<1>1. size \in Nat
  OBVIOUS
<1>2. PICK f : EachUpto(f, step, s, size) /\ Each(step, s, size) = f[size]
  <2> HIDE DEF size, step
  <2> QED BY <1>1, EachDefinition
<1>3. InstantiateAll(instantiate, s, types) = f[size]
  BY <1>2 DEF InstantiateAll
<1> DEFINE T == {n \in 0..size : Later(s, f[n].s) /\ OnlyNamed(s, f[n].s)}
<1>4. 0 \in T
  <2>1. f[0].s = s
    BY <1>2 DEF EachUpto, Returns
  <2>2. Later(s, s) /\ OnlyNamed(s, s)
    <3>1. Closed(s.terms, DOMAIN s.terms)
      BY AllClosed, GoodTypes
    <3>2. QED
      BY <3>1, WentItself DEF Went, Reached
  <2>3. QED
    BY <1>1, <2>1, <2>2
<1>5. ASSUME NEW n \in 1..size, n - 1 \in T PROVE n \in T
  <2> DEFINE q == f[n - 1]
             a == instantiate[[s |-> q.s, type |-> types[n]]]
  <2>1. Later(s, q.s) /\ OnlyNamed(s, q.s) /\ Good(q.s)
    BY <1>5 DEF Later
  <2>2. step[[s |-> q.s, i |-> n]] = a
    <3>1. [s |-> q.s, i |-> n] \in Steps
      BY <2>1, <1>1, GoodTypes DEF Steps
    <3>2. QED
      BY <3>1
  <2>3. f[n] = IF q.error # "none" THEN q
               ELSE IF a.error = "none" THEN Returns(a.s, Append(q.is, a.is)) ELSE a
    <3> HIDE DEF step, a
    <3> QED BY <1>2, <2>2 DEF EachUpto, After, Then
  <2>4. types[n] \in domain /\ Ground(types[n])
    <3>1. n \in DOMAIN types
      BY <1>1
    <3>2. QED
      BY <3>1
  <2>5. Later(q.s, a.s) /\ OnlyNamed(q.s, a.s)
    <3>1. Closed(q.s.terms, DOMAIN q.s.terms) /\ Standing(DOMAIN q.s.terms, q.s)
      BY <2>1, AllClosed, GoodTypes DEF Standing, Good
    <3> HIDE DEF q
    <3>2. Instantiated(DOMAIN q.s.terms, q.s, a)
      BY <2>1, <2>4, <3>1 DEF Instantiates
    <3>3. QED
      BY <2>1, <2>4, <3>2 DEF MakesNamed, Instantiated, Reached
  <2> HIDE DEF a, q
  <2>6. Later(s, a.s) /\ OnlyNamed(s, a.s)
    BY <2>1, <2>5, LaterLater, OnlyNamedTwice
  <2>7. f[n].s = q.s \/ f[n].s = a.s
    BY <2>3 DEF Returns
  <2>8. QED
    BY <2>1, <2>6, <2>7
<1>6. 0..size \subseteq T
  <2> HIDE DEF T, size
  <2> QED BY <1>1, <1>4, <1>5, Induction, Zenon
<1>7. QED
  BY <1>1, <1>3, <1>6

LEMMA GroundInstantiates ==
  \A n \in 0..max_depth : MakesNamed(Instantiate[n], Types[n + 1])
<1> DEFINE T == {n \in 0..max_depth : MakesNamed(Instantiate[n], Types[n + 1])}
<1>0. max_depth \in Nat
  BY LimitsAssumption
<1>1. 0 \in T
  <2>1. ASSUME NEW s, Good(s), NEW type \in Types[0 + 1]
        PROVE  OnlyNamed(s, Instantiate[0][[s |-> s, type |-> type]].s)
    <3>1. [s |-> s, type |-> type] \in Declarations(0)
      BY <2>1, GoodTypes DEF Declarations
    <3>2. Instantiate[0][[s |-> s, type |-> type]] = Fails(s, "DepthLimitExceeded")
      BY <3>1, InstantiateDefinition
    <3>3. QED
      BY <2>1, <3>2, SameSize DEF Fails
  <2>2. QED
    BY <1>0, <2>1 DEF MakesNamed
<1>2. ASSUME NEW n \in 1..max_depth, n - 1 \in T PROVE n \in T
  <2> DEFINE instantiate == Instantiate[n - 1]
  <2>1. MakesNamed(instantiate, Types[n]) /\ Instantiates(instantiate, Types[n]) /\ Types[n + 1] = TypesOver(Types[n])
    <3>1. n + 1 \in 1..(max_depth + 1) /\ (n + 1) - 1 = n /\ (n - 1) + 1 = n /\ n - 1 \in 0..max_depth
      BY <1>0
    <3>2. QED
      BY <1>2, <3>1, TypesDefinition, InstantiateInstantiates
  <2>2. Instantiate[n] = InstantiateWith(instantiate, n)
    BY InstantiateDefinition
  <2> HIDE DEF instantiate
  <2>3. ASSUME NEW s, Good(s), NEW type \in Types[n + 1], Ground(type)
        PROVE  OnlyNamed(s, Instantiate[n][[s |-> s, type |-> type]].s)
    <3> DEFINE all == InstantiateAll(instantiate, s, type.parameters)
               r == Instantiate[n][[s |-> s, type |-> type]]
               term == Named(type.name, all.is)
    <3>1. [s |-> s, type |-> type] \in Declarations(n)
      BY <2>3, GoodTypes DEF Declarations
    <3>2. type.parameter = Nothing /\ \A i \in DOMAIN type.parameters : Ground(type.parameters[i])
      BY <2>3 DEF Ground
    <3>3. /\ type.name \in Names /\ type.parameters \in Seq(Types[n]) /\ type.name # NoName
          /\ type.name = "wrapper" => type.parameters # <<>>
      BY <2>1, <2>3, <3>2 DEF TypesOver
    <3>4. r = IF all.error = "none" THEN NewTerm(all.s, term) ELSE all
      BY <2>2, <3>1, <3>2 DEF InstantiateWith, Then
    <3> DEFINE D == DOMAIN s.terms
    <3>5. Closed(s.terms, D) /\ Standing(D, s)
      BY <2>3, AllClosed, GoodTypes DEF Standing, Good
    <3>6. InstantiatedAll(D, s, Len(type.parameters), all)
      <4> HIDE DEF D
      <4> QED BY <2>1, <2>3, <3>3, <3>5, InstantiatesAll
    <3>7. Later(s, all.s) /\ OnlyNamed(s, all.s)
      <4> DEFINE types == type.parameters
                 domain == Types[n]
      <4>1. types \in Seq(domain) /\ \A i \in DOMAIN types : Ground(types[i])
        BY <3>2, <3>3
      <4>2. MakesNamed(instantiate, domain) /\ Instantiates(instantiate, domain)
        BY <2>1
      <4> HIDE DEF types, domain
      <4>3. Later(s, InstantiateAll(instantiate, s, types).s) /\ OnlyNamed(s, InstantiateAll(instantiate, s, types).s)
        BY <2>3, <4>1, <4>2, MakesNamedAll
      <4>4. QED
        BY <4>3 DEF types
    <3> HIDE DEF r, all
    <3>8. CASE all.error # "none"
      BY <3>4, <3>7, <3>8 DEF r
    <3>9. CASE all.error = "none"
      <4>1. Good(all.s) /\ Closed(all.s.terms, Grown(D, s, all.s)) /\ Grown(D, s, all.s) \subseteq DOMAIN all.s.terms
        BY <2>3, <3>6, ReachedGood DEF InstantiatedAll, Closed
      <4>2. all.is \in Seq(Grown(D, s, all.s)) /\ Len(all.is) = Len(type.parameters)
        BY <3>6, <3>9 DEF InstantiatedAll
      <4> DEFINE E == DOMAIN all.s.terms
      <4>3. all.is \in Seq(E)
        <5> DEFINE G == Grown(D, s, all.s)
        <5>1. G \subseteq E /\ all.is \in Seq(G)
          BY <4>1, <4>2
        <5> HIDE DEF G, E
        <5>2. QED
          BY <5>1
      <4>4. term.name = type.name /\ term.parameters = all.is /\ term = Named(term.name, term.parameters)
        BY DEF Named
      <4> HIDE DEF term
      <4>5. Fits(all.s, term)
        <5>1. type.name = "wrapper" => all.is # <<>>
          BY <3>3, <4>2
        <5>2. QED
          BY <3>3, <4>3, <4>4, <5>1 DEF Fits
      <4>6. Went(E, all.s, all.s) /\ Grown(E, all.s, all.s) = E
        BY <4>1, AllClosed, WentItself, GoodTypes
      <4>7. \A i \in DOMAIN term.parameters : term.parameters[i] \in Grown(E, all.s, all.s)
        BY <4>3, <4>4, <4>6
      <4>8. r = NewTerm(all.s, term)
        BY <3>4, <3>9
      <4>9. Went(E, all.s, r.s)
        BY <3>3, <4>1, <4>4, <4>5, <4>6, <4>7, <4>8, NewTermWent
      <4>10. OnlyNamed(s, r.s)
        BY <2>3, <3>7, <4>9, OnlyNamedTwice DEF Went, Reached
      <4>11. QED
        BY <4>10 DEF r
    <3>10. QED
      BY <3>8, <3>9
  <2>4. MakesNamed(Instantiate[n], Types[n + 1])
    BY <2>3 DEF MakesNamed
  <2>5. QED
    BY <2>4
<1>3. 0..max_depth \subseteq T
  <2> HIDE DEF T
  <2> QED BY <1>0, <1>1, <1>2, Induction
<1>4. QED
  BY <1>3

-----------------------------------------------------------------------------
(* rollback *)

\* Undoing every change after s0 leaves the terms of s0 as they were, and those
\* that were made since as they were made.
LEMMA RolledBack ==
  ASSUME NEW s0, Good(s0), NEW s, Later(s0, s), NEW w, w = Rollback(s, Len(s0.changes))
  PROVE  /\ Good(w) /\ Later(s0, w)
         /\ w.changes = s0.changes /\ w.remaining = s.remaining /\ w.variables = s.variables
         /\ DOMAIN w.terms = DOMAIN s.terms /\ Keeps(s.terms, w.terms)
         /\ \A t \in DOMAIN s0.terms : w.terms[t] = s0.terms[t]
<1> DEFINE c == Len(s0.changes)
<1>1. /\ Good(s) /\ Trail(s0, s) /\ s \in Stores /\ s.terms \in Seq(Terms) /\ Sound(s.terms) /\ Sound(s0.terms)
      /\ c \in Nat /\ Len(s.changes) \in Nat /\ c <= Len(s.changes)
      /\ s.changes \in Seq(Changes) /\ s0.changes \in Seq(Changes) /\ s0.terms \in Seq(Terms)
  BY GoodTypes DEF Later, Trail
<1>2. ASSUME NEW t \in DOMAIN s.terms PROVE Original(s, c, t) = Before(s0, s, t)
  <2> DEFINE undone == Undone(s, c, t)
             first == CHOOSE i \in undone : \A j \in undone : i <= j
  <2>1. CASE \A i \in (c + 1)..Len(s.changes) : s.changes[i].variable # t
    <3>1. undone = {}
      BY <2>1 DEF Undone
    <3>2. s.terms[t] = Before(s0, s, t)
      BY <1>1, <2>1, Zenon DEF Trail, FirstChange
    <3>3. QED
      BY <3>1, <3>2 DEF Original
  <2>2. CASE ~\A i \in (c + 1)..Len(s.changes) : s.changes[i].variable # t
    <3>1. PICK i \in (c + 1)..Len(s.changes) :
            FirstChange(s, c, t, i) /\ s.changes[i].previous = Before(s0, s, t)
      BY <1>1, <2>2 DEF Trail
    <3>2. /\ i \in undone /\ \A j \in undone : i <= j
          /\ \A j \in undone : j \in Nat
      BY <1>1, <3>1 DEF Undone, FirstChange
    <3> HIDE DEF undone
    <3>3. first \in undone /\ \A j \in undone : first <= j
      BY <3>2, Zenon
    <3> HIDE DEF first
    <3>4. first = i
      BY <1>1, <3>2, <3>3
    <3>5. Original(s, c, t) = s.changes[first].previous
      <4>1. undone # {}
        BY <3>2
      <4>2. QED
        BY <4>1 DEF Original, undone, first
    <3>6. QED
      BY <3>1, <3>4, <3>5
  <2>3. QED
    BY <2>1, <2>2
<1> DEFINE x == [t \in DOMAIN s.terms |-> Before(s0, s, t)]
<1>3. x \in Seq(Terms)
  <2>1. ASSUME NEW t \in DOMAIN s.terms PROVE Before(s0, s, t) \in Terms
    <3>1. Named(s.terms[t].name, s.terms[t].parameters) \in Terms
      BY <1>1, TermTypes, Zenon DEF Named, Terms, Nothing
    <3>2. QED
      BY <1>1, <3>1 DEF Before
  <2>2. DOMAIN s.terms = 1..Len(s.terms) /\ Len(s.terms) \in Nat
    BY <1>1
  <2> HIDE DEF x
  <2>3. x \in [1..Len(s.terms) -> Terms]
    BY <2>1, <2>2 DEF x
  <2>4. QED
    BY <2>2, <2>3
<1>4. SubSeq(s.changes, 1, c) = s0.changes
  <2>1. /\ SubSeq(s.changes, 1, c) \in Seq(Changes) /\ Len(SubSeq(s.changes, 1, c)) = c
        /\ \A i \in 1..c : SubSeq(s.changes, 1, c)[i] = s.changes[i]
    BY <1>1
  <2>2. \A i \in 1..c : s.changes[i] = s0.changes[i]
    BY <1>1 DEF Trail
  <2>3. \A i \in 1..c : SubSeq(s.changes, 1, c)[i] = s0.changes[i]
    BY <2>1, <2>2
  <2> DEFINE q == SubSeq(s.changes, 1, c)
  <2> HIDE DEF q
  <2>4. q = s0.changes
    <3>1. q \in Seq(Changes) /\ Len(q) = Len(s0.changes) /\ \A i \in 1..Len(q) : q[i] = s0.changes[i]
      BY <2>1, <2>3 DEF q
    <3>2. QED
      BY <1>1, <3>1, SameSequence, Zenon
  <2>5. QED
    BY <2>4 DEF q
<1>5. w = [s EXCEPT !.terms = x, !.changes = s0.changes]
  <2>1. [t \in DOMAIN s.terms |-> Original(s, c, t)] = x
    BY <1>2
  <2>2. w = [s EXCEPT !.terms = [t \in DOMAIN s.terms |-> Original(s, c, t)],
                      !.changes = SubSeq(s.changes, 1, c)]
    BY DEF Rollback
  <2> HIDE DEF x
  <2>3. QED
    BY <1>4, <2>1, <2>2, Zenon
<1>6. /\ w \in Stores /\ w.terms = x /\ w.changes = s0.changes
      /\ w.remaining = s.remaining /\ w.variables = s.variables
  <2> HIDE DEF x
  <2> QED BY <1>1, <1>3, <1>5, Zenon DEF Stores
<1>7. /\ DOMAIN x = DOMAIN s.terms /\ DOMAIN s0.terms \subseteq DOMAIN s.terms
      /\ \A t \in DOMAIN s0.terms : x[t] = s0.terms[t]
      /\ \A t \in DOMAIN s.terms : x[t].name = s.terms[t].name /\ x[t].parameters = s.terms[t].parameters
      /\ \A t \in DOMAIN s.terms \ DOMAIN s0.terms :
           x[t].parent = Nothing /\ x[t].binding = Nothing /\ x[t].rank = 0
  <2>1. DOMAIN s0.terms \subseteq DOMAIN s.terms
    BY LaterGrows
  <2>2. \A t \in DOMAIN s0.terms : Before(s0, s, t) = s0.terms[t]
    BY DEF Before
  <2>3. \A t \in DOMAIN s.terms \ DOMAIN s0.terms :
          Before(s0, s, t) = Named(s.terms[t].name, s.terms[t].parameters)
    BY DEF Before
  <2>4. \A t \in DOMAIN s0.terms : s0.terms[t].name = s.terms[t].name /\ s0.terms[t].parameters = s.terms[t].parameters
    BY DEF Later
  <2>5. QED
    BY <2>1, <2>2, <2>3, <2>4 DEF Named
<1> HIDE DEF x
<1>8. Shaped(x)
  <2>1. ASSUME NEW t \in DOMAIN x
        PROVE  /\ \A i \in DOMAIN x[t].parameters : x[t].parameters[i] \in DOMAIN x /\ x[t].parameters[i] < t
               /\ x[t].name = NoName => x[t].parameters = <<>>
               /\ x[t].name = "wrapper" => x[t].parameters # <<>>
    BY <1>1, <1>7 DEF Sound, Shaped
  <2>2. ASSUME NEW t \in DOMAIN x
        PROVE  /\ x[t].name # NoName => x[t].parent = Nothing /\ x[t].binding = Nothing /\ x[t].rank = 0
               /\ x[t].parent # Nothing => x[t].parent \in DOMAIN x /\ x[x[t].parent].name = NoName
               /\ x[t].binding # Nothing => x[t].binding \in DOMAIN x /\ x[x[t].binding].name # NoName
    <3>1. CASE t \notin DOMAIN s0.terms
      BY <1>7, <3>1
    <3>2. CASE t \in DOMAIN s0.terms
      <4>1. x[t] = s0.terms[t]
        BY <1>7, <3>2
      <4>2. /\ x[t].name # NoName => x[t].parent = Nothing /\ x[t].binding = Nothing /\ x[t].rank = 0
            /\ x[t].parent # Nothing =>
                 x[t].parent \in DOMAIN s0.terms /\ s0.terms[x[t].parent].name = NoName
            /\ x[t].binding # Nothing =>
                 x[t].binding \in DOMAIN s0.terms /\ s0.terms[x[t].binding].name # NoName
        BY <1>1, <3>2, <4>1 DEF Sound, Shaped
      <4>3. QED
        BY <1>7, <4>2
    <3>3. QED
      BY <3>1, <3>2
  <2>3. QED
    BY <2>1, <2>2 DEF Shaped
<1>9. Balanced(x)
  <2>1. Balanced(s0.terms) /\ Shaped(s0.terms)
    BY <1>1 DEF Sound
  <2>2. ASSUME NEW t \in DOMAIN x, x[t].parent # Nothing PROVE x[x[t].parent].rank > x[t].rank
    <3>1. t \in DOMAIN s0.terms /\ x[t] = s0.terms[t]
      BY <1>7, <2>2
    <3>2. s0.terms[t].parent \in DOMAIN s0.terms /\ s0.terms[s0.terms[t].parent].rank > s0.terms[t].rank
      BY <2>1, <2>2, <3>1 DEF Balanced, Shaped
    <3>3. QED
      BY <1>7, <3>1, <3>2
  <2>3. ASSUME NEW t \in DOMAIN x, NEW k \in Nat, k < x[t].rank
        PROVE  \E v \in DOMAIN x : x[v].parent = t /\ x[v].rank = k
    <3>1. t \in DOMAIN s0.terms /\ x[t] = s0.terms[t]
      BY <1>7, <2>3
    <3>2. PICK v \in DOMAIN s0.terms : s0.terms[v].parent = t /\ s0.terms[v].rank = k
      BY <2>1, <2>3, <3>1 DEF Balanced
    <3>3. QED
      BY <1>7, <3>2
  <2>4. PICK bound \in Nat : \A t \in DOMAIN s0.terms : s0.terms[t].rank <= bound
    BY <2>1 DEF Balanced
  <2>5. \A t \in DOMAIN x : x[t].rank <= bound
    BY <1>7, <2>4
  <2>6. QED
    BY <2>2, <2>3, <2>5, Zenon DEF Balanced
<1>10. Good(w)
  <2>1. Sound(w.terms)
    BY <1>3, <1>6, <1>8, <1>9 DEF Sound
  <2>2. \A v \in w.variables : v.term \in DOMAIN w.terms
    BY <1>1, <1>6, <1>7 DEF Good
  <2>3. \A i \in DOMAIN w.changes : w.changes[i].variable \in DOMAIN w.terms
    BY <1>6, <1>7 DEF Good
  <2>4. QED
    BY <1>6, <2>1, <2>2, <2>3 DEF Good
<1>11. Trail(s0, w)
  <2>1. \A t \in DOMAIN w.terms : w.terms[t] = Before(s0, w, t)
    <3>1. \A t \in DOMAIN s.terms : Before(s0, w, t) = Before(s0, s, t)
      BY <1>6, <1>7 DEF Before
    <3>2. QED
      BY <1>6, <1>7, <3>1 DEF x
  <2>2. QED
    BY <1>1, <1>6, <2>1 DEF Trail
<1>12. Later(s0, w)
  <2>1. /\ s.remaining <= s0.remaining /\ Len(s0.terms) <= Len(s.terms)
        /\ \A t \in DOMAIN s0.terms : s.terms[t].name = s0.terms[t].name /\ s.terms[t].parameters = s0.terms[t].parameters
    BY DEF Later
  <2>2. Len(w.terms) = Len(s.terms)
    BY <1>1, <1>3, <1>6, <1>7
  <2>3. QED
    BY <1>6, <1>7, <1>10, <1>11, <2>1, <2>2 DEF Later
<1>13. Keeps(s.terms, w.terms)
  BY <1>6, <1>7 DEF Keeps
<1>14. QED
  BY <1>6, <1>7, <1>10, <1>12, <1>13

-----------------------------------------------------------------------------
(* Attempts *)

\* A term that is as it was made.
Unlinked(term) == term = Named(term.name, term.parameters)

\* s comes after s0, and left every term as it was, and new ones as they were made.
Kept(s0, s) ==
  /\ Good(s) /\ s.changes = <<>> /\ s.remaining <= s0.remaining
  /\ Len(s0.terms) <= Len(s.terms)
  /\ \A t \in DOMAIN s0.terms : s.terms[t] = s0.terms[t]
  /\ \A t \in DOMAIN s.terms \ DOMAIN s0.terms : Unlinked(s.terms[t])

\* How an attempt ends: with no change that could be undone, and if it fails
\* with none at all.
Ended(s0, s, error) ==
  /\ Good(s) /\ s.changes = <<>> /\ s.remaining <= s0.remaining
  /\ Len(s0.terms) <= Len(s.terms)
  /\ error # "none" => Kept(s0, s)

LEMMA KeptKept ==
  ASSUME NEW s0, Good(s0), NEW s1, Kept(s0, s1), NEW s2, Kept(s1, s2)
  PROVE  Kept(s0, s2)
<1>1. /\ DOMAIN s0.terms \subseteq DOMAIN s1.terms
      /\ Good(s2) /\ s2.changes = <<>> /\ s2.remaining <= s0.remaining /\ Len(s0.terms) <= Len(s2.terms)
  BY GoodTypes DEF Kept
<1>2. \A t \in DOMAIN s0.terms : s2.terms[t] = s0.terms[t]
  BY <1>1 DEF Kept
<1>3. ASSUME NEW t \in DOMAIN s2.terms \ DOMAIN s0.terms PROVE Unlinked(s2.terms[t])
  <2>1. CASE t \in DOMAIN s1.terms
    BY <2>1 DEF Kept
  <2>2. CASE t \notin DOMAIN s1.terms
    BY <2>2 DEF Kept
  <2>3. QED
    BY <2>1, <2>2
<1>4. QED
  BY <1>1, <1>2, <1>3 DEF Kept

\* Without a change that could be undone every term is as it was.
LEMMA LaterKept ==
  ASSUME NEW s0, Good(s0), s0.changes = <<>>, NEW s, Later(s0, s), s.changes = <<>>
  PROVE  Kept(s0, s)
<1>1. Good(s) /\ s.remaining <= s0.remaining /\ Len(s0.terms) <= Len(s.terms) /\ DOMAIN s0.terms \subseteq DOMAIN s.terms
  BY LaterGrows DEF Later
<1>2. Len(s0.changes) = 0 /\ Len(s.changes) = 0
  OBVIOUS
<1>3. \A t \in DOMAIN s.terms : s.terms[t] = Before(s0, s, t)
  BY <1>2 DEF Later, Trail
<1>4. \A t \in DOMAIN s0.terms : s.terms[t] = s0.terms[t]
  BY <1>1, <1>3 DEF Before
<1>5. ASSUME NEW t \in DOMAIN s.terms \ DOMAIN s0.terms PROVE Unlinked(s.terms[t])
  BY <1>3 DEF Before, Unlinked
<1>6. QED
  BY <1>1, <1>4, <1>5 DEF Kept

\* Named terms are.
LEMMA NamedUnlinked ==
  ASSUME NEW store, Sound(store), NEW t \in DOMAIN store, store[t].name # NoName
  PROVE  Unlinked(store[t])
<1>1. store[t] \in Terms
  BY TermTypes DEF Sound
<1>2. store[t].parent = Nothing /\ store[t].binding = Nothing /\ store[t].rank = 0
  BY DEF Sound, Shaped
<1>3. QED
  BY <1>1, <1>2 DEF Unlinked, Named, Terms

LEMMA KeptEnded ==
  ASSUME NEW s0, Good(s0), NEW s1, Kept(s0, s1), NEW s2, NEW error, Ended(s1, s2, error)
  PROVE  Ended(s0, s2, error)
<1>1. s2.remaining <= s0.remaining /\ Len(s0.terms) <= Len(s2.terms)
  <2>1. Good(s1) /\ Good(s2) /\ s1.remaining <= s0.remaining /\ s2.remaining <= s1.remaining
        /\ Len(s0.terms) <= Len(s1.terms) /\ Len(s1.terms) <= Len(s2.terms)
    BY DEF Kept, Ended
  <2>2. /\ s0.remaining \in Nat /\ s1.remaining \in Nat /\ s2.remaining \in Nat
        /\ Len(s0.terms) \in Nat /\ Len(s1.terms) \in Nat /\ Len(s2.terms) \in Nat
    BY <2>1, GoodTypes
  <2>3. QED
    BY <2>1, <2>2
<1>2. error # "none" => Kept(s0, s2)
  BY KeptKept DEF Ended
<1>3. QED
  BY <1>1, <1>2 DEF Ended

LEMMA LikeKept ==
  ASSUME NEW s0, Good(s0), s0.changes = <<>>, NEW s, Like(s0, s), s.variables = s0.variables
  PROVE  Kept(s0, s)
<1>1. Good(s)
  BY LikeGood
<1>2. QED
  BY <1>1, GoodTypes DEF Like, Kept

\* What was closed before is closed still.
LEMMA KeptClosed ==
  ASSUME NEW s0, Good(s0), NEW s, Kept(s0, s), NEW R, Closed(s0.terms, R)
  PROVE  Closed(s.terms, R)
<1>1. Good(s) /\ DOMAIN s0.terms \subseteq DOMAIN s.terms
  BY GoodTypes DEF Kept
<1>2. \A t \in R : t \in DOMAIN s0.terms /\ s.terms[t] = s0.terms[t]
  BY DEF Closed, Kept
<1>3. \A t \in R : Links(s.terms, t) = Links(s0.terms, t)
  BY <1>2, Zenon DEF Links
<1>4. QED
  BY <1>1, <1>2, <1>3 DEF Closed

LEMMA RollbackKept ==
  ASSUME NEW s0, Good(s0), s0.changes = <<>>, NEW s, Later(s0, s)
  PROVE  /\ Kept(s0, Rollback(s, 0)) /\ Kept(s0, Rollback(s, Len(s0.changes)))
         /\ DOMAIN Rollback(s, 0).terms = DOMAIN s.terms /\ Keeps(s.terms, Rollback(s, 0).terms)
<1>1. Len(s0.changes) = 0
  OBVIOUS
<1> DEFINE w == Rollback(s, Len(s0.changes))
<1>3. /\ Good(w) /\ Later(s0, w)
      /\ w.changes = s0.changes /\ w.remaining = s.remaining /\ w.variables = s.variables
      /\ DOMAIN w.terms = DOMAIN s.terms /\ Keeps(s.terms, w.terms)
      /\ \A t \in DOMAIN s0.terms : w.terms[t] = s0.terms[t]
  BY RolledBack
<1>4. w = Rollback(s, 0)
  BY <1>1
<1> HIDE DEF w
<1>5. Kept(s0, w)
  BY <1>3, LaterKept
<1>6. QED
  BY <1>3, <1>4, <1>5 DEF w

LEMMA CommittedGood ==
  ASSUME NEW s0, Good(s0), NEW s, Later(s0, s)
  PROVE  /\ Good(Committed(s)) /\ Committed(s).changes = <<>> /\ Committed(s).terms = s.terms
         /\ Committed(s).remaining = s.remaining
         /\ Committed(s).remaining <= s0.remaining /\ Len(s0.terms) <= Len(Committed(s).terms)
<1>1. Good(s) /\ s.remaining <= s0.remaining /\ Len(s0.terms) <= Len(s.terms)
  BY DEF Later
<1>2. <<>> \in Seq(Changes)
  BY SmallTuples
<1>3. /\ Committed(s) \in Stores /\ Committed(s).changes = <<>> /\ Committed(s).terms = s.terms
      /\ Committed(s).remaining = s.remaining /\ Committed(s).variables = s.variables
  <2>1. s \in Stores
    BY <1>1, GoodTypes
  <2>2. QED
    BY <1>2, <2>1, Zenon DEF Committed, Stores
<1>4. Good(Committed(s))
  BY <1>1, <1>3 DEF Good
<1>5. QED
  BY <1>1, <1>3, <1>4

LEMMA SettledEnded ==
  ASSUME NEW s0, Good(s0), s0.changes = <<>>, NEW x, Later(s0, x.s), NEW r,
         r = Settled(0, x) \/ r = Settled(Len(s0.changes), x)
  PROVE  /\ Ended(s0, r.s, x.error) /\ r.error = x.error
         /\ DOMAIN r.s.terms = DOMAIN x.s.terms /\ Keeps(x.s.terms, r.s.terms)
         /\ x.error = "none" => r.is = x.is /\ r.s.terms = x.s.terms
<1>1. CASE x.error = "none"
  <2>1. r = Returns(Committed(x.s), x.is)
    BY <1>1 DEF Settled
  <2>2. r.s = Committed(x.s) /\ r.error = "none" /\ r.is = x.is
    BY <2>1 DEF Returns
  <2>3. QED
    BY <1>1, <2>2, CommittedGood DEF Ended, Keeps
<1>2. CASE x.error # "none"
  <2>1. Len(s0.changes) = 0
    OBVIOUS
  <2>2. r = Fails(Rollback(x.s, 0), x.error)
    BY <1>2, <2>1 DEF Settled
  <2>3. r.s = Rollback(x.s, 0) /\ r.error = x.error
    BY <2>2 DEF Fails
  <2>4. Kept(s0, r.s) /\ DOMAIN r.s.terms = DOMAIN x.s.terms /\ Keeps(x.s.terms, r.s.terms)
    BY <2>3, RollbackKept
  <2>5. QED
    BY <1>2, <2>3, <2>4 DEF Ended, Kept
<1>3. QED
  BY <1>1, <1>2

-----------------------------------------------------------------------------
(* combine and join *)

\* Unifying as deep as it goes.
LEMMA UnifyWholeUnifies ==
  ASSUME NEW s, Good(s), NEW R, Closed(s.terms, R), NEW a \in R, NEW b \in R
  PROVE  Unified(R, s, a, b, UnifyWhole(s, a, b))
BY UnifyUnifies, LimitsAssumption DEF UnifyWhole, Unifies

\* Where elements meet: what is reached is what they lead to, or a new term.
CombinesTo(R, s, r) ==
  /\ Ended(s, r.s, r.error)
  /\ \A t \in DOMAIN s.terms \ R : r.s.terms[t] = s.terms[t]
  /\ r.error = "none" => Closed(r.s.terms, Grown(R, s, r.s)) /\ r.is \in Grown(R, s, r.s)
  /\ r.error = "none" => OnlyNamed(s, r.s) /\ \A t \in DOMAIN s.terms : r.s.terms[t].name = s.terms[t].name

LEMMA CombineEnds ==
  ASSUME NEW s, Good(s), s.changes = <<>>, NEW R, Closed(s.terms, R), NEW a \in R, NEW b \in R,
         NEW r, r = CombineIn(s, a, b)
  PROVE  CombinesTo(R, s, r)
<1> DEFINE x == UnifyWhole(s, a, b)
<1>1. Unified(R, s, a, b, x)
  BY UnifyWholeUnifies
<1>2. r = Settled(0, x)
  BY DEF CombineIn
<1> HIDE DEF x
<1>3. Reached(R, s, x.s) /\ Later(s, x.s)
  BY <1>1 DEF Unified, Went, Reached
<1>4. /\ Ended(s, r.s, x.error) /\ r.error = x.error
      /\ x.error = "none" => r.is = x.is /\ r.s.terms = x.s.terms
  BY <1>2, <1>3, SettledEnded
<1>5. CASE x.error = "none"
  <2>1. Grown(R, s, r.s) = Grown(R, s, x.s)
    BY <1>4, <1>5 DEF Grown
  <2>2. /\ \A t \in DOMAIN s.terms \ R : r.s.terms[t] = s.terms[t]
        /\ Closed(r.s.terms, Grown(R, s, r.s)) /\ r.is \in Grown(R, s, r.s)
    BY <1>1, <1>3, <1>4, <1>5, <2>1 DEF Unified, Reached, Within
  <2>3. OnlyNamed(s, r.s)
    BY <1>1, <1>4, <1>5 DEF Unified, Went, OnlyNamed
  <2>4. \A t \in DOMAIN s.terms : r.s.terms[t].name = s.terms[t].name
    BY <1>3, <1>4, <1>5 DEF Later
  <2>5. QED
    BY <1>4, <1>5, <2>2, <2>3, <2>4 DEF CombinesTo
<1>6. CASE x.error # "none"
  BY <1>4, <1>6 DEF Ended, Kept, CombinesTo
<1>7. QED
  BY <1>5, <1>6

\* A step after which nothing changed but that there is a new term.
LEMMA NewTermKept ==
  ASSUME NEW s, Good(s), s.changes = <<>>, NEW term, Fits(s, term), term.parameters = <<>>,
         NEW r, r = NewTerm(s, term)
  PROVE  /\ Kept(s, r.s)
         /\ r.error = "none" => r.is \in Grown({}, s, r.s) /\ Closed(r.s.terms, Grown({}, s, r.s))
         /\ term.name # NoName => OnlyNamed(s, r.s)
<1>1. Closed(s.terms, {})
  BY DEF Closed
<1>2. Reached({}, s, s) /\ Grown({}, s, s) = {} /\ Went({}, s, s)
  BY <1>1, ReachedItself, WentItself
<1>3. /\ Reached({}, s, r.s) /\ r.s.changes = <<>>
      /\ r.error = "none" => r.is \in Grown({}, s, r.s)
  <2>1. \A i \in DOMAIN term.parameters : term.parameters[i] \in Grown({}, s, s)
    OBVIOUS
  <2>2. QED
    BY <1>2, <2>1, NewTermReached
<1>4. Kept(s, r.s)
  BY <1>3, LaterKept DEF Reached
<1>5. term.name # NoName => OnlyNamed(s, r.s)
  <2>1. \A i \in DOMAIN term.parameters : term.parameters[i] \in Grown({}, s, s)
    OBVIOUS
  <2>2. QED
    BY <1>2, <2>1, NewTermWent DEF Went
<1>6. QED
  BY <1>3, <1>4, <1>5 DEF Reached, Within

LEMMA DynFits ==
  ASSUME NEW s
  PROVE  Fits(s, Named("dyn", <<>>)) /\ Named("dyn", <<>>).parameters = <<>> /\ Named("dyn", <<>>).name # NoName
<1> DEFINE term == Named("dyn", <<>>)
<1>1. term.name = "dyn" /\ term.parameters = <<>> /\ term = Named(term.name, term.parameters)
  BY DEF Named
<1> HIDE DEF term
<1>2. Fits(s, term) /\ term.name # NoName
  BY <1>1, SmallTuples, NamesAssumption DEF Fits, NoName
<1>3. QED
  BY <1>1, <1>2 DEF term

\* What is left of a closed set and what is new.
LEMMA KeptGrown ==
  ASSUME NEW s0, Good(s0), NEW s1, Good(s1), NEW s2, Good(s2), Len(s0.terms) <= Len(s1.terms),
         Len(s1.terms) <= Len(s2.terms), NEW R
  PROVE  /\ Grown(R, s0, s1) \subseteq Grown(R, s0, s2) /\ Grown({}, s1, s2) \subseteq Grown(R, s0, s2)
         /\ Grown(Grown(R, s0, s1), s1, s2) = Grown(R, s0, s2)
BY GoodTypes DEF Grown

IsJoined(R, s, combined, r, D) ==
  /\ Closed(r.s.terms, D) /\ D \subseteq Grown(R, s, r.s) /\ r.is \in D
  /\ combined.error # "none" => \A t \in D : r.s.terms[t].name # NoName

JoinsTo(R, s, combined, r) ==
  /\ Ended(s, r.s, combined.error) /\ (r.error # "none" => combined.error # "none")
  /\ \A t \in DOMAIN s.terms \ R : r.s.terms[t] = s.terms[t]
  /\ combined.error = "none" => OnlyNamed(s, r.s) /\ \A t \in DOMAIN s.terms : r.s.terms[t].name = s.terms[t].name
  /\ r.error = "none" => \E D : IsJoined(R, s, combined, r, D)

LEMMA JoinEnds ==
  ASSUME NEW s, Good(s), s.changes = <<>>, NEW R, Closed(s.terms, R), NEW a \in R, NEW b \in R,
         NEW combined, combined = CombineIn(s, a, b), NEW r, r = OrDyn(combined)
  PROVE  JoinsTo(R, s, combined, r)
<1>1. /\ Ended(s, combined.s, combined.error)
      /\ \A t \in DOMAIN s.terms \ R : combined.s.terms[t] = s.terms[t]
      /\ combined.error = "none" =>
           /\ Closed(combined.s.terms, Grown(R, s, combined.s)) /\ combined.is \in Grown(R, s, combined.s)
           /\ OnlyNamed(s, combined.s) /\ \A t \in DOMAIN s.terms : combined.s.terms[t].name = s.terms[t].name
  <2>1. CombinesTo(R, s, combined)
    BY CombineEnds
  <2>2. QED
    BY <2>1 DEF CombinesTo
<1>2. CASE combined.error # "TypeMismatch"
  <2>1. r = combined
    BY <1>2 DEF OrDyn
  <2>2. QED
    BY <1>1, <2>1 DEF JoinsTo, IsJoined
<1>3. CASE combined.error = "TypeMismatch"
  <2>1. Kept(s, combined.s)
    BY <1>1, <1>3 DEF Ended
  <2>2. r = NewTerm(combined.s, Named("dyn", <<>>))
    BY <1>3 DEF OrDyn
  <2>3. Good(combined.s) /\ combined.s.changes = <<>>
    BY <2>1 DEF Kept
  <2>4. /\ Kept(combined.s, r.s)
        /\ r.error = "none" => r.is \in Grown({}, combined.s, r.s) /\ Closed(r.s.terms, Grown({}, combined.s, r.s))
        /\ OnlyNamed(combined.s, r.s)
    BY <2>2, <2>3, DynFits, NewTermKept
  <2>5. Kept(s, r.s)
    BY <2>1, <2>4, KeptKept
  <2>6. Ended(s, r.s, combined.error)
    BY <2>5 DEF Ended, Kept
  <2>7. \A t \in DOMAIN s.terms : r.s.terms[t] = s.terms[t]
    BY <2>5 DEF Kept
  <2>8. Grown({}, combined.s, r.s) \subseteq Grown(R, s, r.s)
    BY <2>1, <2>4, KeptGrown DEF Kept
  <2>9. \A t \in Grown({}, combined.s, r.s) : r.s.terms[t].name # NoName
    BY <2>4 DEF Grown, OnlyNamed
  <2>10. QED
    BY <1>3, <2>4, <2>6, <2>7, <2>8, <2>9 DEF JoinsTo, IsJoined
<1>4. QED
  BY <1>2, <1>3

-----------------------------------------------------------------------------
(* Overloads *)

LEMMA OverloadTypes ==
  ASSUME NEW function \in Overload
  PROVE  /\ function.result \in Types[max_depth + 1]
         /\ Len(function.parameters) \in Nat
         /\ Append(function.parameters, function.result) \in Seq(Types[max_depth + 1])
         /\ Len(Append(function.parameters, function.result)) = Len(function.parameters) + 1
<1>1. function.parameters \in Seq(Types[max_depth + 1]) /\ function.result \in Types[max_depth + 1]
  BY DEF Overload
<1>2. ASSUME NEW S, NEW q \in Seq(S), NEW e \in S
      PROVE  Len(q) \in Nat /\ Append(q, e) \in Seq(S) /\ Len(Append(q, e)) = Len(q) + 1
  OBVIOUS
<1>3. QED
  BY <1>1, <1>2, Zenon

LEMMA SingleElement ==
  ASSUME NEW S
  PROVE  \A q \in Seq(S) : Len(q) = 1 => q[1] \in S
OBVIOUS

LEMMA WiderSequence ==
  ASSUME NEW S, NEW R, S \subseteq R, NEW q \in Seq(S)
  PROVE  q \in Seq(R)
OBVIOUS

\* A declaration begins without variables.
LEMMA FreshStore ==
  ASSUME NEW s, Good(s), NEW R, Closed(s.terms, R), NEW w, w = [s EXCEPT !.variables = {}]
  PROVE  /\ Good(w) /\ Reached(R, s, w) /\ Grown(R, s, w) = R /\ Standing(R, w)
         /\ Closed(w.terms, R) /\ w.terms = s.terms /\ w.changes = s.changes
<1>1. w \in Stores /\ w.variables = {} /\ w.terms = s.terms /\ w.changes = s.changes /\ w.remaining = s.remaining
  <2>1. s \in Stores
    BY GoodTypes
  <2>2. QED
    BY <2>1, Zenon DEF Stores
<1>2. Like(s, w)
  BY <1>1, GoodTypes DEF Like
<1>3. \A x \in w.variables : x.term \in DOMAIN w.terms
  BY <1>1
<1>4. Good(w) /\ Reached(R, s, w) /\ Grown(R, s, w) = R
  BY <1>2, <1>3, LikeReachedIn, Zenon
<1>5. QED
  BY <1>1, <1>4 DEF Standing

LEMMA AppliedLater ==
  ASSUME NEW s, Good(s), NEW function \in Overload, NEW arguments \in Seq(DOMAIN s.terms),
         Len(arguments) = Len(function.parameters), NEW r, r = Applied(s, function, arguments)
  PROVE  /\ Later(s, r.s)
         /\ r.error = "none" => r.is \in Seq(DOMAIN r.s.terms) /\ Len(r.is) = Len(function.parameters) + 1
<1> DEFINE R == DOMAIN s.terms
           w == [s EXCEPT !.variables = {}]
           types == Append(function.parameters, function.result)
           size == Len(function.parameters) + 1
           x == InstantiateAll(Instantiate[max_depth], w, types)
           y == UnifyAll(Unify[max_depth], x.s, arguments, x.is)
           G == Grown(R, s, x.s)
<1>0. max_depth \in 0..max_depth
  BY LimitsAssumption
<1>1. types \in Seq(Types[max_depth + 1]) /\ Len(types) = size
  BY OverloadTypes
<1>2. Closed(s.terms, R)
  BY AllClosed, GoodTypes
<1>3. /\ Good(w) /\ Reached(R, s, w) /\ Grown(R, s, w) = R /\ Standing(R, w)
      /\ Closed(w.terms, R)
  BY <1>2, FreshStore
<1>4. r = IF x.error # "none" THEN x ELSE IF y.error = "none" THEN Returns(y.s, x.is) ELSE y
  BY DEF Applied, Then
<1> HIDE DEF w, types
<1>5. InstantiatedAll(R, w, size, x)
  <2>1. Instantiates(Instantiate[max_depth], Types[max_depth + 1])
    BY <1>0, InstantiateInstantiates
  <2>2. InstantiatedAll(R, w, Len(types), x)
    BY <1>1, <1>3, <2>1, InstantiatesAll
  <2>3. QED
    BY <1>1, <2>2
<1> HIDE DEF x, R
<1>6. Reached(R, s, x.s) /\ Grown(R, w, x.s) = G
  BY <1>3, <1>5, ReachedReached DEF InstantiatedAll
<1>7. Good(x.s) /\ Later(s, x.s) /\ Closed(x.s.terms, G) /\ R \subseteq G
  BY <1>6, ReachedGood
<1>8. x.error = "none" => x.is \in Seq(G) /\ Len(x.is) = size
  BY <1>5, <1>6 DEF InstantiatedAll
<1> HIDE DEF G
<1>9. CASE x.error # "none"
  BY <1>4, <1>7, <1>9
<1>10. CASE x.error = "none"
  <2>1. UnifiedAll(G, x.s, Len(arguments), y)
    <3>1. Unifies(Unify[max_depth])
      BY <1>0, UnifyUnifies
    <3>2. arguments \in Seq(G)
      BY <1>7, WiderSequence DEF R
    <3>3. Len(arguments) <= Len(x.is)
      BY <1>8, <1>10, OverloadTypes
    <3>4. QED
      BY <1>7, <1>8, <1>10, <3>1, <3>2, <3>3, UnifiesAll
  <2> HIDE DEF y
  <2>2. Reached(G, x.s, y.s)
    BY <2>1 DEF UnifiedAll, Went
  <2>3. Later(x.s, y.s) /\ DOMAIN x.s.terms \subseteq DOMAIN y.s.terms
    BY <1>7, <2>2, LaterGrows DEF Reached
  <2>4. Later(s, y.s)
    BY <1>7, <2>3, LaterLater
  <2>5. x.is \in Seq(DOMAIN y.s.terms)
    <3>1. G \subseteq DOMAIN y.s.terms
      BY <1>7, <2>3 DEF Closed
    <3>2. QED
      BY <1>8, <1>10, <3>1, WiderSequence
  <2>6. QED
    BY <1>4, <1>8, <1>10, <2>4, <2>5 DEF Returns
<1>11. QED
  BY <1>9, <1>10

\* matchFunction leaves every term as it was.
LEMMA TriedKept ==
  ASSUME NEW s, Good(s), s.changes = <<>>, NEW function \in Overload, NEW arguments \in Seq(DOMAIN s.terms),
         Len(arguments) = Len(function.parameters), NEW r, r = Tried(s, function, arguments)
  PROVE  Kept(s, r.s) /\ (r.error = "none" => r.is \in GroundTypes(max_depth))
<1> DEFINE x == Applied(s, function, arguments)
           y == FinishWhole(x.s, x.is[Len(x.is)])
           z == IF x.error = "none" THEN y ELSE x
<1>1. r = [s |-> Rollback(z.s, Len(s.changes)), error |-> z.error, is |-> z.is]
  BY DEF Tried, Then
<1>2. r.s = Rollback(z.s, Len(s.changes)) /\ r.error = z.error /\ r.is = z.is
  BY <1>1
<1>3. /\ Later(s, x.s) /\ Good(x.s)
      /\ x.error = "none" => x.is \in Seq(DOMAIN x.s.terms) /\ Len(x.is) = Len(function.parameters) + 1
  BY AppliedLater DEF Later
<1> HIDE DEF x
<1>4. x.error = "none" => Later(s, y.s) /\ (y.error = "none" => y.is \in GroundTypes(max_depth))
  <2> SUFFICES ASSUME x.error = "none" PROVE Later(s, y.s) /\ (y.error = "none" => y.is \in GroundTypes(max_depth))
    OBVIOUS
  <2>1. x.is[Len(x.is)] \in DOMAIN x.s.terms
    BY <1>3, OverloadTypes
  <2>2. Finished(x.s, GroundTypes(max_depth), y)
    <3>1. FinishesTo(Finish[max_depth], GroundTypes(max_depth))
      BY LimitsAssumption, FinishFinishes
    <3>2. QED
      BY <1>3, <2>1, <3>1 DEF FinishesTo, FinishWhole
  <2> HIDE DEF y
  <2>3. Like(x.s, y.s) /\ y.s.variables = x.s.variables /\ Good(y.s)
    BY <1>3, <2>2, LikeGood DEF Finished
  <2>4. Later(x.s, y.s)
    BY <1>3, <2>3, LikeReached DEF Good
  <2>5. QED
    BY <1>3, <2>2, <2>4, LaterLater DEF Finished
<1> HIDE DEF y
<1>5. Later(s, z.s) /\ (z.error = "none" => z.is \in GroundTypes(max_depth))
  BY <1>3, <1>4
<1> HIDE DEF z
<1>6. QED
  BY <1>2, <1>5, RollbackKept

\* applyFunction
LEMMA ApplyEnds ==
  ASSUME NEW s, Good(s), s.changes = <<>>, NEW function \in Overload, NEW arguments \in Seq(DOMAIN s.terms),
         Len(arguments) = Len(function.parameters), NEW r, r = Apply(s, function, arguments)
  PROVE  Ended(s, r.s, r.error) /\ (r.error = "none" => r.is # <<>>)
<1> DEFINE x == Applied(s, function, arguments)
<1>1. /\ Later(s, x.s)
      /\ x.error = "none" => x.is \in Seq(DOMAIN x.s.terms) /\ Len(x.is) = Len(function.parameters) + 1
  BY AppliedLater
<1>2. r = Settled(Len(s.changes), x)
  BY DEF Apply
<1> HIDE DEF x
<1>3. Ended(s, r.s, x.error) /\ r.error = x.error /\ (x.error = "none" => r.is = x.is)
  BY <1>1, <1>2, SettledEnded
<1>4. x.error = "none" => x.is # <<>>
  BY <1>1, OverloadTypes
<1>5. QED
  BY <1>3, <1>4

\* A term from which one gets to no variable and to none of the terms of s0.
Apart(s0, s, x) ==
  \E C : Closed(s.terms, C) /\ (\A t \in C : t \notin DOMAIN s0.terms /\ s.terms[t].name # NoName) /\ x \in C

\* The result of one more overload is made of new terms, and so is what it
\* joins to with those of the others: what is unified there was not there before.
LEMMA JoinedApart ==
  ASSUME NEW s0, Good(s0), NEW s, Kept(s0, s), NEW result, result = Nothing \/ Apart(s0, s, result),
         NEW type \in GroundTypes(max_depth), NEW r, r = Joined(s, result, type)
  PROVE  Kept(s0, r.s) /\ (r.error = "none" => Apart(s0, r.s, r.is))
<1>1. Good(s) /\ s.changes = <<>>
  BY DEF Kept
<1>2. PICK C : /\ Closed(s.terms, C) /\ (\A t \in C : t \notin DOMAIN s0.terms /\ s.terms[t].name # NoName)
               /\ result # Nothing => result \in C
  <2>1. CASE result = Nothing
    <3>1. Closed(s.terms, {})
      BY DEF Closed
    <3>2. QED
      BY <2>1, <3>1
  <2>2. CASE result # Nothing
    BY <2>2 DEF Apart
  <2>3. QED
    BY <2>1, <2>2
<1> DEFINE w == [s EXCEPT !.variables = {}]
           x == Instantiate[max_depth][[s |-> w, type |-> type]]
           G == Grown(C, s, x.s)
<1>3. r = IF x.error # "none" THEN x
          ELSE IF result = Nothing THEN Returns(x.s, x.is) ELSE JoinIn(x.s, result, x.is)
  BY DEF Joined, Then
<1>4. /\ Good(w) /\ Reached(C, s, w) /\ Grown(C, s, w) = C /\ Standing(C, w)
      /\ Closed(w.terms, C) /\ w.changes = <<>>
  BY <1>1, <1>2, FreshStore
<1>w. w.terms = s.terms /\ w.changes = s.changes
  BY <1>1, <1>2, FreshStore
<1> HIDE DEF w
<1>5. Instantiated(C, w, x)
  <2>1. max_depth \in 0..max_depth
    BY LimitsAssumption
  <2>2. Instantiates(Instantiate[max_depth], Types[max_depth + 1])
    BY <2>1, InstantiateInstantiates
  <2>3. type \in Types[max_depth + 1]
    BY <2>1, TypesGrow DEF GroundTypes
  <2>4. QED
    BY <1>4, <2>2, <2>3 DEF Instantiates
<1>g. OnlyNamed(s, x.s)
  <2>1. max_depth \in 0..max_depth
    BY LimitsAssumption
  <2>2. type \in Types[max_depth + 1] /\ Ground(type)
    BY <2>1, TypesGrow DEF GroundTypes
  <2>3. OnlyNamed(w, x.s)
    BY <1>4, <2>1, <2>2, GroundInstantiates DEF MakesNamed
  <2>4. QED
    BY <1>w, <2>3, Zenon DEF OnlyNamed
<1> HIDE DEF x
<1>6. Reached(C, s, x.s) /\ Grown(C, w, x.s) = G
  BY <1>1, <1>4, <1>5, ReachedReached DEF Instantiated
<1>7. /\ Good(x.s) /\ x.s.changes = <<>> /\ Closed(x.s.terms, G) /\ C \subseteq G
      /\ Len(s.terms) <= Len(x.s.terms) /\ x.s.remaining <= s.remaining
      /\ \A t \in DOMAIN s.terms \ C : x.s.terms[t] = s.terms[t]
  BY <1>1, <1>4, <1>5, <1>6, ReachedGood, Zenon DEF Instantiated, Reached, Within, Later
<1>8. /\ DOMAIN s0.terms \subseteq DOMAIN s.terms /\ DOMAIN s.terms \subseteq DOMAIN x.s.terms
      /\ \A t \in DOMAIN s0.terms : s.terms[t] = s0.terms[t]
  BY <1>1, <1>7, GoodTypes DEF Kept
<1>9. Kept(s0, x.s)
  <2>1. Kept(s, x.s)
    BY <1>1, <1>6, <1>7, LaterKept DEF Reached
  <2>2. QED
    BY <2>1, KeptKept
<1>10. \A t \in G : t \notin DOMAIN s0.terms /\ x.s.terms[t].name # NoName
  <2>1. \A t \in G : t \notin DOMAIN s0.terms
    BY <1>1, <1>2, <1>8, GoodTypes DEF Grown
  <2>2. \A t \in C : x.s.terms[t].name # NoName
    BY <1>2, <1>6 DEF Reached, Later, Closed
  <2>3. \A t \in G : x.s.terms[t].name # NoName
    BY <1>g, <2>2 DEF Grown, OnlyNamed
  <2>4. QED
    BY <2>1, <2>3
<1>11. x.error = "none" => x.is \in G
  BY <1>5, <1>6 DEF Instantiated
<1> HIDE DEF G
<1>12. CASE x.error # "none"
  BY <1>3, <1>9, <1>12
<1>13. CASE x.error = "none" /\ result = Nothing
  BY <1>3, <1>7, <1>9, <1>10, <1>11, <1>13 DEF Returns, Apart
<1>14. CASE x.error = "none" /\ result # Nothing
  <2> DEFINE combined == CombineIn(x.s, result, x.is)
  <2>1. r = OrDyn(combined)
    BY <1>3, <1>14 DEF JoinIn
  <2>2. result \in G /\ x.is \in G
    BY <1>2, <1>7, <1>11, <1>14
  <2>3. /\ Ended(x.s, r.s, combined.error)
        /\ \A t \in DOMAIN x.s.terms \ G : r.s.terms[t] = x.s.terms[t]
        /\ combined.error = "none" => OnlyNamed(x.s, r.s) /\ \A t \in DOMAIN x.s.terms : r.s.terms[t].name = x.s.terms[t].name
        /\ r.error = "none" => \E D : IsJoined(G, x.s, combined, r, D)
    <3>1. JoinsTo(G, x.s, combined, r)
      BY <1>7, <2>1, <2>2, JoinEnds
    <3>2. QED
      BY <3>1 DEF JoinsTo
  <2> HIDE DEF combined
  <2>4. /\ Good(r.s) /\ r.s.changes = <<>> /\ r.s.remaining <= x.s.remaining
        /\ Len(x.s.terms) <= Len(r.s.terms)
    BY <2>3 DEF Ended
  <2>n. combined.error = "none" => \A t \in Grown(G, x.s, r.s) : r.s.terms[t].name # NoName
    <3> SUFFICES ASSUME combined.error = "none", NEW t \in Grown(G, x.s, r.s) PROVE r.s.terms[t].name # NoName
      OBVIOUS
    <3>1. CASE t \in G
      BY <1>7, <1>10, <2>3, <3>1 DEF Closed
    <3>2. CASE t \notin G
      BY <2>3, <3>2 DEF Grown, OnlyNamed
    <3>3. QED
      BY <3>1, <3>2
  <2>5. Kept(s0, r.s)
    <3>1. \A t \in DOMAIN s0.terms : r.s.terms[t] = s0.terms[t]
      BY <1>8, <1>9, <1>10, <2>3 DEF Kept
    <3>n. ASSUME combined.error = "none", NEW t \in DOMAIN r.s.terms \ DOMAIN s0.terms PROVE Unlinked(r.s.terms[t])
      <4>1. CASE t \in DOMAIN x.s.terms \ G
        BY <1>9, <2>3, <4>1 DEF Kept
      <4>2. CASE t \in Grown(G, x.s, r.s)
        BY <2>4, <2>n, <3>n, <4>2, NamedUnlinked DEF Good
      <4>3. t \in DOMAIN x.s.terms \/ t \in Grown(G, x.s, r.s)
        BY <1>7, <2>4, GoodTypes DEF Grown
      <4>4. QED
        BY <4>1, <4>2, <4>3 DEF Grown
    <3>2. r.s.remaining <= s0.remaining /\ Len(s0.terms) <= Len(r.s.terms)
      <4>1. /\ Len(s0.terms) \in Nat /\ Len(x.s.terms) \in Nat /\ Len(r.s.terms) \in Nat
            /\ s0.remaining \in Nat /\ x.s.remaining \in Nat /\ r.s.remaining \in Nat
        BY <1>7, <2>4, GoodTypes
      <4>2. x.s.remaining <= s0.remaining /\ Len(s0.terms) <= Len(x.s.terms)
        BY <1>9 DEF Kept
      <4>3. QED
        BY <2>4, <4>1, <4>2
    <3>3. CASE combined.error = "none"
      BY <2>4, <3>1, <3>2, <3>3, <3>n DEF Kept
    <3>4. CASE combined.error # "none"
      BY <1>9, <2>3, <3>4, KeptKept DEF Ended
    <3>5. QED
      BY <3>3, <3>4
  <2>6. \A t \in Grown(G, x.s, r.s) : t \notin DOMAIN s0.terms
    BY <1>7, <1>8, <1>10, <2>4, GoodTypes DEF Grown
  <2>7. ASSUME r.error = "none" PROVE Apart(s0, r.s, r.is)
    <3>1. PICK D : IsJoined(G, x.s, combined, r, D)
      BY <2>3, <2>7
    <3>2. \A t \in D : t \notin DOMAIN s0.terms /\ r.s.terms[t].name # NoName
      BY <2>6, <2>n, <3>1 DEF IsJoined
    <3>3. QED
      BY <3>1, <3>2 DEF Apart, IsJoined
  <2>8. QED
    BY <2>5, <2>7
<1>15. QED
  BY <1>12, <1>13, <1>14

\* The functions of so many parameters.
Candidates(arity) == {function \in Overload : Len(function.parameters) = arity}

LEMMA OverloadsCandidates ==
  ASSUME NEW s, Good(s), NEW arity, NEW r, r = Overloads(s, arity)
  PROVE  /\ Like(s, r.s) /\ r.s.variables = s.variables
         /\ r.error = "none" => r.is \in Seq(Candidates(arity))
<1> DEFINE size == Len(Functions)
           All(q) == /\ Like(s, q.s) /\ q.s.variables = s.variables
                     /\ q.error = "none" => q.is \in Seq(Candidates(arity))
<1>1. size \in Nat /\ \A n \in 1..size : Functions[n] \in Overload
  BY FunctionsAssumption
<1>2. PICK f : OverloadsUpto(f, s, arity) /\ Overloads(s, arity) = f[size]
  BY <1>1, OverloadsDefinition
<1> DEFINE T == {n \in 0..size : All(f[n])}
<1>3. 0 \in T
  <2>1. f[0].s = s /\ f[0].error = "none" /\ f[0].is = <<>>
    BY <1>2 DEF OverloadsUpto, Returns
  <2>2. Like(s, s)
    BY GoodTypes DEF Like
  <2>3. <<>> \in Seq(Candidates(arity))
    BY SmallTuples
  <2>4. All(f[0])
    BY <2>1, <2>2, <2>3
  <2>5. QED
    BY <1>1, <2>4
<1>4. ASSUME NEW n \in 1..size, n - 1 \in T PROVE n \in T
  <2> DEFINE q == f[n - 1]
             function == Functions[n]
             u == Ticked(q.s)
             found == IF Len(function.parameters) = arity THEN Append(q.is, function) ELSE q.is
  <2>1. All(q)
    BY <1>4
  <2>2. f[n] = IF q.error # "none" THEN q
               ELSE IF q.s.remaining = 0 THEN Fails(q.s, "CheckLimitExceeded") ELSE Returns(u, found)
    BY <1>2 DEF OverloadsUpto, OverloadsAfter, Then, Tick, Ticked
  <2>3. Good(q.s)
    BY <2>1, LikeGood
  <2> HIDE DEF q
  <2>4. CASE q.error # "none"
    BY <1>4, <2>1, <2>2, <2>4
  <2>5. CASE q.error = "none" /\ q.s.remaining = 0
    <3>1. f[n].s = q.s /\ f[n].error # "none"
      BY <2>2, <2>5 DEF Fails
    <3>2. QED
      BY <2>1, <3>1
  <2>6. CASE q.error = "none" /\ q.s.remaining # 0
    <3>1. Like(s, u) /\ u.variables = s.variables
      <4>1. Like(q.s, u) /\ u.variables = q.s.variables
        BY <2>3, <2>6, TickedLike
      <4>2. QED
        BY <2>1, <4>1, LikeLike
    <3>2. found \in Seq(Candidates(arity))
      <4>1. q.is \in Seq(Candidates(arity))
        BY <2>1, <2>6
      <4>2. function \in Overload
        BY <1>1
      <4>3. CASE Len(function.parameters) = arity
        <5>1. function \in Candidates(arity)
          BY <4>2, <4>3 DEF Candidates
        <5> HIDE DEF function
        <5>2. Append(q.is, function) \in Seq(Candidates(arity))
          BY <4>1, <5>1
        <5>3. QED
          BY <4>3, <5>2
      <4>4. QED
        BY <4>1, <4>3
    <3> HIDE DEF u, found
    <3>3. f[n].s = u /\ f[n].error = "none" /\ f[n].is = found
      BY <2>2, <2>6 DEF Returns
    <3>4. QED
      BY <3>1, <3>2, <3>3
  <2>7. QED
    BY <2>4, <2>5, <2>6
<1>5. 0..size \subseteq T
  <2> HIDE DEF T, size
  <2> QED BY <1>1, <1>3, <1>4, Induction
<1>6. QED
  BY <1>1, <1>2, <1>5

\* The search for the overloads that accept the arguments changes no term.
LEMMA MatchingKeeps ==
  ASSUME NEW s0, Good(s0), s0.changes = <<>>, NEW arguments \in Seq(DOMAIN s0.terms),
         NEW candidates \in Seq(Candidates(Len(arguments))), NEW r, r = Matching(s0, candidates, arguments)
  PROVE  Kept(s0, r.s) /\ (r.error = "none" => r.is.accepted \in Seq(Candidates(Len(arguments))))
<1> DEFINE size == Len(candidates)
           some == Candidates(Len(arguments))
           All(q) == /\ Kept(s0, q.s)
                     /\ q.error = "none" => /\ q.is.accepted \in Seq(some)
                                            /\ q.is.result = Nothing \/ Apart(s0, q.s, q.is.result)
<1>1. size \in Nat /\ (\A n \in 1..size : candidates[n] \in some) /\ \A c \in some : c \in Overload /\ Len(c.parameters) = Len(arguments)
  <2>1. size \in Nat /\ \A n \in 1..size : candidates[n] \in some
    <3>1. ASSUME NEW S, NEW q \in Seq(S) PROVE Len(q) \in Nat /\ \A n \in 1..Len(q) : q[n] \in S
      OBVIOUS
    <3>2. QED
      BY <3>1
  <2>2. QED
    BY <2>1 DEF Candidates
<1>2. PICK f : MatchingUpto(f, s0, candidates, arguments) /\ Matching(s0, candidates, arguments) = f[size]
  BY <1>1, MatchingDefinition
<1> HIDE DEF some
<1> DEFINE T == {n \in 0..size : All(f[n])}
<1>3. 0 \in T
  <2>1. f[0].s = s0 /\ f[0].error = "none" /\ f[0].is.accepted = <<>> /\ f[0].is.result = Nothing
    BY <1>2 DEF MatchingUpto, Returns, Found
  <2>2. Kept(s0, s0)
    <3>1. Like(s0, s0)
      BY GoodTypes DEF Like
    <3>2. QED
      BY <3>1, LikeKept
  <2>3. <<>> \in Seq(some)
    BY SmallTuples
  <2>4. All(f[0])
    BY <2>1, <2>2, <2>3
  <2>5. QED
    BY <1>1, <2>4
<1>4. ASSUME NEW n \in 1..size, n - 1 \in T PROVE n \in T
  <2> DEFINE q == f[n - 1]
             candidate == candidates[n]
             x == Tried(q.s, candidate, arguments)
             y == Joined(x.s, q.is.result, x.is)
  <2>1. All(q)
    BY <1>4
  <2>2. f[n] = IF q.error # "none" THEN q
               ELSE IF x.error = "TypeMismatch" THEN Returns(x.s, q.is)
               ELSE IF x.error # "none" THEN x
               ELSE IF y.error = "none" THEN Returns(y.s, Found(Append(q.is.accepted, candidate), y.is))
               ELSE y
    BY <1>2 DEF MatchingUpto, MatchingAfter, MatchingNext, Then
  <2>3. Good(q.s) /\ q.s.changes = <<>> /\ DOMAIN s0.terms \subseteq DOMAIN q.s.terms
    <3>1. Good(q.s) /\ q.s.changes = <<>> /\ Len(s0.terms) <= Len(q.s.terms)
      BY <2>1 DEF Kept
    <3>2. /\ Len(s0.terms) \in Nat /\ DOMAIN s0.terms = 1..Len(s0.terms)
          /\ Len(q.s.terms) \in Nat /\ DOMAIN q.s.terms = 1..Len(q.s.terms)
      BY <3>1, GoodTypes
    <3>3. QED
      BY <3>1, <3>2
  <2>4. candidate \in some /\ candidate \in Overload /\ Len(arguments) = Len(candidate.parameters)
    BY <1>1
  <2> HIDE DEF q, candidate
  <2>5. Kept(q.s, x.s) /\ (x.error = "none" => x.is \in GroundTypes(max_depth))
    <3>1. arguments \in Seq(DOMAIN q.s.terms)
      BY <2>3, WiderSequence
    <3>2. QED
      BY <2>3, <2>4, <3>1, TriedKept
  <2> HIDE DEF x
  <2>6. Kept(s0, x.s)
    BY <2>1, <2>5, KeptKept
  <2>7. CASE q.error # "none"
    BY <1>4, <2>1, <2>2, <2>7
  <2>8. CASE q.error = "none"
    <3>1. q.is.result = Nothing \/ Apart(s0, x.s, q.is.result)
      <4>1. SUFFICES ASSUME Apart(s0, q.s, q.is.result) PROVE Apart(s0, x.s, q.is.result)
        BY <2>1, <2>8
      <4>2. PICK C : Closed(q.s.terms, C) /\ (\A t \in C : t \notin DOMAIN s0.terms /\ q.s.terms[t].name # NoName) /\ q.is.result \in C
        BY <4>1 DEF Apart
      <4>3. Closed(x.s.terms, C)
        BY <2>3, <2>5, <4>2, KeptClosed, Zenon
      <4>4. \A t \in C : x.s.terms[t].name # NoName
        BY <2>5, <4>2, Zenon DEF Kept, Closed
      <4>5. QED
        BY <4>2, <4>3, <4>4 DEF Apart
    <3>2. CASE x.error = "TypeMismatch"
      <4>1. f[n].s = x.s /\ f[n].error = "none" /\ f[n].is = q.is
        BY <2>2, <2>8, <3>2 DEF Returns
      <4>2. All(f[n])
        BY <2>1, <2>6, <2>8, <3>1, <4>1
      <4>3. QED
        BY <4>2
    <3>3. CASE x.error # "TypeMismatch" /\ x.error # "none"
      <4>1. f[n] = x
        BY <2>2, <2>8, <3>3
      <4>2. All(f[n])
        BY <2>6, <3>3, <4>1
      <4>3. QED
        BY <4>2
    <3>4. CASE x.error = "none"
      <4>1. Kept(s0, y.s) /\ (y.error = "none" => Apart(s0, y.s, y.is))
        BY <2>5, <2>6, <3>1, <3>4, JoinedApart
      <4>2. f[n] = IF y.error = "none" THEN Returns(y.s, Found(Append(q.is.accepted, candidate), y.is)) ELSE y
        BY <2>2, <2>8, <3>4
      <4> HIDE DEF y
      <4>3. CASE y.error # "none"
        <5>1. All(f[n])
          BY <4>1, <4>2, <4>3
        <5>2. QED
          BY <5>1
      <4>4. CASE y.error = "none"
        <5>1. q.is.accepted \in Seq(some)
          BY <2>1, <2>8
        <5>2. Append(q.is.accepted, candidate) \in Seq(some)
          BY <2>4, <5>1
        <5>3. /\ f[n].s = y.s /\ f[n].error = "none" /\ f[n].is.result = y.is
              /\ f[n].is.accepted = Append(q.is.accepted, candidate)
          BY <4>2, <4>4 DEF Returns, Found
        <5>4. All(f[n])
          BY <4>1, <4>4, <5>2, <5>3
        <5>5. QED
          BY <5>4
      <4>5. QED
        BY <4>3, <4>4
    <3>5. QED
      BY <3>2, <3>3, <3>4
  <2>9. QED
    BY <2>7, <2>8
<1>5. 0..size \subseteq T
  <2> HIDE DEF T, size
  <2> QED BY <1>1, <1>3, <1>4, Induction, Zenon
<1>6. All(f[size])
  BY <1>1, <1>5
<1>7. QED
  BY <1>2, <1>6 DEF some

\* A call that fails, or that several overloads accept, changes no term.
Called(s0, r) ==
  Ended(s0, r.s, r.error) /\ (r.error = "none" /\ r.is = <<>> => Kept(s0, r.s))

LEMMA ApplyCalled ==
  ASSUME NEW s0, Good(s0), s0.changes = <<>>, NEW arguments \in Seq(DOMAIN s0.terms),
         NEW s, Kept(s0, s), NEW function \in Candidates(Len(arguments)), NEW r, r = Apply(s, function, arguments)
  PROVE  Called(s0, r)
<1>1. Good(s) /\ s.changes = <<>> /\ DOMAIN s0.terms \subseteq DOMAIN s.terms
  BY GoodTypes DEF Kept
<1>2. arguments \in Seq(DOMAIN s.terms)
  BY <1>1, WiderSequence
<1>3. function \in Overload /\ Len(arguments) = Len(function.parameters)
  BY DEF Candidates
<1>4. Ended(s, r.s, r.error) /\ (r.error = "none" => r.is # <<>>)
  BY <1>1, <1>2, <1>3, ApplyEnds
<1>5. QED
  BY <1>4, KeptEnded DEF Called

LEMMA KeptCalled ==
  ASSUME NEW s0, NEW r, Kept(s0, r.s)
  PROVE  Called(s0, r)
BY DEF Called, Ended, Kept

LEMMA CallAmongCalled ==
  ASSUME NEW s0, Good(s0), s0.changes = <<>>, NEW arguments \in Seq(DOMAIN s0.terms), NEW s, Kept(s0, s),
         NEW candidates \in Seq(Candidates(Len(arguments))), NEW r, r = CallAmong(s, candidates, arguments)
  PROVE  Called(s0, r)
<1> DEFINE some == Candidates(Len(arguments))
           x == Matching(s, candidates, arguments)
<1>1. Good(s) /\ s.changes = <<>> /\ DOMAIN s0.terms \subseteq DOMAIN s.terms
  BY GoodTypes DEF Kept
<1>2. arguments \in Seq(DOMAIN s.terms)
  BY <1>1, WiderSequence
<1>3. Kept(s, x.s) /\ (x.error = "none" => x.is.accepted \in Seq(some))
  BY <1>1, <1>2, MatchingKeeps
<1>4. r = IF candidates = <<>> THEN Fails(s, "TypeMismatch")
          ELSE IF Len(candidates) = 1 THEN Apply(s, candidates[1], arguments)
          ELSE IF x.error # "none" THEN x
          ELSE IF x.is.accepted = <<>> THEN Fails(x.s, "TypeMismatch")
          ELSE IF Len(x.is.accepted) = 1 THEN Apply(x.s, x.is.accepted[1], arguments)
          ELSE Returns(x.s, <<>>)
  BY DEF CallAmong, Then
<1> HIDE DEF x
<1>5. Kept(s0, x.s)
  BY <1>3, KeptKept
<1> HIDE DEF some
<1>6. \A c \in Seq(some) : Len(c) = 1 => c[1] \in some
  BY SingleElement
<1>7. CASE Len(candidates) = 1 /\ candidates # <<>>
  <2>1. candidates[1] \in Candidates(Len(arguments))
    BY <1>6, <1>7 DEF some
  <2>2. QED
    BY <1>4, <1>7, <2>1, ApplyCalled
<1>8. CASE r = Apply(x.s, x.is.accepted[1], arguments) /\ x.error = "none" /\ Len(x.is.accepted) = 1
  <2>1. x.is.accepted[1] \in Candidates(Len(arguments))
    BY <1>3, <1>6, <1>8 DEF some
  <2>2. QED
    BY <1>5, <1>8, <2>1, ApplyCalled
<1>9. CASE r.s = s \/ r.s = x.s
  BY <1>5, <1>9, KeptCalled
<1>10. QED
  BY <1>4, <1>7, <1>8, <1>9 DEF Fails, Returns

LEMMA CallInCalled ==
  ASSUME NEW s0, Good(s0), s0.changes = <<>>, NEW arguments \in Seq(DOMAIN s0.terms),
         NEW r, r = CallIn(s0, arguments)
  PROVE  Called(s0, r)
<1> DEFINE x == Overloads(s0, Len(arguments))
<1>1. /\ Like(s0, x.s) /\ x.s.variables = s0.variables
      /\ x.error = "none" => x.is \in Seq(Candidates(Len(arguments)))
  BY OverloadsCandidates
<1>2. r = IF x.error = "none" THEN CallAmong(x.s, x.is, arguments) ELSE x
  BY DEF CallIn, Then
<1> HIDE DEF x
<1>3. Kept(s0, x.s)
  BY <1>1, LikeKept
<1>4. CASE x.error = "none"
  BY <1>1, <1>2, <1>3, <1>4, CallAmongCalled
<1>5. CASE x.error # "none"
  BY <1>2, <1>3, <1>5, KeptCalled
<1>6. QED
  BY <1>4, <1>5

\* A call that binds variables applies one overload, after searches that left the
\* terms as they were.
Applies(s0, arguments, r) ==
  \E s : \E function \in Candidates(Len(arguments)) : Kept(s0, s) /\ r = Apply(s, function, arguments)

LEMMA CallAmongApplies ==
  ASSUME NEW s0, Good(s0), s0.changes = <<>>, NEW arguments \in Seq(DOMAIN s0.terms), NEW s, Kept(s0, s),
         NEW candidates \in Seq(Candidates(Len(arguments))), NEW r, r = CallAmong(s, candidates, arguments),
         r.error = "none", r.is # <<>>
  PROVE  Applies(s0, arguments, r)
<1> DEFINE some == Candidates(Len(arguments))
           x == Matching(s, candidates, arguments)
<1>1. Good(s) /\ s.changes = <<>> /\ DOMAIN s0.terms \subseteq DOMAIN s.terms
  BY GoodTypes DEF Kept
<1>2. arguments \in Seq(DOMAIN s.terms)
  BY <1>1, WiderSequence
<1>3. Kept(s, x.s) /\ (x.error = "none" => x.is.accepted \in Seq(some))
  BY <1>1, <1>2, MatchingKeeps
<1>4. r = IF candidates = <<>> THEN Fails(s, "TypeMismatch")
          ELSE IF Len(candidates) = 1 THEN Apply(s, candidates[1], arguments)
          ELSE IF x.error # "none" THEN x
          ELSE IF x.is.accepted = <<>> THEN Fails(x.s, "TypeMismatch")
          ELSE IF Len(x.is.accepted) = 1 THEN Apply(x.s, x.is.accepted[1], arguments)
          ELSE Returns(x.s, <<>>)
  BY DEF CallAmong, Then
<1> HIDE DEF x
<1>5. Kept(s0, x.s)
  BY <1>3, KeptKept
<1> HIDE DEF some
<1>6. \A c \in Seq(some) : Len(c) = 1 => c[1] \in some
  BY SingleElement
<1>7. CASE Len(candidates) = 1 /\ candidates # <<>>
  <2>1. candidates[1] \in Candidates(Len(arguments))
    BY <1>6, <1>7 DEF some
  <2>2. QED
    BY <1>4, <1>7, <2>1 DEF Applies
<1>8. CASE r = Apply(x.s, x.is.accepted[1], arguments) /\ x.error = "none" /\ Len(x.is.accepted) = 1
  <2>1. x.is.accepted[1] \in Candidates(Len(arguments))
    BY <1>3, <1>6, <1>8 DEF some
  <2>2. QED
    BY <1>5, <1>8, <2>1 DEF Applies
<1>9. \A u, error : Fails(u, error).error = error /\ Returns(u, <<>>).is = <<>>
  BY DEF Fails, Returns
<1>10. QED
  BY <1>4, <1>7, <1>8, <1>9

LEMMA CallInApplies ==
  ASSUME NEW s0, Good(s0), s0.changes = <<>>, NEW arguments \in Seq(DOMAIN s0.terms),
         NEW r, r = CallIn(s0, arguments), r.error = "none", r.is # <<>>
  PROVE  Applies(s0, arguments, r)
<1> DEFINE x == Overloads(s0, Len(arguments))
<1>1. /\ Like(s0, x.s) /\ x.s.variables = s0.variables
      /\ x.error = "none" => x.is \in Seq(Candidates(Len(arguments)))
  BY OverloadsCandidates
<1>2. r = IF x.error = "none" THEN CallAmong(x.s, x.is, arguments) ELSE x
  BY DEF CallIn, Then
<1> HIDE DEF x
<1>3. Kept(s0, x.s)
  BY <1>1, LikeKept
<1>4. x.error = "none"
  BY <1>2
<1>5. QED
  BY <1>1, <1>2, <1>3, <1>4, CallAmongApplies

-----------------------------------------------------------------------------
(* The checker *)

\* Between operations the store is sound and no change could be undone.
IInv == Good(Now) /\ changes = <<>> /\ remaining <= max_check_steps

LEMMA NowFields ==
  /\ Now.terms = terms /\ Now.remaining = remaining /\ Now.changes = changes /\ Now.variables = {}
  /\ Now' = Store(terms', remaining', changes')
BY DEF Now, Store

LEMMA GoodStore ==
  ASSUME NEW s, Good(s), NEW w, w = Store(s.terms, s.remaining, s.changes)
  PROVE  Good(w)
<1>1. w.terms = s.terms /\ w.remaining = s.remaining /\ w.changes = s.changes /\ w.variables = {}
  BY DEF Store
<1>2. w \in Stores
  <2>1. s \in Stores
    BY GoodTypes
  <2>2. QED
    BY <2>1 DEF Store, Stores
<1>3. QED
  BY <1>1, <1>2 DEF Good

LEMMA InitGood ==
  Init => IInv
<1> SUFFICES ASSUME Init PROVE IInv
  OBVIOUS
<1>1. /\ terms \in Seq(Terms)
      /\ \A t \in DOMAIN terms :
           /\ terms[t] = Named(terms[t].name, terms[t].parameters)
           /\ terms[t].name = NoName => terms[t].parameters = <<>>
           /\ terms[t].name = "wrapper" => terms[t].parameters # <<>>
           /\ \A i \in DOMAIN terms[t].parameters : terms[t].parameters[i] \in DOMAIN terms /\ terms[t].parameters[i] < t
  <2>1. PICK store \in Inferred : terms = store
    BY DEF Init
  <2>2. /\ store \in Seq(Terms)
        /\ \A t \in DOMAIN store :
             /\ store[t] = Named(store[t].name, store[t].parameters)
             /\ store[t].name = NoName => store[t].parameters = <<>>
             /\ store[t].name = "wrapper" => store[t].parameters # <<>>
             /\ \A i \in DOMAIN store[t].parameters : store[t].parameters[i] \in 1..(t - 1)
    BY InferredAssumption
  <2>3. DOMAIN store = 1..Len(store) /\ Len(store) \in Nat
    BY <2>2
  <2>4. \A t \in DOMAIN store : \A i \in DOMAIN store[t].parameters :
          store[t].parameters[i] \in DOMAIN store /\ store[t].parameters[i] < t
    BY <2>2, <2>3
  <2>5. QED
    BY <2>1, <2>2, <2>4
<1>2. \A t \in DOMAIN terms : terms[t].parent = Nothing /\ terms[t].binding = Nothing /\ terms[t].rank = 0
  <2>1. \A name, parameters : /\ Named(name, parameters).parent = Nothing
                              /\ Named(name, parameters).binding = Nothing
                              /\ Named(name, parameters).rank = 0
    BY DEF Named
  <2>2. QED
    BY <1>1, <2>1
<1>3. Shaped(terms)
  BY <1>1, <1>2 DEF Shaped
<1>4. Balanced(terms)
  <2>1. \A t \in DOMAIN terms : terms[t].rank <= 0
    BY <1>2
  <2>2. QED
    BY <1>2, <2>1 DEF Balanced
<1>5. remaining = max_check_steps /\ remaining \in Nat /\ changes = <<>>
  BY LimitsAssumption DEF Init
<1>6. Now \in Stores
  <2>1. changes \in Seq(Changes)
    BY <1>5, SmallTuples
  <2>2. QED
    BY <1>1, <1>5, <2>1 DEF Now, Store, Stores
<1>7. Good(Now)
  <2>1. Sound(terms)
    BY <1>1, <1>3, <1>4 DEF Sound
  <2>2. QED
    BY <1>5, <1>6, <2>1, NowFields DEF Good
<1>8. QED
  BY <1>5, <1>7 DEF IInv

Unchanged == \A t \in DOMAIN terms : terms'[t] = terms[t]
Undoes == ~committed' => Unchanged

\* What an operation that ends so leaves.
LEMMA MovedEnds ==
  ASSUME IInv, NEW r, NEW error, Ended(Now, r.s, error), Moved(r)
  PROVE  IInv' /\ (error # "none" => Unchanged)
<1>1. Good(Now) /\ Good(r.s)
  BY DEF IInv, Ended
<1>2. Now' = Store(r.s.terms, r.s.remaining, r.s.changes)
  BY NowFields DEF Moved
<1>3. Good(Now')
  BY <1>1, <1>2, GoodStore
<1>4. changes' = <<>> /\ remaining' <= max_check_steps
  <2>1. r.s.changes = <<>> /\ r.s.remaining <= remaining /\ remaining <= max_check_steps
    BY NowFields DEF Ended, IInv
  <2>2. r.s.remaining \in Nat /\ remaining \in Nat /\ max_check_steps \in Nat
    BY <1>1, GoodTypes, NowFields, LimitsAssumption
  <2>3. remaining' = r.s.remaining /\ changes' = r.s.changes
    BY DEF Moved
  <2>4. QED
    BY <2>1, <2>2, <2>3
<1>5. error # "none" => Unchanged
  BY NowFields DEF Ended, Kept, Moved, Unchanged
<1>6. QED
  BY <1>3, <1>4, <1>5 DEF IInv

LEMMA AllTerms ==
  ASSUME IInv
  PROVE  Good(Now) /\ Now.changes = <<>> /\ Now.terms = terms /\ Closed(Now.terms, DOMAIN terms)
<1>1. Good(Now) /\ Now.changes = <<>> /\ Now.terms = terms
  BY NowFields DEF IInv
<1>2. Closed(Now.terms, DOMAIN Now.terms)
  BY <1>1, AllClosed, GoodTypes
<1>3. QED
  BY <1>1, <1>2

LEMMA CombineStep ==
  ASSUME IInv, NEW a \in DOMAIN terms, NEW b \in DOMAIN terms, Combine(a, b)
  PROVE  IInv' /\ Undoes
<1>1. PICK r : r = CombineIn(Now, a, b) /\ Moved(r) /\ committed' = (r.error = "none")
  BY DEF Combine, Became
<1>2. Ended(Now, r.s, r.error)
  BY <1>1, AllTerms, CombineEnds, Zenon DEF CombinesTo
<1>3. ~committed' => r.error # "none"
  BY <1>1, Zenon
<1>4. QED
  BY <1>1, <1>2, <1>3, MovedEnds DEF Undoes

LEMMA JoinStep ==
  ASSUME IInv, NEW a \in DOMAIN terms, NEW b \in DOMAIN terms, Join(a, b)
  PROVE  IInv' /\ Undoes
<1>1. PICK combined : combined = CombineIn(Now, a, b) /\ Moved(OrDyn(combined)) /\ committed' = (combined.error = "none")
  BY DEF Join, Became
<1>r. PICK r : r = OrDyn(combined)
  OBVIOUS
<1>2. JoinsTo(DOMAIN terms, Now, combined, r)
  BY <1>1, <1>r, AllTerms, JoinEnds
<1>3. Moved(r)
  BY <1>1, <1>r
<1>4. ~committed' => combined.error # "none"
  BY <1>1, Zenon
<1>5. Ended(Now, r.s, combined.error)
  BY <1>2 DEF JoinsTo
<1>6. IInv' /\ (combined.error # "none" => Unchanged)
  BY <1>3, <1>5, MovedEnds
<1>7. QED
  BY <1>4, <1>6 DEF Undoes

LEMMA CallStep ==
  ASSUME IInv, NEW arguments \in Seq(DOMAIN terms), Call(arguments)
  PROVE  IInv' /\ Undoes
<1>1. PICK r : r = CallIn(Now, arguments) /\ Moved(r) /\ committed' = (r.error = "none" /\ r.is # <<>>)
  BY DEF Call, Became
<1>2. Called(Now, r)
  BY <1>1, AllTerms, CallInCalled
<1>3. IInv' /\ (r.error # "none" => Unchanged)
  BY <1>1, <1>2, MovedEnds, Zenon DEF Called
<1>4. r.error = "none" /\ r.is = <<>> => Unchanged
  BY <1>1, <1>2, NowFields DEF Called, Kept, Moved, Unchanged
<1>5. ~committed' => r.error # "none" \/ r.is = <<>>
  BY <1>1, Zenon
<1>6. QED
  BY <1>3, <1>4, <1>5 DEF Undoes

LEMMA FinishesStep ==
  ASSUME IInv, NEW t \in DOMAIN terms, Finishes(t)
  PROVE  IInv' /\ Undoes
<1>1. PICK r : r = FinishWhole(Now, t) /\ Moved(r)
  BY DEF Finishes
<1>2. FinishesTo(Finish[max_depth], GroundTypes(max_depth))
  BY LimitsAssumption, FinishFinishes
<1>3. Like(Now, r.s) /\ r.s.variables = Now.variables
  BY <1>1, <1>2, AllTerms DEF FinishesTo, FinishWhole, Finished
<1>4. Kept(Now, r.s)
  BY <1>3, AllTerms, LikeKept
<1>5. PICK error : error = "TypeMismatch"
  OBVIOUS
<1>6. IInv' /\ Unchanged
  <2>1. Ended(Now, r.s, error)
    BY <1>4 DEF Ended, Kept
  <2>2. IInv' /\ (error # "none" => Unchanged)
    BY <1>1, <2>1, MovedEnds
  <2>3. QED
    BY <1>5, <2>2
<1>7. QED
  BY <1>6 DEF Undoes

LEMMA StepGood ==
  IInv /\ [Next]_vars => IInv' /\ [Undoes]_vars
<1> SUFFICES ASSUME IInv, [Next]_vars PROVE IInv' /\ [Undoes]_vars
  OBVIOUS
<1>1. ASSUME NEW a \in DOMAIN terms, NEW b \in DOMAIN terms, Combine(a, b)
      PROVE  IInv' /\ Undoes
  BY <1>1, CombineStep
<1>2. ASSUME NEW a \in DOMAIN terms, NEW b \in DOMAIN terms, Join(a, b)
      PROVE  IInv' /\ Undoes
  BY <1>2, JoinStep
<1>3. ASSUME NEW a \in DOMAIN terms, NEW b \in DOMAIN terms, Call(<<a, b>>)
      PROVE  IInv' /\ Undoes
  <2>1. <<a, b>> \in Seq(DOMAIN terms)
    OBVIOUS
  <2>2. QED
    BY <1>3, <2>1, CallStep, Zenon
<1>4. ASSUME NEW a \in DOMAIN terms, Call(<<a>>)
      PROVE  IInv' /\ Undoes
  <2>1. <<a>> \in Seq(DOMAIN terms)
    OBVIOUS
  <2>2. QED
    BY <1>4, <2>1, CallStep, Zenon
<1>5. ASSUME NEW a \in DOMAIN terms, Finishes(a)
      PROVE  IInv' /\ Undoes
  BY <1>5, FinishesStep
<1>6. CASE UNCHANGED vars
  <2>1. terms' = terms /\ remaining' = remaining /\ changes' = changes
    BY <1>6 DEF vars
  <2>2. Now' = Now
    BY <2>1 DEF Now
  <2>3. QED
    BY <1>6, <2>1, <2>2 DEF IInv
<1>7. QED
  BY <1>1, <1>2, <1>3, <1>4, <1>5, <1>6, Zenon DEF Next

LEMMA AlwaysGood ==
  Spec => []IInv
BY InitGood, StepGood, PTL DEF Spec

LEMMA GoodTypeOK ==
  IInv => TypeOK
<1> SUFFICES ASSUME IInv PROVE TypeOK
  OBVIOUS
<1>1. /\ terms \in Seq(Terms) /\ Shaped(terms) /\ remaining \in Nat /\ changes = <<>>
      /\ remaining <= max_check_steps
  BY GoodTypes, NowFields DEF IInv, Sound
<1>2. remaining \in 0..max_check_steps
  BY <1>1, LimitsAssumption
<1>3. QED
  BY <1>1, <1>2 DEF TypeOK, Shaped, Variables, IsVariable

LEMMA GoodForestBalanced ==
  IInv => ForestBalanced
<1> SUFFICES ASSUME IInv PROVE ForestBalanced
  OBVIOUS
<1>1. terms \in Seq(Terms) /\ Shaped(terms) /\ Balanced(terms)
  BY GoodTypes, NowFields DEF IInv, Sound
<1>2. ASSUME NEW v \in Variables, NEW k \in 0..(terms[v].rank - 1)
      PROVE  \E w \in Variables : terms[w].parent = v /\ terms[w].rank = k
  <2>1. v \in DOMAIN terms /\ v # Nothing
    BY <1>1 DEF Variables, Nothing
  <2>2. k \in Nat /\ k < terms[v].rank
    BY <1>1, <2>1, TermTypes
  <2>3. PICK w \in DOMAIN terms : terms[w].parent = v /\ terms[w].rank = k
    BY <1>1, <2>1, <2>2 DEF Balanced
  <2>4. w \in Variables
    BY <1>1, <2>1, <2>3 DEF Shaped, Variables, IsVariable
  <2>5. QED
    BY <2>3, <2>4
<1>3. ASSUME NEW v \in Variables, terms[v].parent # Nothing
      PROVE  terms[terms[v].parent].rank > terms[v].rank
  BY <1>1, <1>3 DEF Balanced, Variables
<1>4. QED
  BY <1>2, <1>3 DEF ForestBalanced

\* Only variables are linked and bound, each to variables or to named terms,
\* and between operations nothing is left that a failure would undo: unify
\* (checker.zig:1068-1114) never binds a variable to a variable, and combine and
\* applyFunction clear their changes on every way out.
THEOREM TypeCorrect == Spec => []TypeOK
BY AlwaysGood, GoodTypeOK, PTL

\* Ranks grow along parents, and a variable of rank k has variables of every
\* lower rank right under it, although a rollback writes back parents and ranks
\* that it recorded at different times (checker.zig:1058-1066, 1088-1096).
THEOREM ForestStaysBalanced == Spec => []ForestBalanced
BY AlwaysGood, GoodForestBalanced, PTL

\* An operation that fails, however deep in unify and after however many
\* variables it bound, leaves every term as it was; so does a call that no
\* overload or several overloads accept (checker.zig:708-775, 1042-1066).
THEOREM FailuresAreUndone == Spec => FailedAttemptsUndone
BY AlwaysGood, StepGood, PTL DEF Spec, FailedAttemptsUndone, Undoes, Unchanged

-----------------------------------------------------------------------------
(* What terms stand for *)

\* m gives every term what it stands for; t and u are made of the same.
Alike(m, store, t, u) ==
  /\ store[t].name = store[u].name
  /\ Len(store[t].parameters) = Len(store[u].parameters)
  /\ \A i \in DOMAIN store[t].parameters : m[store[t].parameters[i]] = m[store[u].parameters[i]]

\* Named terms that are made of the same are the same.
Congruent(m, store, R) ==
  \A t, u \in R : store[t].name # NoName /\ Alike(m, store, t, u) => m[t] = m[u]

\* Variables stand for what they are linked and bound to.
Respects(m, store, R) ==
  \A v \in R : store[v].name = NoName => \A y \in Links(store, v) : m[y] = m[v]

\* Named terms that are the same are made of the same, and of less than they are.
Free(m, store) ==
  \A t, u \in DOMAIN store :
    store[t].name # NoName /\ store[u].name # NoName /\ m[t] = m[u] => Alike(m, store, t, u)

Heights(h, m, store) ==
  \A t \in DOMAIN store :
    /\ h[t] \in Nat
    /\ \A u \in DOMAIN store : m[t] = m[u] => h[t] = h[u]
    /\ \A i \in DOMAIN store[t].parameters : h[store[t].parameters[i]] < h[t]

Solution(m, store) ==
  Congruent(m, store, DOMAIN store) /\ Free(m, store) /\ \E h : Heights(h, m, store)

\* Every path in R ends; h counts its steps.
Descends(h, store, R) ==
  /\ \E bound \in Nat : h \in [R -> 0..bound]
  /\ \A t \in R : \A y \in Links(store, t) : h[y] < h[t]

Ends(store, R) == \E h : Descends(h, store, R)

\* No type in R unifies with other types.
Exact(store, R) == \A t \in R : ~Gradual(store[t])

\* What unification works on.
Apt(R, s) == Good(s) /\ Closed(s.terms, R) /\ Ends(s.terms, R) /\ Exact(s.terms, R)

\* In S, t and u stand for the same.
Same(store, S, t, u) == \A m : Congruent(m, store, S) /\ Respects(m, store, S) => m[t] = m[u]

\* From s0 to s exactly the equations E were added to what variables stand for.
Implies(R, s0, E, s) ==
  \A m : Congruent(m, s.terms, Grown(R, s0, s)) /\ Respects(m, s.terms, Grown(R, s0, s)) =>
           Respects(m, s0.terms, R) /\ Solves(m, E)

Follows(R, s0, E, s) ==
  \A m : Solution(m, s.terms) /\ Respects(m, s0.terms, R) /\ Solves(m, E) =>
           Respects(m, s.terms, Grown(R, s0, s))

Solving(R, s0, E, s) ==
  /\ Ends(s.terms, Grown(R, s0, s)) /\ Exact(s.terms, Grown(R, s0, s))
  /\ Implies(R, s0, E, s)
  /\ Follows(R, s0, E, s)

\* The equations E have no solution.
Refuting(R, s0, E, s) ==
  \A m : Solution(m, s.terms) /\ Respects(m, s0.terms, R) => ~Solves(m, E)

\* The answer to the question whether two terms unify.
Resolved(R, s0, left, right, r) ==
  /\ r.error = "none" =>
       Solving(R, s0, {<<left, right>>}, r.s) /\ Same(r.s.terms, Grown(R, s0, r.s), r.is, left)
  /\ r.error = "TypeMismatch" => Refuting(R, s0, {<<left, right>>}, r.s)

Resolves(unify) ==
  \A s, R, left, right :
    Apt(R, s) /\ left \in R /\ right \in R => Resolved(R, s, left, right, unify[Pair(s, left, right)])

-----------------------------------------------------------------------------
(* Solutions of earlier stores, and of parts of a store *)

LEMMA LaterKeeps ==
  ASSUME NEW s0, NEW s, Good(s0), Later(s0, s)
  PROVE  Keeps(s0.terms, s.terms)
BY LaterGrows DEF Later, Keeps

LEMMA CongruentInLess ==
  ASSUME NEW m, NEW old, NEW R, NEW new, NEW S, Congruent(m, new, S), R \subseteq S, R \subseteq DOMAIN old,
         Keeps(old, new)
  PROVE  Congruent(m, old, R)
<1> SUFFICES ASSUME NEW t \in R, NEW u \in R, old[t].name # NoName, Alike(m, old, t, u)
             PROVE  m[t] = m[u]
  BY DEF Congruent
<1>1. new[t].name = old[t].name /\ new[t].parameters = old[t].parameters
  BY DEF Keeps
<1>2. new[u].name = old[u].name /\ new[u].parameters = old[u].parameters
  BY DEF Keeps
<1>3. Alike(m, new, t, u) /\ new[t].name # NoName
  BY <1>1, <1>2 DEF Alike
<1>4. QED
  BY <1>3 DEF Congruent

LEMMA SolutionOfLess ==
  ASSUME NEW m, NEW old, NEW new, Solution(m, new), Keeps(old, new)
  PROVE  Solution(m, old)
<1>1. Congruent(m, old, DOMAIN old)
  BY CongruentInLess DEF Solution, Keeps
<1>2. Free(m, old)
  <2> SUFFICES ASSUME NEW t \in DOMAIN old, NEW u \in DOMAIN old, old[t].name # NoName, old[u].name # NoName, m[t] = m[u]
               PROVE  Alike(m, old, t, u)
    BY DEF Free
  <2>1. new[t].name = old[t].name /\ new[t].parameters = old[t].parameters /\ t \in DOMAIN new
    BY DEF Keeps
  <2>2. new[u].name = old[u].name /\ new[u].parameters = old[u].parameters /\ u \in DOMAIN new
    BY DEF Keeps
  <2>3. Alike(m, new, t, u)
    BY <2>1, <2>2 DEF Solution, Free
  <2>4. QED
    BY <2>1, <2>2, <2>3 DEF Alike
<1>3. PICK h : Heights(h, m, new)
  BY DEF Solution
<1>4. Heights(h, m, old)
  BY <1>3 DEF Heights, Keeps
<1>5. QED
  BY <1>1, <1>2, <1>4 DEF Solution

\* A solution of a store is one of what the store was.
LEMMA SolutionEarlier ==
  ASSUME NEW s0, NEW s, Good(s0), Later(s0, s), NEW m, Solution(m, s.terms)
  PROVE  Solution(m, s0.terms)
BY LaterKeeps, SolutionOfLess

LEMMA CongruentEarlier ==
  ASSUME NEW s0, NEW s, Good(s0), Later(s0, s), NEW m, NEW R, R \subseteq DOMAIN s0.terms,
         Congruent(m, s.terms, Grown(R, s0, s))
  PROVE  Congruent(m, s0.terms, R)
<1>1. R \subseteq Grown(R, s0, s)
  BY DEF Grown
<1>2. QED
  BY <1>1, LaterKeeps, CongruentInLess

LEMMA SolutionCongruent ==
  ASSUME NEW m, NEW store, Solution(m, store), NEW R, R \subseteq DOMAIN store
  PROVE  Congruent(m, store, R)
BY DEF Solution, Congruent

\* Parts of what unification works on.
LEMMA AptInLess ==
  ASSUME NEW s, NEW R, Apt(R, s), NEW D, D \subseteq R, Closed(s.terms, D)
  PROVE  Apt(D, s)
<1>1. PICK h : Descends(h, s.terms, R)
  BY DEF Apt, Ends
<1> DEFINE g == [t \in D |-> h[t]]
<1>2. PICK bound \in Nat : h \in [R -> 0..bound]
  BY <1>1 DEF Descends
<1>3. g \in [D -> 0..bound]
  BY <1>2
<1>4. \A t \in D : \A y \in Links(s.terms, t) : g[y] < g[t]
  BY <1>1 DEF Descends, Closed
<1> HIDE DEF g
<1>5. Descends(g, s.terms, D)
  BY <1>3, <1>4 DEF Descends
<1>6. QED
  BY <1>5 DEF Apt, Ends, Exact

-----------------------------------------------------------------------------
(* Equations one after the other *)

\* Nothing changed.
LEMMA SolvingNothing ==
  ASSUME NEW s, NEW R, Apt(R, s), NEW u, Like(s, u)
  PROVE  Solving(R, s, {}, u) /\ Grown(R, s, u) = R
<1>1. Len(u.terms) \in Nat /\ u.terms = s.terms
  BY GoodTypes DEF Apt, Like
<1>2. Grown(R, s, u) = R
  BY <1>1 DEF Grown
<1>3. QED
  BY <1>1, <1>2 DEF Solving, Apt, Implies, Follows, Solves

\* What is solved one after the other is solved together.
LEMMA SolvingSolving ==
  ASSUME NEW s0, NEW s1, NEW s2, NEW R, NEW E, NEW F, Good(s0), R \subseteq DOMAIN s0.terms,
         Reached(R, s0, s1), Reached(Grown(R, s0, s1), s1, s2),
         Solving(R, s0, E, s1), Solving(Grown(R, s0, s1), s1, F, s2)
  PROVE  Solving(R, s0, E \cup F, s2)
<1> DEFINE S == Grown(R, s0, s1)
           W == Grown(R, s0, s2)
<1>1. Good(s1) /\ Later(s0, s1) /\ Later(s1, s2) /\ Closed(s1.terms, S)
  BY DEF Reached, Later, Within
<1>2. Grown(S, s1, s2) = W
  BY ReachedReached
<1> HIDE DEF S, W
<1>3. S \subseteq DOMAIN s1.terms
  BY <1>1 DEF Closed
<1>4. Ends(s2.terms, W) /\ Exact(s2.terms, W)
  BY <1>2 DEF Solving, S
<1>5. Implies(R, s0, E \cup F, s2)
  <2> SUFFICES ASSUME NEW m, Congruent(m, s2.terms, W), Respects(m, s2.terms, W)
               PROVE  Respects(m, s0.terms, R) /\ Solves(m, E \cup F)
    BY DEF Implies, W
  <2>1. Respects(m, s1.terms, S) /\ Solves(m, F)
    BY <1>2 DEF Solving, Implies, S
  <2>2. Congruent(m, s1.terms, S)
    BY <1>1, <1>2, <1>3, CongruentEarlier
  <2>3. Respects(m, s0.terms, R) /\ Solves(m, E)
    BY <2>1, <2>2 DEF Solving, Implies, S
  <2>4. QED
    BY <2>1, <2>3 DEF Solves
<1>6. Follows(R, s0, E \cup F, s2)
  <2> SUFFICES ASSUME NEW m, Solution(m, s2.terms), Respects(m, s0.terms, R), Solves(m, E \cup F)
               PROVE  Respects(m, s2.terms, W)
    BY DEF Follows, W
  <2>1. Solution(m, s1.terms) /\ Solves(m, E) /\ Solves(m, F)
    BY <1>1, SolutionEarlier DEF Solves
  <2>2. Respects(m, s1.terms, S)
    BY <2>1 DEF Solving, Follows, S
  <2>3. QED
    BY <1>2, <2>1, <2>2 DEF Solving, Follows, S
<1>7. QED
  BY <1>4, <1>5, <1>6 DEF Solving, W

\* What is refuted after equations were solved is refuted with them.
LEMMA SolvingRefuting ==
  ASSUME NEW s0, NEW s1, NEW s2, NEW R, NEW E, NEW F, Good(s0),
         Reached(R, s0, s1), Reached(Grown(R, s0, s1), s1, s2),
         Solving(R, s0, E, s1), Refuting(Grown(R, s0, s1), s1, F, s2)
  PROVE  Refuting(R, s0, E \cup F, s2)
<1>1. Good(s1) /\ Later(s0, s1) /\ Later(s1, s2)
  BY DEF Reached, Later
<1> SUFFICES ASSUME NEW m, Solution(m, s2.terms), Respects(m, s0.terms, R), Solves(m, E \cup F)
             PROVE  FALSE
  BY DEF Refuting
<1>2. Solution(m, s1.terms) /\ Solves(m, E) /\ Solves(m, F)
  BY <1>1, SolutionEarlier DEF Solves
<1>3. Respects(m, s1.terms, Grown(R, s0, s1))
  BY <1>2 DEF Solving, Follows
<1>4. QED
  BY <1>2, <1>3 DEF Refuting

\* Equations that say the same.
LEMMA SolvingEquivalent ==
  ASSUME NEW s0, NEW s, NEW R, NEW E, NEW F, Good(s0), Later(s0, s), Solving(R, s0, E, s),
         \A m : Congruent(m, s.terms, Grown(R, s0, s)) /\ Respects(m, s0.terms, R) /\ Solves(m, E) => Solves(m, F),
         \A m : Solution(m, s0.terms) /\ Respects(m, s0.terms, R) /\ Solves(m, F) => Solves(m, E)
  PROVE  Solving(R, s0, F, s)
<1>1. Implies(R, s0, F, s)
  <2> SUFFICES ASSUME NEW m, Congruent(m, s.terms, Grown(R, s0, s)), Respects(m, s.terms, Grown(R, s0, s))
               PROVE  Respects(m, s0.terms, R) /\ Solves(m, F)
    BY DEF Implies
  <2>1. Respects(m, s0.terms, R) /\ Solves(m, E)
    BY DEF Solving, Implies
  <2>2. QED
    BY <2>1
<1>2. Follows(R, s0, F, s)
  <2> SUFFICES ASSUME NEW m, Solution(m, s.terms), Respects(m, s0.terms, R), Solves(m, F)
               PROVE  Respects(m, s.terms, Grown(R, s0, s))
    BY DEF Follows
  <2>1. Solution(m, s0.terms)
    BY SolutionEarlier
  <2>2. Solves(m, E)
    BY <2>1
  <2>3. QED
    BY <2>2 DEF Solving, Follows
<1>3. QED
  BY <1>1, <1>2 DEF Solving

LEMMA RefutingEquivalent ==
  ASSUME NEW s0, NEW s, NEW R, NEW E, NEW F, Good(s0), Later(s0, s), Refuting(R, s0, E, s),
         \A m : Solution(m, s0.terms) /\ Respects(m, s0.terms, R) /\ Solves(m, F) => Solves(m, E)
  PROVE  Refuting(R, s0, F, s)
BY SolutionEarlier DEF Refuting

-----------------------------------------------------------------------------
(* What variables stand for *)

\* Where the links of a term lead.
LEMMA LinkedTo ==
  ASSUME NEW store, Sound(store), NEW t \in DOMAIN store
  PROVE  /\ store[t].parent # Nothing => Links(store, t) = {store[t].parent} /\ store[t].name = NoName
         /\ store[t].parent = Nothing /\ store[t].binding # Nothing =>
              Links(store, t) = {store[t].binding} /\ store[t].name = NoName
         /\ store[t].name = NoName /\ store[t].parent = Nothing /\ store[t].binding = Nothing => Links(store, t) = {}
         /\ store[t].name # NoName =>
              Links(store, t) = {store[t].parameters[i] : i \in DOMAIN store[t].parameters}
<1>1. store[t].name # NoName => store[t].parent = Nothing /\ store[t].binding = Nothing
  BY DEF Sound, Shaped
<1>2. store[t].name = NoName => DOMAIN store[t].parameters = {}
  <2>1. DOMAIN <<>> = {}
    OBVIOUS
  <2>2. QED
    BY <2>1 DEF Sound, Shaped
<1>3. QED
  BY <1>1, <1>2 DEF Links

\* A variable stands for the same as its representative.
LEMMA RepresentativeSame ==
  ASSUME NEW store, Sound(store), NEW R, Closed(store, R), NEW m, Respects(m, store, R), NEW t \in R
  PROVE  m[Representative(store)[t]] = m[t] /\ Representative(store)[t] \in R
<1> DEFINE rep == Representative(store)
<1>1. PICK bound \in Nat : \A x \in DOMAIN store : store[x].rank <= bound
  BY DEF Sound, Balanced
<1>2. \A x \in DOMAIN store : store[x].rank \in Nat
  BY TermTypes DEF Sound
<1>3. R \subseteq DOMAIN store /\ \A x \in R : Links(store, x) \subseteq R
  BY DEF Closed
<1>4. \A x \in DOMAIN store : /\ store[x].parent = Nothing => rep[x] = x
                              /\ store[x].parent # Nothing => rep[x] = rep[store[x].parent]
  BY Representatives
<1>5. ASSUME NEW x \in R, store[x].parent # Nothing
      PROVE  /\ store[x].parent \in R /\ m[store[x].parent] = m[x]
             /\ store[store[x].parent].rank > store[x].rank
  <2>1. Links(store, x) = {store[x].parent} /\ store[x].name = NoName
    BY <1>3, <1>5, LinkedTo
  <2>2. store[x].parent \in R /\ m[store[x].parent] = m[x]
    BY <1>3, <2>1 DEF Respects
  <2>3. QED
    BY <1>3, <1>5, <2>2 DEF Sound, Balanced
<1> HIDE DEF rep
<1> DEFINE T == {k \in 0..bound : \A x \in R : store[x].rank >= bound - k => m[rep[x]] = m[x]}
<1>6. 0 \in T
  <2> SUFFICES ASSUME NEW x \in R, store[x].rank >= bound - 0 PROVE m[rep[x]] = m[x]
    BY <1>1
  <2>1. x \in DOMAIN store
    BY <1>3
  <2>2. store[x].rank >= bound
    BY <1>1, <1>2, <2>1
  <2>3. store[x].parent = Nothing
    <3> SUFFICES ASSUME store[x].parent # Nothing PROVE FALSE
      OBVIOUS
    <3>1. store[x].parent \in DOMAIN store /\ store[store[x].parent].rank > store[x].rank
      BY <1>3, <1>5
    <3>2. QED
      BY <1>1, <1>2, <2>1, <2>2, <3>1
  <2>4. QED
    BY <1>4, <2>1, <2>3
<1>7. ASSUME NEW k \in 1..bound, k - 1 \in T PROVE k \in T
  <2> SUFFICES ASSUME NEW x \in R, store[x].rank >= bound - k PROVE m[rep[x]] = m[x]
    OBVIOUS
  <2>1. CASE store[x].parent = Nothing
    BY <1>3, <1>4, <2>1
  <2>2. CASE store[x].parent # Nothing
    <3>1. store[store[x].parent].rank >= bound - (k - 1)
      BY <1>1, <1>2, <1>3, <1>5, <2>2
    <3>2. m[rep[store[x].parent]] = m[store[x].parent]
      BY <1>5, <1>7, <2>2, <3>1
    <3>3. QED
      BY <1>3, <1>4, <1>5, <2>2, <3>2
  <2>3. QED
    BY <2>1, <2>2
<1>8. bound \in T
  <2>1. 0..bound \subseteq T
    <3> HIDE DEF T
    <3> QED BY <1>1, <1>6, <1>7, Induction
  <2> HIDE DEF T
  <2>2. QED
    BY <1>1, <2>1
<1>9. m[rep[t]] = m[t]
  <2>1. store[t].rank >= bound - bound
    BY <1>1, <1>2, <1>3
  <2>2. QED
    BY <1>8, <2>1
<1>10. rep[t] \in R
  BY <1>3, Representatives DEF IsRepresentative, rep
<1>11. QED
  BY <1>9, <1>10 DEF rep

-----------------------------------------------------------------------------
(* Where paths end *)

\* Paths in W end, or get to U.
EndsAt(store, W, U) ==
  \E h :
    /\ \E bound \in Nat : h \in [W -> 0..bound]
    /\ \A t \in W : \A y \in Links(store, t) : y \in U \/ (y \in W /\ h[y] < h[t])

\* They end if those in U end.
LEMMA EndsOver ==
  ASSUME NEW store, NEW K, NEW W, W \cap K = {}, Ends(store, K), \A t \in K : Links(store, t) \subseteq K,
         EndsAt(store, W, K)
  PROVE  Ends(store, K \cup W)
<1>1. PICK e : Descends(e, store, K)
  BY DEF Ends
<1>2. PICK b \in Nat : e \in [K -> 0..b]
  BY <1>1 DEF Descends
<1>3. \A t \in K : e[t] \in 0..b /\ \A y \in Links(store, t) : y \in K /\ e[y] < e[t]
  BY <1>1, <1>2 DEF Descends
<1>4. PICK h : /\ \E bound \in Nat : h \in [W -> 0..bound]
               /\ \A t \in W : \A y \in Links(store, t) : y \in K \/ (y \in W /\ h[y] < h[t])
  BY DEF EndsAt
<1>5. PICK bound \in Nat : h \in [W -> 0..bound]
  BY <1>4
<1> DEFINE S == K \cup W
           f == [t \in S |-> IF t \in K THEN e[t] ELSE b + 1 + h[t]]
<1>6. f \in [S -> 0..(b + 1 + bound)]
  <2> SUFFICES ASSUME NEW t \in S PROVE f[t] \in 0..(b + 1 + bound)
    BY Zenon
  <2>1. t \notin K => h[t] \in 0..bound
    BY <1>5
  <2>2. QED
    BY <1>3, <2>1
<1>7. ASSUME NEW t \in S, NEW y \in Links(store, t) PROVE y \in S /\ f[y] < f[t]
  <2>1. CASE t \in K
    BY <1>3, <2>1
  <2>2. CASE t \notin K
    <3>1. t \in W /\ h[t] \in 0..bound /\ f[t] = b + 1 + h[t]
      BY <1>5, <2>2
    <3>2. CASE y \in K
      BY <1>3, <3>1, <3>2
    <3>3. CASE y \notin K
      <4>1. y \in W /\ h[y] < h[t] /\ h[y] \in 0..bound
        BY <1>4, <1>5, <3>1, <3>3
      <4>2. f[y] = b + 1 + h[y]
        BY <3>3, <4>1
      <4>3. QED
        BY <3>1, <4>1, <4>2
    <3>4. QED
      BY <3>2, <3>3
  <2>3. QED
    BY <2>1, <2>2
<1> HIDE DEF f
<1>8. b + 1 + bound \in Nat
  OBVIOUS
<1>9. Descends(f, store, S)
  BY <1>6, <1>7, <1>8 DEF Descends
<1>10. QED
  BY <1>9 DEF Ends

\* What was left as it was ends as it did.
LEMMA EndsStill ==
  ASSUME NEW old, NEW R, Ends(old, R), NEW new, NEW W, NEW U, W \subseteq R, R \subseteq W \cup U,
         \A t \in W : Links(new, t) = Links(old, t) /\ Links(old, t) \subseteq R
  PROVE  EndsAt(new, W, U)
<1>1. PICK e : Descends(e, old, R)
  BY DEF Ends
<1>2. PICK bound \in Nat : e \in [R -> 0..bound]
  BY <1>1 DEF Descends
<1> DEFINE h == [t \in W |-> e[t]]
<1>3. h \in [W -> 0..bound]
  BY <1>2
<1>4. ASSUME NEW t \in W, NEW y \in Links(new, t) PROVE y \in U \/ (y \in W /\ h[y] < h[t])
  <2>1. y \in R /\ e[y] < e[t]
    BY <1>1 DEF Descends
  <2>2. QED
    BY <2>1
<1> HIDE DEF h
<1>5. QED
  BY <1>3, <1>4 DEF EndsAt

\* With what is known of K, what V is linked to says the equations F.
Extends(R, s, E, K, u, V, F, w) ==
  /\ \A m : Congruent(m, u.terms, K) /\ Respects(m, u.terms, K) /\ Solves(m, E) /\ Respects(m, w.terms, V) =>
              Respects(m, s.terms, V) /\ Solves(m, F)
  /\ \A m : Respects(m, s.terms, R) /\ Solves(m, F) => Solves(m, E)
  /\ \A m : Congruent(m, u.terms, K) /\ Respects(m, u.terms, K) /\ Respects(m, s.terms, R) /\ Solves(m, F) =>
              Respects(m, w.terms, V)

\* Variables V outside of D are linked to what unifying in D led to.
LEMMA Attached ==
  ASSUME NEW s, NEW R, Apt(R, s), NEW D, D \subseteq R, Closed(s.terms, D), NEW V, V \subseteq R, V \cap D = {},
         NEW u, Went(D, s, u), NEW E, Solving(D, s, E, u), NEW K, K = Grown(D, s, u),
         NEW w, Went(R, s, w), Len(w.terms) = Len(u.terms),
         \A t \in DOMAIN u.terms \ V : w.terms[t] = u.terms[t],
         EndsAt(w.terms, V, K), NEW F, Extends(R, s, E, K, u, V, F, w)
  PROVE  Solving(R, s, F, w)
<1> DEFINE S == Grown(R, s, w)
           W == R \ (D \cup V)
<1>1. Good(s) /\ Closed(s.terms, R) /\ R \subseteq DOMAIN s.terms
  BY DEF Apt, Closed
<1>2. Good(u) /\ Later(s, u) /\ Within(D, s, u) /\ Good(w) /\ Later(s, w)
  BY DEF Went, Reached, Later
<1>3. DOMAIN w.terms = DOMAIN u.terms
  BY <1>2, GoodTypes
<1>4. S = K \cup V \cup W
  BY DEF Grown
<1>5. \A t \in (Len(s.terms) + 1)..Len(u.terms) : t \notin DOMAIN s.terms
  BY <1>1, <1>2, LaterGrows
<1>6. V \cap K = {} /\ W \cap K = {} /\ W \cap V = {}
  BY <1>1, <1>5 DEF Grown
<1>7. K \subseteq DOMAIN u.terms /\ \A t \in K : Links(u.terms, t) \subseteq K
  BY <1>2 DEF Within, Closed
<1>8. \A t \in K : w.terms[t] = u.terms[t]
  BY <1>6, <1>7
<1>9. \A t \in W : w.terms[t] = s.terms[t]
  <2> SUFFICES ASSUME NEW t \in W PROVE w.terms[t] = s.terms[t]
    OBVIOUS
  <2>1. u.terms[t] = s.terms[t]
    BY <1>1, <1>2 DEF Within
  <2>2. t \in DOMAIN u.terms
    BY <1>1, <1>2, LaterGrows
  <2>3. QED
    BY <2>1, <2>2
<1>10. \A t \in K : Links(w.terms, t) = Links(u.terms, t)
  BY <1>8, Zenon DEF Links
<1>11. \A t \in W : Links(w.terms, t) = Links(s.terms, t) /\ Links(s.terms, t) \subseteq R
  <2>1. \A t \in W : Links(w.terms, t) = Links(s.terms, t)
    BY <1>9, Zenon DEF Links
  <2>2. \A t \in W : Links(s.terms, t) \subseteq R
    BY <1>1 DEF Closed
  <2>3. QED
    BY <2>1, <2>2
<1>12. D \subseteq K /\ R \subseteq S /\ R = D \cup V \cup W
  BY DEF Grown
<1> HIDE DEF S, W
<1>13. Ends(w.terms, S)
  <2>1. PICK f : Descends(f, u.terms, K)
    BY DEF Solving, Ends
  <2>2. Descends(f, w.terms, K)
    BY <1>10, <2>1 DEF Descends
  <2>3. Ends(w.terms, K) /\ \A t \in K : Links(w.terms, t) \subseteq K
    BY <1>7, <1>10, <2>2 DEF Ends
  <2>4. Ends(w.terms, K \cup V)
    BY <1>6, <2>3, EndsOver
  <2>5. \A t \in K \cup V : Links(w.terms, t) \subseteq K \cup V
    BY <2>3 DEF EndsAt
  <2>6. EndsAt(w.terms, W, K \cup V)
    <3>1. W \subseteq R /\ R \subseteq W \cup (K \cup V) /\ Ends(s.terms, R)
      BY <1>12 DEF Apt
    <3>2. QED
      BY <1>11, <3>1, EndsStill
  <2>7. W \cap (K \cup V) = {}
    BY <1>6
  <2>8. QED
    BY <1>4, <2>4, <2>5, <2>6, <2>7, EndsOver
<1>14. Exact(w.terms, S)
  <2> SUFFICES ASSUME NEW t \in S PROVE ~Gradual(w.terms[t])
    BY DEF Exact
  <2>1. CASE t \in K
    BY <1>8, <2>1 DEF Solving, Exact
  <2>2. CASE t \in R
    <3>1. w.terms[t].name = s.terms[t].name /\ w.terms[t].parameters = s.terms[t].parameters
      BY <1>1, <1>2, <2>2 DEF Later
    <3>2. ~Gradual(s.terms[t])
      BY <2>2 DEF Apt, Exact
    <3>3. QED
      BY <3>1, <3>2 DEF Gradual
  <2>3. QED
    BY <1>4, <1>12, <2>1, <2>2
<1>15. Keeps(u.terms, w.terms)
  <2> SUFFICES ASSUME NEW t \in DOMAIN u.terms
               PROVE  w.terms[t].name = u.terms[t].name /\ w.terms[t].parameters = u.terms[t].parameters
    BY <1>3 DEF Keeps
  <2>1. CASE t \in V
    BY <1>1, <1>2, <2>1 DEF Later
  <2>2. CASE t \notin V
    BY <2>2
  <2>3. QED
    BY <2>1, <2>2
<1>16. ASSUME NEW m, Congruent(m, w.terms, S) PROVE Congruent(m, u.terms, K)
  <2>1. K \subseteq S
    BY <1>4
  <2>2. QED
    BY <1>7, <1>16, <1>15, <2>1, CongruentInLess
<1>17. Implies(R, s, F, w)
  <2> SUFFICES ASSUME NEW m, Congruent(m, w.terms, S), Respects(m, w.terms, S)
               PROVE  Respects(m, s.terms, R) /\ Solves(m, F)
    BY DEF Implies, S
  <2>1. Congruent(m, u.terms, K)
    BY <1>16
  <2>2. Respects(m, u.terms, K)
    BY <1>4, <1>8, <1>10 DEF Respects
  <2>3. Respects(m, s.terms, D) /\ Solves(m, E)
    BY <2>1, <2>2 DEF Solving, Implies
  <2>4. Respects(m, w.terms, V)
    BY <1>4 DEF Respects
  <2>5. Respects(m, s.terms, V) /\ Solves(m, F)
    BY <2>1, <2>2, <2>3, <2>4 DEF Extends
  <2>6. Respects(m, s.terms, W)
    BY <1>4, <1>9, <1>11 DEF Respects
  <2>7. QED
    BY <1>12, <2>3, <2>5, <2>6 DEF Respects
<1>18. Follows(R, s, F, w)
  <2> SUFFICES ASSUME NEW m, Solution(m, w.terms), Respects(m, s.terms, R), Solves(m, F)
               PROVE  Respects(m, w.terms, S)
    BY DEF Follows, S
  <2>1. Solves(m, E) /\ Respects(m, s.terms, D)
    <3>1. Solves(m, E)
      BY DEF Extends
    <3>2. QED
      BY <1>12, <3>1 DEF Respects
  <2>2. Solution(m, u.terms)
    BY <1>15, SolutionOfLess
  <2>3. Respects(m, u.terms, K)
    BY <2>1, <2>2 DEF Solving, Follows
  <2>4. Congruent(m, u.terms, K)
    BY <1>7, <2>2, SolutionCongruent
  <2>5. Respects(m, w.terms, V)
    BY <2>3, <2>4 DEF Extends
  <2>6. Respects(m, w.terms, K)
    BY <1>8, <1>10, <2>3 DEF Respects
  <2>7. Respects(m, w.terms, W)
    BY <1>9, <1>11, <1>12 DEF Respects
  <2>8. QED
    BY <1>4, <2>5, <2>6, <2>7 DEF Respects
<1>19. QED
  BY <1>13, <1>14, <1>17, <1>18 DEF Solving, S

\* So they have no solution if there is none in D.
LEMMA RefutedInMore ==
  ASSUME NEW s, NEW R, NEW D, D \subseteq R, NEW u, NEW E, Refuting(D, s, E, u), NEW F,
         \A m : Respects(m, s.terms, R) /\ Solves(m, F) => Solves(m, E)
  PROVE  Refuting(R, s, F, u)
BY DEF Refuting, Respects

-----------------------------------------------------------------------------
(* A store in which every path ends has a model *)

\* Terms are higher than what they are made of.
Leveled(m, store, R) ==
  \A t \in R : m[t] \in Nat /\ \A i \in DOMAIN store[t].parameters : m[store[t].parameters[i]] < m[t]

Higher(m, ts) == {k \in Nat : \A i \in DOMAIN ts : m[ts[i]] < k}
Lowest(T) == CHOOSE k \in T : \A j \in T : k <= j

\* As high as the term it is linked to, or as low as possible.
Height(m, store, t) ==
  IF store[t].name # NoName THEN Lowest(Higher(m, store[t].parameters))
  ELSE IF Links(store, t) = {} THEN 0
  ELSE m[CHOOSE y \in Links(store, t) : TRUE]

\* A set of numbers has a lowest one.
LEMMA LowestElement ==
  ASSUME NEW T, T \subseteq Nat, NEW N \in T
  PROVE  Lowest(T) \in T /\ Lowest(T) <= N
<1> DEFINE low == {k \in T : k <= N}
<1>1. N \in Nat /\ low \subseteq 0..N /\ N \in low
  <2>1. \A k \in T : k \in Nat
    OBVIOUS
  <2>2. N \in Nat
    BY <2>1
  <2>3. low \subseteq 0..N
    <3> SUFFICES ASSUME NEW k \in T, k <= N PROVE k \in 0..N
      BY Zenon
    <3>1. k \in Nat
      BY <2>1
    <3>2. QED
      BY <2>2, <3>1
  <2>4. N \in low
    BY <2>2
  <2>5. QED
    BY <2>2, <2>3, <2>4
<1>2. PICK k \in low : \A j \in low : k <= j
  <2> HIDE DEF low
  <2> QED BY <1>1, LeastElement, Zenon
<1>3. k \in T /\ \A j \in T : k <= j
  BY <1>1, <1>2
<1>4. Lowest(T) \in T /\ \A j \in T : Lowest(T) <= j
  BY <1>3, Zenon DEF Lowest
<1>5. QED
  BY <1>4

\* Terms in which every path ends stand for numbers: where they are in what they
\* are made of, with variables as high as what they are linked to.
LEMMA HeightModel ==
  ASSUME NEW store, Sound(store), NEW R, Closed(store, R), Ends(store, R)
  PROVE  \E m : Congruent(m, store, R) /\ Respects(m, store, R) /\ Leveled(m, store, R)
<1>1. PICK h : Descends(h, store, R)
  BY DEF Ends
<1>2. PICK bound \in Nat : h \in [R -> 0..bound]
  BY <1>1 DEF Descends
<1>3. \A t \in R : h[t] \in 0..bound /\ t \in DOMAIN store /\ \A y \in Links(store, t) : y \in R /\ h[y] < h[t]
  BY <1>1, <1>2 DEF Descends, Closed
<1>4. \A t \in R : store[t].name # NoName =>
        Links(store, t) = {store[t].parameters[i] : i \in DOMAIN store[t].parameters}
  BY <1>3, LinkedTo
<1>5. ASSUME NEW f, NEW g, NEW t \in R, \A y \in Links(store, t) : f[y] = g[y]
      PROVE  Height(f, store, t) = Height(g, store, t)
  <2>1. CASE store[t].name # NoName
    <3>1. \A i \in DOMAIN store[t].parameters : f[store[t].parameters[i]] = g[store[t].parameters[i]]
      BY <1>4, <1>5, <2>1
    <3>2. Higher(f, store[t].parameters) = Higher(g, store[t].parameters)
      BY <3>1 DEF Higher
    <3>3. QED
      BY <2>1, <3>2 DEF Height
  <2>2. CASE store[t].name = NoName
    <3>1. Links(store, t) # {} => (CHOOSE y \in Links(store, t) : TRUE) \in Links(store, t)
      OBVIOUS
    <3>2. QED
      BY <1>5, <2>2, <3>1 DEF Height
  <2>3. QED
    BY <2>1, <2>2
<1> DEFINE D(k) == {t \in R : h[t] <= k}
           T == {k \in 0..bound : \E g : g = [t \in D(k) |-> Height(g, store, t)]}
<1>6. 0 \in T
  <2> DEFINE g == [t \in D(0) |-> Height(store, store, t)]
  <2>1. ASSUME NEW t \in D(0) PROVE g[t] = Height(g, store, t)
    <3>1. \A y \in Links(store, t) : FALSE
      BY <1>3
    <3>2. QED
      BY <1>5, <3>1
  <2>2. g = [t \in D(0) |-> g[t]]
    OBVIOUS
  <2> HIDE DEF g, D
  <2>3. g = [t \in D(0) |-> Height(g, store, t)]
    BY <2>1, <2>2
  <2>4. QED
    BY <1>2, <2>3
<1>7. ASSUME NEW k \in 1..bound, k - 1 \in T PROVE k \in T
  <2>1. PICK g : g = [t \in D(k - 1) |-> Height(g, store, t)]
    BY <1>7, Zenon
  <2> DEFINE f == [t \in D(k) |-> IF t \in D(k - 1) THEN g[t] ELSE Height(g, store, t)]
  <2>2. \A t \in D(k - 1) : t \in D(k)
    BY <1>3
  <2>3. ASSUME NEW t \in D(k) PROVE f[t] = Height(f, store, t)
    <3>1. f[t] = Height(g, store, t)
      <4> HIDE DEF D
      <4> QED BY <2>1
    <3>2. \A y \in Links(store, t) : y \in D(k - 1)
      BY <1>3
    <3>3. \A y \in Links(store, t) : g[y] = f[y]
      <4> HIDE DEF D
      <4> QED BY <2>2, <3>2
    <3>4. Height(g, store, t) = Height(f, store, t)
      BY <1>5, <3>3
    <3>5. QED
      BY <3>1, <3>4
  <2>4. f = [t \in D(k) |-> f[t]]
    OBVIOUS
  <2> HIDE DEF f, D
  <2>5. f = [t \in D(k) |-> Height(f, store, t)]
    BY <2>3, <2>4
  <2>6. QED
    BY <2>5
<1>8. bound \in T
  <2>1. 0..bound \subseteq T
    <3> HIDE DEF T
    <3> QED BY <1>2, <1>6, <1>7, Induction
  <2> HIDE DEF T
  <2>2. QED
    BY <1>2, <2>1
<1>9. D(bound) = R
  BY <1>3
<1>10. PICK m : m = [t \in R |-> Height(m, store, t)]
  <2> HIDE DEF D
  <2> QED BY <1>8, <1>9
<1>11. \A t \in R : m[t] = Height(m, store, t)
  BY <1>10
<1> DEFINE U == {k \in 0..bound : \A t \in R : h[t] <= k =>
                   /\ m[t] \in 0..h[t]
                   /\ store[t].name # NoName => m[t] \in Higher(m, store[t].parameters)}
<1>12. ASSUME NEW t \in R, \A y \in Links(store, t) : m[y] \in 0..h[y]
       PROVE  m[t] \in 0..h[t] /\ (store[t].name # NoName => m[t] \in Higher(m, store[t].parameters))
  <2>1. CASE store[t].name # NoName
    <3> DEFINE H == Higher(m, store[t].parameters)
    <3>1. h[t] \in H
      <4>1. ASSUME NEW i \in DOMAIN store[t].parameters PROVE m[store[t].parameters[i]] < h[t]
        <5>1. store[t].parameters[i] \in Links(store, t)
          BY <1>4, <2>1
        <5> DEFINE y == store[t].parameters[i]
        <5>2. y \in R /\ m[y] \in 0..h[y] /\ h[y] < h[t] /\ h[y] \in 0..bound /\ h[t] \in 0..bound
          BY <1>3, <1>12, <5>1
        <5> HIDE DEF y
        <5>3. m[y] < h[t]
          BY <5>2
        <5>4. QED
          BY <5>3 DEF y
      <4>2. h[t] \in Nat
        BY <1>3
      <4>3. QED
        BY <4>1, <4>2 DEF Higher
    <3>2. H \subseteq Nat
      BY DEF Higher
    <3> HIDE DEF H
    <3>3. Lowest(H) \in H /\ Lowest(H) <= h[t]
      <4> DEFINE n == h[t]
      <4>1. n \in H
        BY <3>1
      <4> HIDE DEF n
      <4>2. Lowest(H) \in H /\ Lowest(H) <= n
        BY <3>2, <4>1, LowestElement, Zenon
      <4>3. QED
        BY <4>2 DEF n
    <3>4. m[t] = Lowest(H)
      BY <1>11, <2>1 DEF Height, H
    <3> DEFINE k == Lowest(H)
               n == h[t]
    <3>5. n \in Nat
      BY <1>3
    <3>6. m[t] \in 0..h[t] /\ m[t] \in H
      <4>1. m[t] = k /\ k \in H /\ k <= n
        BY <3>3, <3>4
      <4> HIDE DEF k, n
      <4>2. k \in Nat
        BY <3>2, <4>1
      <4>3. k \in 0..n
        BY <3>5, <4>1, <4>2
      <4>4. QED
        BY <4>1, <4>3 DEF n
    <3>7. QED
      BY <3>6 DEF H
  <2>2. CASE store[t].name = NoName
    <3>1. CASE Links(store, t) = {}
      BY <1>3, <1>11, <2>2, <3>1 DEF Height
    <3>2. CASE Links(store, t) # {}
      <4> DEFINE y == CHOOSE y \in Links(store, t) : TRUE
      <4>1. y \in Links(store, t)
        BY <3>2
      <4>2. m[t] = m[y]
        BY <1>11, <2>2, <3>2 DEF Height
      <4> HIDE DEF y
      <4>3. m[y] \in 0..h[y] /\ h[y] < h[t] /\ h[y] \in 0..bound /\ h[t] \in 0..bound
        BY <1>3, <1>12, <4>1
      <4>4. QED
        BY <2>2, <4>2, <4>3
    <3>3. QED
      BY <3>1, <3>2
  <2>3. QED
    BY <2>1, <2>2
<1>13. 0 \in U
  <2> SUFFICES ASSUME NEW t \in R, h[t] <= 0
               PROVE  m[t] \in 0..h[t] /\ (store[t].name # NoName => m[t] \in Higher(m, store[t].parameters))
    BY <1>2
  <2>1. \A y \in Links(store, t) : FALSE
    BY <1>3
  <2>2. QED
    BY <1>12, <2>1
<1>14. ASSUME NEW k \in 1..bound, k - 1 \in U PROVE k \in U
  <2> SUFFICES ASSUME NEW t \in R, h[t] <= k
               PROVE  m[t] \in 0..h[t] /\ (store[t].name # NoName => m[t] \in Higher(m, store[t].parameters))
    OBVIOUS
  <2>1. \A y \in Links(store, t) : y \in R /\ h[y] <= k - 1
    BY <1>3
  <2>2. \A y \in Links(store, t) : m[y] \in 0..h[y]
    BY <1>14, <2>1
  <2>3. QED
    BY <1>12, <2>2
<1>15. \A t \in R : m[t] \in Nat /\ (store[t].name # NoName => m[t] \in Higher(m, store[t].parameters))
  <2>1. 0..bound \subseteq U
    <3> HIDE DEF U
    <3> QED BY <1>2, <1>13, <1>14, Induction
  <2>2. bound \in U
    <3> HIDE DEF U
    <3> QED BY <1>2, <2>1
  <2>3. QED
    BY <1>3, <2>2
<1> HIDE DEF D, T, U
<1>16. Leveled(m, store, R)
  <2> SUFFICES ASSUME NEW t \in R
               PROVE  m[t] \in Nat /\ \A i \in DOMAIN store[t].parameters : m[store[t].parameters[i]] < m[t]
    BY DEF Leveled
  <2>1. CASE store[t].name # NoName
    BY <1>15, <2>1 DEF Higher
  <2>2. CASE store[t].name = NoName
    <3>1. store[t].parameters = <<>>
      BY <1>3, <2>2 DEF Sound, Shaped
    <3>2. QED
      BY <1>15, <3>1
  <2>3. QED
    BY <2>1, <2>2
<1>17. Congruent(m, store, R)
  <2> SUFFICES ASSUME NEW t \in R, NEW u \in R, store[t].name # NoName, Alike(m, store, t, u) PROVE m[t] = m[u]
    BY DEF Congruent
  <2>1. store[u].name # NoName
    BY DEF Alike
  <2>2. DOMAIN store[t].parameters = DOMAIN store[u].parameters
    <3>1. store[t].parameters \in Seq(Nat) /\ store[u].parameters \in Seq(Nat)
      BY <1>3, TermTypes DEF Sound
    <3>2. QED
      BY <3>1 DEF Alike
  <2>3. Higher(m, store[t].parameters) = Higher(m, store[u].parameters)
    BY <2>2 DEF Higher, Alike
  <2>4. QED
    BY <1>11, <2>1, <2>3 DEF Height
<1>18. Respects(m, store, R)
  <2> SUFFICES ASSUME NEW v \in R, store[v].name = NoName, NEW y \in Links(store, v) PROVE m[y] = m[v]
    BY DEF Respects
  <2>1. Links(store, v) = {y}
    BY <1>3, LinkedTo
  <2>2. m[v] = m[CHOOSE z \in Links(store, v) : TRUE]
    BY <1>11 DEF Height
  <2>3. QED
    BY <2>1, <2>2
<1>19. QED
  BY <1>16, <1>17, <1>18

-----------------------------------------------------------------------------
(* occurs *)

\* However high terms are, t is as high as v, and higher if it is named.
Inner(store, v, t) ==
  \A h, R : Closed(store, R) /\ t \in R /\ Respects(h, store, R) /\ Leveled(h, store, R) =>
    v \in R /\ h[v] <= h[t] /\ (store[t].name # NoName => h[v] < h[t])

Traced(s0, v, S, r) ==
  /\ r.error # "TypeMismatch"
  /\ r.error = "none" /\ r.is = TRUE => \E t \in S : Inner(s0.terms, v, t)

Traces(occurs) ==
  \A s, v, t :
    Good(s) /\ v \in DOMAIN s.terms /\ s.terms[v].name = NoName /\ s.terms[v].parent = Nothing /\ t \in DOMAIN s.terms =>
      Traced(s, v, {t}, occurs[Search(s, v, t)])

\* What is in a term that the representative of t leads to is in t.
LEMMA InnerTerm ==
  ASSUME NEW store, Sound(store), NEW v, NEW t \in DOMAIN store, NEW r, r = Representative(store)[t],
         NEW x \in Links(store, r), Inner(store, v, x)
  PROVE  Inner(store, v, t)
<1> SUFFICES ASSUME NEW h, NEW R, Closed(store, R), t \in R, Respects(h, store, R), Leveled(h, store, R)
             PROVE  v \in R /\ h[v] <= h[t] /\ (store[t].name # NoName => h[v] < h[t])
  BY DEF Inner
<1>1. h[r] = h[t] /\ r \in R
  BY RepresentativeSame
<1>2. r \in DOMAIN store /\ store[r].parent = Nothing /\ (store[t].name # NoName => r = t)
  BY Representatives DEF IsRepresentative
<1>3. x \in R
  BY <1>1 DEF Closed
<1>4. v \in R /\ h[v] <= h[x] /\ (store[x].name # NoName => h[v] < h[x]) /\ h[v] \in Nat /\ h[x] \in Nat /\ h[r] \in Nat
  BY <1>1, <1>3 DEF Inner, Leveled
<1>5. CASE store[r].name # NoName
  <2>1. PICK i \in DOMAIN store[r].parameters : x = store[r].parameters[i]
    BY <1>2, <1>5, LinkedTo
  <2>2. h[x] < h[r]
    BY <1>1, <2>1 DEF Leveled
  <2>3. QED
    BY <1>1, <1>4, <2>2
<1>6. CASE store[r].name = NoName
  <2>1. h[x] = h[r]
    BY <1>1, <1>6 DEF Respects
  <2>2. store[t].name = NoName
    BY <1>2, <1>6
  <2>3. QED
    BY <1>1, <1>4, <2>1, <2>2
<1>7. QED
  BY <1>5, <1>6

\* A search of several terms that finds the variable finds it in one of them.
LEMMA TracesInAny ==
  ASSUME NEW occurs, Finds(occurs), Traces(occurs), NEW s, Good(s),
         NEW v \in DOMAIN s.terms, s.terms[v].name = NoName, s.terms[v].parent = Nothing,
         NEW inputs \in Seq(DOMAIN s.terms)
  PROVE  Traced(s, v, {inputs[i] : i \in DOMAIN inputs}, OccursInAny(occurs, s, v, inputs))
<1> DEFINE size == Len(inputs)
           S == {inputs[i] : i \in DOMAIN inputs}
<1>1. PICK f : OccursUpto(f, occurs, s, v, inputs) /\ OccursInAny(occurs, s, v, inputs) = f[size]
  <2>1. Len(inputs) \in Nat
    OBVIOUS
  <2>2. QED
    BY <2>1, OccursInAnyDefinition
<1> DEFINE T == {n \in 0..size : /\ Like(s, f[n].s) /\ f[n].s.variables = s.variables
                                 /\ f[n].error = "none" => f[n].is \in BOOLEAN
                                 /\ Traced(s, v, S, f[n])}
<1>2. 0 \in T
  <2>1. Like(s, s)
    BY GoodTypes DEF Like
  <2>2. f[0].s = s /\ f[0].error = "none" /\ f[0].is = FALSE
    BY <1>1 DEF Returns, OccursUpto
  <2> HIDE DEF S
  <2>3. Traced(s, v, S, f[0])
    BY <2>2 DEF Traced
  <2>4. f[0].is \in BOOLEAN
    BY <2>2, Zenon
  <2>5. Like(s, f[0].s) /\ f[0].s.variables = s.variables
    BY <2>1, <2>2
  <2>6. 0 \in 0..size
    OBVIOUS
  <2>7. QED
    BY <2>3, <2>4, <2>5, <2>6
<1>3. ASSUME NEW n \in 1..size, n - 1 \in T PROVE n \in T
  <2> DEFINE q == f[n - 1]
             a == occurs[Search(q.s, v, inputs[n])]
  <2>1. /\ Like(s, q.s) /\ q.s.variables = s.variables /\ (q.error = "none" => q.is \in BOOLEAN)
        /\ Traced(s, v, S, q)
    BY <1>3
  <2>2. f[n] = IF q.error = "none" THEN (IF q.is THEN Returns(q.s, TRUE) ELSE a) ELSE q
    BY <1>1, Zenon DEF OccursUpto, OccursAfter, Then
  <2>3. inputs[n] \in S /\ inputs[n] \in DOMAIN s.terms
    OBVIOUS
  <2> HIDE DEF q, S
  <2> DEFINE e == f[n]
  <2>4. /\ Like(s, e.s) /\ e.s.variables = s.variables
        /\ e.error = "none" => e.is \in BOOLEAN
        /\ Traced(s, v, S, e)
    <3>1. CASE q.error # "none"
      BY <2>1, <2>2, <3>1
    <3>2. CASE q.error = "none" /\ q.is = TRUE
      <4>1. e = Returns(q.s, TRUE)
        BY <2>2, <3>2, Zenon
      <4>2. e.s = q.s /\ e.error = "none" /\ e.is = TRUE
        BY <4>1 DEF Returns
      <4>3. QED
        BY <2>1, <3>2, <4>2, Zenon DEF Traced
    <3>3. CASE q.error = "none" /\ q.is = FALSE
      <4>1. e = a
        BY <2>2, <3>3, Zenon
      <4>2. Good(q.s) /\ q.s.terms = s.terms
        BY <2>1, LikeGood DEF Like
      <4>3. Searched(q.s, v, {inputs[n]}, a) /\ Traced(q.s, v, {inputs[n]}, a)
        BY <2>3, <4>2, Zenon DEF Finds, Traces
      <4> HIDE DEF a, e
      <4>4. Like(s, e.s) /\ e.s.variables = s.variables /\ (e.error = "none" => e.is \in BOOLEAN)
        BY <2>1, <4>1, <4>3, SearchedAfter, Zenon DEF Searched
      <4>5. Traced(s, v, S, e)
        BY <2>3, <4>1, <4>2, <4>3 DEF Traced
      <4>6. QED
        BY <4>4, <4>5
    <3>4. QED
      BY <2>1, <3>1, <3>2, <3>3, Zenon
  <2>5. QED
    BY <2>4 DEF S
<1>4. size \in T
  <2>1. size \in Nat
    OBVIOUS
  <2> HIDE DEF T, size
  <2>2. 0..size \subseteq T
    BY <1>2, <1>3, <2>1, Induction, Zenon
  <2>3. QED
    BY <2>1, <2>2
<1>5. QED
  BY <1>1, <1>4

\* A variable that is found in a term is in it.
LEMMA OccursTraces ==
  \A n \in 0..max_depth : Traces(Occurs[n])
<1> DEFINE T == {n \in 0..max_depth : Traces(Occurs[n])}
<1>0. max_depth \in Nat
  BY LimitsAssumption
<1>1. ASSUME NEW s, Good(s), NEW v \in DOMAIN s.terms, NEW t \in DOMAIN s.terms
      PROVE  /\ Search(s, v, t) \in Searches
             /\ Search(s, v, t).s = s /\ Search(s, v, t).variable = v /\ Search(s, v, t).input = t
  BY <1>1, GoodTypes DEF Search, Searches
<1>2. 0 \in T
  <2>1. ASSUME NEW s, Good(s), NEW v \in DOMAIN s.terms, NEW t \in DOMAIN s.terms
        PROVE  Traced(s, v, {t}, Occurs[0][Search(s, v, t)])
    <3>1. Occurs[0][Search(s, v, t)] =
            IF s.remaining = 0 THEN Fails(s, "CheckLimitExceeded") ELSE Fails(Ticked(s), "DepthLimitExceeded")
      BY <2>1, <1>1, OccursDefinition DEF TooDeep, Tick, Ticked
    <3>2. QED
      BY <3>1 DEF Traced, Fails
  <2>2. QED
    BY <1>0, <2>1 DEF Traces
<1>3. ASSUME NEW n \in 1..max_depth, n - 1 \in T PROVE n \in T
  <2> DEFINE occurs == Occurs[n - 1]
  <2>1. ASSUME NEW s, Good(s), NEW v \in DOMAIN s.terms, s.terms[v].name = NoName, s.terms[v].parent = Nothing,
               NEW t \in DOMAIN s.terms
        PROVE  Traced(s, v, {t}, Occurs[n][Search(s, v, t)])
    <3> DEFINE u == Ticked(s)
               r == Representative(u.terms)[t]
               a == Occurs[n][Search(s, v, t)]
    <3>1. a = IF s.remaining = 0 THEN Fails(s, "CheckLimitExceeded") ELSE OccursIn(occurs, u, v, r)
      <4>1. Occurs[n] = OccursWith(occurs)
        BY OccursDefinition
      <4> HIDE DEF occurs
      <4>2. QED
        BY <2>1, <1>1, <4>1 DEF OccursWith, Tick, Ticked
    <3>2. CASE s.remaining = 0
      BY <3>1, <3>2 DEF Traced, Fails
    <3>3. CASE s.remaining # 0
      <4> HIDE DEF a
      <4>1. Good(u) /\ Like(s, u) /\ u.variables = s.variables /\ u.terms = s.terms
        BY <2>1, <3>3, TickedLike DEF Like
      <4>2. IsRepresentative(s.terms, t, r) /\ Sound(s.terms) /\ r = Representative(s.terms)[t]
        BY <4>1, Representatives DEF Good
      <4> HIDE DEF u
      <4>3. r \in DOMAIN s.terms /\ s.terms[r].parent = Nothing
        BY <4>2 DEF IsRepresentative
      <4> HIDE DEF r
      <4>4. CASE v = r
        <5>1. Inner(s.terms, v, t)
          <6> SUFFICES ASSUME NEW h, NEW R, Closed(s.terms, R), t \in R, Respects(h, s.terms, R), Leveled(h, s.terms, R)
                       PROVE  v \in R /\ h[v] <= h[t] /\ (s.terms[t].name # NoName => h[v] < h[t])
            BY DEF Inner
          <6>1. h[v] = h[t] /\ v \in R
            BY <4>2, <4>4, RepresentativeSame
          <6>2. s.terms[t].name = NoName
            BY <2>1, <4>2, <4>4 DEF IsRepresentative
          <6>3. h[v] \in Nat
            BY <6>1 DEF Leveled
          <6>4. QED
            BY <6>1, <6>2, <6>3
        <5>2. a.error = "none"
          BY <3>1, <3>3, <4>1, <4>4 DEF OccursIn, Returns, r
        <5>3. QED
          BY <5>1, <5>2 DEF Traced, a
      <4>5. CASE v # r /\ s.terms[r].binding # Nothing
        <5>1. a = occurs[Search(u, v, s.terms[r].binding)]
          BY <3>1, <3>3, <4>1, <4>5 DEF OccursIn, r
        <5>2. s.terms[r].binding \in DOMAIN s.terms
          BY <4>2, <4>3, <4>5 DEF Sound, Shaped
        <5>3. Traced(u, v, {s.terms[r].binding}, a)
          BY <1>3, <2>1, <4>1, <5>1, <5>2, Zenon DEF Traces
        <5>4. s.terms[r].binding \in Links(s.terms, r)
          BY <4>3, <4>5 DEF Links
        <5>5. Inner(s.terms, v, s.terms[r].binding) => Inner(s.terms, v, t)
          BY <4>2, <5>4, InnerTerm
        <5>6. QED
          BY <4>1, <5>3, <5>5 DEF Traced, a
      <4>6. CASE v # r /\ s.terms[r].binding = Nothing
        <5> DEFINE inputs == s.terms[r].parameters
        <5>1. a = OccursInAny(occurs, u, v, inputs)
          BY <3>1, <3>3, <4>1, <4>6 DEF OccursIn, r
        <5>2. inputs \in Seq(DOMAIN s.terms)
          <6>1. inputs \in Seq(Nat)
            BY <4>2, <4>3, TermTypes DEF Sound
          <6>2. \A i \in 1..Len(inputs) : inputs[i] \in DOMAIN s.terms
            BY <4>2, <4>3, <6>1 DEF Sound, Shaped
          <6> HIDE DEF inputs
          <6>3. QED
            BY <6>1, <6>2, ElementsIn, Zenon
        <5>3. Finds(occurs) /\ Traces(occurs)
          BY <1>0, <1>3, OccursFinds
        <5>4. Traced(u, v, {inputs[i] : i \in DOMAIN inputs}, a)
          <6> HIDE DEF inputs, occurs
          <6> QED BY <2>1, <4>1, <5>1, <5>2, <5>3, TracesInAny
        <5>5. Links(s.terms, r) = {inputs[i] : i \in DOMAIN inputs}
          BY <4>3, <4>6 DEF Links
        <5>6. Traced(u, v, Links(s.terms, r), a)
          BY <5>4, <5>5
        <5>7. \A x \in Links(s.terms, r) : Inner(s.terms, v, x) => Inner(s.terms, v, t)
          BY <4>2, InnerTerm
        <5>8. QED
          BY <4>1, <5>6, <5>7 DEF Traced, a
      <4>7. QED
        BY <4>4, <4>5, <4>6
    <3>4. QED
      BY <3>2, <3>3
  <2>2. Traces(Occurs[n])
    BY <2>1 DEF Traces
  <2>3. QED
    BY <2>2
<1>4. 0..max_depth \subseteq T
  <2> HIDE DEF T
  <2> QED BY <1>0, <1>2, <1>3, Induction
<1>5. QED
  BY <1>4

\* So no solution gives it the same as a named term that it is in.
LEMMA InnerApart ==
  ASSUME NEW s, Good(s), NEW R, Closed(s.terms, R), NEW t \in R, s.terms[t].name # NoName,
         NEW v, Inner(s.terms, v, t), NEW m, Solution(m, s.terms), Respects(m, s.terms, R)
  PROVE  m[v] # m[t]
<1>1. PICK h : Heights(h, m, s.terms)
  BY DEF Solution
<1>2. R \subseteq DOMAIN s.terms /\ \A x \in R : Links(s.terms, x) \subseteq R
  BY DEF Closed
<1>3. Leveled(h, s.terms, R)
  BY <1>1, <1>2 DEF Heights, Leveled
<1>4. Respects(h, s.terms, R)
  <2> SUFFICES ASSUME NEW x \in R, s.terms[x].name = NoName, NEW y \in Links(s.terms, x) PROVE h[y] = h[x]
    BY DEF Respects
  <2>1. m[y] = m[x] /\ y \in DOMAIN s.terms /\ x \in DOMAIN s.terms
    BY <1>2 DEF Respects
  <2>2. QED
    BY <1>1, <2>1 DEF Heights
<1>5. v \in R /\ h[v] < h[t]
  BY <1>3, <1>4 DEF Inner
<1>6. h[v] \in Nat /\ h[t] \in Nat /\ (m[v] = m[t] => h[v] = h[t])
  BY <1>1, <1>2, <1>5 DEF Heights
<1>7. QED
  BY <1>5, <1>6

-----------------------------------------------------------------------------
(* unify: a variable and a named term *)

\* What binding a variable made of the store.
LEMMA BoundTerms ==
  ASSUME NEW u, Good(u), NEW a \in DOMAIN u.terms, NEW c
  PROVE  /\ Len(Bound(u, a, c).terms) = Len(u.terms)
         /\ \A t \in DOMAIN u.terms \ {a} : Bound(u, a, c).terms[t] = u.terms[t]
         /\ Bound(u, a, c).terms[a].name = u.terms[a].name /\ Bound(u, a, c).terms[a].parent = u.terms[a].parent
         /\ Bound(u, a, c).terms[a].binding = c
<1> DEFINE q == Recorded(u, a)
<1>1. u \in Stores /\ u.terms \in Seq(Terms)
  BY GoodTypes
<1>2. q \in Stores /\ q.terms = u.terms
  BY <1>1, RecordedFields, Zenon
<1>3. Bound(u, a, c) = [q EXCEPT !.terms[a].binding = c]
  BY DEF Bound
<1> HIDE DEF q
<1>4. Bound(u, a, c).terms = [u.terms EXCEPT ![a].binding = c]
  BY <1>2, <1>3 DEF Stores
<1>5. u.terms[a] \in Terms
  BY <1>1, TermTypes
<1>6. Len(Bound(u, a, c).terms) = Len(u.terms)
  BY <1>1, <1>4
<1>7. \A t \in DOMAIN u.terms \ {a} : Bound(u, a, c).terms[t] = u.terms[t]
  BY <1>4
<1>8. Bound(u, a, c).terms[a] = [u.terms[a] EXCEPT !.binding = c]
  BY <1>4
<1>9. QED
  BY <1>5, <1>6, <1>7, <1>8 DEF Terms

\* A variable outside of D is bound to what unifying in D led to.
LEMMA BoundSolving ==
  ASSUME NEW s, NEW R, Apt(R, s), NEW D, D \subseteq R, Closed(s.terms, D),
         NEW a \in R, a \notin D, s.terms[a].name = NoName, s.terms[a].parent = Nothing, NEW b \in R,
         NEW u, Went(D, s, u), NEW E, Solving(D, s, E, u), NEW K, K = Grown(D, s, u),
         NEW c \in K, u.terms[c].name # NoName,
         \A m : Respects(m, s.terms, R) /\ m[a] = m[b] => Solves(m, E),
         \A m : Congruent(m, u.terms, K) /\ Respects(m, u.terms, K) /\ Solves(m, E) =>
                  m[c] = m[b] /\ \A y \in Links(s.terms, a) : m[y] = m[b],
         NEW w, w = Bound(u, a, c)
  PROVE  Solving(R, s, {<<a, b>>}, w)
<1> DEFINE F == {<<a, b>>}
<1>0. \A m : Solves(m, F) <=> m[a] = m[b]
  BY DEF Solves
<1> HIDE DEF F
<1>1. Good(s) /\ Closed(s.terms, R) /\ R \subseteq DOMAIN s.terms
  BY DEF Apt, Closed
<1>2. Went(R, s, u) /\ Good(u) /\ Closed(u.terms, Grown(R, s, u)) /\ R \subseteq Grown(R, s, u) /\ K \subseteq Grown(R, s, u)
  BY <1>1, WentInMore, WentGood, Zenon
<1>3. u.terms[a] = s.terms[a] /\ a \in DOMAIN u.terms
  BY <1>1, <1>2 DEF Went, Reached, Within, Closed
<1>4. Went(R, s, w)
  <2>1. Went(Grown(R, s, u), u, w)
    BY <1>2, <1>3, BoundWent
  <2>2. QED
    BY <1>1, <1>2, <2>1, WentWent
<1>5. /\ Len(w.terms) = Len(u.terms)
      /\ \A t \in DOMAIN u.terms \ {a} : w.terms[t] = u.terms[t]
      /\ w.terms[a].name = NoName /\ w.terms[a].parent = Nothing /\ w.terms[a].binding = c
  BY <1>2, <1>3, BoundTerms
<1>6. Links(w.terms, a) = {c}
  <2>1. K \subseteq DOMAIN u.terms
    BY <1>2 DEF Closed
  <2>2. c # Nothing
    BY <1>2, <2>1, GoodTypes DEF Nothing
  <2>3. QED
    BY <1>5, <2>2 DEF Links
<1>7. EndsAt(w.terms, {a}, K)
  <2> DEFINE h == [t \in {a} |-> 0]
  <2>1. h \in [{a} -> 0..0]
    OBVIOUS
  <2>2. \A t \in {a} : \A y \in Links(w.terms, t) : y \in K \/ (y \in {a} /\ h[y] < h[t])
    BY <1>6
  <2> HIDE DEF h
  <2>3. QED
    BY <2>1, <2>2 DEF EndsAt
<1>8. \A m : Respects(m, w.terms, {a}) <=> m[c] = m[a]
  BY <1>5, <1>6 DEF Respects
<1>9. \A m : Respects(m, s.terms, {a}) <=> \A y \in Links(s.terms, a) : m[y] = m[a]
  BY DEF Respects
<1>10. ASSUME NEW m, Congruent(m, u.terms, K), Respects(m, u.terms, K), Solves(m, E),
              Respects(m, w.terms, {a})
       PROVE  Respects(m, s.terms, {a}) /\ Solves(m, F)
  <2>1. m[c] = m[b] /\ \A y \in Links(s.terms, a) : m[y] = m[b]
    BY <1>10
  <2>2. m[c] = m[a]
    BY <1>8, <1>10
  <2>3. QED
    BY <1>0, <1>9, <2>1, <2>2, Zenon
<1>11. ASSUME NEW m, Respects(m, s.terms, R), Solves(m, F) PROVE Solves(m, E)
  BY <1>0, <1>11
<1>12. ASSUME NEW m, Congruent(m, u.terms, K), Respects(m, u.terms, K), Respects(m, s.terms, R), Solves(m, F)
       PROVE  Respects(m, w.terms, {a})
  <2>1. m[a] = m[b] /\ Solves(m, E)
    BY <1>0, <1>11, <1>12
  <2>2. m[c] = m[b]
    BY <1>12, <2>1
  <2>3. QED
    BY <1>8, <2>1, <2>2
<1>13. {a} \subseteq R /\ {a} \cap D = {}
  OBVIOUS
<1> DEFINE V == {a}
<1> HIDE DEF V
<1>14. Extends(R, s, E, K, u, V, F, w)
  <2>1. ASSUME NEW m, Congruent(m, u.terms, K), Respects(m, u.terms, K), Solves(m, E),
               Respects(m, w.terms, V)
        PROVE  Respects(m, s.terms, V) /\ Solves(m, F)
    BY <1>10, <2>1 DEF V
  <2>2. ASSUME NEW m, Congruent(m, u.terms, K), Respects(m, u.terms, K), Respects(m, s.terms, R), Solves(m, F)
        PROVE  Respects(m, w.terms, V)
    BY <1>12, <2>2 DEF V
  <2>3. \A m : Congruent(m, u.terms, K) /\ Respects(m, u.terms, K) /\ Solves(m, E) /\ Respects(m, w.terms, V) =>
                 Respects(m, s.terms, V) /\ Solves(m, F)
    BY <2>1, Zenon
  <2>4. \A m : Respects(m, s.terms, R) /\ Solves(m, F) => Solves(m, E)
    BY <1>11, Zenon
  <2>5. \A m : Congruent(m, u.terms, K) /\ Respects(m, u.terms, K) /\ Respects(m, s.terms, R) /\ Solves(m, F) =>
                 Respects(m, w.terms, V)
    BY <2>2, Zenon
  <2>6. QED
    BY <2>3, <2>4, <2>5, Zenon DEF Extends
<1>15. /\ V \subseteq R /\ V \cap D = {} /\ EndsAt(w.terms, V, K)
       /\ \A t \in DOMAIN u.terms \ V : w.terms[t] = u.terms[t]
  BY <1>5, <1>7, <1>13 DEF V
<1>16. Solving(R, s, F, w)
  BY <1>4, <1>5, <1>14, <1>15, Attached
<1>17. QED
  BY <1>16 DEF F

-----------------------------------------------------------------------------
(* unify: two variables *)

\* What merging two variables made of the store.
IsMerged(u, a, b, c, w, root, leaf) ==
  /\ root # leaf /\ ((root = a /\ leaf = b) \/ (root = b /\ leaf = a))
  /\ Len(w.terms) = Len(u.terms)
  /\ \A t \in DOMAIN u.terms \ {a, b} : w.terms[t] = u.terms[t]
  /\ w.terms[leaf].name = u.terms[leaf].name /\ w.terms[leaf].parent = root
  /\ w.terms[root].name = u.terms[root].name
  /\ w.terms[root].parent = u.terms[root].parent /\ w.terms[root].binding = c

\* Merging two variables does what IsMerged says.
LEMMA MergedTerms ==
  ASSUME NEW u, Good(u), NEW a \in DOMAIN u.terms, NEW b \in DOMAIN u.terms, a # b,
         NEW c, NEW root, NEW leaf, root = Root(u, a, b), leaf = Leaf(u, a, b), NEW w, w = Merged(u, a, b, c)
  PROVE  IsMerged(u, a, b, c, w, root, leaf)
<1> DEFINE x == u.terms
           rank == IF x[a].rank = x[b].rank THEN x[root].rank + 1 ELSE x[root].rank
           down == [x[leaf] EXCEPT !.parent = root]
           up == [x[root] EXCEPT !.binding = c, !.rank = rank]
           z == [[[x EXCEPT ![leaf].parent = root] EXCEPT ![root].binding = c]
                     EXCEPT ![root].rank = IF x[a].rank = x[b].rank THEN @ + 1 ELSE @]
           p == Recorded(u, root)
           q == Recorded(p, leaf)
<1>1. u \in Stores /\ x \in Seq(Terms)
  BY GoodTypes
<1>2. root # leaf /\ ((root = a /\ leaf = b) \/ (root = b /\ leaf = a)) /\ root \in DOMAIN x /\ leaf \in DOMAIN x
  <2>1. (root = a /\ leaf = b) \/ (root = b /\ leaf = a)
    BY Zenon DEF Root, Leaf
  <2>2. QED
    BY <2>1
<1>3. x[root] \in Terms /\ x[leaf] \in Terms
  BY <1>1, <1>2, TermTypes
<1>4. /\ down.name = x[leaf].name /\ down.parent = root
      /\ up.name = x[root].name /\ up.parent = x[root].parent /\ up.binding = c
  <2> HIDE DEF x, rank
  <2>1. down.name = x[leaf].name /\ down.parent = root
    BY <1>3 DEF Terms
  <2>2. up.name = x[root].name /\ up.parent = x[root].parent
    BY <1>3 DEF Terms
  <2>3. up.binding = c
    BY <1>3 DEF Terms
  <2>4. QED
    BY <2>1, <2>2, <2>3
<1>5. z = [x EXCEPT ![leaf] = down, ![root] = up]
  <2> HIDE DEF x
  <2>1. [x EXCEPT ![leaf].parent = root] = [x EXCEPT ![leaf] = down]
    OBVIOUS
  <2>2. [x EXCEPT ![leaf] = down][root] = x[root]
    BY <1>2
  <2>3. QED
    BY <1>2, <1>3, <2>1, <2>2, Zenon DEF Terms
<1>6. q \in Stores /\ q.terms = x
  <2>1. p \in Stores /\ p.terms = x
    BY <1>1, <1>2, RecordedFields, Zenon
  <2> HIDE DEF p
  <2>2. QED
    BY <1>2, <2>1, RecordedFields, Zenon
<1>7. w = [q EXCEPT !.terms = z]
  <2>1. w = [q EXCEPT !.terms = [q.terms EXCEPT
               ![leaf].parent = root, ![root].binding = c,
               ![root].rank = IF x[a].rank = x[b].rank THEN @ + 1 ELSE @]]
    BY DEF Merged
  <2> HIDE DEF x, q
  <2>2. QED
    BY <1>6, <2>1
<1> HIDE DEF x, down, up, z, p, q, rank
<1>8. w.terms = [x EXCEPT ![leaf] = down, ![root] = up]
  BY <1>5, <1>6, <1>7 DEF Stores
<1>9. w.terms[leaf] = down /\ w.terms[root] = up /\ Len(w.terms) = Len(x)
  BY <1>1, <1>2, <1>8
<1>10. \A t \in DOMAIN x \ {a, b} : w.terms[t] = x[t]
  BY <1>2, <1>8
<1>11. QED
  BY <1>2, <1>4, <1>9, <1>10 DEF x, IsMerged

\* What the variables a and b are linked to, Y, stands for what c does, given E.
Shares(R, s, E, K, u, a, b, c, Y) ==
  /\ c = Nothing <=> Y = {}
  /\ \A m : Respects(m, s.terms, R) /\ m[a] = m[b] => Solves(m, E)
  /\ \A m : Congruent(m, u.terms, K) /\ Respects(m, u.terms, K) /\ Solves(m, E) => \A y \in Y : m[c] = m[y]

\* Two variables outside of D share what unifying in D led to.
LEMMA MergedSolving ==
  ASSUME NEW s, NEW R, Apt(R, s), NEW D, D \subseteq R, Closed(s.terms, D),
         NEW a \in R, a \notin D, s.terms[a].name = NoName, s.terms[a].parent = Nothing,
         NEW b \in R, b \notin D, s.terms[b].name = NoName, s.terms[b].parent = Nothing, a # b,
         NEW u, Went(D, s, u), NEW E, Solving(D, s, E, u), NEW K, K = Grown(D, s, u),
         NEW c, c = Nothing \/ (c \in K /\ u.terms[c].name # NoName),
         NEW Y, Y = Links(s.terms, a) \cup Links(s.terms, b), Shares(R, s, E, K, u, a, b, c, Y),
         NEW w, w = Merged(u, a, b, c)
  PROVE  /\ Solving(R, s, {<<a, b>>}, w)
         /\ Same(w.terms, Grown(R, s, w), Root(u, a, b), a)
<1> DEFINE F == {<<a, b>>}
           r == Root(u, a, b)
           l == Leaf(u, a, b)
           V == {a, b}
<1>0. \A m : Solves(m, F) <=> m[a] = m[b]
  BY DEF Solves
<1> HIDE DEF F
<1>1. Good(s) /\ Closed(s.terms, R) /\ R \subseteq DOMAIN s.terms
  BY DEF Apt, Closed
<1>2. Went(R, s, u) /\ Good(u) /\ Closed(u.terms, Grown(R, s, u)) /\ R \subseteq Grown(R, s, u) /\ K \subseteq Grown(R, s, u)
  BY <1>1, WentInMore, WentGood, Zenon
<1>3. u.terms[a] = s.terms[a] /\ a \in DOMAIN u.terms /\ u.terms[b] = s.terms[b] /\ b \in DOMAIN u.terms
  BY <1>1, <1>2 DEF Went, Reached, Within, Closed
<1>4. Went(R, s, w)
  <2>1. Went(Grown(R, s, u), u, w)
    BY <1>2, <1>3, MergedWent
  <2>2. QED
    BY <1>1, <1>2, <2>1, WentWent
<1> HIDE DEF r, l
<1>5. IsMerged(u, a, b, c, w, r, l)
  BY <1>2, <1>3, MergedTerms DEF r, l
<1>6. /\ r # l /\ ((r = a /\ l = b) \/ (r = b /\ l = a))
      /\ r \in DOMAIN u.terms /\ r # Nothing
      /\ w.terms[r].name = NoName /\ w.terms[r].parent = Nothing /\ w.terms[r].binding = c
      /\ w.terms[l].name = NoName /\ w.terms[l].parent = r
      /\ Len(w.terms) = Len(u.terms)
  <2>1. r # l /\ ((r = a /\ l = b) \/ (r = b /\ l = a))
    BY <1>5 DEF IsMerged
  <2>2. /\ u.terms[r].name = NoName /\ u.terms[r].parent = Nothing /\ u.terms[l].name = NoName
        /\ r \in DOMAIN u.terms
    BY <1>3, <2>1
  <2>3. r # Nothing
    BY <1>2, <2>2, GoodTypes DEF Nothing
  <2>4. QED
    BY <1>5, <2>1, <2>2, <2>3 DEF IsMerged
<1>7. Links(w.terms, l) = {r}
  BY <1>6 DEF Links
<1>8. Links(w.terms, r) = IF c = Nothing THEN {} ELSE {c}
  <2>1. CASE c # Nothing
    BY <1>6, <2>1 DEF Links
  <2>2. CASE c = Nothing
    <3>1. Good(w)
      BY <1>1, <1>4, WentGood
    <3>2. r \in DOMAIN w.terms /\ Sound(w.terms)
      BY <1>2, <1>6, <3>1, GoodTypes
    <3>3. QED
      BY <1>6, <2>2, <3>2, LinkedTo
  <2>3. QED
    BY <2>1, <2>2
<1>9. EndsAt(w.terms, V, K)
  <2> DEFINE h == [t \in V |-> IF t = r THEN 0 ELSE 1]
  <2>1. h \in [V -> 0..1]
    <3> HIDE DEF V
    <3> QED OBVIOUS
  <2>2. \A t \in V : \A y \in Links(w.terms, t) : y \in K \/ (y \in V /\ h[y] < h[t])
    <3>1. \A y \in Links(w.terms, r) : y \in K
      BY <1>8
    <3>2. r \in V /\ l \in V /\ \A t \in V : t = r \/ t = l
      BY <1>6
    <3> HIDE DEF V
    <3>3. h[r] < h[l]
      BY <1>6, <3>2
    <3> HIDE DEF h
    <3>4. QED
      BY <1>7, <3>1, <3>2, <3>3
  <2> HIDE DEF h
  <2>3. QED
    BY <2>1, <2>2 DEF EndsAt
<1>10. \A m : Respects(m, w.terms, V) <=> m[a] = m[b] /\ (c # Nothing => m[c] = m[a])
  <2> SUFFICES ASSUME NEW m PROVE Respects(m, w.terms, V) <=> m[a] = m[b] /\ (c # Nothing => m[c] = m[a])
    OBVIOUS
  <2>1. Respects(m, w.terms, V) <=> m[r] = m[l] /\ (c # Nothing => m[c] = m[r])
    <3>1. \A t \in V : t = r \/ t = l
      BY <1>6
    <3>2. r \in V /\ l \in V
      BY <1>6
    <3> HIDE DEF V
    <3>3. QED
      BY <1>6, <1>7, <1>8, <3>1, <3>2 DEF Respects
  <2>2. QED
    BY <1>6, <2>1
<1>11. ASSUME NEW m, Congruent(m, u.terms, K), Respects(m, u.terms, K), Solves(m, E), Respects(m, w.terms, V)
       PROVE  Respects(m, s.terms, V) /\ Solves(m, F)
  <2>1. m[a] = m[b] /\ (c # Nothing => m[c] = m[a])
    BY <1>10, <1>11
  <2>2. (\A y \in Y : m[c] = m[y]) /\ (c = Nothing <=> Y = {})
    BY <1>11 DEF Shares
  <2>3. \A y \in Y : m[y] = m[a]
    BY <2>1, <2>2
  <2>4. QED
    BY <1>0, <2>1, <2>3 DEF Respects
<1>12. ASSUME NEW m, Respects(m, s.terms, R), Solves(m, F) PROVE Solves(m, E)
  BY <1>0, <1>12 DEF Shares
<1>13. ASSUME NEW m, Congruent(m, u.terms, K), Respects(m, u.terms, K), Respects(m, s.terms, R), Solves(m, F)
       PROVE  Respects(m, w.terms, V)
  <2>1. m[a] = m[b] /\ Solves(m, E)
    BY <1>0, <1>12, <1>13
  <2>2. (\A y \in Y : m[c] = m[y]) /\ (c = Nothing <=> Y = {})
    BY <1>13, <2>1 DEF Shares
  <2>3. \A y \in Y : m[y] = m[a]
    BY <1>13, <2>1 DEF Respects
  <2>4. c # Nothing => m[c] = m[a]
    BY <2>2, <2>3
  <2>5. QED
    BY <1>10, <2>1, <2>4
<1>14. V \subseteq R /\ V \cap D = {}
  OBVIOUS
<1> HIDE DEF V
<1>15. Extends(R, s, E, K, u, V, F, w)
  <2>1. \A m : Congruent(m, u.terms, K) /\ Respects(m, u.terms, K) /\ Solves(m, E) /\ Respects(m, w.terms, V) =>
                 Respects(m, s.terms, V) /\ Solves(m, F)
    BY <1>11, Zenon
  <2>2. \A m : Respects(m, s.terms, R) /\ Solves(m, F) => Solves(m, E)
    BY <1>12, Zenon
  <2>3. \A m : Congruent(m, u.terms, K) /\ Respects(m, u.terms, K) /\ Respects(m, s.terms, R) /\ Solves(m, F) =>
                 Respects(m, w.terms, V)
    BY <1>13, Zenon
  <2>4. QED
    BY <2>1, <2>2, <2>3, Zenon DEF Extends
<1>16. Solving(R, s, F, w)
  <2>1. Len(w.terms) = Len(u.terms) /\ \A t \in DOMAIN u.terms \ V : w.terms[t] = u.terms[t]
    BY <1>5 DEF IsMerged, V
  <2>2. QED
    BY <1>4, <1>9, <1>14, <1>15, <2>1, Attached
<1>17. Same(w.terms, Grown(R, s, w), r, a)
  <2> SUFFICES ASSUME NEW m, Respects(m, w.terms, Grown(R, s, w)) PROVE m[r] = m[a]
    BY DEF Same
  <2>1. V \subseteq Grown(R, s, w)
    BY <1>14 DEF Grown
  <2>2. Respects(m, w.terms, V)
    BY <2>1 DEF Respects
  <2>3. m[a] = m[b]
    BY <1>10, <2>2
  <2>4. r \in {a, b}
    BY <1>6
  <2>5. QED
    BY <2>3, <2>4
<1>18. QED
  BY <1>16, <1>17 DEF F, r

-----------------------------------------------------------------------------
(* unify: what it does to variables *)

\* Nothing above b matters to what b and x have in common.
LEMMA RegionUnder ==
  ASSUME NEW unify, Unifies(unify), Resolves(unify), NEW s, NEW R, Apt(R, s),
         NEW a \in R, s.terms[a].name = NoName, s.terms[a].parent = Nothing,
         NEW x, x = s.terms[a].binding, x # Nothing,
         NEW b \in R, s.terms[b].name # NoName,
         NEW f, f = unify[Pair(s, x, b)], f.error = "none"
  PROVE  \E D : /\ D \subseteq R /\ Closed(s.terms, D) /\ a \notin D
                /\ Unified(D, s, x, b, f) /\ Resolved(D, s, x, b, f)
<1>1. Good(s) /\ Closed(s.terms, R) /\ Sound(s.terms) /\ R \subseteq DOMAIN s.terms
  BY GoodTypes DEF Apt, Closed
<1>2. x \in R /\ s.terms[x].name # NoName /\ Links(s.terms, a) = {x}
  BY <1>1 DEF Sound, Shaped, Closed, Links
<1>3. Unified(R, s, x, b, f) /\ Resolved(R, s, x, b, f)
  BY <1>1, <1>2 DEF Unifies, Resolves
<1> DEFINE u == f.s
           S == Grown(R, s, u)
<1>4. Went(R, s, u) /\ Solving(R, s, {<<x, b>>}, u)
  BY <1>3 DEF Unified, Resolved
<1>5. Good(u) /\ Later(s, u) /\ Closed(u.terms, S) /\ R \subseteq S /\ Sound(u.terms)
  BY <1>1, <1>4, WentGood, GoodTypes
<1>6. Ends(u.terms, S) /\ Implies(R, s, {<<x, b>>}, u)
  BY <1>4 DEF Solving
<1>7. PICK m : Congruent(m, u.terms, S) /\ Respects(m, u.terms, S) /\ Leveled(m, u.terms, S)
  BY <1>5, <1>6, HeightModel
<1>8. Respects(m, s.terms, R) /\ m[x] = m[b]
  <2>1. Respects(m, s.terms, R) /\ Solves(m, {<<x, b>>})
    BY <1>6, <1>7 DEF Implies
  <2>2. QED
    BY <2>1 DEF Solves
<1>9. Leveled(m, s.terms, R)
  <2>1. \A t \in R : s.terms[t].parameters = u.terms[t].parameters /\ t \in S
    BY <1>1, <1>5 DEF Later
  <2>2. QED
    BY <1>7, <2>1 DEF Leveled
<1> HIDE DEF u, S
<1> DEFINE D == {t \in R : m[t] < m[b]} \cup {x, b}
<1>10. a \notin D
  <2>1. m[a] = m[b] /\ m[b] \in Nat
    BY <1>2, <1>8, <1>9 DEF Respects, Leveled
  <2>2. ~(m[a] < m[b])
    BY <2>1
  <2>3. QED
    BY <1>2, <2>2
<1>11. Closed(s.terms, D)
  <2> SUFFICES ASSUME NEW t \in D, NEW y \in Links(s.terms, t) PROVE y \in D
    BY <1>1, <1>2 DEF Closed
  <2>1. t \in R /\ y \in R /\ t \in DOMAIN s.terms
    BY <1>1, <1>2 DEF Closed
  <2>2. m[t] \in Nat /\ m[y] \in Nat /\ m[b] \in Nat
    BY <1>9, <2>1 DEF Leveled
  <2>3. CASE s.terms[t].name = NoName
    <3>1. m[y] = m[t] /\ m[t] < m[b]
      BY <1>2, <1>8, <2>1, <2>3 DEF Respects
    <3>2. QED
      BY <2>1, <3>1
  <2>4. CASE s.terms[t].name # NoName
    <3>1. PICK i \in DOMAIN s.terms[t].parameters : y = s.terms[t].parameters[i]
      BY <1>1, <2>1, <2>4, LinkedTo
    <3>2. m[y] < m[t]
      BY <1>9, <2>1, <3>1 DEF Leveled
    <3>3. m[t] <= m[b]
      BY <1>8, <2>2
    <3>4. m[y] < m[b]
      BY <2>2, <3>2, <3>3
    <3>5. QED
      BY <2>1, <3>4
  <2>5. QED
    BY <2>3, <2>4
<1>12. D \subseteq R /\ x \in D /\ b \in D
  BY <1>2
<1> HIDE DEF D
<1>13. Apt(D, s)
  BY <1>11, <1>12, AptInLess
<1>14. Unified(D, s, x, b, f) /\ Resolved(D, s, x, b, f)
  BY <1>1, <1>11, <1>12, <1>13 DEF Unifies, Resolves
<1>15. QED
  BY <1>10, <1>11, <1>12, <1>14

\* A variable that occurs in a term stands for nothing that the term stands for.
LEMMA OccursRefutes ==
  ASSUME NEW s, NEW R, Apt(R, s), NEW v, NEW t \in R, s.terms[t].name # NoName, Inner(s.terms, v, t),
         NEW E, \A m : Respects(m, s.terms, R) /\ Solves(m, E) => m[v] = m[t],
         NEW u, Like(s, u)
  PROVE  Refuting(R, s, E, u)
<1> SUFFICES ASSUME NEW m, Solution(m, u.terms), Respects(m, s.terms, R), Solves(m, E)
             PROVE  FALSE
  BY DEF Refuting
<1>1. Solution(m, s.terms)
  BY DEF Like
<1>2. m[v] # m[t]
  BY <1>1, InnerApart DEF Apt
<1>3. QED
  BY <1>2

\* Unifying a variable with a named term answers whether they are the same.
LEMMA ResolvesVariable ==
  ASSUME NEW unify, Unifies(unify), Resolves(unify), NEW occurs, Finds(occurs), Traces(occurs),
         NEW s, NEW R, Apt(R, s),
         NEW a \in R, s.terms[a].name = NoName, s.terms[a].parent = Nothing,
         NEW b \in R, s.terms[b].name # NoName
  PROVE  Resolved(R, s, a, b, UnifyVariable(unify, occurs, s, a, b))
<1> DEFINE x == s.terms[a].binding
           c == occurs[Search(s, a, b)]
           first == IF x # Nothing THEN unify[Pair(s, x, b)] ELSE BindsTo(occurs, s, a, b)
           r == UnifyVariable(unify, occurs, s, a, b)
           E == {<<a, b>>}
<1>1. r = IF first.error = "none" THEN Returns(Bound(first.s, a, first.is), a) ELSE first
  <2> DEFINE f == first
  <2>1. r = Then(f, LAMBDA u, merged : Returns(Bound(u, a, merged), a))
    BY DEF UnifyVariable
  <2> HIDE DEF f, r
  <2>2. r = IF f.error = "none" THEN Returns(Bound(f.s, a, f.is), a) ELSE f
    BY <2>1 DEF Then
  <2>3. QED
    BY <2>2 DEF f
<1>2. Good(s) /\ Closed(s.terms, R) /\ R \subseteq DOMAIN s.terms /\ Sound(s.terms)
  BY GoodTypes DEF Apt, Closed
<1>3. a \in DOMAIN s.terms /\ b \in DOMAIN s.terms
  BY <1>2
<1>4. \A m : Solves(m, E) <=> m[a] = m[b]
  BY DEF Solves
<1> HIDE DEF r, E
<1>5. ASSUME first.error = "none", Solving(R, s, E, Bound(first.s, a, first.is))
      PROVE  Resolved(R, s, a, b, r)
  <2>1. r.s = Bound(first.s, a, first.is) /\ r.error = "none" /\ r.is = a
    BY <1>1, <1>5 DEF Returns
  <2>2. QED
    BY <1>5, <2>1 DEF Resolved, Same, E
<1>6. CASE x # Nothing
  <2>1. x \in R /\ s.terms[x].name # NoName /\ Links(s.terms, a) = {x}
    BY <1>2, <1>6 DEF Sound, Shaped, Closed, Links
  <2>2. first = unify[Pair(s, x, b)]
    BY <1>6
  <2> DEFINE G == {<<x, b>>}
  <2>3. \A m : Solves(m, G) <=> m[x] = m[b]
    BY DEF Solves
  <2>4. \A m : Respects(m, s.terms, R) => m[x] = m[a]
    BY <2>1 DEF Respects
  <2> HIDE DEF first, G
  <2>5. CASE first.error = "none"
    <3> HIDE DEF x
    <3>1. PICK D : /\ D \subseteq R /\ Closed(s.terms, D) /\ a \notin D
                   /\ Unified(D, s, x, b, first) /\ Resolved(D, s, x, b, first)
      BY <1>6, <2>2, <2>5, RegionUnder DEF x
    <3> DEFINE u == first.s
               K == Grown(D, s, u)
               d == first.is
               w == Bound(u, a, d)
    <3>2. Went(D, s, u) /\ d \in K /\ u.terms[d].name # NoName
      BY <2>1, <2>5, <3>1 DEF Unified
    <3>3. Solving(D, s, G, u) /\ Same(u.terms, K, d, x)
      BY <2>5, <3>1 DEF Resolved, G
    <3> HIDE DEF u, K, d
    <3>4. \A m : Respects(m, s.terms, R) /\ m[a] = m[b] => Solves(m, G)
      BY <2>3, <2>4
    <3>5. \A m : Congruent(m, u.terms, K) /\ Respects(m, u.terms, K) /\ Solves(m, G) =>
                   m[d] = m[b] /\ \A y \in Links(s.terms, a) : m[y] = m[b]
      <4> SUFFICES ASSUME NEW m, Congruent(m, u.terms, K), Respects(m, u.terms, K), Solves(m, G)
                   PROVE  m[d] = m[b] /\ \A y \in Links(s.terms, a) : m[y] = m[b]
        BY Zenon
      <4>1. m[d] = m[x]
        BY <3>3 DEF Same
      <4>2. QED
        BY <2>1, <2>3, <4>1
    <3>6. Solving(R, s, E, w)
      BY <1>2, <3>1, <3>2, <3>3, <3>4, <3>5, BoundSolving DEF E, K
    <3>7. QED
      BY <1>5, <2>5, <3>6 DEF u, d, r
  <2>6. CASE first.error = "TypeMismatch"
    <3>1. Resolved(R, s, x, b, first)
      BY <2>1, <2>2 DEF Resolves
    <3>2. Refuting(R, s, G, first.s)
      BY <2>6, <3>1 DEF Resolved, G
    <3>3. \A m : Respects(m, s.terms, R) /\ Solves(m, E) => Solves(m, G)
      BY <1>4, <2>3, <2>4
    <3>4. Refuting(R, s, E, first.s)
      BY <3>2, <3>3, RefutedInMore
    <3>5. r = first
      BY <1>1, <2>6
    <3>6. QED
      BY <2>6, <3>4, <3>5 DEF Resolved, E, r
  <2>7. CASE first.error # "none" /\ first.error # "TypeMismatch"
    <3>1. r = first
      BY <1>1, <2>7
    <3>2. QED
      BY <2>7, <3>1 DEF Resolved, r
  <2>8. QED
    BY <2>5, <2>6, <2>7 DEF r
<1>7. CASE x = Nothing
  <2>1. Searched(s, a, {b}, c) /\ Traced(s, a, {b}, c)
    BY <1>2, <1>3, Zenon DEF Finds, Traces
  <2>2. first = IF c.error = "none" THEN (IF c.is THEN Fails(c.s, "TypeMismatch") ELSE Returns(c.s, b)) ELSE c
    BY <1>7 DEF BindsTo, Absent, Then
  <2> HIDE DEF c, first
  <2>3. Like(s, c.s) /\ c.s.variables = s.variables /\ c.s.terms = s.terms
    BY <2>1 DEF Searched, Like
  <2>4. CASE c.error = "none" /\ c.is = FALSE
    <3>1. PICK T, h, bound : b \in T /\ GroundedIn(s.terms, a, T, h, bound)
      BY <2>1, <2>4 DEF Searched, Grounded
    <3> DEFINE D == T \cap R
               u == c.s
    <3>2. D \subseteq R /\ Closed(s.terms, D) /\ a \notin D /\ b \in D
      BY <1>2, <3>1 DEF GroundedIn, Closed
    <3> HIDE DEF D
    <3>3. Apt(D, s)
      BY <3>2, AptInLess
    <3>4. Solving(D, s, {}, u) /\ Grown(D, s, u) = D
      BY <2>3, <3>3, SolvingNothing
    <3>5. Went(D, s, u)
      BY <1>2, <2>3, <3>2, LikeWent
    <3>6. first.s = u /\ first.error = "none" /\ first.is = b
      BY <2>2, <2>4 DEF Returns
    <3>7. \A m : Solves(m, {})
      BY DEF Solves
    <3>8. Links(s.terms, a) = {}
      BY <1>2, <1>3, <1>7, LinkedTo
    <3> DEFINE N == {}
               w == Bound(u, a, b)
    <3> HIDE DEF N, u, w
    <3>9. u.terms[b].name # NoName
      BY <2>3 DEF u
    <3>10. \A m : Respects(m, s.terms, R) /\ m[a] = m[b] => Solves(m, N)
      BY <3>7 DEF N
    <3>11. \A m : Congruent(m, u.terms, D) /\ Respects(m, u.terms, D) /\ Solves(m, N) =>
                    m[b] = m[b] /\ \A y \in Links(s.terms, a) : m[y] = m[b]
      BY <3>8
    <3>12. Solving(R, s, E, w)
      <4>1. Solving(D, s, N, u)
        BY <3>4 DEF N
      <4>2. QED
        BY <3>2, <3>4, <3>5, <3>9, <3>10, <3>11, <4>1, BoundSolving DEF E, w
    <3>13. QED
      BY <1>5, <3>6, <3>12 DEF w, r
  <2>5. CASE c.error = "none" /\ c.is = TRUE
    <3>1. first = Fails(c.s, "TypeMismatch")
      BY <2>2, <2>5
    <3>2. r.s = c.s /\ r.error = "TypeMismatch"
      BY <1>1, <3>1 DEF Fails
    <3>3. Inner(s.terms, a, b)
      BY <2>1, <2>5 DEF Traced
    <3>4. \A m : Respects(m, s.terms, R) /\ Solves(m, E) => m[a] = m[b]
      BY <1>4
    <3>5. Refuting(R, s, E, c.s)
      BY <2>3, <3>3, <3>4, OccursRefutes, Zenon
    <3>6. QED
      BY <3>2, <3>5 DEF Resolved, E, r
  <2>6. CASE c.error # "none"
    <3>1. r = c /\ r.s = c.s
      BY <1>1, <2>2, <2>6
    <3>2. c.error # "TypeMismatch"
      BY <2>1 DEF Traced
    <3>3. QED
      BY <2>6, <3>1, <3>2 DEF Resolved, r
  <2>7. c.error = "none" => c.is \in BOOLEAN
    BY <2>1 DEF Searched
  <2>8. QED
    BY <2>4, <2>5, <2>6, <2>7, Zenon DEF r
<1>8. QED
  BY <1>6, <1>7 DEF r

\* What a is bound to leads neither to a, nor to b if b does not occur in it.
LEMMA RegionApart ==
  ASSUME NEW store, Sound(store), NEW a \in DOMAIN store, store[a].parent = Nothing,
         NEW x, x = store[a].binding, x # Nothing, NEW b, Grounded(store, b, {x})
  PROVE  \E P : Closed(store, P) /\ x \in P /\ a \notin P /\ b \notin P
<1>1. Links(store, a) = {x}
  BY DEF Links
<1>2. PICK T, h, bound : x \in T /\ GroundedIn(store, b, T, h, bound)
  BY DEF Grounded
<1> DEFINE P == {t \in T : h[t] <= h[x]}
<1>3. bound \in Nat /\ (\A t \in T : h[t] \in Nat) /\ T \subseteq DOMAIN store /\ b \notin T
  BY <1>2 DEF GroundedIn, Closed
<1>4. \A t \in T : Links(store, t) \subseteq T /\ \A z \in Links(store, t) : h[z] < h[t]
  BY <1>2 DEF GroundedIn, Closed
<1>5. a \in T => h[x] < h[a]
  BY <1>1, <1>4
<1>6. x \in P
  BY <1>2, <1>3
<1>7. a \notin P
  BY <1>2, <1>3, <1>5
<1>8. ASSUME NEW t \in P, NEW z \in Links(store, t) PROVE z \in P
  <2>1. z \in T /\ h[z] < h[t] /\ h[t] <= h[x] /\ h[z] \in Nat /\ h[t] \in Nat /\ h[x] \in Nat
    BY <1>2, <1>3, <1>4
  <2>2. h[z] <= h[x]
    BY <2>1
  <2>3. QED
    BY <2>1, <2>2
<1>9. Closed(store, P)
  <2>1. P \subseteq DOMAIN store
    BY <1>3
  <2> HIDE DEF P
  <2>2. QED
    BY <1>8, <2>1 DEF Closed
<1>10. b \notin P
  BY <1>3
<1>11. QED
  BY <1>6, <1>7, <1>9, <1>10

\* So does unifying two variables once they do not occur in each other.
LEMMA ResolvesApart ==
  ASSUME NEW unify, Unifies(unify), Resolves(unify), NEW s, NEW R, Apt(R, s),
         NEW a \in R, s.terms[a].name = NoName, s.terms[a].parent = Nothing,
         NEW b \in R, s.terms[b].name = NoName, s.terms[b].parent = Nothing,
         a # b,
         s.terms[a].binding # Nothing => Grounded(s.terms, b, {s.terms[a].binding}),
         s.terms[b].binding # Nothing => Grounded(s.terms, a, {s.terms[b].binding})
  PROVE  Resolved(R, s, a, b, UnifyApart(unify, s, a, b))
<1> DEFINE x == s.terms[a].binding
           y == s.terms[b].binding
           first == IF x # Nothing /\ y # Nothing THEN unify[Pair(s, x, y)]
                    ELSE Returns(s, IF x # Nothing THEN x ELSE y)
           r == UnifyApart(unify, s, a, b)
           F == {<<a, b>>}
           Y == Links(s.terms, a) \cup Links(s.terms, b)
<1>1. r = IF first.error = "none" THEN Returns(Merged(first.s, a, b, first.is), Root(first.s, a, b)) ELSE first
  <2> DEFINE f == first
  <2>1. r = Then(f, LAMBDA u, constraint : Returns(Merged(u, a, b, constraint), Root(u, a, b)))
    BY DEF UnifyApart
  <2> HIDE DEF f, r
  <2>2. r = IF f.error = "none" THEN Returns(Merged(f.s, a, b, f.is), Root(f.s, a, b)) ELSE f
    BY <2>1 DEF Then
  <2>3. QED
    BY <2>2 DEF f
<1>2. Good(s) /\ Closed(s.terms, R) /\ R \subseteq DOMAIN s.terms /\ Sound(s.terms)
  BY GoodTypes DEF Apt, Closed
<1>3. a \in DOMAIN s.terms /\ b \in DOMAIN s.terms
  BY <1>2
<1>4. /\ x # Nothing => x \in R /\ s.terms[x].name # NoName /\ Links(s.terms, a) = {x}
      /\ y # Nothing => y \in R /\ s.terms[y].name # NoName /\ Links(s.terms, b) = {y}
  BY <1>2 DEF Sound, Shaped, Closed, Links
<1>5. /\ x = Nothing => Links(s.terms, a) = {}
      /\ y = Nothing => Links(s.terms, b) = {}
  BY <1>2, <1>3, LinkedTo
<1>6. \A m : Solves(m, F) <=> m[a] = m[b]
  BY DEF Solves
<1>7. x # Nothing => \E P : Closed(s.terms, P) /\ x \in P /\ a \notin P /\ b \notin P
  <2> HIDE DEF r, first, Y
  <2> SUFFICES ASSUME x # Nothing PROVE \E P : Closed(s.terms, P) /\ x \in P /\ a \notin P /\ b \notin P
    OBVIOUS
  <2>1. Grounded(s.terms, b, {x})
    OBVIOUS
  <2>2. QED
    BY <1>2, <1>3, <2>1, RegionApart
<1>8. y # Nothing => \E P : Closed(s.terms, P) /\ y \in P /\ a \notin P /\ b \notin P
  <2> HIDE DEF r, first, Y
  <2> SUFFICES ASSUME y # Nothing PROVE \E P : Closed(s.terms, P) /\ y \in P /\ a \notin P /\ b \notin P
    OBVIOUS
  <2>1. Grounded(s.terms, a, {y})
    OBVIOUS
  <2>2. QED
    BY <1>2, <1>3, <2>1, RegionApart
<1> HIDE DEF r, F, Y
<1>9. ASSUME first.error = "none", NEW w, w = Merged(first.s, a, b, first.is), Solving(R, s, F, w),
             Same(w.terms, Grown(R, s, w), Root(first.s, a, b), a)
      PROVE  Resolved(R, s, a, b, r)
  <2>1. r.s = w /\ r.error = "none" /\ r.is = Root(first.s, a, b)
    BY <1>1, <1>9 DEF Returns
  <2>2. QED
    BY <1>9, <2>1 DEF Resolved, F
<1>10. CASE ~(x # Nothing /\ y # Nothing)
  <2> DEFINE c == IF x # Nothing THEN x ELSE y
             N == {}
  <2>1. first.s = s /\ first.is = c /\ first.error = "none"
    BY <1>10 DEF Returns
  <2>2. PICK P : Closed(s.terms, P) /\ (c # Nothing => c \in P) /\ a \notin P /\ b \notin P
    <3>1. CASE c = Nothing
      <4>1. Closed(s.terms, {})
        BY DEF Closed
      <4>2. QED
        BY <3>1, <4>1
    <3>2. CASE c # Nothing
      BY <1>7, <1>8, <3>2
    <3>3. QED
      BY <3>1, <3>2
  <2> DEFINE D == P \cap R
  <2>3. D \subseteq R /\ Closed(s.terms, D) /\ a \notin D /\ b \notin D /\ (c # Nothing => c \in D)
    BY <1>2, <1>4, <2>2 DEF Closed
  <2>4. Y = IF c = Nothing THEN {} ELSE {c}
    BY <1>4, <1>5, <1>10 DEF Y
  <2>5. c = Nothing \/ (c \in D /\ s.terms[c].name # NoName)
    BY <1>4, <2>3
  <2> HIDE DEF D, first, c
  <2>6. Apt(D, s)
    BY <2>3, AptInLess
  <2>7. Like(s, s)
    BY <1>2, GoodTypes DEF Like
  <2>8. Solving(D, s, N, s) /\ Grown(D, s, s) = D
    BY <2>6, <2>7, SolvingNothing
  <2>9. Went(D, s, s)
    BY <1>2, <2>3, WentItself
  <2>10. \A m : Solves(m, N)
    BY DEF Solves
  <2> HIDE DEF N
  <2>11. \A m : Respects(m, s.terms, R) /\ m[a] = m[b] => Solves(m, N)
    BY <2>10
  <2>12. \A m : Congruent(m, s.terms, D) /\ Respects(m, s.terms, D) /\ Solves(m, N) => \A z \in Y : m[c] = m[z]
    BY <2>4
  <2>13. c = Nothing <=> Y = {}
    BY <2>4
  <2> DEFINE w == Merged(s, a, b, c)
  <2> HIDE DEF w, x, y
  <2>14. Solving(R, s, F, w) /\ Same(w.terms, Grown(R, s, w), Root(s, a, b), a)
    <3>1. Y = Links(s.terms, a) \cup Links(s.terms, b) /\ w = Merged(s, a, b, c) /\ D = Grown(D, s, s)
      BY <2>8 DEF Y, w
    <3>2. Solving(D, s, N, s) /\ Shares(R, s, N, D, s, a, b, c, Y)
      BY <2>8, <2>11, <2>12, <2>13 DEF Shares
    <3>3. Solving(R, s, {<<a, b>>}, w) /\ Same(w.terms, Grown(R, s, w), Root(s, a, b), a)
      BY <2>3, <2>5, <2>9, <3>1, <3>2, MergedSolving, Zenon
    <3>4. QED
      BY <3>3 DEF F
  <2>15. QED
    BY <1>9, <2>1, <2>14 DEF w, r
<1>11. CASE x # Nothing /\ y # Nothing
  <2>1. PICK P : Closed(s.terms, P) /\ x \in P /\ a \notin P /\ b \notin P
    BY <1>7, <1>11
  <2>2. PICK Q : Closed(s.terms, Q) /\ y \in Q /\ a \notin Q /\ b \notin Q
    BY <1>8, <1>11
  <2> DEFINE D == (P \cup Q) \cap R
             G == {<<x, y>>}
  <2>3. D \subseteq R /\ Closed(s.terms, D) /\ a \notin D /\ b \notin D /\ x \in D /\ y \in D
    BY <1>2, <1>4, <1>11, <2>1, <2>2 DEF Closed
  <2>4. first = unify[Pair(s, x, y)]
    BY <1>11
  <2>5. Y = {x, y}
    BY <1>4, <1>11 DEF Y
  <2>6. \A m : Solves(m, G) <=> m[x] = m[y]
    BY DEF Solves
  <2>7. \A m : Respects(m, s.terms, R) => m[x] = m[a] /\ m[y] = m[b]
    BY <1>4, <1>11 DEF Respects
  <2>8. s.terms[x].name # NoName /\ s.terms[y].name # NoName
    BY <1>4, <1>11
  <2> HIDE DEF D, first, G, x, y
  <2>9. Apt(D, s)
    BY <2>3, AptInLess
  <2>10. Unified(D, s, x, y, first) /\ Resolved(D, s, x, y, first)
    BY <1>2, <2>3, <2>4, <2>9 DEF Unifies, Resolves
  <2>11. \A m : Respects(m, s.terms, R) /\ m[a] = m[b] => Solves(m, G)
    BY <2>6, <2>7
  <2>12. CASE first.error = "none"
    <3> DEFINE u == first.s
               K == Grown(D, s, u)
               c == first.is
               w == Merged(u, a, b, c)
    <3>1. Went(D, s, u) /\ c \in K /\ u.terms[c].name # NoName
      BY <2>8, <2>10, <2>12 DEF Unified
    <3>2. Solving(D, s, G, u) /\ Same(u.terms, K, c, x)
      BY <2>10, <2>12 DEF Resolved, G
    <3>3. c # Nothing
      <4>1. K \subseteq DOMAIN u.terms /\ Good(u)
        BY <1>2, <3>1, WentGood DEF Closed
      <4>2. QED
        BY <3>1, <4>1, GoodTypes DEF Nothing
    <3> HIDE DEF u, K, c
    <3>4. \A m : Congruent(m, u.terms, K) /\ Respects(m, u.terms, K) /\ Solves(m, G) => \A z \in Y : m[c] = m[z]
      <4> SUFFICES ASSUME NEW m, Congruent(m, u.terms, K), Respects(m, u.terms, K), Solves(m, G)
                   PROVE  \A z \in Y : m[c] = m[z]
        BY Zenon
      <4>1. m[c] = m[x]
        BY <3>2 DEF Same
      <4>2. QED
        BY <2>5, <2>6, <4>1
    <3>5. (c = Nothing <=> Y = {}) /\ (c = Nothing \/ (c \in K /\ u.terms[c].name # NoName))
      BY <2>5, <3>1, <3>3
    <3> HIDE DEF w
    <3>6. Solving(R, s, F, w) /\ Same(w.terms, Grown(R, s, w), Root(u, a, b), a)
      <4>1. Y = Links(s.terms, a) \cup Links(s.terms, b) /\ w = Merged(u, a, b, c) /\ K = Grown(D, s, u)
        BY DEF Y, w, K
      <4>2. Shares(R, s, G, K, u, a, b, c, Y)
        BY <2>11, <3>4, <3>5, Zenon DEF Shares
      <4>3. Solving(R, s, {<<a, b>>}, w) /\ Same(w.terms, Grown(R, s, w), Root(u, a, b), a)
        BY <2>3, <3>1, <3>2, <3>5, <4>1, <4>2, MergedSolving, Zenon
      <4>4. QED
        BY <4>3 DEF F
    <3>7. QED
      BY <1>9, <2>12, <3>6 DEF w, u, c, r
  <2>13. CASE first.error = "TypeMismatch"
    <3>1. Refuting(D, s, G, first.s)
      BY <2>10, <2>13 DEF Resolved, G
    <3>2. \A m : Respects(m, s.terms, R) /\ Solves(m, F) => Solves(m, G)
      BY <1>6, <2>11
    <3>3. Refuting(R, s, F, first.s)
      BY <2>3, <3>1, <3>2, RefutedInMore
    <3>4. r = first
      BY <1>1, <2>13
    <3>5. QED
      BY <2>13, <3>3, <3>4 DEF Resolved, F, r
  <2>14. CASE first.error # "none" /\ first.error # "TypeMismatch"
    <3>1. r = first
      BY <1>1, <2>14
    <3>2. QED
      BY <2>14, <3>1 DEF Resolved, r
  <2>15. QED
    BY <2>12, <2>13, <2>14 DEF r
<1>12. QED
  BY <1>10, <1>11 DEF r

\* A search on the way answers nothing.
LEMMA ResolvedAfter ==
  ASSUME NEW s, NEW R, Apt(R, s), NEW u, Like(s, u), u.variables = s.variables
  PROVE  /\ Apt(R, u)
         /\ \A left, right, r : Resolved(R, u, left, right, r) => Resolved(R, s, left, right, r)
<1>1. u.terms = s.terms /\ Good(u)
  BY LikeGood DEF Apt, Like
<1>2. \A w : Grown(R, u, w) = Grown(R, s, w)
  BY <1>1 DEF Grown
<1>3. Apt(R, u)
  BY <1>1 DEF Apt
<1>4. \A E, w : Solving(R, u, E, w) <=> Solving(R, s, E, w)
  BY <1>1, <1>2, Zenon DEF Solving, Implies, Follows
<1>5. \A E, w : Refuting(R, u, E, w) <=> Refuting(R, s, E, w)
  BY <1>1, Zenon DEF Refuting
<1>6. ASSUME NEW left, NEW right, NEW r, Resolved(R, u, left, right, r)
      PROVE  Resolved(R, s, left, right, r)
  BY <1>2, <1>4, <1>5, <1>6 DEF Resolved
<1>7. QED
  BY <1>3, <1>6

\* If a occurs in what b is bound to they stand for nothing in common.
LEMMA OccursApart ==
  ASSUME NEW s, NEW R, Apt(R, s), NEW a \in R, NEW b \in R,
         s.terms[b].name = NoName, s.terms[b].parent = Nothing,
         NEW y, y = s.terms[b].binding, y # Nothing, Inner(s.terms, a, y), NEW u, Like(s, u)
  PROVE  Refuting(R, s, {<<a, b>>}, u)
<1>1. Good(s) /\ Closed(s.terms, R) /\ R \subseteq DOMAIN s.terms /\ Sound(s.terms)
  BY GoodTypes DEF Apt, Closed
<1>2. y \in R /\ s.terms[y].name # NoName /\ Links(s.terms, b) = {y}
  BY <1>1 DEF Sound, Shaped, Closed, Links
<1> DEFINE E == {<<a, b>>}
<1>3. \A m : Solves(m, E) => m[a] = m[b]
  BY DEF Solves
<1>4. \A m : Respects(m, s.terms, R) => m[y] = m[b]
  BY <1>2 DEF Respects
<1> HIDE DEF E
<1>5. \A m : Respects(m, s.terms, R) /\ Solves(m, E) => m[a] = m[y]
  BY <1>3, <1>4
<1>6. Refuting(R, s, E, u)
  BY <1>2, <1>5, OccursRefutes, Zenon
<1>7. QED
  BY <1>6 DEF E

\* So it does if the second of them was searched for the first.
LEMMA ResolvesSecond ==
  ASSUME NEW unify, Unifies(unify), Resolves(unify), NEW occurs, Finds(occurs), Traces(occurs),
         NEW s, NEW R, Apt(R, s),
         NEW a \in R, s.terms[a].name = NoName, s.terms[a].parent = Nothing,
         NEW b \in R, s.terms[b].name = NoName, s.terms[b].parent = Nothing,
         a # b,
         s.terms[a].binding # Nothing => Grounded(s.terms, b, {s.terms[a].binding}),
         NEW y, y = s.terms[b].binding,
         NEW r, r = SecondApart(unify, occurs, s, a, b, y)
  PROVE  Resolved(R, s, a, b, r)
<1>1. /\ Good(s) /\ Closed(s.terms, R) /\ Sound(s.terms)
      /\ a \in DOMAIN s.terms /\ b \in DOMAIN s.terms
  BY GoodTypes DEF Apt, Closed
<1>2. CASE y = Nothing
  <2>1. r = UnifyApart(unify, s, a, b)
    BY <1>2 DEF SecondApart
  <2>2. s.terms[b].binding # Nothing => Grounded(s.terms, a, {s.terms[b].binding})
    BY <1>2
  <2>3. QED
    BY <2>1, <2>2, ResolvesApart, Zenon
<1>3. CASE y # Nothing
  <2> DEFINE c == occurs[Search(s, a, y)]
             last == UnifyApart(unify, c.s, a, b)
  <2>1. y \in DOMAIN s.terms
    BY <1>1, <1>3 DEF Sound, Shaped
  <2>2. Searched(s, a, {y}, c) /\ Traced(s, a, {y}, c)
    BY <1>1, <2>1, Zenon DEF Finds, Traces
  <2>3. r = IF c.error = "none" THEN (IF c.is THEN Fails(c.s, "TypeMismatch") ELSE last) ELSE c
    BY <1>3 DEF SecondApart, SearchedApart
  <2> HIDE DEF c
  <2>4. Like(s, c.s) /\ c.s.variables = s.variables /\ c.s.terms = s.terms
    BY <2>2 DEF Searched, Like
  <2>5. CASE c.error = "none" /\ c.is = FALSE
    <3>1. Grounded(s.terms, a, {y})
      BY <2>2, <2>5 DEF Searched
    <3>2. Apt(R, c.s)
      BY <2>4, ResolvedAfter
    <3>3. Resolved(R, c.s, a, b, last)
      BY <2>4, <3>1, <3>2, ResolvesApart, Zenon
    <3>4. r = last
      BY <2>3, <2>5
    <3> HIDE DEF last
    <3>5. QED
      BY <2>4, <3>3, <3>4, ResolvedAfter
  <2>6. CASE c.error = "none" /\ c.is = TRUE
    <3>1. r.s = c.s /\ r.error = "TypeMismatch"
      BY <2>3, <2>6 DEF Fails
    <3>2. Inner(s.terms, a, y)
      BY <2>2, <2>6 DEF Traced
    <3>3. Refuting(R, s, {<<a, b>>}, c.s)
      BY <1>3, <2>4, <3>2, OccursApart
    <3>4. QED
      BY <3>1, <3>3 DEF Resolved
  <2>7. CASE c.error # "none"
    <3>1. r = c /\ c.error # "TypeMismatch"
      BY <2>2, <2>3, <2>7 DEF Traced
    <3>2. QED
      BY <2>7, <3>1 DEF Resolved
  <2>8. c.error = "none" => c.is \in BOOLEAN
    BY <2>2 DEF Searched
  <2>9. QED
    BY <2>5, <2>6, <2>7, <2>8, Zenon
<1>4. QED
  BY <1>2, <1>3

\* Unifying two variables answers whether they are the same.
LEMMA ResolvesVariables ==
  ASSUME NEW unify, Unifies(unify), Resolves(unify), NEW occurs, Finds(occurs), Traces(occurs),
         NEW s, NEW R, Apt(R, s),
         NEW a \in R, s.terms[a].name = NoName, s.terms[a].parent = Nothing,
         NEW b \in R, s.terms[b].name = NoName, s.terms[b].parent = Nothing,
         a # b
  PROVE  Resolved(R, s, a, b, UnifyVariables(unify, occurs, s, a, b))
<1> DEFINE x == s.terms[a].binding
           y == s.terms[b].binding
           r == UnifyVariables(unify, occurs, s, a, b)
           second(u) == SecondApart(unify, occurs, u, a, b, y)
<1>1. /\ Good(s) /\ Closed(s.terms, R) /\ Sound(s.terms)
      /\ a \in DOMAIN s.terms /\ b \in DOMAIN s.terms
  BY GoodTypes DEF Apt, Closed
<1>2. CASE x = Nothing
  <2>1. r = second(s)
    BY <1>2 DEF UnifyVariables, SecondApart, SearchedApart, Absent, Then
  <2>2. Resolved(R, s, a, b, second(s))
    BY <1>2, ResolvesSecond, Zenon
  <2> HIDE DEF r, second
  <2>3. Resolved(R, s, a, b, r)
    BY <2>1, <2>2
  <2>4. QED
    BY <2>3 DEF r
<1>3. CASE x # Nothing
  <2> DEFINE c == occurs[Search(s, b, x)]
             last == second(c.s)
  <2>1. x \in DOMAIN s.terms
    BY <1>1, <1>3 DEF Sound, Shaped
  <2>2. Searched(s, b, {x}, c) /\ Traced(s, b, {x}, c)
    BY <1>1, <2>1, Zenon DEF Finds, Traces
  <2>3. r = IF c.error = "none" THEN (IF c.is THEN Fails(c.s, "TypeMismatch") ELSE last) ELSE c
    BY <1>3 DEF UnifyVariables, SecondApart, SearchedApart, Absent, Then
  <2> HIDE DEF c
  <2>4. Like(s, c.s) /\ c.s.variables = s.variables /\ c.s.terms = s.terms
    BY <2>2 DEF Searched, Like
  <2> HIDE DEF r
  <2>5. CASE c.error = "none" /\ c.is = FALSE
    <3>1. Grounded(s.terms, b, {x})
      BY <2>2, <2>5 DEF Searched
    <3>2. Apt(R, c.s)
      BY <2>4, ResolvedAfter
    <3>3. Resolved(R, c.s, a, b, last)
      BY <2>4, <3>1, <3>2, ResolvesSecond, Zenon
    <3>4. r = last
      BY <2>3, <2>5
    <3> HIDE DEF last
    <3>5. QED
      BY <2>4, <3>3, <3>4, ResolvedAfter DEF r
  <2>6. CASE c.error = "none" /\ c.is = TRUE
    <3>1. r.s = c.s /\ r.error = "TypeMismatch"
      BY <2>3, <2>6 DEF Fails
    <3>2. Inner(s.terms, b, x)
      BY <2>2, <2>6 DEF Traced
    <3>3. Refuting(R, s, {<<b, a>>}, c.s)
      BY <1>3, <2>4, <3>2, OccursApart
    <3>4. Refuting(R, s, {<<a, b>>}, c.s)
      BY <3>3 DEF Refuting, Solves
    <3>5. QED
      BY <3>1, <3>4 DEF Resolved, r
  <2>7. CASE c.error # "none"
    <3>1. r = c /\ c.error # "TypeMismatch"
      BY <2>2, <2>3, <2>7 DEF Traced
    <3>2. QED
      BY <2>7, <3>1 DEF Resolved, r
  <2>8. c.error = "none" => c.is \in BOOLEAN
    BY <2>2 DEF Searched
  <2>9. QED
    BY <2>5, <2>6, <2>7, <2>8, Zenon DEF r
<1>4. QED
  BY <1>2, <1>3

-----------------------------------------------------------------------------
(* unify: named terms *)

\* What unification works on, it can go on to work on.
LEMMA AptAfter ==
  ASSUME NEW s, NEW R, Apt(R, s), NEW u, Reached(R, s, u), NEW E, Solving(R, s, E, u)
  PROVE  Apt(Grown(R, s, u), u)
BY ReachedGood DEF Apt, Solving

\* A new term says nothing of those that there are.
LEMMA AppendSolving ==
  ASSUME NEW u, NEW G, Apt(G, u), NEW term, Fits(u, term), ~Gradual(term),
         \A i \in DOMAIN term.parameters : term.parameters[i] \in G,
         NEW w, w.variables = u.variables, w.terms = Append(u.terms, term), w.changes = u.changes,
         w \in Stores, w.remaining <= u.remaining
  PROVE  Solving(G, u, {}, w)
<1> DEFINE n == Len(u.terms) + 1
           S == Grown(G, u, w)
<1>1. Good(u) /\ Closed(u.terms, G) /\ Ends(u.terms, G) /\ Exact(u.terms, G) /\ G \subseteq DOMAIN u.terms
  BY DEF Apt, Closed
<1>2. /\ Good(w) /\ Later(u, w) /\ n \notin DOMAIN u.terms /\ w.terms[n] = term
      /\ \A t \in DOMAIN u.terms : w.terms[t] = u.terms[t]
      /\ S = G \cup {n}
  BY <1>1, AppendReached
<1>3. \A t \in G : w.terms[t] = u.terms[t] /\ Links(w.terms, t) = Links(u.terms, t) /\ Links(u.terms, t) \subseteq G
  <2> SUFFICES ASSUME NEW t \in G
               PROVE  w.terms[t] = u.terms[t] /\ Links(w.terms, t) = Links(u.terms, t) /\ Links(u.terms, t) \subseteq G
    BY Zenon
  <2>1. w.terms[t] = u.terms[t]
    BY <1>1, <1>2
  <2>2. Links(w.terms, t) = Links(u.terms, t)
    BY <2>1, Zenon DEF Links
  <2>3. Links(u.terms, t) \subseteq G
    BY <1>1 DEF Closed
  <2>4. QED
    BY <2>1, <2>2, <2>3
<1>4. Links(w.terms, n) \subseteq G /\ (term.name = NoName => Links(w.terms, n) = {})
  <2>1. term = Named(term.name, term.parameters) /\ (term.name = NoName => term.parameters = <<>>)
    BY DEF Fits
  <2>2. term.parent = Nothing /\ term.binding = Nothing
    BY <2>1 DEF Named
  <2>3. Links(w.terms, n) = {term.parameters[i] : i \in DOMAIN term.parameters}
    BY <1>2, <2>2 DEF Links
  <2>4. QED
    BY <2>1, <2>3
<1> HIDE DEF n, S
<1>5. Ends(w.terms, S)
  <2>1. PICK h : Descends(h, u.terms, G)
    BY <1>1 DEF Ends
  <2>2. Descends(h, w.terms, G)
    BY <1>3, <2>1 DEF Descends
  <2>3. Ends(w.terms, G)
    BY <2>2 DEF Ends
  <2>4. EndsAt(w.terms, {n}, G)
    <3> DEFINE e == [t \in {n} |-> 0]
    <3>1. e \in [{n} -> 0..0]
      OBVIOUS
    <3>2. \A t \in {n} : \A y \in Links(w.terms, t) : y \in G \/ (y \in {n} /\ e[y] < e[t])
      BY <1>4
    <3> HIDE DEF e
    <3>3. QED
      BY <3>1, <3>2 DEF EndsAt
  <2>5. {n} \cap G = {}
    BY <1>1, <1>2
  <2>6. \A t \in G : Links(w.terms, t) \subseteq G
    BY <1>3
  <2>7. QED
    BY <1>2, <2>3, <2>4, <2>5, <2>6, EndsOver
<1>6. Exact(w.terms, S)
  BY <1>1, <1>2, <1>3, Zenon DEF Exact
<1>7. \A m : Respects(m, w.terms, S) <=> Respects(m, u.terms, G)
  <2> SUFFICES ASSUME NEW m PROVE Respects(m, w.terms, S) <=> Respects(m, u.terms, G)
    OBVIOUS
  <2>1. Respects(m, w.terms, G) <=> Respects(m, u.terms, G)
    BY <1>3, Zenon DEF Respects
  <2>2. Respects(m, w.terms, {n})
    BY <1>2, <1>4, Zenon DEF Respects
  <2>3. QED
    BY <1>2, <2>1, <2>2, Zenon DEF Respects
<1>8. \A m : Solves(m, {})
  BY DEF Solves
<1>9. Implies(G, u, {}, w)
  BY <1>7, <1>8 DEF Implies, S
<1>10. Follows(G, u, {}, w)
  BY <1>7 DEF Follows, S
<1>11. QED
  BY <1>5, <1>6, <1>9, <1>10 DEF Solving, S

\* What was the same stays the same.
LEMMA SameLater ==
  ASSUME NEW s1, NEW S, Apt(S, s1), NEW s2, Later(s1, s2), NEW F, Solving(S, s1, F, s2), NEW t, NEW u,
         Same(s1.terms, S, t, u)
  PROVE  Same(s2.terms, Grown(S, s1, s2), t, u)
<1> SUFFICES ASSUME NEW m, Congruent(m, s2.terms, Grown(S, s1, s2)), Respects(m, s2.terms, Grown(S, s1, s2))
             PROVE  m[t] = m[u]
  BY DEF Same
<1>1. Good(s1) /\ S \subseteq DOMAIN s1.terms
  BY DEF Apt, Closed
<1>2. Congruent(m, s1.terms, S)
  BY <1>1, CongruentEarlier
<1>3. Respects(m, s1.terms, S)
  BY DEF Solving, Implies
<1>4. QED
  BY <1>2, <1>3 DEF Same

\* The first n elements of two sequences.
Zipped(xs, ys, n) == {<<xs[i], ys[i]>> : i \in 1..n}

LEMMA ZippedSolves ==
  ASSUME NEW m, NEW xs, NEW ys, NEW n \in Nat
  PROVE  Solves(m, Zipped(xs, ys, n)) <=> \A i \in 1..n : m[xs[i]] = m[ys[i]]
<1>1. ASSUME Solves(m, Zipped(xs, ys, n)), NEW i \in 1..n PROVE m[xs[i]] = m[ys[i]]
  <2>1. <<xs[i], ys[i]>> \in Zipped(xs, ys, n)
    BY DEF Zipped
  <2>2. QED
    BY <1>1, <2>1 DEF Solves
<1>2. ASSUME \A i \in 1..n : m[xs[i]] = m[ys[i]], NEW pair \in Zipped(xs, ys, n) PROVE m[pair[1]] = m[pair[2]]
  BY <1>2 DEF Zipped
<1>3. QED
  BY <1>1, <1>2 DEF Solves

ResolvedAll(R, s0, xs, ys, n, r) ==
  /\ r.error = "none" =>
       /\ Solving(R, s0, Zipped(xs, ys, n), r.s)
       /\ \A i \in 1..n : Same(r.s.terms, Grown(R, s0, r.s), r.is[i], xs[i])
  /\ r.error = "TypeMismatch" => Refuting(R, s0, Zipped(xs, ys, Len(xs)), r.s)

\* Unifying parameters answers whether all pairs of them are the same.
LEMMA ResolvesAll ==
  ASSUME NEW unify, Unifies(unify), Resolves(unify), NEW s, NEW R, Apt(R, s),
         NEW xs \in Seq(R), NEW ys, \A i \in 1..Len(xs) : ys[i] \in R
  PROVE  UnifiedAll(R, s, Len(xs), UnifyAll(unify, s, xs, ys)) /\ ResolvedAll(R, s, xs, ys, Len(xs), UnifyAll(unify, s, xs, ys))
<1> DEFINE size == Len(xs)
           step == [q \in Steps |-> unify[Pair(q.s, xs[q.i], ys[q.i])]]
<1>0. Good(s) /\ Closed(s.terms, R) /\ R \subseteq DOMAIN s.terms
  BY DEF Apt, Closed
<1>1. size \in Nat
  OBVIOUS
<1>2. PICK f : EachUpto(f, step, s, size) /\ Each(step, s, size) = f[size]
  <2> HIDE DEF size, step
  <2> QED BY <1>1, EachDefinition
<1>3. UnifyAll(unify, s, xs, ys) = f[size]
  BY <1>2 DEF UnifyAll
<1> DEFINE T == {n \in 0..size : UnifiedAll(R, s, n, f[n]) /\ ResolvedAll(R, s, xs, ys, n, f[n])}
<1>4. 0 \in T
  <2>1. f[0].s = s /\ f[0].error = "none" /\ f[0].is = <<>>
    BY <1>2 DEF EachUpto, Returns
  <2>2. Went(R, s, s)
    BY <1>0, WentItself
  <2>3. UnifiedAll(R, s, 0, f[0])
    BY <2>1, <2>2 DEF UnifiedAll
  <2>4. Like(s, s)
    BY <1>0, GoodTypes DEF Like
  <2>5. Solving(R, s, {}, s)
    BY <2>4, SolvingNothing
  <2>6. Zipped(xs, ys, 0) = {} /\ 1..0 = {}
    BY DEF Zipped
  <2>7. ResolvedAll(R, s, xs, ys, 0, f[0])
    BY <2>1, <2>5, <2>6, Zenon DEF ResolvedAll
  <2>8. QED
    BY <1>1, <2>3, <2>7
<1>5. ASSUME NEW n \in 1..size, n - 1 \in T PROVE n \in T
  <2> DEFINE q == f[n - 1]
             S == Grown(R, s, q.s)
             a == unify[Pair(q.s, xs[n], ys[n])]
             e == f[n]
             F == {<<xs[n], ys[n]>>}
  <2>1. UnifiedAll(R, s, n - 1, q) /\ ResolvedAll(R, s, xs, ys, n - 1, q)
    BY <1>5
  <2>2. Went(R, s, q.s) /\ q.s.variables = s.variables
    BY <2>1 DEF UnifiedAll
  <2>3. Good(q.s) /\ Closed(q.s.terms, S) /\ R \subseteq S
    BY <1>0, <2>2, WentGood
  <2>4. step[[s |-> q.s, i |-> n]] = a
    <3>1. [s |-> q.s, i |-> n] \in Steps
      BY <2>3, <1>1, GoodTypes DEF Steps
    <3>2. QED
      BY <3>1
  <2>5. e = IF q.error # "none" THEN q
            ELSE IF a.error = "none" THEN Returns(a.s, Append(q.is, a.is)) ELSE a
    <3> HIDE DEF step, a
    <3> QED BY <1>2, <2>4 DEF EachUpto, After, Then
  <2>6. Zipped(xs, ys, n) = Zipped(xs, ys, n - 1) \cup F
    <3>1. 1..n = 1..(n - 1) \cup {n}
      BY <1>1
    <3>2. QED
      BY <3>1 DEF Zipped
  <2>7. n \in Nat /\ n <= size /\ n - 1 \in Nat
    BY <1>1
  <2> HIDE DEF F, T, e
  <2>8. CASE q.error # "none"
    <3>1. UnifiedAll(R, s, n, e)
      BY <2>1, <2>5, <2>8 DEF UnifiedAll
    <3>2. ResolvedAll(R, s, xs, ys, n, e)
      BY <2>1, <2>5, <2>8 DEF ResolvedAll
    <3>3. QED
      BY <3>1, <3>2 DEF T, e
  <2>9. CASE q.error = "none"
    <3>1. xs[n] \in S /\ ys[n] \in S
      BY <2>3
    <3>2. Solving(R, s, Zipped(xs, ys, n - 1), q.s)
      BY <2>1, <2>9 DEF ResolvedAll
    <3>3. Apt(S, q.s)
      BY <2>2, <3>2, AptAfter DEF Went
    <3>4. Unified(S, q.s, xs[n], ys[n], a) /\ Resolved(S, q.s, xs[n], ys[n], a)
      <4> HIDE DEF S, q
      <4> QED BY <2>3, <3>1, <3>3 DEF Unifies, Resolves
    <3>5. Went(S, q.s, a.s) /\ a.s.variables = q.s.variables
      BY <3>4 DEF Unified
    <3>6. Went(R, s, a.s) /\ Grown(S, q.s, a.s) = Grown(R, s, a.s)
      BY <1>0, <2>2, <3>5, WentWent
    <3>7. S \subseteq Grown(R, s, a.s)
      BY <1>0, <2>2, <3>5, GrownGrows DEF Went, Reached
    <3>8. Reached(R, s, q.s) /\ Reached(S, q.s, a.s) /\ Later(q.s, a.s)
      BY <2>2, <3>5 DEF Went, Reached
    <3>9. q.is \in Seq(S) /\ Len(q.is) = n - 1
      BY <2>1, <2>9 DEF UnifiedAll
    <3> DEFINE K == Grown(R, s, a.s)
    <3>10. CASE a.error = "none"
      <4>1. e.s = a.s /\ e.error = "none" /\ e.is = Append(q.is, a.is)
        BY <2>5, <2>9, <3>10 DEF Returns
      <4>2. a.is \in K
        BY <3>4, <3>6, <3>10 DEF Unified
      <4>3. q.is \in Seq(K)
        BY <3>7, <3>9, WiderSequence
      <4> HIDE DEF K, q, a, S
      <4>4. e.is \in Seq(K) /\ Len(e.is) = n /\ e.is[n] = a.is /\ \A i \in 1..(n - 1) : e.is[i] = q.is[i]
        BY <2>7, <3>9, <4>1, <4>2, <4>3
      <4>5. UnifiedAll(R, s, n, e)
        BY <2>2, <3>5, <3>6, <4>1, <4>4 DEF UnifiedAll, K
      <4>6. Solving(S, q.s, F, a.s) /\ Same(a.s.terms, K, a.is, xs[n])
        BY <3>4, <3>6, <3>10 DEF Resolved, F, K
      <4>7. Solving(R, s, Zipped(xs, ys, n), a.s)
        BY <1>0, <2>6, <3>2, <3>8, <4>6, SolvingSolving DEF S
      <4>8. ASSUME NEW i \in 1..n PROVE Same(e.s.terms, Grown(R, s, e.s), e.is[i], xs[i])
        <5>1. CASE i = n
          BY <4>1, <4>4, <4>6, <5>1 DEF K
        <5>2. CASE i # n
          <6>1. i \in 1..(n - 1)
            BY <2>7, <5>2
          <6>2. Same(q.s.terms, S, q.is[i], xs[i])
            BY <2>1, <2>9, <6>1 DEF ResolvedAll, S
          <6>3. Same(a.s.terms, K, q.is[i], xs[i])
            BY <3>3, <3>6, <3>8, <4>6, <6>2, SameLater, Zenon DEF K
          <6>4. QED
            BY <4>1, <4>4, <6>1, <6>3 DEF K
        <5>3. QED
          BY <5>1, <5>2
      <4>9. ResolvedAll(R, s, xs, ys, n, e)
        BY <4>1, <4>7, <4>8, Zenon DEF ResolvedAll
      <4>10. QED
        BY <4>5, <4>9 DEF T, e
    <3>11. CASE a.error # "none"
      <4>1. e = a
        BY <2>5, <2>9, <3>11
      <4>2. UnifiedAll(R, s, n, e)
        BY <2>2, <3>5, <3>6, <3>11, <4>1 DEF UnifiedAll
      <4>3. ASSUME a.error = "TypeMismatch" PROVE Refuting(R, s, Zipped(xs, ys, size), a.s)
        <5>1. Refuting(S, q.s, F, a.s)
          BY <3>4, <4>3 DEF Resolved, F
        <5>2. Refuting(R, s, Zipped(xs, ys, n), a.s)
          BY <1>0, <2>6, <3>2, <3>8, <5>1, SolvingRefuting
        <5>3. Zipped(xs, ys, n) \subseteq Zipped(xs, ys, size)
          <6>1. 1..n \subseteq 1..size
            BY <1>1, <2>7
          <6> HIDE DEF size
          <6>2. QED
            BY <6>1 DEF Zipped
        <5> HIDE DEF size
        <5>4. \A m : Solves(m, Zipped(xs, ys, size)) => Solves(m, Zipped(xs, ys, n))
          BY <5>3 DEF Solves
        <5>5. QED
          BY <5>2, <5>4 DEF Refuting
      <4> HIDE DEF a, q
      <4>4. ResolvedAll(R, s, xs, ys, n, e)
        BY <3>11, <4>1, <4>3 DEF ResolvedAll
      <4>5. QED
        BY <4>2, <4>4 DEF T, e
    <3>12. QED
      BY <3>10, <3>11
  <2>10. QED
    BY <2>8, <2>9
<1>6. size \in T
  <2> HIDE DEF T, size
  <2>1. 0..size \subseteq T
    BY <1>1, <1>4, <1>5, Induction, Zenon
  <2>2. QED
    BY <1>1, <2>1
<1>7. QED
  BY <1>3, <1>6

\* Named terms that are the same are made of the same.
LEMMA ZippedFollows ==
  ASSUME NEW s, Good(s), NEW a \in DOMAIN s.terms, s.terms[a].name # NoName,
         NEW b \in DOMAIN s.terms, s.terms[b].name # NoName,
         NEW m, Solution(m, s.terms), m[a] = m[b], NEW xs, xs = s.terms[a].parameters, NEW ys, ys = s.terms[b].parameters
  PROVE  Solves(m, Zipped(xs, ys, Len(xs))) /\ s.terms[a].name = s.terms[b].name /\ Len(xs) = Len(ys)
<1>1. Alike(m, s.terms, a, b)
  BY DEF Solution, Free
<1>2. xs \in Seq(Nat) /\ ys \in Seq(Nat)
  BY TermTypes, GoodTypes
<1>3. s.terms[a].name = s.terms[b].name /\ Len(xs) = Len(ys) /\ \A i \in DOMAIN xs : m[xs[i]] = m[ys[i]]
  BY <1>1 DEF Alike
<1>4. Len(xs) \in Nat /\ DOMAIN xs = 1..Len(xs)
  BY <1>2
<1>5. Solves(m, Zipped(xs, ys, Len(xs)))
  BY <1>3, <1>4, ZippedSolves
<1>6. QED
  BY <1>3, <1>5

\* The term that is made of what the parts of a and b unified to.
LEMMA ResolvesMade ==
  ASSUME NEW s, NEW R, Apt(R, s), NEW a \in R, s.terms[a].name # NoName, NEW b \in R, s.terms[b].name = s.terms[a].name,
         NEW xs, xs = s.terms[a].parameters, NEW ys, ys = s.terms[b].parameters, Len(xs) = Len(ys),
         NEW u, Went(R, s, u), NEW G, G = Grown(R, s, u), NEW E, E = Zipped(xs, ys, Len(xs)), Solving(R, s, E, u),
         NEW ts \in Seq(G), Len(ts) = Len(xs), \A i \in 1..Len(xs) : Same(u.terms, G, ts[i], xs[i]),
         NEW r, r = NewTerm(u, Named(s.terms[a].name, ts))
  PROVE  Resolved(R, s, a, b, r)
<1> DEFINE name == s.terms[a].name
           term == Named(name, ts)
           F == {<<a, b>>}
<1>1. /\ Good(s) /\ Closed(s.terms, R) /\ Sound(s.terms) /\ R \subseteq DOMAIN s.terms
      /\ a \in DOMAIN s.terms /\ b \in DOMAIN s.terms
  BY GoodTypes DEF Apt, Closed
<1>2. /\ Good(u) /\ Later(s, u) /\ Closed(u.terms, G) /\ R \subseteq G /\ G \subseteq DOMAIN u.terms /\ Reached(R, s, u)
  BY <1>1, WentGood DEF Closed, Went
<1>3. xs \in Seq(Nat) /\ ys \in Seq(Nat) /\ name \in Names /\ Len(xs) \in Nat /\ DOMAIN xs = 1..Len(xs)
  BY <1>1, TermTypes DEF Sound
<1>4. ~Gradual(s.terms[a])
  BY DEF Apt, Exact
<1>5. term.name = name /\ term.parameters = ts /\ term = Named(term.name, term.parameters)
  BY DEF Named
<1>6. Len(ts) = 0 => ts = <<>>
  OBVIOUS
<1>7. name # NoName /\ name # "wrapper" /\ (name = "type" => ts = <<>>)
  <2>1. name # "wrapper" /\ (name = "type" => xs = <<>>)
    BY <1>4 DEF Gradual
  <2>2. Len(<<>>) = 0
    OBVIOUS
  <2>3. QED
    BY <1>6, <2>1, <2>2
<1>8. Fits(u, term) /\ ~Gradual(term)
  <2>1. ts \in Seq(DOMAIN u.terms)
    BY <1>2
  <2> HIDE DEF term, name
  <2>2. Fits(u, term)
    BY <1>3, <1>5, <1>7, <2>1 DEF Fits
  <2>3. ~Gradual(term)
    BY <1>4, <1>5, <1>7 DEF Gradual, name
  <2>4. QED
    BY <2>2, <2>3
<1>9. \A i \in DOMAIN term.parameters : term.parameters[i] \in G
  BY <1>5
<1>10. CASE r = Fails(u, "CheckLimitExceeded")
  BY <1>10 DEF Fails, Resolved
<1>11. CASE /\ r.error = "none" /\ r.is = Len(u.terms) + 1 /\ r.s.variables = u.variables
            /\ r.s.changes = u.changes /\ r.s.terms = Append(u.terms, term)
            /\ r.s \in Stores /\ r.s.remaining <= u.remaining
  <2> DEFINE w == r.s
             n == r.is
             S == Grown(R, s, w)
  <2> HIDE DEF term, name, F
  <2>1. Apt(G, u)
    BY <1>2, AptAfter
  <2>2. Solving(G, u, {}, w)
    BY <1>8, <1>9, <1>11, <2>1, AppendSolving, Zenon
  <2>3. /\ Reached(G, u, w) /\ Good(w) /\ Later(u, w) /\ w.terms[n] = term
        /\ Grown(G, u, w) = G \cup {n}
    <3> DEFINE k == Len(u.terms) + 1
    <3>1. /\ w.variables = u.variables /\ w.changes = u.changes /\ w.terms = Append(u.terms, term)
          /\ w \in Stores /\ w.remaining <= u.remaining /\ n = k
      BY <1>11
    <3> HIDE DEF w, n, S
    <3>2. /\ Good(w) /\ Later(u, w) /\ w.terms[k] = term
          /\ \A Q : Closed(u.terms, Q) /\ (\A i \in DOMAIN term.parameters : term.parameters[i] \in Q) =>
                     Reached(Q, u, w) /\ Grown(Q, u, w) = Q \cup {k}
      BY <1>2, <1>8, <3>1, AppendReached
    <3> HIDE DEF k
    <3>3. Reached(G, u, w) /\ Grown(G, u, w) = G \cup {k}
      BY <1>2, <1>9, <3>2
    <3>4. QED
      BY <3>1, <3>2, <3>3
  <2>4. Reached(R, s, w) /\ S = G \cup {n}
    BY <1>1, <1>2, <2>3, ReachedReached
  <2>5. Solving(R, s, E, w)
    <3>1. Solving(R, s, E \cup {}, w)
      <4> DEFINE N == {}
      <4>1. Solving(G, u, N, w)
        BY <2>2
      <4> HIDE DEF N
      <4>2. Solving(R, s, E \cup N, w)
        BY <1>1, <1>2, <2>3, <4>1, SolvingSolving
      <4>3. QED
        BY <4>2 DEF N
    <3>2. E \cup {} = E
      OBVIOUS
    <3>3. QED
      BY <3>1, <3>2
  <2> HIDE DEF w, n, S
  <2>6. Later(s, w)
    BY <2>4 DEF Reached
  <2>7. /\ w.terms[a].name = name /\ w.terms[a].parameters = xs /\ w.terms[b].name = name /\ w.terms[b].parameters = ys
        /\ a \in S /\ b \in S /\ n \in S
    BY <1>1, <1>2, <2>4, <2>6, Zenon DEF Later, name
  <2>8. \A m : Congruent(m, w.terms, S) /\ Respects(m, s.terms, R) /\ Solves(m, E) => Solves(m, F)
    <3> SUFFICES ASSUME NEW m, Congruent(m, w.terms, S), Solves(m, E) PROVE Solves(m, F)
      BY Zenon
    <3>1. \A i \in DOMAIN xs : m[xs[i]] = m[ys[i]]
      <4>1. Solves(m, Zipped(xs, ys, Len(xs))) /\ Len(xs) \in Nat
        BY <1>3
      <4>2. \A i \in 1..Len(xs) : m[xs[i]] = m[ys[i]]
        BY <4>1, ZippedSolves
      <4>3. QED
        BY <1>3, <4>2, Zenon
    <3>2. Alike(m, w.terms, a, b)
      BY <2>7, <3>1 DEF Alike
    <3>3. m[a] = m[b]
      BY <1>7, <2>7, <3>2 DEF Congruent
    <3>4. QED
      BY <3>3 DEF Solves, F
  <2>9. \A m : Solution(m, s.terms) /\ Respects(m, s.terms, R) /\ Solves(m, F) => Solves(m, E)
    <3> SUFFICES ASSUME NEW m, Solution(m, s.terms), Solves(m, F) PROVE Solves(m, E)
      BY Zenon
    <3>1. m[a] = m[b]
      BY DEF Solves, F
    <3>2. s.terms[b].name # NoName
      BY <1>7 DEF name
    <3>3. QED
      BY <1>1, <3>1, <3>2, ZippedFollows
  <2>10. Solving(R, s, F, w)
    BY <1>1, <2>5, <2>6, <2>8, <2>9, SolvingEquivalent DEF S
  <2>11. Same(w.terms, S, n, a)
    <3> SUFFICES ASSUME NEW m, Congruent(m, w.terms, S), Respects(m, w.terms, S) PROVE m[n] = m[a]
      BY DEF Same
    <3>1. Congruent(m, u.terms, G)
      BY <1>2, <2>3, <2>4, CongruentEarlier, Zenon
    <3>2. Respects(m, u.terms, G)
      BY <2>2, <2>3, <2>4, Zenon DEF Solving, Implies
    <3>3. \A i \in 1..Len(xs) : m[ts[i]] = m[xs[i]]
      BY <3>1, <3>2 DEF Same
    <3>4. DOMAIN ts = 1..Len(xs)
      OBVIOUS
    <3>5. Alike(m, w.terms, n, a)
      BY <1>5, <2>3, <2>7, <3>3, <3>4, Zenon DEF Alike
    <3>6. w.terms[n].name # NoName
      BY <1>5, <1>7, <2>3
    <3>7. QED
      BY <2>7, <3>5, <3>6 DEF Congruent
  <2>12. QED
    BY <1>11, <2>10, <2>11 DEF Resolved, w, n, S, F
<1>12. QED
  <2> HIDE DEF term
  <2>1. r = NewTerm(u, term)
    BY DEF term
  <2>2. QED
    BY <1>2, <1>8, <1>10, <1>11, <2>1, NewTerms

\* Unifying named terms answers whether they are the same.
LEMMA ResolvesNamed ==
  ASSUME NEW unify, Unifies(unify), Resolves(unify), NEW s, NEW R, Apt(R, s),
         NEW a \in R, NEW b \in R, s.terms[a].name # NoName, s.terms[b].name # NoName
  PROVE  Resolved(R, s, a, b, UnifyNamed(unify, s, a, b))
<1> DEFINE x == s.terms[a]
           y == s.terms[b]
           r == UnifyNamed(unify, s, a, b)
           all == UnifyAll(unify, s, x.parameters, y.parameters)
           F == {<<a, b>>}
<1>1. /\ Good(s) /\ Closed(s.terms, R) /\ Sound(s.terms) /\ R \subseteq DOMAIN s.terms
      /\ a \in DOMAIN s.terms /\ b \in DOMAIN s.terms
  BY GoodTypes DEF Apt, Closed
<1>2. ~Gradual(x) /\ ~Gradual(y)
  BY DEF Apt, Exact
<1>3. \/ x.name # y.name /\ r = Fails(s, "TypeMismatch")
      \/ x.name = y.name /\ x.name = "type" /\ r = NewTerm(s, Named("type", <<>>))
      \/ Len(x.parameters) # Len(y.parameters) /\ r = Fails(s, "TypeMismatch")
      \/ /\ x.name = y.name /\ Len(x.parameters) = Len(y.parameters)
         /\ r = Then(all, LAMBDA u, ts : NewTerm(u, Named(x.name, ts)))
  BY <1>2 DEF UnifyNamed, Gradual
<1>4. x.parameters \in Seq(Nat) /\ y.parameters \in Seq(Nat)
  BY <1>1, TermTypes DEF Sound
<1>5. x.parameters \in Seq(R) /\ y.parameters \in Seq(R)
  <2>1. /\ \A i \in 1..Len(x.parameters) : x.parameters[i] \in R
        /\ \A i \in 1..Len(y.parameters) : y.parameters[i] \in R
    <3>1. /\ Links(s.terms, a) = {x.parameters[i] : i \in DOMAIN x.parameters}
          /\ Links(s.terms, b) = {y.parameters[i] : i \in DOMAIN y.parameters}
      BY <1>1, LinkedTo
    <3>2. Links(s.terms, a) \subseteq R /\ Links(s.terms, b) \subseteq R
      BY <1>1 DEF Closed
    <3> HIDE DEF x, y
    <3>3. QED
      BY <1>4, <3>1, <3>2
  <2> HIDE DEF x, y
  <2>2. QED
    BY <1>4, <2>1, ElementsIn
<1> HIDE DEF r, F
<1>6. \A m : Solves(m, F) <=> m[a] = m[b]
  BY DEF Solves, F
<1>7. CASE (x.name # y.name \/ Len(x.parameters) # Len(y.parameters)) /\ r = Fails(s, "TypeMismatch")
  <2>1. Refuting(R, s, F, s)
    <3> SUFFICES ASSUME NEW m, Solution(m, s.terms), Solves(m, F) PROVE FALSE
      BY DEF Refuting
    <3>1. m[a] = m[b]
      BY <1>6
    <3>2. QED
      BY <1>1, <1>7, <3>1, ZippedFollows
  <2>2. QED
    BY <1>7, <2>1 DEF Resolved, Fails, r, F
<1>8. CASE x.name = y.name /\ x.name = "type" /\ r = NewTerm(s, Named("type", <<>>))
  <2>1. x.parameters = <<>> /\ y.parameters = <<>>
    BY <1>2, <1>8 DEF Gradual
  <2>2. Like(s, s)
    BY <1>1, GoodTypes DEF Like
  <2>3. Solving(R, s, {}, s) /\ Grown(R, s, s) = R
    BY <2>2, SolvingNothing
  <2>4. Went(R, s, s)
    BY <1>1, WentItself
  <2> DEFINE N == <<>>
  <2>5. Zipped(x.parameters, y.parameters, Len(x.parameters)) = {} /\ N \in Seq(R) /\ Len(N) = Len(x.parameters)
        /\ 1..Len(x.parameters) = {}
    BY <2>1 DEF Zipped
  <2>6. r = NewTerm(s, Named(x.name, N))
    BY <1>8
  <2>7. Len(x.parameters) = Len(y.parameters)
    BY <2>1
  <2> HIDE DEF N
  <2>8. Solving(R, s, Zipped(x.parameters, y.parameters, Len(x.parameters)), s)
    BY <2>3, <2>5
  <2>9. \A i \in 1..Len(x.parameters) : Same(s.terms, R, N[i], x.parameters[i])
    BY <2>5
  <2>10. Resolved(R, s, a, b, r)
    BY <1>8, <2>3, <2>4, <2>5, <2>6, <2>7, <2>8, <2>9, ResolvesMade, Zenon
  <2>11. QED
    BY <2>10 DEF r
<1>9. CASE /\ x.name = y.name /\ Len(x.parameters) = Len(y.parameters)
           /\ r = Then(all, LAMBDA u, ts : NewTerm(u, Named(x.name, ts)))
  <2> DEFINE E == Zipped(x.parameters, y.parameters, Len(x.parameters))
  <2>1. UnifiedAll(R, s, Len(x.parameters), all) /\ ResolvedAll(R, s, x.parameters, y.parameters, Len(x.parameters), all)
    <3> HIDE DEF x, y
    <3>1. \A i \in 1..Len(x.parameters) : y.parameters[i] \in R
      <4>1. Len(x.parameters) = Len(y.parameters) /\ Len(x.parameters) \in Nat
        BY <1>4, <1>9 DEF Then
      <4>2. QED
        BY <1>5, <4>1
    <3>2. QED
      BY <1>1, <1>5, <3>1, ResolvesAll
  <2> HIDE DEF all
  <2>2. r = IF all.error = "none" THEN NewTerm(all.s, Named(x.name, all.is)) ELSE all
    BY <1>9 DEF Then
  <2>3. CASE all.error = "none"
    <3>1. Went(R, s, all.s) /\ all.is \in Seq(Grown(R, s, all.s)) /\ Len(all.is) = Len(x.parameters)
      BY <2>1, <2>3 DEF UnifiedAll
    <3>2. Solving(R, s, E, all.s)
          /\ \A i \in 1..Len(x.parameters) : Same(all.s.terms, Grown(R, s, all.s), all.is[i], x.parameters[i])
      BY <2>1, <2>3 DEF ResolvedAll
    <3>3. r = NewTerm(all.s, Named(x.name, all.is))
      BY <2>2, <2>3
    <3>4. QED
      BY <1>9, <3>1, <3>2, <3>3, ResolvesMade DEF r
  <2>4. CASE all.error = "TypeMismatch"
    <3>1. Refuting(R, s, E, all.s)
      BY <2>1, <2>4 DEF ResolvedAll
    <3>2. \A m : Solution(m, s.terms) /\ Respects(m, s.terms, R) /\ Solves(m, F) => Solves(m, E)
      <4> SUFFICES ASSUME NEW m, Solution(m, s.terms), Solves(m, F) PROVE Solves(m, E)
        BY Zenon
      <4>1. m[a] = m[b]
        BY <1>6
      <4>2. QED
        BY <1>1, <4>1, ZippedFollows
    <3> HIDE DEF E
    <3>3. Later(s, all.s)
      BY <2>1 DEF UnifiedAll, Went, Reached
    <3>4. Refuting(R, s, F, all.s)
      BY <1>1, <3>1, <3>2, <3>3, RefutingEquivalent
    <3>5. r = all
      BY <2>2, <2>4
    <3>6. QED
      BY <2>4, <3>4, <3>5 DEF Resolved, r, F
  <2>5. CASE all.error # "none" /\ all.error # "TypeMismatch"
    <3>1. r = all
      BY <2>2, <2>5
    <3>2. QED
      BY <2>5, <3>1 DEF Resolved, r
  <2>6. QED
    BY <2>3, <2>4, <2>5 DEF r
<1>10. QED
  BY <1>3, <1>7, <1>8, <1>9 DEF r

-----------------------------------------------------------------------------
(* unify *)

\* It does not matter which of two terms comes first.
LEMMA ResolvedSwapped ==
  ASSUME NEW R, NEW s, NEW a, NEW b, NEW r, Resolved(R, s, b, a, r), Good(s), Later(s, r.s)
  PROVE  Resolved(R, s, a, b, r)
<1> DEFINE E == {<<b, a>>}
           F == {<<a, b>>}
<1>1. \A m : Solves(m, E) <=> m[b] = m[a]
  BY DEF Solves
<1>2. \A m : Solves(m, F) <=> m[a] = m[b]
  BY DEF Solves
<1> HIDE DEF E, F
<1>3. \A m : Solves(m, E) <=> Solves(m, F)
  BY <1>1, <1>2
<1>4. ASSUME r.error = "none"
      PROVE  Solving(R, s, F, r.s) /\ Same(r.s.terms, Grown(R, s, r.s), r.is, a)
  <2>1. Solving(R, s, E, r.s) /\ Same(r.s.terms, Grown(R, s, r.s), r.is, b)
    BY <1>4 DEF Resolved, E
  <2>2. Solving(R, s, F, r.s)
    BY <1>3, <2>1, Zenon DEF Solving, Implies, Follows
  <2>3. Same(r.s.terms, Grown(R, s, r.s), r.is, a)
    <3> SUFFICES ASSUME NEW m, Congruent(m, r.s.terms, Grown(R, s, r.s)), Respects(m, r.s.terms, Grown(R, s, r.s))
                 PROVE  m[r.is] = m[a]
      BY DEF Same
    <3>1. m[r.is] = m[b]
      BY <2>1 DEF Same
    <3>2. Solves(m, F)
      BY <2>2 DEF Solving, Implies
    <3>3. QED
      BY <1>2, <3>1, <3>2
  <2>4. QED
    BY <2>2, <2>3
<1>5. ASSUME r.error = "TypeMismatch" PROVE Refuting(R, s, F, r.s)
  <2>1. Refuting(R, s, E, r.s)
    BY <1>5 DEF Resolved, E
  <2>2. QED
    BY <1>3, <2>1 DEF Refuting
<1>6. QED
  BY <1>4, <1>5 DEF Resolved, F

\* Nor whether the answer is about terms or about their representatives.
LEMMA ResolvedRepresented ==
  ASSUME NEW R, NEW s, Apt(R, s), NEW left \in R, NEW right \in R,
         NEW a, a = Representative(s.terms)[left], NEW b, b = Representative(s.terms)[right],
         NEW r, Later(s, r.s), Resolved(R, s, a, b, r)
  PROVE  Resolved(R, s, left, right, r)
<1> DEFINE E == {<<a, b>>}
           F == {<<left, right>>}
<1>1. \A m : Solves(m, E) <=> m[a] = m[b]
  BY DEF Solves
<1>2. \A m : Solves(m, F) <=> m[left] = m[right]
  BY DEF Solves
<1> HIDE DEF E, F
<1>3. Good(s) /\ Sound(s.terms) /\ Closed(s.terms, R)
  BY GoodTypes DEF Apt
<1>4. \A m : Respects(m, s.terms, R) => m[a] = m[left] /\ m[b] = m[right]
  BY <1>3, RepresentativeSame
<1>5. \A m : Respects(m, s.terms, R) => (Solves(m, E) <=> Solves(m, F))
  BY <1>1, <1>2, <1>4
<1>6. ASSUME r.error = "none"
      PROVE  Solving(R, s, F, r.s) /\ Same(r.s.terms, Grown(R, s, r.s), r.is, left)
  <2>1. Solving(R, s, E, r.s) /\ Same(r.s.terms, Grown(R, s, r.s), r.is, a)
    BY <1>6 DEF Resolved, E
  <2>2. Solving(R, s, F, r.s)
    BY <1>3, <1>5, <2>1, SolvingEquivalent
  <2>3. Same(r.s.terms, Grown(R, s, r.s), r.is, left)
    <3> SUFFICES ASSUME NEW m, Congruent(m, r.s.terms, Grown(R, s, r.s)), Respects(m, r.s.terms, Grown(R, s, r.s))
                 PROVE  m[r.is] = m[left]
      BY DEF Same
    <3>1. m[r.is] = m[a]
      BY <2>1 DEF Same
    <3>2. Respects(m, s.terms, R)
      BY <2>2 DEF Solving, Implies
    <3>3. QED
      BY <1>4, <3>1, <3>2
  <2>4. QED
    BY <2>2, <2>3
<1>7. ASSUME r.error = "TypeMismatch" PROVE Refuting(R, s, F, r.s)
  <2>1. Refuting(R, s, E, r.s)
    BY <1>7 DEF Resolved, E
  <2>2. QED
    BY <1>3, <1>5, <2>1, RefutingEquivalent
<1>8. QED
  BY <1>6, <1>7 DEF Resolved, F

\* Unifying two terms adds to what variables stand for exactly that the terms are
\* the same; what does not unify has no solution.
LEMMA UnifyResolves ==
  \A n \in 0..max_depth : Resolves(Unify[n])
<1> DEFINE T == {n \in 0..max_depth : Resolves(Unify[n])}
<1>0. max_depth \in Nat
  BY LimitsAssumption
<1>1. ASSUME NEW s, NEW R, Apt(R, s), NEW left \in R, NEW right \in R
      PROVE  /\ Pair(s, left, right) \in Pairs /\ Pair(s, left, right).s = s
             /\ Pair(s, left, right).left = left /\ Pair(s, left, right).right = right
             /\ left \in DOMAIN s.terms /\ right \in DOMAIN s.terms
  BY <1>1, GoodTypes DEF Pair, Pairs, Closed, Apt
<1>2. 0 \in T
  <2>1. ASSUME NEW s, NEW R, Apt(R, s), NEW left \in R, NEW right \in R
        PROVE  Resolved(R, s, left, right, Unify[0][Pair(s, left, right)])
    <3>0. /\ Pair(s, left, right) \in Pairs /\ Pair(s, left, right).s = s
          /\ Pair(s, left, right).left = left /\ Pair(s, left, right).right = right
      BY <2>1, <1>1
    <3>1. Unify[0][Pair(s, left, right)] =
            IF s.remaining = 0 THEN Fails(s, "CheckLimitExceeded") ELSE Fails(Ticked(s), "DepthLimitExceeded")
      BY <3>0, UnifyDefinition DEF TooDeep, Tick, Ticked
    <3>2. QED
      BY <3>1 DEF Resolved, Fails
  <2>2. QED
    BY <1>0, <2>1 DEF Resolves
<1>3. ASSUME NEW n \in 1..max_depth, n - 1 \in T PROVE n \in T
  <2> DEFINE unify == Unify[n - 1]
             occurs == Occurs[n - 1]
  <2>1. Unifies(unify) /\ Finds(occurs) /\ Resolves(unify) /\ Traces(occurs)
    <3>1. n - 1 \in 0..max_depth
      BY <1>0
    <3>2. QED
      BY <1>3, <3>1, OccursFinds, OccursTraces, UnifyUnifies
  <2>2. Unify[n] = UnifyWith(unify, occurs)
    BY UnifyDefinition
  <2> HIDE DEF unify, occurs
  <2>3. ASSUME NEW s, NEW R, Apt(R, s), NEW left \in R, NEW right \in R
        PROVE  Resolved(R, s, left, right, Unify[n][Pair(s, left, right)])
    <3> DEFINE u == Ticked(s)
               a == Representative(u.terms)[left]
               b == Representative(u.terms)[right]
               r == Unify[n][Pair(s, left, right)]
    <3>0. /\ Pair(s, left, right) \in Pairs /\ Pair(s, left, right).s = s
          /\ Pair(s, left, right).left = left /\ Pair(s, left, right).right = right
      BY <2>3, <1>1
    <3>1. r = IF s.remaining = 0 THEN Fails(s, "CheckLimitExceeded") ELSE UnifyIn(unify, occurs, u, a, b)
      BY <2>2, <3>0 DEF UnifyWith, Tick, Ticked
    <3> HIDE DEF r
    <3>2. CASE s.remaining = 0
      BY <3>1, <3>2 DEF Resolved, Fails, r
    <3>3. CASE s.remaining # 0
      <4>1. Good(u) /\ Like(s, u) /\ u.variables = s.variables /\ u.terms = s.terms
        BY <2>3, <3>3, TickedWent DEF Like, Apt
      <4> HIDE DEF u
      <4>2. Apt(R, u) /\ \A x, y, z : Resolved(R, u, x, y, z) => Resolved(R, s, x, y, z)
        BY <2>3, <4>1, ResolvedAfter
      <4>3. Closed(u.terms, R) /\ Sound(u.terms) /\ left \in DOMAIN u.terms /\ right \in DOMAIN u.terms
        BY <2>3, <4>1, <1>1 DEF Good, Apt
      <4>4. IsRepresentative(u.terms, left, a) /\ IsRepresentative(u.terms, right, b)
        BY <4>3, Representatives
      <4>5. a = Representative(u.terms)[left] /\ b = Representative(u.terms)[right]
        OBVIOUS
      <4> HIDE DEF a, b
      <4>6. a \in R /\ b \in R /\ u.terms[a].parent = Nothing /\ u.terms[b].parent = Nothing
        BY <2>3, <4>3, <4>4 DEF IsRepresentative
      <4>7. Resolved(R, u, a, b, r) /\ Unified(R, u, a, b, r)
        <5>1. r = UnifyIn(unify, occurs, u, a, b)
          BY <3>1, <3>3
        <5>2. CASE a = b
          <6>1. r = Returns(u, a)
            BY <5>1, <5>2 DEF UnifyIn
          <6>2. Went(R, u, u) /\ Grown(R, u, u) = R
            BY <4>1, <4>3, WentItself
          <6>3. r.s = u /\ r.error = "none" /\ r.is = a
            BY <6>1 DEF Returns
          <6>4. Unified(R, u, a, b, r)
            BY <4>6, <6>2, <6>3 DEF Unified
          <6>5. Like(u, u)
            BY <4>1, GoodTypes DEF Like
          <6> DEFINE N == {}
                     F == {<<a, b>>}
          <6>6. \A m : Solves(m, N)
            BY DEF Solves
          <6>7. \A m : Solves(m, F)
            BY <5>2 DEF Solves
          <6>8. Solving(R, u, N, u)
            BY <4>2, <6>5, SolvingNothing
          <6> HIDE DEF N, F
          <6>9. Solving(R, u, F, u)
            BY <6>6, <6>7, <6>8, Zenon DEF Solving, Implies, Follows
          <6>10. Resolved(R, u, a, b, r)
            BY <6>3, <6>9 DEF Resolved, Same, F
          <6>11. QED
            BY <6>4, <6>10
        <5>3. CASE a # b /\ u.terms[a].name = NoName /\ u.terms[b].name = NoName
          <6>1. r = UnifyVariables(unify, occurs, u, a, b)
            BY <5>1, <5>3 DEF UnifyIn, IsVariable
          <6>2. QED
            BY <2>1, <4>1, <4>2, <4>3, <4>6, <5>3, <6>1, UnifiesVariables, ResolvesVariables
        <5>4. CASE a # b /\ u.terms[a].name = NoName /\ u.terms[b].name # NoName
          <6>1. r = UnifyVariable(unify, occurs, u, a, b)
            BY <5>1, <5>4 DEF UnifyIn, IsVariable
          <6>2. QED
            BY <2>1, <4>1, <4>2, <4>3, <4>6, <5>4, <6>1, UnifiesVariable, ResolvesVariable
        <5>5. CASE a # b /\ u.terms[a].name # NoName /\ u.terms[b].name = NoName
          <6>1. r = unify[Pair(u, b, a)]
            BY <5>1, <5>5 DEF UnifyIn, IsVariable
          <6>2. Unified(R, u, b, a, r) /\ Resolved(R, u, b, a, r)
            BY <2>1, <4>1, <4>2, <4>3, <4>6, <6>1 DEF Unifies, Resolves
          <6>3. Unified(R, u, a, b, r)
            BY <6>2 DEF Unified
          <6>4. Later(u, r.s)
            BY <6>2 DEF Unified, Went, Reached
          <6>5. QED
            BY <4>1, <6>2, <6>3, <6>4, ResolvedSwapped
        <5>6. CASE a # b /\ u.terms[a].name # NoName /\ u.terms[b].name # NoName
          <6>1. r = UnifyNamed(unify, u, a, b)
            BY <5>1, <5>6 DEF UnifyIn, IsVariable
          <6>2. QED
            BY <2>1, <4>1, <4>2, <4>3, <4>6, <5>6, <6>1, UnifiesNamed, ResolvesNamed
        <5>7. QED
          BY <5>2, <5>3, <5>4, <5>5, <5>6
      <4>8. Later(u, r.s)
        BY <4>7 DEF Unified, Went, Reached
      <4>9. Resolved(R, u, left, right, r)
        BY <2>3, <4>2, <4>5, <4>7, <4>8, ResolvedRepresented
      <4>10. QED
        BY <4>2, <4>9 DEF r
    <3>4. QED
      BY <3>2, <3>3 DEF r
  <2>4. QED
    BY <1>0, <2>3 DEF Resolves
<1>4. QED
  <2> HIDE DEF T
  <2>1. 0..max_depth \subseteq T
    BY <1>0, <1>2, <1>3, Induction
  <2>2. QED
    BY <2>1 DEF T

-----------------------------------------------------------------------------
(* What is certain of a store *)

\* A set of terms with all they are made of, none of which unifies with other types.
Whole(store, C) ==
  /\ C \subseteq DOMAIN store
  /\ \A t \in C : ~Gradual(store[t]) /\ \A i \in DOMAIN store[t].parameters : store[t].parameters[i] \in C

Certain(store) == {t \in DOMAIN store : \E C : Whole(store, C) /\ t \in C}

\* The certain terms are the largest set of that kind.
LEMMA CertainWhole ==
  ASSUME NEW store
  PROVE  Whole(store, Certain(store)) /\ \A C : Whole(store, C) => C \subseteq Certain(store)
<1>1. ASSUME NEW C, Whole(store, C) PROVE C \subseteq Certain(store)
  BY <1>1 DEF Whole, Certain
<1>2. ASSUME NEW t \in Certain(store)
      PROVE  ~Gradual(store[t]) /\ \A i \in DOMAIN store[t].parameters : store[t].parameters[i] \in Certain(store)
  <2>1. PICK C : Whole(store, C) /\ t \in C
    BY DEF Certain
  <2>2. ~Gradual(store[t]) /\ \A i \in DOMAIN store[t].parameters : store[t].parameters[i] \in C
    BY <2>1 DEF Whole
  <2>3. QED
    BY <1>1, <2>1, <2>2
<1>3. Certain(store) \subseteq DOMAIN store
  BY DEF Certain
<1>4. Whole(store, Certain(store))
  BY <1>2, <1>3 DEF Whole
<1>5. QED
  BY <1>1, <1>4

\* Variables are certain.
LEMMA VariablesCertain ==
  ASSUME NEW store, Sound(store), NEW v \in DOMAIN store, store[v].name = NoName
  PROVE  v \in Certain(store)
<1>1. store[v].parameters = <<>>
  BY DEF Sound, Shaped
<1>2. ~Gradual(store[v])
  BY <1>1 DEF Gradual, NoName
<1>3. Whole(store, {v})
  BY <1>1, <1>2 DEF Whole
<1>4. QED
  BY <1>3, CertainWhole

\* What is certain stays so, and nothing else becomes so.
LEMMA CertainKeeps ==
  ASSUME NEW old, Sound(old), NEW new, Keeps(old, new)
  PROVE  Certain(new) \cap DOMAIN old = Certain(old)
<1>0. \A t \in DOMAIN old : /\ Gradual(new[t]) <=> Gradual(old[t])
                            /\ new[t].parameters = old[t].parameters
                            /\ t \in DOMAIN new
                            /\ \A i \in DOMAIN old[t].parameters : old[t].parameters[i] \in DOMAIN old
  BY DEF Keeps, Gradual, Sound, Shaped
<1>1. Whole(new, Certain(old))
  BY <1>0, CertainWhole DEF Whole
<1>2. Whole(old, Certain(new) \cap DOMAIN old)
  BY <1>0, CertainWhole DEF Whole
<1>3. QED
  BY <1>1, <1>2, CertainWhole, Zenon DEF Whole

-----------------------------------------------------------------------------
(* Stores that say what the equations say *)

Among(pairs, R) == \A pair \in pairs : pair[1] \in R /\ pair[2] \in R

\* m is a solution of what the store says of variables.
Respected(m, store) == Respects(m, store, Certain(store))

Certainly(store, pairs) ==
  /\ Closed(store, Certain(store)) /\ Ends(store, Certain(store))
  /\ \A m : Congruent(m, store, Certain(store)) /\ Respected(m, store) => Solves(m, pairs)
  /\ \A m : Solution(m, store) /\ Solves(m, pairs) => Respected(m, store)

\* If all equations are between certain terms the store says what they say.
General(store, pairs) ==
  /\ Among(pairs, DOMAIN store)
  /\ Among(pairs, Certain(store)) => Certainly(store, pairs)

\* No solution makes the terms of the pair the same.
Excludes(store, pairs, pair) ==
  /\ pair[1] \in DOMAIN store /\ pair[2] \in DOMAIN store
  /\ Among(pairs, Certain(store)) /\ pair[1] \in Certain(store) /\ pair[2] \in Certain(store) =>
       \A m : Solution(m, store) /\ Respected(m, store) => m[pair[1]] # m[pair[2]]

\* A store to which unlinked terms were added.
Adds(old, new) ==
  /\ Sound(old) /\ Sound(new) /\ DOMAIN old \subseteq DOMAIN new
  /\ \A t \in DOMAIN old : new[t] = old[t]
  /\ \A t \in DOMAIN new \ DOMAIN old : Unlinked(new[t])

LEMMA UnlinkedLinks ==
  ASSUME NEW store, NEW t, Unlinked(store[t])
  PROVE  Links(store, t) = {store[t].parameters[i] : i \in DOMAIN store[t].parameters}
<1>1. store[t].parent = Nothing /\ store[t].binding = Nothing
  BY DEF Unlinked, Named
<1>2. QED
  BY <1>1 DEF Links

LEMMA AddsRespected ==
  ASSUME NEW old, NEW new, Adds(old, new)
  PROVE  /\ Keeps(old, new)
         /\ \A t \in DOMAIN old : Links(new, t) = Links(old, t)
         /\ \A m : Respected(m, old) <=> Respected(m, new)
<1>1. Keeps(old, new)
  BY DEF Adds, Keeps
<1>2. \A t \in DOMAIN old : Links(new, t) = Links(old, t)
  BY DEF Adds, Links
<1>3. Certain(new) \cap DOMAIN old = Certain(old)
  BY <1>1, CertainKeeps DEF Adds
<1>4. ASSUME NEW m, Respected(m, old) PROVE Respected(m, new)
  <2>1. ASSUME NEW v \in Certain(new), new[v].name = NoName, NEW y \in Links(new, v) PROVE m[y] = m[v]
    <3>1. CASE v \in DOMAIN old
      BY <1>2, <1>3, <1>4, <2>1, <3>1 DEF Respected, Respects, Adds
    <3>2. CASE v \notin DOMAIN old
      <4>1. v \in DOMAIN new
        BY CertainWhole DEF Whole
      <4>2. Links(new, v) = {new[v].parameters[i] : i \in DOMAIN new[v].parameters}
        BY <3>2, <4>1, UnlinkedLinks DEF Adds
      <4>3. new[v].parameters = <<>>
        BY <2>1, <4>1 DEF Adds, Sound, Shaped
      <4>4. QED
        BY <2>1, <4>2, <4>3
    <3>3. QED
      BY <3>1, <3>2
  <2>2. QED
    BY <2>1 DEF Respected, Respects
<1>5. ASSUME NEW m, Respected(m, new) PROVE Respected(m, old)
  <2>1. ASSUME NEW v \in Certain(old), old[v].name = NoName, NEW y \in Links(old, v) PROVE m[y] = m[v]
    <3>1. v \in DOMAIN old /\ v \in Certain(new)
      BY <1>3
    <3>2. new[v].name = NoName /\ y \in Links(new, v)
      BY <1>2, <2>1, <3>1 DEF Adds
    <3>3. QED
      BY <1>5, <3>1, <3>2 DEF Respected, Respects
  <2>2. QED
    BY <2>1 DEF Respected, Respects
<1>6. QED
  BY <1>1, <1>2, <1>4, <1>5

LEMMA AddsEnds ==
  ASSUME NEW old, NEW new, Adds(old, new), Closed(old, Certain(old)), Ends(old, Certain(old))
  PROVE  Closed(new, Certain(new)) /\ Ends(new, Certain(new))
<1> DEFINE K == Certain(old)
           W == Certain(new) \ DOMAIN old
<1>1. /\ Keeps(old, new) /\ Certain(new) \cap DOMAIN old = K /\ Certain(new) = K \cup W /\ W \cap K = {}
      /\ Certain(new) \subseteq DOMAIN new /\ K \subseteq DOMAIN old
  BY AddsRespected, CertainKeeps, CertainWhole DEF Adds, Whole
<1>2. \A t \in K : Links(new, t) = Links(old, t) /\ Links(new, t) \subseteq K
  BY <1>1, AddsRespected DEF Closed
<1>3. ASSUME NEW t \in W
      PROVE  /\ Links(new, t) \subseteq Certain(new)
             /\ \A y \in Links(new, t) : y < t
  <2>1. t \in DOMAIN new /\ t \notin DOMAIN old
    BY <1>1
  <2>2. Links(new, t) = {new[t].parameters[i] : i \in DOMAIN new[t].parameters}
    BY <2>1, UnlinkedLinks DEF Adds
  <2>3. \A i \in DOMAIN new[t].parameters : new[t].parameters[i] \in Certain(new)
    BY CertainWhole DEF Whole
  <2>4. \A i \in DOMAIN new[t].parameters : new[t].parameters[i] < t
    BY <2>1 DEF Adds, Sound, Shaped
  <2>5. QED
    BY <2>2, <2>3, <2>4
<1>4. Closed(new, Certain(new))
  BY <1>1, <1>2, <1>3 DEF Closed
<1> HIDE DEF K, W
<1>5. Ends(new, K)
  <2>1. PICK h : Descends(h, old, K)
    BY DEF Ends, K
  <2>2. Descends(h, new, K)
    BY <1>2, <2>1 DEF Descends
  <2>3. QED
    BY <2>2 DEF Ends
<1>6. EndsAt(new, W, K)
  <2> DEFINE h == [t \in W |-> t]
  <2>1. Len(new) \in Nat /\ W \subseteq 1..Len(new)
    BY <1>1 DEF Adds, Sound
  <2>2. h \in [W -> 0..Len(new)]
    BY <2>1
  <2>3. \A t \in W : \A y \in Links(new, t) : y \in K \/ (y \in W /\ h[y] < h[t])
    BY <1>1, <1>3
  <2> HIDE DEF h
  <2>4. QED
    BY <2>1, <2>2, <2>3 DEF EndsAt
<1>7. Ends(new, K \cup W)
  BY <1>1, <1>2, <1>5, <1>6, EndsOver
<1>8. QED
  BY <1>1, <1>4, <1>7

\* Unlinked terms say nothing.
LEMMA GeneralAdds ==
  ASSUME NEW old, NEW new, Adds(old, new), NEW E
  PROVE  /\ General(old, E) => General(new, E)
         /\ \A pair : General(old, E) /\ Excludes(old, E, pair) => Excludes(new, E, pair)
<1>1. SUFFICES ASSUME General(old, E)
               PROVE  General(new, E) /\ \A pair : Excludes(old, E, pair) => Excludes(new, E, pair)
  OBVIOUS
<1>2. /\ Keeps(old, new) /\ Certain(new) \cap DOMAIN old = Certain(old) /\ DOMAIN old \subseteq DOMAIN new
      /\ Certain(old) \subseteq Certain(new) /\ Certain(old) \subseteq DOMAIN old /\ Certain(new) \subseteq DOMAIN new
      /\ \A m : Respected(m, old) <=> Respected(m, new)
  <2>1. Keeps(old, new) /\ \A m : Respected(m, old) <=> Respected(m, new)
    BY AddsRespected
  <2>2. Sound(old) /\ DOMAIN old \subseteq DOMAIN new
    BY DEF Adds
  <2>3. Certain(new) \cap DOMAIN old = Certain(old)
    BY <2>1, <2>2, CertainKeeps
  <2>4. Certain(old) \subseteq DOMAIN old /\ Certain(new) \subseteq DOMAIN new
    BY CertainWhole DEF Whole
  <2>5. QED
    BY <2>1, <2>2, <2>3, <2>4
<1>3. Among(E, DOMAIN old) /\ Among(E, DOMAIN new)
  BY <1>1, <1>2 DEF General, Among
<1>4. Among(E, Certain(new)) => Among(E, Certain(old))
  BY <1>2, <1>3 DEF Among
<1>5. ASSUME NEW m, Solution(m, new) PROVE Solution(m, old)
  BY <1>2, <1>5, SolutionOfLess
<1>6. ASSUME Among(E, Certain(new)) PROVE Certainly(new, E)
  <2>1. Certainly(old, E)
    BY <1>1, <1>4, <1>6 DEF General
  <2>2. Closed(new, Certain(new)) /\ Ends(new, Certain(new))
    BY <2>1, AddsEnds DEF Certainly
  <2>3. ASSUME NEW m, Congruent(m, new, Certain(new)), Respected(m, new) PROVE Solves(m, E)
    <3>1. Congruent(m, old, Certain(old))
      BY <1>2, <2>3, CongruentInLess
    <3>2. QED
      BY <1>2, <2>1, <2>3, <3>1 DEF Certainly
  <2>4. ASSUME NEW m, Solution(m, new), Solves(m, E) PROVE Respected(m, new)
    BY <1>2, <1>5, <2>1, <2>4 DEF Certainly
  <2>5. QED
    BY <2>2, <2>3, <2>4 DEF Certainly
<1>7. ASSUME NEW pair, Excludes(old, E, pair) PROVE Excludes(new, E, pair)
  <2>1. pair[1] \in DOMAIN old /\ pair[2] \in DOMAIN old
    BY <1>7 DEF Excludes
  <2>2. ASSUME Among(E, Certain(new)), pair[1] \in Certain(new), pair[2] \in Certain(new),
               NEW m, Solution(m, new), Respected(m, new)
        PROVE  m[pair[1]] # m[pair[2]]
    <3>1. pair[1] \in Certain(old) /\ pair[2] \in Certain(old) /\ Among(E, Certain(old))
      BY <1>2, <1>4, <2>1, <2>2
    <3>2. Solution(m, old) /\ Respected(m, old)
      BY <1>2, <1>5, <2>2
    <3>3. QED
      BY <1>7, <3>1, <3>2 DEF Excludes
  <2>3. QED
    BY <1>2, <2>1, <2>2 DEF Excludes
<1>8. QED
  BY <1>3, <1>6, <1>7 DEF General

LEMMA KeptAdds ==
  ASSUME NEW s0, Good(s0), NEW s, Kept(s0, s)
  PROVE  Adds(s0.terms, s.terms)
BY GoodTypes DEF Kept, Adds

-----------------------------------------------------------------------------
(* What unifying adds to what a store says *)

\* If all is certain, where unifying got to is certain too.
LEMMA GrownCertain ==
  ASSUME NEW s, Good(s), NEW u, Went(Certain(s.terms), s, u), Exact(u.terms, Grown(Certain(s.terms), s, u))
  PROVE  Certain(u.terms) = Grown(Certain(s.terms), s, u)
<1> DEFINE R == Certain(s.terms)
           G == Grown(R, s, u)
<1>1. /\ Good(u) /\ Later(s, u) /\ Closed(u.terms, G) /\ Keeps(s.terms, u.terms) /\ Sound(s.terms) /\ Sound(u.terms)
      /\ OnlyNamed(s, u)
  BY WentGood, LaterKeeps, GoodTypes DEF Went
<1>2. Certain(u.terms) \cap DOMAIN s.terms = R /\ Certain(u.terms) \subseteq DOMAIN u.terms /\ R \subseteq DOMAIN s.terms
  BY <1>1, CertainKeeps, CertainWhole DEF Whole
<1>3. DOMAIN u.terms = DOMAIN s.terms \cup ((Len(s.terms) + 1)..Len(u.terms))
  BY <1>1, LaterGrows
<1>4. ASSUME NEW t \in G
      PROVE  ~Gradual(u.terms[t]) /\ \A i \in DOMAIN u.terms[t].parameters : u.terms[t].parameters[i] \in G
  <2>1. ~Gradual(u.terms[t])
    BY DEF Exact
  <2>2. CASE t \in R
    <3>1. \A i \in DOMAIN s.terms[t].parameters : s.terms[t].parameters[i] \in R
      BY <2>2, CertainWhole DEF Whole
    <3>2. u.terms[t].parameters = s.terms[t].parameters
      BY <1>1, <1>2, <2>2 DEF Keeps
    <3>3. R \subseteq G
      BY DEF Grown
    <3>4. QED
      BY <2>1, <3>1, <3>2, <3>3
  <2>3. CASE t \notin R
    <3>1. t \in (Len(s.terms) + 1)..Len(u.terms) /\ t \in DOMAIN u.terms
      BY <1>3, <2>3 DEF Grown
    <3>2. u.terms[t].name # NoName
      BY <1>1, <3>1 DEF OnlyNamed
    <3>3. Links(u.terms, t) = {u.terms[t].parameters[i] : i \in DOMAIN u.terms[t].parameters}
      BY <1>1, <3>1, <3>2, LinkedTo
    <3>4. Links(u.terms, t) \subseteq G
      BY <1>1 DEF Closed
    <3>5. QED
      BY <2>1, <3>3, <3>4
  <2>4. QED
    BY <2>2, <2>3
<1>5. G \subseteq DOMAIN u.terms
  BY <1>1 DEF Closed
<1>6. G \subseteq Certain(u.terms)
  BY <1>4, <1>5, CertainWhole DEF Whole
<1>7. Certain(u.terms) \subseteq G
  BY <1>2, <1>3 DEF Grown
<1>8. QED
  BY <1>6, <1>7

LEMMA CertainApt ==
  ASSUME NEW s, Good(s), NEW E, General(s.terms, E), Among(E, Certain(s.terms))
  PROVE  Apt(Certain(s.terms), s)
BY CertainWhole DEF General, Certainly, Apt, Exact, Whole

\* Solving equations adds them to what a store says.
LEMMA GeneralSolving ==
  ASSUME NEW s, Good(s), NEW u, Later(s, u), NEW E, General(s.terms, E), NEW F, Among(F, DOMAIN s.terms),
         Among(E \cup F, Certain(s.terms)) => Went(Certain(s.terms), s, u) /\ Solving(Certain(s.terms), s, F, u)
  PROVE  General(u.terms, E \cup F)
<1> DEFINE R == Certain(s.terms)
           Q == Certain(u.terms)
<1>1. /\ Good(u) /\ Keeps(s.terms, u.terms) /\ Sound(s.terms) /\ Sound(u.terms) /\ DOMAIN s.terms \subseteq DOMAIN u.terms
      /\ Q \cap DOMAIN s.terms = R /\ Q \subseteq DOMAIN u.terms /\ R \subseteq DOMAIN s.terms
  <2>1. Good(u) /\ Keeps(s.terms, u.terms) /\ Sound(s.terms) /\ Sound(u.terms) /\ DOMAIN s.terms \subseteq DOMAIN u.terms
    BY LaterKeeps, LaterGrows, GoodTypes DEF Later
  <2>2. QED
    BY <2>1, CertainKeeps, CertainWhole DEF Whole
<1>2. Among(E \cup F, DOMAIN s.terms)
  BY DEF General, Among
<1>3. Among(E \cup F, DOMAIN u.terms)
  BY <1>1, <1>2 DEF Among
<1>4. ASSUME Among(E \cup F, Q) PROVE Certainly(u.terms, E \cup F)
  <2>1. Among(E \cup F, R)
    BY <1>1, <1>2, <1>4 DEF Among
  <2>2. Among(E, R)
    BY <2>1 DEF Among
  <2>3. Went(R, s, u) /\ Solving(R, s, F, u)
    BY <2>1
  <2>4. Certainly(s.terms, E)
    BY <2>2 DEF General
  <2>5. Q = Grown(R, s, u)
    BY <2>3, GrownCertain DEF Solving
  <2>6. Closed(u.terms, Q) /\ Ends(u.terms, Q)
    BY <2>3, <2>5, WentGood DEF Solving
  <2> HIDE DEF R, Q
  <2>7. ASSUME NEW m, Congruent(m, u.terms, Q), Respects(m, u.terms, Q) PROVE Solves(m, E \cup F)
    <3>1. Respects(m, s.terms, R) /\ Solves(m, F)
      BY <2>3, <2>5, <2>7 DEF Solving, Implies
    <3>2. Congruent(m, s.terms, R)
      BY <1>1, <2>5, <2>7, CongruentEarlier
    <3>3. Solves(m, E)
      BY <2>4, <3>1, <3>2 DEF Certainly, Respected, R
    <3>4. QED
      BY <3>1, <3>3 DEF Solves
  <2>8. ASSUME NEW m, Solution(m, u.terms), Solves(m, E \cup F) PROVE Respects(m, u.terms, Q)
    <3>1. Solution(m, s.terms)
      BY <2>8, SolutionEarlier
    <3>2. Solves(m, E) /\ Solves(m, F)
      BY <2>8 DEF Solves
    <3>3. Respects(m, s.terms, R)
      BY <2>4, <3>1, <3>2 DEF Certainly, Respected, R
    <3>4. QED
      BY <2>3, <2>5, <2>8, <3>2, <3>3 DEF Solving, Follows
  <2>9. QED
    BY <2>6, <2>7, <2>8 DEF Certainly, Respected, Q
<1>5. QED
  BY <1>3, <1>4 DEF General

-----------------------------------------------------------------------------
(* What the operations of the checker do to what a store says *)

LEMMA UnifyWholeResolves ==
  ASSUME NEW s, NEW R, Apt(R, s), NEW a \in R, NEW b \in R
  PROVE  Unified(R, s, a, b, UnifyWhole(s, a, b)) /\ Resolved(R, s, a, b, UnifyWhole(s, a, b))
<1>1. Unified(R, s, a, b, UnifyWhole(s, a, b))
  BY UnifyWholeUnifies DEF Apt
<1>2. Resolves(Unify[max_depth])
  BY UnifyResolves, LimitsAssumption
<1>3. Resolved(R, s, a, b, UnifyWhole(s, a, b))
  BY <1>2 DEF Resolves, UnifyWhole
<1>4. QED
  BY <1>1, <1>3

LEMMA AmongBoth ==
  ASSUME NEW a, NEW b, NEW E
  PROVE  /\ \A S : a \in S /\ b \in S => Among({<<a, b>>}, S)
         /\ \A S : Among(E \cup {<<a, b>>}, S) => Among(E, S) /\ a \in S /\ b \in S
<1> DEFINE pair == <<a, b>>
<1>1. pair[1] = a /\ pair[2] = b
  OBVIOUS
<1> HIDE DEF pair
<1>2. /\ \A S : a \in S /\ b \in S => Among({pair}, S)
      /\ \A S : Among(E \cup {pair}, S) => Among(E, S) /\ a \in S /\ b \in S
  BY <1>1 DEF Among
<1>3. QED
  BY <1>2 DEF pair

\* combine adds its equation, or leaves the store and has refuted it.
LEMMA CombineGeneral ==
  ASSUME NEW s, Good(s), s.changes = <<>>, NEW E, General(s.terms, E), NEW a \in DOMAIN s.terms, NEW b \in DOMAIN s.terms,
         NEW r, r = CombineIn(s, a, b)
  PROVE  /\ r.error = "none" => General(r.s.terms, E \cup {<<a, b>>})
         /\ r.error # "none" => General(r.s.terms, E)
         /\ r.error = "TypeMismatch" => Excludes(r.s.terms, E, <<a, b>>)
<1> DEFINE x == UnifyWhole(s, a, b)
           R == Certain(s.terms)
           F == {<<a, b>>}
<1>1. Closed(s.terms, DOMAIN s.terms)
  BY AllClosed, GoodTypes
<1>2. Unified(DOMAIN s.terms, s, a, b, x) /\ Later(s, x.s)
  BY <1>1, UnifyWholeUnifies DEF Unified, Went, Reached
<1>3. Among(F, DOMAIN s.terms) /\ \A S : Among(E \cup F, S) => Among(E, S) /\ a \in S /\ b \in S
  BY AmongBoth
<1>4. ASSUME Among(E \cup F, R)
      PROVE  Unified(R, s, a, b, x) /\ Resolved(R, s, a, b, x) /\ R \subseteq DOMAIN s.terms
  <2>1. Among(E, R) /\ a \in R /\ b \in R
    BY <1>3, <1>4
  <2>2. Apt(R, s)
    BY <2>1, CertainApt
  <2>3. QED
    BY <2>1, <2>2, UnifyWholeResolves, CertainWhole DEF Whole
<1>5. r = Settled(0, x)
  BY DEF CombineIn
<1> HIDE DEF x
<1>6. /\ Ended(s, r.s, x.error) /\ r.error = x.error
      /\ DOMAIN r.s.terms = DOMAIN x.s.terms /\ Keeps(x.s.terms, r.s.terms)
      /\ x.error = "none" => r.is = x.is /\ r.s.terms = x.s.terms
  BY <1>2, <1>5, SettledEnded
<1>7. ASSUME r.error = "none" PROVE General(r.s.terms, E \cup F)
  <2>1. Among(E \cup F, R) => Went(R, s, x.s) /\ Solving(R, s, F, x.s)
    BY <1>4, <1>6, <1>7 DEF Unified, Resolved
  <2>2. General(x.s.terms, E \cup F)
    BY <1>2, <1>3, <2>1, GeneralSolving, Zenon
  <2>3. QED
    BY <1>6, <1>7, <2>2
<1>8. ASSUME r.error # "none" PROVE Adds(s.terms, r.s.terms)
  BY <1>6, <1>8, KeptAdds DEF Ended
<1>9. ASSUME r.error # "none" PROVE General(r.s.terms, E)
  BY <1>8, <1>9, GeneralAdds
<1>10. ASSUME r.error = "TypeMismatch" PROVE Excludes(r.s.terms, E, <<a, b>>)
  <2> DEFINE Q == Certain(r.s.terms)
  <2>1. /\ Adds(s.terms, r.s.terms) /\ DOMAIN s.terms \subseteq DOMAIN r.s.terms
        /\ \A m : Respected(m, s.terms) <=> Respected(m, r.s.terms)
    BY <1>8, <1>10, AddsRespected, Zenon DEF Adds
  <2>2. Q \cap DOMAIN s.terms = R
    BY <2>1, AddsRespected, CertainKeeps DEF Adds
  <2>3. Among(E, DOMAIN s.terms)
    BY DEF General
  <2>4. ASSUME Among(E, Q), a \in Q, b \in Q, NEW m, Solution(m, r.s.terms), Respected(m, r.s.terms) PROVE m[a] # m[b]
    <3>1. Among(E \cup F, R)
      BY <2>2, <2>3, <2>4 DEF Among
    <3>2. Refuting(R, s, F, x.s)
      BY <1>4, <1>6, <1>10, <3>1 DEF Resolved
    <3>3. Solution(m, x.s.terms)
      BY <1>6, <2>4, SolutionOfLess
    <3>4. Respects(m, s.terms, R)
      BY <2>1, <2>4 DEF Respected
    <3>5. ~Solves(m, F)
      BY <3>2, <3>3, <3>4, Zenon DEF Refuting
    <3>6. QED
      BY <3>5 DEF Solves
  <2> DEFINE pair == <<a, b>>
  <2>5. pair[1] = a /\ pair[2] = b
    OBVIOUS
  <2> HIDE DEF pair
  <2>6. Excludes(r.s.terms, E, pair)
    BY <2>1, <2>4, <2>5 DEF Excludes
  <2>7. QED
    BY <2>6 DEF pair
<1>11. QED
  BY <1>7, <1>9, <1>10

\* So does join, which answers dyn instead of failing.
LEMMA JoinGeneral ==
  ASSUME NEW s, Good(s), s.changes = <<>>, NEW E, General(s.terms, E), NEW a \in DOMAIN s.terms, NEW b \in DOMAIN s.terms,
         NEW combined, combined = CombineIn(s, a, b), NEW r, r = OrDyn(combined)
  PROVE  /\ combined.error = "none" => General(r.s.terms, E \cup {<<a, b>>})
         /\ combined.error # "none" => General(r.s.terms, E)
         /\ combined.error = "TypeMismatch" => Excludes(r.s.terms, E, <<a, b>>)
<1>1. /\ combined.error = "none" => General(combined.s.terms, E \cup {<<a, b>>})
      /\ combined.error # "none" => General(combined.s.terms, E)
      /\ combined.error = "TypeMismatch" => Excludes(combined.s.terms, E, <<a, b>>)
  BY CombineGeneral, Zenon
<1>2. CASE combined.error # "TypeMismatch"
  <2>1. r = combined
    BY <1>2 DEF OrDyn
  <2>2. QED
    BY <1>1, <1>2, <2>1
<1>3. CASE combined.error = "TypeMismatch"
  <2>1. CombinesTo(DOMAIN s.terms, s, combined)
    BY CombineEnds, AllClosed, GoodTypes
  <2>2. Good(combined.s) /\ combined.s.changes = <<>>
    BY <1>3, <2>1 DEF CombinesTo, Ended, Kept
  <2>3. r = NewTerm(combined.s, Named("dyn", <<>>))
    BY <1>3 DEF OrDyn
  <2>4. Kept(combined.s, r.s)
    BY <2>2, <2>3, DynFits, NewTermKept
  <2>5. Adds(combined.s.terms, r.s.terms)
    BY <2>2, <2>4, KeptAdds
  <2>6. General(combined.s.terms, E) /\ Excludes(combined.s.terms, E, <<a, b>>)
    BY <1>1, <1>3
  <2>7. General(r.s.terms, E) /\ Excludes(r.s.terms, E, <<a, b>>)
    BY <2>5, <2>6, GeneralAdds
  <2>8. QED
    BY <1>3, <2>7
<1>4. QED
  BY <1>2, <1>3

LEMMA AmongZipped ==
  ASSUME NEW xs, NEW ys, NEW n \in Nat
  PROVE  \A S : Among(Zipped(xs, ys, n), S) <=> \A i \in 1..n : xs[i] \in S /\ ys[i] \in S
<1>1. ASSUME NEW S, Among(Zipped(xs, ys, n), S), NEW i \in 1..n PROVE xs[i] \in S /\ ys[i] \in S
  <2>1. <<xs[i], ys[i]>> \in Zipped(xs, ys, n)
    BY DEF Zipped
  <2>2. <<xs[i], ys[i]>>[1] \in S /\ <<xs[i], ys[i]>>[2] \in S
    BY <1>1, <2>1 DEF Among
  <2>3. QED
    BY <2>2
<1>2. ASSUME NEW S, \A i \in 1..n : xs[i] \in S /\ ys[i] \in S, NEW pair \in Zipped(xs, ys, n)
      PROVE  pair[1] \in S /\ pair[2] \in S
  BY <1>2 DEF Zipped
<1>3. QED
  BY <1>1, <1>2 DEF Among

\* Applying a function adds that its parameters are its arguments.
LEMMA UnifyAllGeneral ==
  ASSUME NEW u, Good(u), NEW E, General(u.terms, E), NEW arguments \in Seq(DOMAIN u.terms),
         NEW formals \in Seq(DOMAIN u.terms), Len(arguments) <= Len(formals),
         NEW y, y = UnifyAll(Unify[max_depth], u, arguments, formals), y.error = "none"
  PROVE  General(y.s.terms, E \cup Zipped(arguments, formals, Len(arguments)))
<1> DEFINE F == Zipped(arguments, formals, Len(arguments))
           C == Certain(u.terms)
           n == Len(arguments)
<1>0. max_depth \in 0..max_depth
  BY LimitsAssumption
<1>1. Unifies(Unify[max_depth])
  BY <1>0, UnifyUnifies
<1>2. Resolves(Unify[max_depth])
  BY <1>0, UnifyResolves
<1>3. Closed(u.terms, DOMAIN u.terms)
  BY AllClosed, GoodTypes
<1>4. UnifiedAll(DOMAIN u.terms, u, n, y)
  BY <1>1, <1>3, UnifiesAll
<1>5. Later(u, y.s)
  BY <1>4 DEF UnifiedAll, Went, Reached
<1>6. n \in Nat /\ \A i \in 1..n : arguments[i] \in DOMAIN u.terms /\ formals[i] \in DOMAIN u.terms
  <2>1. n \in Nat /\ Len(formals) \in Nat /\ \A i \in 1..n : i \in 1..Len(formals)
    OBVIOUS
  <2>2. QED
    BY <2>1
<1>7. Among(F, DOMAIN u.terms)
  BY <1>6, AmongZipped
<1>8. ASSUME Among(E \cup F, C) PROVE Went(C, u, y.s) /\ Solving(C, u, F, y.s)
  <2>1. Among(E, C) /\ Among(F, C)
    BY <1>8 DEF Among
  <2>2. Apt(C, u)
    BY <2>1, CertainApt
  <2>3. \A i \in 1..n : arguments[i] \in C /\ formals[i] \in C
    BY <1>6, <2>1, AmongZipped
  <2>4. arguments \in Seq(C)
    BY <2>3, ElementsIn
  <2> HIDE DEF C
  <2>5. UnifiedAll(C, u, n, y) /\ ResolvedAll(C, u, arguments, formals, n, y)
    BY <1>1, <1>2, <2>2, <2>3, <2>4, ResolvesAll
  <2>6. QED
    BY <2>5 DEF UnifiedAll, ResolvedAll
<1> HIDE DEF F
<1>9. General(y.s.terms, E \cup F)
  BY <1>5, <1>7, <1>8, GeneralSolving, Zenon
<1>10. QED
  BY <1>9 DEF F

\* Applying an overload adds that the arguments are of its parameters' types.
LEMMA ApplyGeneral ==
  ASSUME NEW s, Good(s), s.changes = <<>>, NEW E, General(s.terms, E),
         NEW function \in Overload, NEW arguments \in Seq(DOMAIN s.terms),
         Len(arguments) = Len(function.parameters), NEW r, r = Apply(s, function, arguments), r.error = "none"
  PROVE  General(r.s.terms, E \cup Zipped(arguments, r.is, Len(arguments)))
<1> DEFINE R == DOMAIN s.terms
           w == [s EXCEPT !.variables = {}]
           types == Append(function.parameters, function.result)
           x == InstantiateAll(Instantiate[max_depth], w, types)
           y == UnifyAll(Unify[max_depth], x.s, arguments, x.is)
           z == Applied(s, function, arguments)
<1>0. max_depth \in 0..max_depth
  BY LimitsAssumption
<1>1. types \in Seq(Types[max_depth + 1]) /\ Len(types) = Len(function.parameters) + 1
  BY OverloadTypes
<1>2. Closed(s.terms, R)
  BY AllClosed, GoodTypes
<1>3. /\ Good(w) /\ Grown(R, s, w) = R /\ Standing(R, w)
      /\ Closed(w.terms, R) /\ w.terms = s.terms /\ w.changes = <<>>
  BY <1>2, FreshStore
<1>4. z = IF x.error # "none" THEN x ELSE IF y.error = "none" THEN Returns(y.s, x.is) ELSE y
  BY DEF Applied, Then
<1>5. Later(s, z.s)
  BY AppliedLater
<1>6. r = Settled(Len(s.changes), z)
  BY DEF Apply
<1> HIDE DEF w, types, z
<1>7. r.error = z.error /\ (z.error = "none" => r.is = z.is /\ r.s.terms = z.s.terms)
  BY <1>5, <1>6, SettledEnded
<1>8. /\ x.error = "none" /\ y.error = "none" /\ z = Returns(y.s, x.is)
      /\ r.is = x.is /\ r.s.terms = y.s.terms
  BY <1>4, <1>7 DEF Returns
<1>9. InstantiatedAll(R, w, Len(types), x)
  <2>1. Instantiates(Instantiate[max_depth], Types[max_depth + 1])
    BY <1>0, InstantiateInstantiates
  <2>2. QED
    BY <1>1, <1>3, <2>1, InstantiatesAll
<1> HIDE DEF x, R, y
<1>10. /\ Good(x.s) /\ Later(w, x.s) /\ Closed(x.s.terms, Grown(R, w, x.s)) /\ x.s.changes = <<>>
       /\ R \subseteq Grown(R, w, x.s) /\ Grown(R, w, x.s) \subseteq DOMAIN x.s.terms
  <2>1. Reached(R, w, x.s) /\ x.s.changes = <<>>
    BY <1>3, <1>9 DEF InstantiatedAll
  <2>2. Good(x.s) /\ Later(w, x.s) /\ Closed(x.s.terms, Grown(R, w, x.s)) /\ R \subseteq Grown(R, w, x.s)
    BY <1>3, <2>1, ReachedGood
  <2>3. QED
    BY <2>1, <2>2 DEF Closed
<1>11. General(x.s.terms, E)
  <2>1. Kept(w, x.s)
    BY <1>3, <1>10, LaterKept
  <2>2. Adds(w.terms, x.s.terms)
    BY <1>3, <2>1, KeptAdds
  <2>3. QED
    BY <1>3, <2>2, GeneralAdds
<1>12. x.is \in Seq(DOMAIN x.s.terms) /\ Len(arguments) <= Len(x.is)
  <2>1. x.is \in Seq(Grown(R, w, x.s)) /\ Len(x.is) = Len(types)
    BY <1>8, <1>9 DEF InstantiatedAll
  <2>2. Len(arguments) <= Len(x.is)
    BY <1>1, <2>1, OverloadTypes
  <2>3. QED
    BY <1>10, <2>1, <2>2, WiderSequence
<1>13. arguments \in Seq(DOMAIN x.s.terms)
  <2>1. DOMAIN s.terms \subseteq DOMAIN x.s.terms
    BY <1>10 DEF R
  <2>2. QED
    BY <2>1, WiderSequence
<1>14. General(y.s.terms, E \cup Zipped(arguments, x.is, Len(arguments)))
  BY <1>8, <1>10, <1>11, <1>12, <1>13, UnifyAllGeneral, Zenon DEF y
<1>15. QED
  BY <1>8, <1>14

\* So does a call, by the function it applies; one that applies none adds nothing.
CallSays(E, F, r) ==
  IF r.error = "none" /\ r.is # <<>> THEN General(r.s.terms, E \cup F) ELSE General(r.s.terms, E)

\* A call adds what its only overload adds, and several or none add nothing.
LEMMA CallGeneral ==
  ASSUME NEW s, Good(s), s.changes = <<>>, NEW E, General(s.terms, E), NEW arguments \in Seq(DOMAIN s.terms),
         NEW r, r = CallIn(s, arguments), NEW F, F = {<<arguments[i], r.is[i]>> : i \in DOMAIN arguments}
  PROVE  CallSays(E, F, r)
<1>1. ASSUME r.error = "none", r.is # <<>>
      PROVE  General(r.s.terms, E \cup F)
  <2>1. Applies(s, arguments, r)
    BY <1>1, CallInApplies
  <2>2. PICK u : \E function \in Candidates(Len(arguments)) : Kept(s, u) /\ r = Apply(u, function, arguments)
    BY <2>1 DEF Applies
  <2>3. PICK function \in Candidates(Len(arguments)) : Kept(s, u) /\ r = Apply(u, function, arguments)
    BY <2>2
  <2>4. function \in Overload /\ Len(arguments) = Len(function.parameters)
    BY DEF Candidates
  <2>5. Good(u) /\ u.changes = <<>> /\ Adds(s.terms, u.terms)
    BY <2>3, KeptAdds DEF Kept
  <2>6. General(u.terms, E)
    BY <2>5, GeneralAdds
  <2>7. arguments \in Seq(DOMAIN u.terms)
    <3>1. DOMAIN s.terms \subseteq DOMAIN u.terms
      BY <2>5 DEF Adds
    <3>2. QED
      BY <3>1, WiderSequence
  <2>8. General(r.s.terms, E \cup Zipped(arguments, r.is, Len(arguments)))
    BY <1>1, <2>3, <2>4, <2>5, <2>6, <2>7, ApplyGeneral, Zenon
  <2>9. DOMAIN arguments = 1..Len(arguments)
    OBVIOUS
  <2>10. QED
    BY <2>8, <2>9, Zenon DEF Zipped
<1>2. ASSUME ~(r.error = "none" /\ r.is # <<>>) PROVE General(r.s.terms, E)
  <2>1. Called(s, r)
    BY CallInCalled
  <2>2. Kept(s, r.s)
    BY <1>2, <2>1 DEF Called, Ended
  <2>3. Adds(s.terms, r.s.terms)
    BY <2>2, KeptAdds
  <2>4. QED
    BY <2>3, GeneralAdds
<1>3. QED
  BY <1>1, <1>2 DEF CallSays

-----------------------------------------------------------------------------
(* What the store of the checker says *)

\* Between operations the store says what the equations say, if all is certain.
Meant == General(terms, equations) /\ (refuted # NoPair => Excludes(terms, equations, refuted))

\* Before anything is unified nothing is said.
LEMMA InitMeant ==
  ASSUME Init
  PROVE  Meant
<1> DEFINE none == <<>>
<1>1. Sound(terms)
  BY InitGood, NowFields, GoodTypes DEF IInv
<1>2. none \in Seq(Terms) /\ DOMAIN none = {} /\ Sound(none)
  <2>1. none \in Seq(Terms) /\ DOMAIN none = {}
    OBVIOUS
  <2>2. Shaped(none)
    BY <2>1 DEF Shaped
  <2>3. Balanced(none)
    <3>1. 0 \in Nat /\ \A t \in DOMAIN none : none[t].rank <= 0
      BY <2>1
    <3>2. QED
      BY <2>1, <3>1 DEF Balanced
  <2>4. QED
    BY <2>1, <2>2, <2>3 DEF Sound
<1>3. \A t \in DOMAIN terms : Unlinked(terms[t])
  <2>1. PICK store \in Inferred : terms = store
    BY DEF Init
  <2>2. \A t \in DOMAIN store : store[t] = Named(store[t].name, store[t].parameters)
    BY InferredAssumption
  <2>3. QED
    BY <2>1, <2>2 DEF Unlinked
<1> HIDE DEF none
<1>4. Adds(none, terms)
  BY <1>1, <1>2, <1>3 DEF Adds
<1>5. General(none, {})
  <2>1. Certain(none) = {}
    BY <1>2 DEF Certain
  <2>2. Closed(none, {})
    BY DEF Closed
  <2>3. Ends(none, {})
    <3> DEFINE h == [t \in {} |-> 0]
    <3>1. h \in [{} -> 0..0] /\ 0 \in Nat
      OBVIOUS
    <3> HIDE DEF h
    <3>2. Descends(h, none, {})
      BY <3>1 DEF Descends
    <3>3. QED
      BY <3>2 DEF Ends
  <2>4. \A m : Solves(m, {}) /\ Respected(m, none)
    BY <2>1 DEF Solves, Respected, Respects
  <2>5. QED
    BY <2>1, <2>2, <2>3, <2>4 DEF General, Certainly, Among
<1>6. General(terms, {})
  BY <1>4, <1>5, GeneralAdds
<1>7. equations = {} /\ refuted = NoPair
  BY DEF Init
<1>8. QED
  BY <1>6, <1>7 DEF Meant

LEMMA CombineMeant ==
  ASSUME IInv, Meant, NEW a \in DOMAIN terms, NEW b \in DOMAIN terms, Combine(a, b)
  PROVE  Meant'
<1>1. PICK r : /\ r = CombineIn(Now, a, b) /\ terms' = r.s.terms
               /\ equations' = IF r.error = "none" THEN equations \cup {<<a, b>>} ELSE equations
               /\ refuted' = IF r.error = "TypeMismatch" THEN <<a, b>> ELSE NoPair
  BY DEF Combine, Became, Moved
<1>2. General(Now.terms, equations)
  BY NowFields DEF Meant
<1>3. /\ r.error = "none" => General(r.s.terms, equations \cup {<<a, b>>})
      /\ r.error # "none" => General(r.s.terms, equations)
      /\ r.error = "TypeMismatch" => Excludes(r.s.terms, equations, <<a, b>>)
  BY <1>1, <1>2, AllTerms, CombineGeneral, Zenon
<1>4. General(terms', equations')
  BY <1>1, <1>3
<1>5. refuted' # NoPair => Excludes(terms', equations', refuted')
  BY <1>1, <1>3
<1>6. QED
  BY <1>4, <1>5 DEF Meant

LEMMA JoinMeant ==
  ASSUME IInv, Meant, NEW a \in DOMAIN terms, NEW b \in DOMAIN terms, Join(a, b)
  PROVE  Meant'
<1>1. PICK combined : /\ combined = CombineIn(Now, a, b) /\ terms' = OrDyn(combined).s.terms
                      /\ equations' = IF combined.error = "none" THEN equations \cup {<<a, b>>} ELSE equations
                      /\ refuted' = IF combined.error = "TypeMismatch" THEN <<a, b>> ELSE NoPair
  BY DEF Join, Became, Moved
<1>2. General(Now.terms, equations)
  BY NowFields DEF Meant
<1>3. PICK r : r = OrDyn(combined)
  OBVIOUS
<1>4. /\ combined.error = "none" => General(r.s.terms, equations \cup {<<a, b>>})
      /\ combined.error # "none" => General(r.s.terms, equations)
      /\ combined.error = "TypeMismatch" => Excludes(r.s.terms, equations, <<a, b>>)
  BY <1>1, <1>2, <1>3, AllTerms, JoinGeneral, Zenon
<1>5. terms' = r.s.terms
  BY <1>1, <1>3
<1>6. General(terms', equations')
  BY <1>1, <1>4, <1>5
<1>7. refuted' # NoPair => Excludes(terms', equations', refuted')
  BY <1>1, <1>4, <1>5
<1>8. QED
  BY <1>6, <1>7 DEF Meant

LEMMA CallMeant ==
  ASSUME IInv, Meant, NEW arguments \in Seq(DOMAIN terms), Call(arguments)
  PROVE  Meant'
<1>1. PICK r : /\ r = CallIn(Now, arguments) /\ terms' = r.s.terms
               /\ committed' = (r.error = "none" /\ r.is # <<>>)
               /\ equations' = IF committed'
                               THEN equations \cup {<<arguments[i], r.is[i]>> : i \in DOMAIN arguments}
                               ELSE equations
               /\ refuted' = NoPair
  BY Zenon DEF Call, Became, Moved
<1>2. General(Now.terms, equations)
  BY NowFields DEF Meant
<1>3. arguments \in Seq(DOMAIN Now.terms)
  BY NowFields
<1>f. PICK F : F = {<<arguments[i], r.is[i]>> : i \in DOMAIN arguments}
  BY Zenon
<1>4. CallSays(equations, F, r)
  BY <1>1, <1>2, <1>3, <1>f, AllTerms, CallGeneral, Zenon
<1>5. General(terms', equations')
  BY <1>1, <1>4, <1>f, Zenon DEF CallSays
<1>6. QED
  BY <1>1, <1>5 DEF Meant

LEMMA FinishesMeant ==
  ASSUME IInv, Meant, NEW t \in DOMAIN terms, Finishes(t)
  PROVE  Meant'
<1>1. PICK r : r = FinishWhole(Now, t) /\ terms' = r.s.terms
  BY DEF Finishes, Moved
<1>2. FinishesTo(Finish[max_depth], GroundTypes(max_depth))
  BY LimitsAssumption, FinishFinishes
<1>3. Like(Now, r.s)
  BY <1>1, <1>2, AllTerms DEF FinishesTo, FinishWhole, Finished
<1>4. terms' = terms /\ equations' = equations /\ refuted' = refuted
  BY <1>1, <1>3, NowFields DEF Finishes, Like
<1>5. QED
  BY <1>4 DEF Meant

\* Every step keeps what the store means.
LEMMA StepMeant ==
  IInv /\ Meant /\ [Next]_vars => Meant'
<1> SUFFICES ASSUME IInv, Meant, [Next]_vars PROVE Meant'
  OBVIOUS
<1>1. ASSUME NEW a \in DOMAIN terms, NEW b \in DOMAIN terms, Combine(a, b)
      PROVE  Meant'
  BY <1>1, CombineMeant
<1>2. ASSUME NEW a \in DOMAIN terms, NEW b \in DOMAIN terms, Join(a, b)
      PROVE  Meant'
  BY <1>2, JoinMeant
<1>3. ASSUME NEW a \in DOMAIN terms, NEW b \in DOMAIN terms, Call(<<a, b>>)
      PROVE  Meant'
  <2>1. <<a, b>> \in Seq(DOMAIN terms)
    OBVIOUS
  <2>2. QED
    BY <1>3, <2>1, CallMeant, Zenon
<1>4. ASSUME NEW a \in DOMAIN terms, Call(<<a>>)
      PROVE  Meant'
  <2>1. <<a>> \in Seq(DOMAIN terms)
    OBVIOUS
  <2>2. QED
    BY <1>4, <2>1, CallMeant, Zenon
<1>5. ASSUME NEW a \in DOMAIN terms, Finishes(a)
      PROVE  Meant'
  BY <1>5, FinishesMeant
<1>6. CASE UNCHANGED vars
  <2>1. terms' = terms /\ equations' = equations /\ refuted' = refuted
    BY <1>6 DEF vars
  <2>2. QED
    BY <2>1 DEF Meant
<1>7. QED
  BY <1>1, <1>2, <1>3, <1>4, <1>5, <1>6, Zenon DEF Next

LEMMA AlwaysMeant ==
  Spec => [](IInv /\ Meant)
BY InitGood, InitMeant, StepGood, StepMeant, PTL DEF Spec

-----------------------------------------------------------------------------
(* What terms denote *)

LEMMA InsideDefinition ==
  ASSUME Sound(terms)
  PROVE  \A t \in DOMAIN terms :
           Inside[t] = {t} \cup UNION {Inside[terms[t].parameters[i]] : i \in DOMAIN terms[t].parameters}
<1> DEFINE N == Len(terms)
           F(g, t) == {t} \cup UNION {g[terms[t].parameters[i]] : i \in DOMAIN terms[t].parameters}
           T == {n \in 0..N : \E g : g = [t \in 1..n |-> F(g, t)]}
<1>0. /\ N \in Nat /\ DOMAIN terms = 1..N
      /\ \A t \in 1..N : \A i \in DOMAIN terms[t].parameters : terms[t].parameters[i] \in 1..N /\ terms[t].parameters[i] < t
  BY DEF Sound, Shaped
<1> HIDE DEF N
<1>1. 0 \in T
  <2> DEFINE g == [t \in 1..0 |-> {}]
  <2>1. g = [t \in 1..0 |-> F(g, t)]
    OBVIOUS
  <2> HIDE DEF g, F
  <2>2. 0 \in 0..N
    BY <1>0
  <2>3. \E f : f = [t \in 1..0 |-> F(f, t)]
    BY <2>1
  <2>4. QED
    BY <2>2, <2>3, Zenon
<1>2. ASSUME NEW n \in 1..N, n - 1 \in T PROVE n \in T
  <2>1. PICK g : g = [t \in 1..(n - 1) |-> F(g, t)]
    BY <1>2, Zenon
  <2> DEFINE h == [t \in 1..n |-> IF t < n THEN g[t] ELSE F(g, t)]
  <2>2. ASSUME NEW t \in 1..n PROVE h[t] = F(h, t)
    <3>1. h[t] = F(g, t)
      <4> HIDE DEF F
      <4>1. h[t] = IF t < n THEN g[t] ELSE F(g, t)
        OBVIOUS
      <4>2. t < n => t \in 1..(n - 1)
        BY <1>0
      <4>3. \A u \in 1..(n - 1) : g[u] = F(g, u)
        BY <2>1
      <4> HIDE DEF h
      <4>4. QED
        BY <4>1, <4>2, <4>3
    <3>2. \A i \in DOMAIN terms[t].parameters : h[terms[t].parameters[i]] = g[terms[t].parameters[i]]
      BY <1>0
    <3> HIDE DEF h
    <3>3. F(g, t) = F(h, t)
      BY <3>2
    <3>4. QED
      BY <3>1, <3>3
  <2> HIDE DEF h, F
  <2>3. h = [t \in 1..n |-> F(h, t)]
    BY <2>2 DEF h
  <2>4. QED
    BY <2>3
<1>3. \E g : g = [t \in 1..N |-> F(g, t)]
  <2>1. 0..N \subseteq T
    <3> HIDE DEF T
    <3> QED BY <1>0, <1>1, <1>2, Induction, Zenon
  <2> HIDE DEF F
  <2>2. QED
    BY <1>0, <2>1
<1>4. Inside = CHOOSE g : g = [t \in DOMAIN terms |-> F(g, t)]
  BY DEF Inside
<1>5. Inside = [t \in DOMAIN terms |-> F(Inside, t)]
  <2> HIDE DEF F
  <2> QED BY <1>0, <1>3, <1>4, Zenon
<1>6. \A t \in DOMAIN terms : Inside[t] = F(Inside, t)
  <2> HIDE DEF F
  <2> QED BY <1>5
<1>7. QED
  BY <1>6

\* What is inside of a term has all it is made of inside.
LEMMA InsideWhole ==
  ASSUME Sound(terms)
  PROVE  \A t \in DOMAIN terms :
           /\ t \in Inside[t] /\ Inside[t] \subseteq DOMAIN terms
           /\ \A u \in Inside[t] : \A i \in DOMAIN terms[u].parameters : terms[u].parameters[i] \in Inside[t]
<1> DEFINE N == Len(terms)
           Right(t) == /\ t \in Inside[t] /\ Inside[t] \subseteq DOMAIN terms
                       /\ \A u \in Inside[t] : \A i \in DOMAIN terms[u].parameters : terms[u].parameters[i] \in Inside[t]
           T == {n \in 0..N : \A t \in 1..n : Right(t)}
<1>0. /\ N \in Nat /\ DOMAIN terms = 1..N
      /\ \A t \in 1..N : \A i \in DOMAIN terms[t].parameters : terms[t].parameters[i] \in 1..N /\ terms[t].parameters[i] < t
  BY DEF Sound, Shaped
<1> HIDE DEF N
<1>1. 0 \in T
  BY <1>0
<1>2. ASSUME NEW n \in 1..N, n - 1 \in T PROVE n \in T
  <2>1. \A t \in 1..(n - 1) : Right(t)
    BY <1>2
  <2>2. \A i \in DOMAIN terms[n].parameters : Right(terms[n].parameters[i])
    <3> HIDE DEF Right
    <3> QED BY <1>0, <2>1
  <2>3. Inside[n] = {n} \cup UNION {Inside[terms[n].parameters[i]] : i \in DOMAIN terms[n].parameters}
    BY <1>0, InsideDefinition
  <2>4. n \in Inside[n] /\ Inside[n] \subseteq DOMAIN terms
    BY <1>0, <2>2, <2>3
  <2>5. ASSUME NEW u \in Inside[n], NEW i \in DOMAIN terms[u].parameters PROVE terms[u].parameters[i] \in Inside[n]
    <3>1. CASE u = n
      <4>1. terms[n].parameters[i] \in Inside[terms[n].parameters[i]]
        BY <2>2, <2>5, <3>1
      <4>2. QED
        BY <2>3, <2>5, <3>1, <4>1
    <3>2. CASE u # n
      <4>1. PICK j \in DOMAIN terms[n].parameters : u \in Inside[terms[n].parameters[j]]
        BY <2>3, <2>5, <3>2
      <4>2. terms[u].parameters[i] \in Inside[terms[n].parameters[j]]
        BY <2>2, <2>5, <4>1
      <4>3. QED
        BY <2>3, <4>2
    <3>3. QED
      BY <3>1, <3>2
  <2>6. Right(n)
    BY <2>4, <2>5
  <2> HIDE DEF Right
  <2>7. \A t \in 1..n : Right(t)
    <3>1. \A t \in 1..n : t = n \/ t \in 1..(n - 1)
      BY <1>0
    <3>2. QED
      BY <2>1, <2>6, <3>1
  <2>8. QED
    BY <2>7
<1>3. 0..N \subseteq T
  <2> HIDE DEF T
  <2> QED BY <1>0, <1>1, <1>2, Induction
<1> HIDE DEF Right
<1>4. \A t \in 1..N : Right(t)
  BY <1>0, <1>3
<1>5. QED
  BY <1>0, <1>4 DEF Right

\* The terms of the equations are certain if no type in them is gradual.
LEMMA PreciseCertain ==
  ASSUME Sound(terms), Precise, NEW pair \in Equations, pair[1] \in DOMAIN terms, pair[2] \in DOMAIN terms
  PROVE  pair[1] \in Certain(terms) /\ pair[2] \in Certain(terms)
<1>1. ASSUME NEW t \in {pair[1], pair[2]} PROVE t \in Certain(terms)
  <2>1. \A u \in Inside[t] : ~Gradual(terms[u])
    BY DEF Precise
  <2>2. /\ t \in Inside[t] /\ Inside[t] \subseteq DOMAIN terms
        /\ \A u \in Inside[t] : \A i \in DOMAIN terms[u].parameters : terms[u].parameters[i] \in Inside[t]
    BY InsideWhole
  <2>3. Whole(terms, Inside[t])
    BY <2>1, <2>2 DEF Whole
  <2>4. QED
    BY <2>2, <2>3, CertainWhole
<1>2. QED
  BY <1>1

\* The recursion of Denoted.
DenotedBy(f, solution, t) ==
  IF t \in DOMAIN solution THEN solution[t]
  ELSE IF IsVariable(terms, t) THEN Type("dyn", <<>>)
  ELSE Type(terms[t].name, [i \in DOMAIN terms[t].parameters |-> f[terms[t].parameters[i]]])

LEMMA DenotedDefinition ==
  ASSUME Sound(terms), NEW solution
  PROVE  Denoted(solution) = [t \in DOMAIN terms |-> DenotedBy(Denoted(solution), solution, t)]
<1> DEFINE N == Len(terms)
           F(g, t) == DenotedBy(g, solution, t)
           T == {n \in 0..N : \E g : g = [t \in 1..n |-> F(g, t)]}
<1>0. /\ N \in Nat /\ DOMAIN terms = 1..N
      /\ \A t \in 1..N : \A i \in DOMAIN terms[t].parameters : terms[t].parameters[i] \in 1..N /\ terms[t].parameters[i] < t
  BY DEF Sound, Shaped
<1> HIDE DEF N
<1>1. 0 \in T
  <2> DEFINE g == [t \in 1..0 |-> {}]
  <2>1. g = [t \in 1..0 |-> F(g, t)]
    OBVIOUS
  <2> HIDE DEF g, F
  <2>2. 0 \in 0..N
    BY <1>0
  <2>3. \E f : f = [t \in 1..0 |-> F(f, t)]
    BY <2>1
  <2>4. QED
    BY <2>2, <2>3, Zenon
<1>2. ASSUME NEW n \in 1..N, n - 1 \in T PROVE n \in T
  <2>1. PICK g : g = [t \in 1..(n - 1) |-> F(g, t)]
    BY <1>2
  <2> DEFINE h == [t \in 1..n |-> IF t < n THEN g[t] ELSE F(g, t)]
  <2>2. ASSUME NEW t \in 1..n PROVE h[t] = F(h, t)
    <3>1. h[t] = F(g, t)
      <4> HIDE DEF F
      <4>1. h[t] = IF t < n THEN g[t] ELSE F(g, t)
        OBVIOUS
      <4>2. t < n => t \in 1..(n - 1)
        BY <1>0
      <4>3. \A u \in 1..(n - 1) : g[u] = F(g, u)
        BY <2>1
      <4> HIDE DEF h
      <4>4. QED
        BY <4>1, <4>2, <4>3
    <3>2. \A i \in DOMAIN terms[t].parameters : h[terms[t].parameters[i]] = g[terms[t].parameters[i]]
      BY <1>0
    <3> HIDE DEF h
    <3>3. [i \in DOMAIN terms[t].parameters |-> h[terms[t].parameters[i]]]
            = [i \in DOMAIN terms[t].parameters |-> g[terms[t].parameters[i]]]
      BY <3>2
    <3>4. F(g, t) = F(h, t)
      BY <3>3 DEF DenotedBy
    <3>5. QED
      BY <3>1, <3>4
  <2> HIDE DEF h, F
  <2>3. h = [t \in 1..n |-> F(h, t)]
    BY <2>2 DEF h
  <2>4. QED
    BY <2>3
<1>3. \E g : g = [t \in 1..N |-> F(g, t)]
  <2>1. 0..N \subseteq T
    <3> HIDE DEF T
    <3> QED BY <1>0, <1>1, <1>2, Induction
  <2> HIDE DEF F
  <2>2. QED
    BY <1>0, <2>1
<1>4. Denoted(solution) = CHOOSE g : g = [t \in DOMAIN terms |-> F(g, t)]
  BY DEF Denoted, DenotedBy
<1>5. QED
  <2> HIDE DEF F
  <2>1. Denoted(solution) = [t \in DOMAIN terms |-> F(Denoted(solution), t)]
    BY <1>0, <1>3, <1>4, Zenon
  <2>2. QED
    BY <2>1 DEF F

-----------------------------------------------------------------------------
(* Levels of types *)

\* Types of so many levels, as Types has them, but of more levels than max_depth.
Levels(L, N) == L[0] = {} /\ \A n \in 1..N : L[n] = TypesOver(L[n - 1])

LEMMA LevelsExist ==
  ASSUME NEW N \in Nat
  PROVE  \E L : Levels(L, N)
<1> DEFINE First == {}
<1> DEFINE F(g, n) == IF n = 0 THEN First ELSE TypesOver(g[n - 1])
           T == {n \in 0..N : \E g : g = [m \in 0..n |-> F(g, m)]}
<1> HIDE DEF First
<1>1. 0 \in T
  <2> DEFINE g == [m \in 0..0 |-> First]
  <2>1. g = [m \in 0..0 |-> F(g, m)]
    OBVIOUS
  <2> HIDE DEF g, F
  <2>2. QED
    BY <2>1
<1>2. ASSUME NEW n \in 1..N, n - 1 \in T PROVE n \in T
  <2>1. PICK g : g = [m \in 0..(n - 1) |-> F(g, m)]
    BY <1>2
  <2> DEFINE h == [m \in 0..n |-> IF m < n THEN g[m] ELSE F(g, n)]
  <2>2. \A m \in 0..n : h[m] = F(h, m)
    BY <2>1
  <2> HIDE DEF h, F
  <2>3. h = [m \in 0..n |-> F(h, m)]
    BY <2>2 DEF h
  <2>4. QED
    BY <2>3
<1>3. PICK L : L = [m \in 0..N |-> F(L, m)]
  <2>1. 0..N \subseteq T
    <3> HIDE DEF T
    <3> QED BY <1>1, <1>2, Induction
  <2> HIDE DEF F
  <2>2. QED
    BY <2>1
<1>4. L[0] = First /\ \A n \in 1..N : L[n] = TypesOver(L[n - 1])
  <2>1. \A n \in 0..N : L[n] = F(L, n)
    <3> HIDE DEF F
    <3> QED BY <1>3
  <2>2. 0 \in 0..N /\ \A n \in 1..N : n \in 0..N /\ n # 0
    OBVIOUS
  <2>3. QED
    BY <2>1, <2>2
<1>5. Levels(L, N)
  BY <1>4 DEF Levels, First
<1>6. QED
  BY <1>5

LEMMA TypesOverMore ==
  ASSUME NEW S, NEW U, S \subseteq U
  PROVE  TypesOver(S) \subseteq TypesOver(U)
BY DEF TypesOver

LEMMA LevelsGrow ==
  ASSUME NEW N \in Nat, NEW L, Levels(L, N)
  PROVE  \A n \in 0..N : \A m \in 0..n : L[m] \subseteq L[n]
<1> DEFINE T == {n \in 0..N : /\ \A m \in 0..n : L[m] \subseteq L[n]
                              /\ n # 0 => L[n - 1] \subseteq L[n]}
<1>1. 0 \in T
  OBVIOUS
<1>2. ASSUME NEW n \in 1..N, n - 1 \in T PROVE n \in T
  <2>1. L[n - 1] \subseteq L[n]
    <3>1. CASE n = 1
      BY <3>1 DEF Levels
    <3>2. CASE n # 1
      <4> DEFINE k == n - 1
      <4>1. k \in 1..N /\ n \in 1..N /\ L[k - 1] \subseteq L[k] /\ n - 1 = k
        BY <1>2, <3>2
      <4>2. L[n] = TypesOver(L[k]) /\ L[k] = TypesOver(L[k - 1])
        <5> HIDE DEF k
        <5> QED BY <4>1 DEF Levels
      <4> HIDE DEF k
      <4>3. QED
        BY <4>1, <4>2, TypesOverMore
    <3>3. QED
      BY <3>1, <3>2
  <2>2. \A m \in 0..(n - 1) : L[m] \subseteq L[n - 1]
    BY <1>2
  <2>3. ASSUME NEW m \in 0..n PROVE L[m] \subseteq L[n]
    <3>1. m = n \/ m \in 0..(n - 1)
      OBVIOUS
    <3>2. QED
      BY <2>1, <2>2, <3>1
  <2>4. QED
    BY <2>1, <2>3
<1>3. 0..N \subseteq T
  <2> HIDE DEF T
  <2> QED BY <1>1, <1>2, Induction
<1>4. QED
  BY <1>3

LEMMA LevelsTypes ==
  ASSUME NEW N \in Nat, max_depth + 1 <= N, NEW L, Levels(L, N)
  PROVE  Types[max_depth + 1] = L[max_depth + 1]
<1> DEFINE K == max_depth + 1
           T == {n \in 0..K : Types[n] = L[n]}
<1>0. K \in Nat /\ K <= N
  BY LimitsAssumption
<1>1. \A n \in 1..K : Types[n] = TypesOver(Types[n - 1])
  BY TypesDefinition
<1>2. \A n \in 1..K : L[n] = TypesOver(L[n - 1])
  BY <1>0 DEF Levels
<1> HIDE DEF K
<1>3. 0 \in T
  BY <1>0, TypesDefinition DEF Levels
<1>4. ASSUME NEW n \in 1..K, n - 1 \in T PROVE n \in T
  BY <1>0, <1>1, <1>2, <1>4
<1>5. 0..K \subseteq T
  <2> HIDE DEF T
  <2> QED BY <1>0, <1>3, <1>4, Induction
<1>6. Types[K] = L[K]
  BY <1>0, <1>5
<1>7. QED
  BY <1>6 DEF K

\* A solution of what the store says, for some of its variables.
Assigns(solution) == DOMAIN solution \subseteq Variables /\ \A t \in DOMAIN solution : solution[t] \in Types[max_depth + 1]

\* What named terms and the other variables denote.
LEMMA DenotedTerms ==
  ASSUME Sound(terms), NEW solution, Assigns(solution), NEW f, f = Denoted(solution), NEW t \in DOMAIN terms
  PROVE  /\ t \in DOMAIN solution => f[t] = solution[t]
         /\ t \notin DOMAIN solution /\ terms[t].name = NoName => f[t] = Type("dyn", <<>>)
         /\ terms[t].name # NoName =>
              f[t] = Type(terms[t].name, [i \in DOMAIN terms[t].parameters |-> f[terms[t].parameters[i]]])
<1>1. f = [u \in DOMAIN terms |-> DenotedBy(f, solution, u)]
  BY DenotedDefinition
<1>2. f[t] = DenotedBy(f, solution, t)
  BY <1>1
<1>3. terms[t].name # NoName => t \notin DOMAIN solution
  BY DEF Assigns, Variables, IsVariable
<1>4. QED
  BY <1>2, <1>3 DEF DenotedBy, IsVariable

LEMMA NonEmptyDomain ==
  ASSUME NEW S, NEW q \in Seq(S), q # <<>>
  PROVE  DOMAIN q # {}
<1>1. <<>> \in Seq(S) /\ Len(<<>>) = 0
  OBVIOUS
<1>2. Len(q) = 0 => q = <<>>
  BY <1>1, SameSequence
<1>3. Len(q) \in Nat /\ DOMAIN q = 1..Len(q)
  OBVIOUS
<1>4. 1 \in DOMAIN q
  BY <1>2, <1>3
<1>5. QED
  BY <1>4

\* A term denotes a type of so many levels.
LEMMA DenotedLevels ==
  ASSUME Sound(terms), NEW solution, Assigns(solution), NEW f, f = Denoted(solution),
         NEW N, N = max_depth + 1 + Len(terms), NEW L, Levels(L, N)
  PROVE  N \in Nat /\ \A t \in DOMAIN terms : f[t] \in L[N]
<1> DEFINE K == max_depth + 1
           T == {n \in 0..Len(terms) : \A t \in 1..n : f[t] \in L[K + n]}
<1>0. /\ Len(terms) \in Nat /\ DOMAIN terms = 1..Len(terms) /\ K \in Nat /\ N \in Nat /\ N = K + Len(terms) /\ 1 <= K
      /\ \A t \in DOMAIN terms : \A i \in DOMAIN terms[t].parameters : terms[t].parameters[i] \in 1..Len(terms) /\ terms[t].parameters[i] < t
  BY LimitsAssumption DEF Sound, Shaped
<1>1. Types[K] = L[K]
  BY <1>0, LevelsTypes
<1>2. \A n \in 0..N : \A m \in 0..n : L[m] \subseteq L[n]
  BY <1>0, LevelsGrow
<1>s. \A t \in DOMAIN solution : solution[t] \in L[K]
  BY <1>1 DEF Assigns
<1> HIDE DEF K
<1>3. 0 \in T
  BY <1>0
<1>4. ASSUME NEW n \in 1..Len(terms), n - 1 \in T PROVE n \in T
  <2> DEFINE k == K + (n - 1)
  <2>1. /\ \A t \in 1..(n - 1) : f[t] \in L[k]
        /\ k \in 0..N /\ K + n = k + 1 /\ k + 1 \in 1..N /\ (k + 1) - 1 = k /\ K \in 0..(k + 1) /\ k \in 0..(k + 1) /\ 1 \in 0..(k + 1)
    BY <1>0, <1>4
  <2> HIDE DEF k
  <2>2. L[k] \subseteq L[k + 1] /\ L[K] \subseteq L[k + 1] /\ L[k + 1] = TypesOver(L[k])
    BY <1>2, <2>1 DEF Levels
  <2>3. n \in DOMAIN terms /\ terms[n] \in Terms
    BY <1>0, TermTypes DEF Sound
  <2>4. f[n] \in L[k + 1]
    <3>1. CASE n \in DOMAIN solution
      <4>0. f[n] = solution[n]
        BY <2>3, <3>1, DenotedTerms, Zenon
      <4>1. f[n] \in L[K]
        BY <1>s, <3>1, <4>0
      <4>2. QED
        BY <2>2, <4>1
    <3>2. CASE n \notin DOMAIN solution /\ terms[n].name = NoName
      <4>1. f[n] = Type("dyn", <<>>)
        BY <2>3, <3>2, DenotedTerms, Zenon
      <4>2. Type("dyn", <<>>) \in TypesOver(L[k])
        BY NamesAssumption, SmallTuples DEF TypesOver, Type, NoName, Nothing
      <4>3. QED
        BY <2>2, <4>1, <4>2
    <3>3. CASE terms[n].name # NoName
      <4> DEFINE ts == [i \in DOMAIN terms[n].parameters |-> f[terms[n].parameters[i]]]
      <4>1. f[n] = Type(terms[n].name, ts)
        BY <2>3, <3>3, DenotedTerms
      <4>2. \A i \in DOMAIN terms[n].parameters : terms[n].parameters[i] \in 1..(n - 1)
        BY <1>0, <2>3
      <4>3. ts \in Seq(L[k])
        <5>1. terms[n].parameters \in Seq(Nat)
          BY <2>3 DEF Terms
        <5> DEFINE size == Len(terms[n].parameters)
        <5>2. size \in Nat /\ DOMAIN terms[n].parameters = 1..size
          BY <5>1
        <5>3. \A i \in 1..size : ts[i] \in L[k]
          BY <2>1, <4>2, <5>2, Zenon
        <5>4. ts = [i \in 1..size |-> ts[i]]
          BY <5>2
        <5> HIDE DEF ts, size
        <5>5. QED
          BY <5>2, <5>3, <5>4
      <4>4. terms[n].name = "wrapper" => ts # <<>>
        <5>1. terms[n].name = "wrapper" => terms[n].parameters # <<>>
          BY <2>3 DEF Sound, Shaped
        <5>2. terms[n].parameters \in Seq(Nat)
          BY <2>3 DEF Terms
        <5>3. terms[n].parameters # <<>> => DOMAIN terms[n].parameters # {}
          BY <5>2, NonEmptyDomain
        <5>4. DOMAIN ts = DOMAIN terms[n].parameters
          OBVIOUS
        <5> HIDE DEF ts
        <5>5. QED
          BY <5>1, <5>3, <5>4
      <4> HIDE DEF ts
      <4>5. terms[n].name \in Names
        BY <2>3 DEF Terms
      <4>6. Type(terms[n].name, ts) \in TypesOver(L[k])
        BY <3>3, <4>3, <4>4, <4>5 DEF TypesOver, Type, Nothing
      <4>7. QED
        BY <2>2, <4>1, <4>6
    <3>4. QED
      BY <3>1, <3>2, <3>3
  <2>5. \A t \in 1..n : f[t] \in L[k + 1]
    <3>1. \A t \in 1..n : t = n \/ t \in 1..(n - 1)
      BY <1>0
    <3>2. QED
      BY <2>1, <2>2, <2>4, <3>1
  <2>6. QED
    BY <2>1, <2>5
<1>5. 0..Len(terms) \subseteq T
  <2> HIDE DEF T
  <2> QED BY <1>0, <1>3, <1>4, Induction
<1>6. QED
  BY <1>0, <1>5

\* Types are equal if they are made of the same, and no type contains itself.
LEMMA DenotedSolution ==
  ASSUME Sound(terms), NEW solution, Assigns(solution)
  PROVE  Solution(Denoted(solution), terms)
<1> DEFINE N == max_depth + 1 + Len(terms)
           f == Denoted(solution)
           Of(t) == [i \in DOMAIN terms[t].parameters |-> f[terms[t].parameters[i]]]
<1>1. PICK L : Levels(L, N)
  BY LevelsExist, LimitsAssumption DEF Sound
<1>2. N \in Nat /\ \A t \in DOMAIN terms : f[t] \in L[N]
  BY <1>1, DenotedLevels
<1>3. \A t \in DOMAIN terms : terms[t].name # NoName => f[t] = Type(terms[t].name, Of(t))
  BY DenotedTerms
<1>4. \A t \in DOMAIN terms : terms[t].parameters \in Seq(Nat)
  BY TermTypes DEF Sound
<1> HIDE DEF f, N
<1>5. \A name, ts : Type(name, ts).name = name /\ Type(name, ts).parameters = ts
  BY DEF Type
<1>6. Congruent(f, terms, DOMAIN terms)
  <2> SUFFICES ASSUME NEW t \in DOMAIN terms, NEW u \in DOMAIN terms, terms[t].name # NoName, Alike(f, terms, t, u)
               PROVE  f[t] = f[u]
    BY DEF Congruent
  <2>1. DOMAIN terms[t].parameters = DOMAIN terms[u].parameters
    BY <1>4 DEF Alike
  <2>2. Of(t) = Of(u)
    BY <2>1 DEF Alike
  <2>3. terms[t].name = terms[u].name
    BY DEF Alike
  <2> HIDE DEF Of
  <2>4. QED
    BY <1>3, <2>2, <2>3
<1>7. Free(f, terms)
  <2> SUFFICES ASSUME NEW t \in DOMAIN terms, NEW u \in DOMAIN terms,
                      terms[t].name # NoName, terms[u].name # NoName, f[t] = f[u]
               PROVE  Alike(f, terms, t, u)
    BY DEF Free
  <2>1. terms[t].name = terms[u].name /\ Of(t) = Of(u)
    <3> HIDE DEF Of
    <3> QED BY <1>3, <1>5
  <2>2. DOMAIN terms[t].parameters = DOMAIN terms[u].parameters
    <3>1. DOMAIN Of(t) = DOMAIN terms[t].parameters /\ DOMAIN Of(u) = DOMAIN terms[u].parameters
      OBVIOUS
    <3> HIDE DEF Of
    <3>2. QED
      BY <2>1, <3>1
  <2>3. Len(terms[t].parameters) = Len(terms[u].parameters)
    BY <1>4, <2>2
  <2>4. ASSUME NEW i \in DOMAIN terms[t].parameters PROVE f[terms[t].parameters[i]] = f[terms[u].parameters[i]]
    <3>1. Of(t)[i] = f[terms[t].parameters[i]] /\ Of(u)[i] = f[terms[u].parameters[i]]
      BY <2>2
    <3> HIDE DEF Of
    <3>2. QED
      BY <2>1, <3>1
  <2>5. QED
    BY <2>1, <2>3, <2>4 DEF Alike
<1> DEFINE At(t) == {n \in 0..N : f[t] \in L[n]}
           h == [t \in DOMAIN terms |-> Lowest(At(t))]
<1>8. ASSUME NEW t \in DOMAIN terms
      PROVE  h[t] \in 0..N /\ f[t] \in L[h[t]] /\ \A n \in 0..N : f[t] \in L[n] => h[t] <= n
  <2>1. At(t) \subseteq Nat /\ N \in At(t)
    BY <1>2
  <2>2. \A n \in At(t) : Lowest(At(t)) \in At(t) /\ Lowest(At(t)) <= n
    <3> HIDE DEF At
    <3> QED BY <2>1, LowestElement
  <2>3. h[t] = Lowest(At(t))
    OBVIOUS
  <2>4. Lowest(At(t)) \in At(t)
    <3> HIDE DEF At
    <3> QED BY <2>1, <2>2
  <2>5. \A n \in 0..N : f[t] \in L[n] => n \in At(t)
    OBVIOUS
  <2>6. QED
    <3>1. h[t] \in At(t) /\ \A n \in At(t) : h[t] <= n
      <4> HIDE DEF At, h
      <4> QED BY <2>2, <2>3, <2>4
    <3> HIDE DEF h
    <3>2. QED
      BY <2>5, <3>1
<1>9. \A t, u \in DOMAIN terms : f[t] = f[u] => h[t] = h[u]
  OBVIOUS
<1> HIDE DEF h, At
<1>10. ASSUME NEW t \in DOMAIN terms, NEW i \in DOMAIN terms[t].parameters PROVE h[terms[t].parameters[i]] < h[t]
  <2> DEFINE u == terms[t].parameters[i]
             k == h[t] - 1
  <2>1. terms[t].name # NoName /\ u \in DOMAIN terms
    <3>1. terms[t].name = NoName => terms[t].parameters = <<>>
      BY DEF Sound, Shaped
    <3>2. u \in DOMAIN terms
      BY DEF Sound, Shaped
    <3>3. QED
      BY <3>1, <3>2
  <2>2. h[t] \in 1..N
    <3>1. h[t] # 0
      BY <1>1, <1>8 DEF Levels
    <3>2. QED
      BY <1>2, <1>8, <3>1
  <2>3. L[h[t]] = TypesOver(L[k])
    BY <1>1, <2>2 DEF Levels
  <2>4. k \in 0..N /\ k < h[t] /\ h[t] \in 0..N
    BY <1>2, <2>2
  <2> HIDE DEF k
  <2>5. f[t].parameters \in Seq(L[k])
    <3>1. f[t] \in TypesOver(L[k])
      BY <1>8, <2>3
    <3>2. QED
      BY <3>1 DEF TypesOver
  <2>6. f[t].parameters = Of(t)
    <3> HIDE DEF Of
    <3> QED BY <1>3, <1>5, <2>1
  <2>7. f[u] \in L[k]
    <3>1. i \in DOMAIN Of(t) /\ Of(t)[i] = f[u]
      OBVIOUS
    <3> HIDE DEF Of, u
    <3>2. QED
      BY <2>5, <2>6, <3>1
  <2> HIDE DEF u
  <2>8. h[u] \in 0..N /\ h[u] <= k
    BY <1>8, <2>1, <2>4, <2>7
  <2>9. h[u] < h[t]
    BY <1>2, <2>4, <2>8
  <2>10. QED
    BY <2>9 DEF u
<1>11. \E g : Heights(g, f, terms)
  <2>1. Heights(h, f, terms)
    BY <1>2, <1>8, <1>9, <1>10 DEF Heights
  <2>2. QED
    BY <2>1
<1>12. Solution(f, terms)
  BY <1>6, <1>7, <1>11 DEF Solution
<1>13. QED
  BY <1>12 DEF f

-----------------------------------------------------------------------------
(* Unification is most general *)

\* What the store says of variables is what Substitution says.
LEMMA SubstitutionRespected ==
  ASSUME Sound(terms), NEW m
  PROVE  Solves(m, Substitution) <=> Respected(m, terms)
<1>1. \A t : Successors(t) = Links(terms, t)
  BY DEF Successors, Links
<1>2. \A v \in DOMAIN terms : Links(terms, v) \subseteq DOMAIN terms
  BY AllClosed DEF Closed
<1>3. Certain(terms) \subseteq DOMAIN terms
  BY CertainWhole DEF Whole
<1>4. ASSUME Solves(m, Substitution), NEW v \in Certain(terms), terms[v].name = NoName, NEW y \in Links(terms, v)
      PROVE  m[y] = m[v]
  <2> DEFINE link == <<v, y>>
  <2>1. link[1] = v /\ link[2] = y /\ link \in Variables \X DOMAIN terms
    BY <1>2, <1>3, <1>4 DEF Variables, IsVariable
  <2> HIDE DEF link
  <2>2. link \in Substitution
    BY <1>1, <1>4, <2>1 DEF Substitution
  <2>3. QED
    BY <1>4, <2>1, <2>2 DEF Solves
<1>5. ASSUME Respected(m, terms), NEW link \in Substitution PROVE m[link[1]] = m[link[2]]
  <2>1. link[1] \in Variables /\ link[2] \in Links(terms, link[1])
    BY <1>1 DEF Substitution
  <2>2. link[1] \in Certain(terms) /\ terms[link[1]].name = NoName
    BY <2>1, VariablesCertain DEF Variables, IsVariable
  <2>3. QED
    BY <1>5, <2>1, <2>2 DEF Respected, Respects
<1>6. QED
  BY <1>4, <1>5 DEF Solves, Respected, Respects

LEMMA EquationsCertain ==
  ASSUME Sound(terms), General(terms, equations), Precise
  PROVE  Among(equations, Certain(terms)) /\ Certainly(terms, equations)
<1>1. Among(equations, Certain(terms))
  <2> SUFFICES ASSUME NEW pair \in equations PROVE pair[1] \in Certain(terms) /\ pair[2] \in Certain(terms)
    BY DEF Among
  <2>1. pair \in Equations
    BY DEF Equations
  <2>2. pair[1] \in DOMAIN terms /\ pair[2] \in DOMAIN terms
    BY DEF General, Among
  <2>3. QED
    BY <2>1, <2>2, PreciseCertain
<1>2. QED
  BY <1>1 DEF General

\* What the store means is what MostGeneral asks of it.
LEMMA MeantMostGeneral ==
  IInv /\ Meant => MostGeneral
<1> SUFFICES ASSUME IInv, Meant, Precise, NEW solution \in [Constrained -> Solutions]
             PROVE  /\ Solves(Denoted(solution), Substitution) <=> Solves(Denoted(solution), equations)
                    /\ refuted # NoPair /\ Solves(Denoted(solution), Substitution) => ~Solves(Denoted(solution), {refuted})
  BY DEF MostGeneral
<1> DEFINE type == Denoted(solution)
<1>1. Sound(terms)
  BY NowFields, GoodTypes DEF IInv
<1>2. Assigns(solution)
  <2>1. DOMAIN solution \subseteq Variables
    BY DEF Constrained
  <2>2. \A t \in DOMAIN solution : solution[t] \in Types[max_depth + 1]
    BY SolutionsAssumption
  <2>3. QED
    BY <2>1, <2>2 DEF Assigns
<1>3. Solution(type, terms)
  BY <1>1, <1>2, DenotedSolution
<1> HIDE DEF type
<1>4. Solves(type, Substitution) <=> Respected(type, terms)
  BY <1>1, SubstitutionRespected
<1>5. Among(equations, Certain(terms)) /\ Certainly(terms, equations)
  BY <1>1, EquationsCertain DEF Meant
<1>6. Solves(type, equations) => Respected(type, terms)
  BY <1>3, <1>5 DEF Certainly
<1>7. Respected(type, terms) => Solves(type, equations)
  <2>1. Congruent(type, terms, Certain(terms))
    BY <1>3, SolutionCongruent, CertainWhole DEF Whole
  <2>2. QED
    BY <1>5, <2>1 DEF Certainly
<1>8. ASSUME refuted # NoPair, Solves(type, Substitution) PROVE ~Solves(type, {refuted})
  <2>1. Excludes(terms, equations, refuted)
    BY <1>8 DEF Meant
  <2>2. refuted[1] \in DOMAIN terms /\ refuted[2] \in DOMAIN terms
    BY <2>1 DEF Excludes
  <2>3. refuted \in Equations
    BY <1>8 DEF Equations
  <2>4. refuted[1] \in Certain(terms) /\ refuted[2] \in Certain(terms)
    BY <1>1, <2>2, <2>3, PreciseCertain
  <2>5. type[refuted[1]] # type[refuted[2]]
    BY <1>3, <1>4, <1>5, <1>8, <2>1, <2>4 DEF Excludes
  <2>6. QED
    BY <2>5 DEF Solves
<1>9. QED
  BY <1>4, <1>6, <1>7, <1>8 DEF type

-----------------------------------------------------------------------------
(* No type contains itself *)

\* Terms that are not certain are named, and made of older ones.
LEMMA AllEnds ==
  ASSUME NEW store, Sound(store), Closed(store, Certain(store)), Ends(store, Certain(store))
  PROVE  Ends(store, DOMAIN store)
<1> DEFINE K == Certain(store)
           W == DOMAIN store \ K
<1>1. K \subseteq DOMAIN store
  BY DEF Closed
<1>2. ASSUME NEW t \in W PROVE \A y \in Links(store, t) : y \in DOMAIN store /\ y < t
  <2>1. store[t].name # NoName
    BY VariablesCertain
  <2>2. Links(store, t) = {store[t].parameters[i] : i \in DOMAIN store[t].parameters}
    BY <2>1, LinkedTo
  <2>3. \A i \in DOMAIN store[t].parameters : store[t].parameters[i] \in DOMAIN store /\ store[t].parameters[i] < t
    BY DEF Sound, Shaped
  <2>4. QED
    BY <2>2, <2>3
<1>3. \A t \in K : Links(store, t) \subseteq K
  BY DEF Closed
<1> HIDE DEF K
<1>4. EndsAt(store, W, K)
  <2> DEFINE h == [t \in W |-> t]
  <2>1. Len(store) \in Nat /\ W \subseteq 1..Len(store)
    BY DEF Sound
  <2>2. h \in [W -> 0..Len(store)]
    BY <2>1
  <2>3. \A t \in W : \A y \in Links(store, t) : y \in K \/ (y \in W /\ h[y] < h[t])
    BY <1>2
  <2> HIDE DEF h
  <2>4. QED
    BY <2>1, <2>2, <2>3 DEF EndsAt
<1>5. W \cap K = {} /\ K \cup W = DOMAIN store
  BY <1>1
<1> HIDE DEF W
<1>6. Ends(store, K)
  BY DEF K
<1>7. Ends(store, K \cup W)
  BY <1>3, <1>4, <1>5, <1>6, EndsOver
<1>8. QED
  BY <1>5, <1>7

LEMMA EndingDefinition ==
  ASSUME Len(terms) \in Nat
  PROVE  /\ Ending[0] = {}
         /\ \A n \in 1..Len(terms) : Ending[n] = LeadingTo(Ending[n - 1])
<1> DEFINE N == Len(terms)
           First == {}
<1> DEFINE F(g, n) == IF n = 0 THEN First ELSE LeadingTo(g[n - 1])
           T == {n \in 0..N : \E g : g = [m \in 0..n |-> F(g, m)]}
<1>0. N \in Nat
  OBVIOUS
<1> HIDE DEF N, First
<1>1. 0 \in T
  <2> DEFINE g == [m \in 0..0 |-> First]
  <2>1. g = [m \in 0..0 |-> F(g, m)]
    OBVIOUS
  <2> HIDE DEF g, F
  <2>2. QED
    BY <1>0, <2>1
<1>2. ASSUME NEW n \in 1..N, n - 1 \in T PROVE n \in T
  <2>1. PICK g : g = [m \in 0..(n - 1) |-> F(g, m)]
    BY <1>2
  <2> DEFINE h == [m \in 0..n |-> IF m < n THEN g[m] ELSE F(g, n)]
  <2>2. \A m \in 0..n : h[m] = F(h, m)
    BY <2>1
  <2> HIDE DEF h, F
  <2>3. h = [m \in 0..n |-> F(h, m)]
    BY <2>2 DEF h
  <2>4. QED
    BY <2>3
<1>3. \E g : g = [m \in 0..N |-> F(g, m)]
  <2>1. 0..N \subseteq T
    <3> HIDE DEF T
    <3> QED BY <1>0, <1>1, <1>2, Induction, Zenon
  <2> HIDE DEF F
  <2>2. QED
    BY <1>0, <2>1
<1>4. Ending = CHOOSE g : g = [n \in 0..N |-> F(g, n)]
  BY DEF Ending, N, First
<1>5. Ending = [n \in 0..N |-> F(Ending, n)]
  <2> HIDE DEF F
  <2> QED BY <1>3, <1>4, Zenon
<1>6. Ending[0] = First /\ \A n \in 1..N : Ending[n] = LeadingTo(Ending[n - 1])
  BY <1>0, <1>5
<1>7. QED
  BY <1>6, Zenon DEF N, First

\* Every step finds one more term, until all have been found: of the others one
\* is lowest.
LEMMA EndingAll ==
  ASSUME Sound(terms), Ends(terms, DOMAIN terms)
  PROVE  TypesAreFinite
<1> DEFINE N == Len(terms)
           D == DOMAIN terms
           Ok(n) == /\ Ending[n] \subseteq D
                    /\ n # 0 => Ending[n - 1] \subseteq Ending[n]
                    /\ Ending[n] = D \/ n <= Cardinality(Ending[n])
           T == {n \in 0..N : Ok(n)}
<1>0. N \in Nat /\ D = 1..N
  BY DEF Sound
<1>1. IsFiniteSet(D) /\ Cardinality(D) = N
  <2> HIDE DEF D, N
  <2>1. 1 \in Int /\ N \in Int
    BY <1>0
  <2>2. IsFiniteSet(1..N) /\ Cardinality(1..N) = IF 1 > N THEN 0 ELSE N - 1 + 1
    BY <2>1, FS_Interval
  <2>3. QED
    BY <1>0, <2>2
<1>2. Ending[0] = {} /\ \A n \in 1..N : Ending[n] = LeadingTo(Ending[n - 1])
  BY <1>0, EndingDefinition
<1>3. \A t : Successors(t) = Links(terms, t)
  BY DEF Successors, Links
<1>4. \A S : LeadingTo(S) = {t \in D : Links(terms, t) \subseteq S}
  BY <1>3 DEF LeadingTo
<1>5. \A t \in D : Links(terms, t) \subseteq D
  BY AllClosed DEF Closed
<1>6. PICK h : Descends(h, terms, D)
  BY DEF Ends
<1>7. PICK bound \in Nat : h \in [D -> 0..bound]
  BY <1>6 DEF Descends
<1>8. \A t \in D : h[t] \in 0..bound /\ \A y \in Links(terms, t) : y \in D /\ h[y] < h[t]
  BY <1>5, <1>6, <1>7 DEF Descends
<1> HIDE DEF D, N
<1>9. 0 \in T
  <2>1. Cardinality(Ending[0]) = 0
    BY <1>2, FS_EmptySet
  <2>2. Ending[0] \subseteq D
    BY <1>2
  <2>3. Ok(0)
    BY <2>1, <2>2
  <2> HIDE DEF Ok
  <2>4. QED
    BY <1>0, <2>3
<1>10. ASSUME NEW n \in 1..N, n - 1 \in T PROVE n \in T
  <2> DEFINE k == n - 1
             A == Ending[k]
             B == Ending[n]
  <2>1. k \in 0..N /\ n = k + 1 /\ Ok(k)
    BY <1>0, <1>10
  <2>2. B = {t \in D : Links(terms, t) \subseteq A}
    BY <1>2, <1>4
  <2>3. A \subseteq B
    <3>1. CASE k = 0
      BY <1>2, <3>1
    <3>2. CASE k # 0
      <4>1. k \in 1..N /\ Ending[k - 1] \subseteq A
        BY <2>1, <3>2
      <4>2. A = {t \in D : Links(terms, t) \subseteq Ending[k - 1]}
        BY <1>2, <1>4, <4>1
      <4>3. QED
        BY <2>2, <4>1, <4>2
    <3>3. QED
      BY <3>1, <3>2
  <2>4. B \subseteq D /\ A \subseteq D
    BY <2>2, <2>3
  <2>5. A = D \/ k <= Cardinality(A)
    BY <2>1
  <2> HIDE DEF A, B, k
  <2>6. ASSUME A = D PROVE Ok(n)
    BY <2>3, <2>4, <2>6 DEF A, B, k
  <2>7. ASSUME A # D PROVE Ok(n)
    <3> DEFINE H == {h[t] : t \in D \ A}
    <3>1. H \subseteq 0..bound /\ H # {}
      BY <1>8, <2>4, <2>7
    <3>2. PICK j \in H : \A i \in H : j <= i
      <4> HIDE DEF H
      <4> QED BY <1>7, <3>1, LeastElement, Zenon
    <3>3. PICK t \in D \ A : h[t] = j
      OBVIOUS
    <3>4. Links(terms, t) \subseteq A
      <4> SUFFICES ASSUME NEW y \in Links(terms, t), y \notin A PROVE FALSE
        OBVIOUS
      <4>1. y \in D /\ h[y] < h[t] /\ h[y] \in 0..bound /\ h[t] \in 0..bound
        BY <1>8
      <4>2. h[y] \in H
        BY <4>1
      <4>3. j <= h[y]
        BY <3>2, <4>2
      <4>4. QED
        BY <1>7, <3>3, <4>1, <4>3
    <3>5. A \cup {t} \subseteq B /\ t \notin A
      BY <2>2, <2>3, <3>4
    <3>6. IsFiniteSet(A) /\ IsFiniteSet(B)
      BY <1>1, <2>4, FS_Subset
    <3>7. Cardinality(A \cup {t}) = Cardinality(A) + 1 /\ IsFiniteSet(A \cup {t})
      BY <3>5, <3>6, FS_AddElement
    <3>8. Cardinality(A \cup {t}) <= Cardinality(B)
      BY <3>5, <3>6, FS_Subset
    <3>9. Cardinality(A) \in Nat /\ Cardinality(B) \in Nat
      BY <3>6, FS_CardinalityType
    <3>10. k + 1 <= Cardinality(B)
      BY <1>0, <2>1, <2>5, <2>7, <3>7, <3>8, <3>9
    <3>11. QED
      BY <2>1, <2>3, <2>4, <3>10 DEF A, B, k
  <2>8. Ok(n)
    BY <2>6, <2>7
  <2>9. QED
    BY <1>0, <2>8
<1>11. 0..N \subseteq T
  <2> HIDE DEF T
  <2> QED BY <1>0, <1>9, <1>10, Induction, Zenon
<1>12. Ending[N] \subseteq D /\ (Ending[N] = D \/ N <= Cardinality(Ending[N]))
  <2>1. N \in T
    <3> HIDE DEF T
    <3> QED BY <1>0, <1>11
  <2>2. QED
    BY <2>1
<1>13. Ending[N] = D
  <2> SUFFICES ASSUME N <= Cardinality(Ending[N]) PROVE Ending[N] = D
    BY <1>12
  <2>1. Cardinality(Ending[N]) <= Cardinality(D) /\ IsFiniteSet(Ending[N])
    BY <1>1, <1>12, FS_Subset
  <2>2. Cardinality(Ending[N]) \in Nat
    BY <2>1, FS_CardinalityType
  <2>3. Cardinality(D) = Cardinality(Ending[N])
    BY <1>0, <1>1, <2>1, <2>2
  <2>4. QED
    BY <1>1, <1>12, <2>3, FS_Subset
<1>14. QED
  BY <1>13 DEF TypesAreFinite, N, D

\* A store that means what its equations say has no type that contains itself.
LEMMA MeantFinite ==
  IInv /\ Meant => PreciseTypesAreFinite
<1> SUFFICES ASSUME IInv, Meant, Precise PROVE TypesAreFinite
  BY DEF PreciseTypesAreFinite
<1>1. Sound(terms)
  BY NowFields, GoodTypes DEF IInv
<1>2. Certainly(terms, equations)
  BY <1>1, EquationsCertain DEF Meant
<1>3. Ends(terms, DOMAIN terms)
  BY <1>1, <1>2, AllEnds DEF Certainly
<1>4. QED
  BY <1>1, <1>3, EndingAll

-----------------------------------------------------------------------------
(* What unification is for *)

\* If no type in the equations is gradual, the variables may stand for exactly the
\* types that make all unified terms equal, whatever failed in between, and terms
\* that do not unify are equal for none of them: unify and occurs
\* (checker.zig:1068-1124) decide what has a solution, and lose none of them.
THEOREM UnificationIsMostGeneral == Spec => []MostGeneral
BY AlwaysMeant, MeantMostGeneral, PTL

\* If no type in the equations is gradual no type contains itself: occurs finds
\* every way back to a variable before it is bound (checker.zig:1075-1089, 1116-1124).
THEOREM PreciseTypesStayFinite == Spec => []PreciseTypesAreFinite
BY AlwaysMeant, MeantFinite, PTL
=============================================================================
