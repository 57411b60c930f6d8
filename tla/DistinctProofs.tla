----------------------------- MODULE DistinctProofs -----------------------------
(***************************************************************************)
(* Proofs about Distinct: the chains of kept items are complete, and       *)
(* hashing does not show wherever numbers that are equal hash alike, which *)
(* is so for all numbers that a double represents exactly.                 *)
(***************************************************************************)
EXTENDS Distinct, FiniteSetTheorems, SequenceTheorems, WellFoundedInduction, TLAPS

-----------------------------------------------------------------------------
(* Least elements and recursion *)

\* A set of natural numbers that is not empty has a least element.
LEMMA LeastElement ==
  ASSUME NEW N \in Nat, NEW T, T \subseteq 0..N, T # {}
  PROVE  \E m \in T : \A k \in T : m <= k
<1> DEFINE S == 0..N
           F == {0..n : n \in T}
           R == StrictSubsetOrdering(S)
<1>1. FiniteSubsetsOf(S) = SUBSET S
  <2>1. IsFiniteSet(S)
    BY FS_Interval
  <2> HIDE DEF S
  <2>2. QED
    BY <2>1, FS_FiniteSubsetsOfFinite
<1>2. F \subseteq SUBSET S /\ F # {}
  <2>1. ASSUME NEW A \in F PROVE A \in SUBSET S
    BY DEF F
  <2>2. PICK n : n \in T
    OBVIOUS
  <2>3. 0..n \in F
    BY <2>2
  <2>4. QED
    BY <2>1, <2>3
<1>3. IsWellFoundedOn(R, SUBSET S)
  BY <1>1, FS_StrictSubsetOrderingWellFounded
<1>4. PICK A \in F : \A B \in F : <<B, A>> \notin R
  <2> HIDE DEF F, R, S
  <2> QED BY <1>2, <1>3, WFMin
<1>5. PICK m \in T : A = 0..m
  OBVIOUS
<1>6. ASSUME NEW k \in T, k < m PROVE FALSE
  <2>1. 0..k \subseteq A /\ m \in A /\ m \notin 0..k
    BY <1>5, <1>6
  <2>2. <<0..k, A>> \in R
    BY <2>1, <1>2 DEF StrictSubsetOrdering
  <2>3. QED
    BY <1>4, <2>2
<1>7. QED
  BY <1>6

-----------------------------------------------------------------------------
(* Kept *)

\* What the n-th item adds to a list of kept ones.
Added(kept, item) ==
  IF \E k \in DOMAIN kept : Eql(item, kept[k]) THEN kept ELSE Append(kept, item)

\* Kept is what its recursive definition says.
LEMMA KeptDefinition ==
  ASSUME input \in Seq(AllNumbers)
  PROVE  /\ Kept[0] = <<>>
         /\ \A n \in 1..Len(input) : Kept[n] = Added(Kept[n - 1], input[n])
<1> DEFINE L == Len(input)
           F(g, n) == IF n = 0 THEN <<>> ELSE Added(g[n - 1], input[n])
           Bad == {n \in 0..L : ~\E g : g = [m \in 0..n |-> F(g, m)]}
<1>1. L \in Nat
  OBVIOUS
<1>2. Bad = {}
  <2> SUFFICES ASSUME Bad # {} PROVE FALSE
    OBVIOUS
  <2>1. PICK n \in Bad : \A k \in Bad : n <= k
    <3> HIDE DEF Bad
    <3>1. Bad \subseteq 0..L
      BY DEF Bad
    <3>2. QED
      BY <1>1, <3>1, LeastElement
  <2>2. CASE n = 0
    <3> DEFINE g == [m \in 0..0 |-> <<>>]
    <3>1. g = [m \in 0..0 |-> F(g, m)]
      OBVIOUS
    <3>2. QED
      BY <2>2, <3>1
  <2>3. CASE n # 0
    <3>1. n \in 0..L /\ n - 1 \in 0..L
      BY <2>3
    <3> HIDE DEF Bad
    <3>2. n - 1 \notin Bad
      BY <2>1, <3>1
    <3> USE DEF Bad
    <3>3. PICK g : g = [m \in 0..(n - 1) |-> F(g, m)]
      BY <3>1, <3>2
    <3> DEFINE h == [m \in 0..n |-> IF m = n THEN Added(g[n - 1], input[n]) ELSE g[m]]
    <3>4. ASSUME NEW m \in 0..n PROVE h[m] = F(h, m)
      <4>1. CASE m = n
        BY <3>1, <2>3, <4>1
      <4>2. CASE m # n
        <5>1. h[m] = F(g, m)
          BY <3>1, <3>3, <4>2
        <5>2. m # 0 => h[m - 1] = g[m - 1]
          BY <3>1, <4>2
        <5>3. QED
          BY <5>1, <5>2
      <4>3. QED
        BY <4>1, <4>2
    <3>5. h = [m \in 0..n |-> F(h, m)]
      BY <3>4
    <3> HIDE DEF h, F
    <3>6. QED
      BY <3>5
  <2>4. QED
    BY <2>2, <2>3
<1>3. \E g : g = [m \in 0..L |-> F(g, m)]
  <2>1. L \in 0..L
    BY <1>1
  <2>2. QED
    BY <1>2, <2>1
<1>4. Kept = CHOOSE g : g = [m \in 0..L |-> F(g, m)]
  BY DEF Kept, Added
<1>5. Kept = [m \in 0..L |-> F(Kept, m)]
  <2> HIDE DEF F
  <2> QED BY <1>3, <1>4
<1>6. QED
  BY <1>1, <1>5

-----------------------------------------------------------------------------
(* Chains *)

\* next and buckets chain the kept items of every hash, the last one first: a
\* link goes to the last item of the hash before it, a bucket to the last of all.
ChainsInv ==
  hashed =>
    /\ next \in Seq(Nat) /\ Len(next) = Len(out)
    /\ \A k \in 1..Len(out) :
         /\ next[k] \in 0..(k - 1)
         /\ next[k] # 0 => Hash(out[next[k]]) = Hash(out[k])
         /\ \A j \in 1..(k - 1) : Hash(out[j]) = Hash(out[k]) => j <= next[k]
         /\ Hash(out[k]) \in DOMAIN buckets
         /\ k <= buckets[Hash(out[k])]
    /\ \A h \in DOMAIN buckets : buckets[h] \in 1..Len(out) /\ Hash(out[buckets[h]]) = h

TypeInv ==
  /\ input \in Seq(AllNumbers)
  /\ remaining \in Nat
  /\ i \in 1..(Len(input) + 1)
  /\ out \in Seq(AllNumbers)
  /\ previous \in 0..Len(out)
  /\ status \in {"item", "walk", "done", "CostLimitExceeded"}
  /\ status = "walk" => i <= Len(input)
  /\ \A k \in 1..Len(out) : \E m \in 1..Len(input) : out[k] = input[m]

\* Items to compare with still come, unless the item at hand was not seen.
WalkInv ==
  status = "walk" =>
    /\ hashed /\ previous # End => Hash(out[previous]) = Hash(Item)
    /\ \A j \in 1..Len(out) :
         (hashed => Hash(out[j]) = Hash(Item)) /\ Eql(Item, out[j]) => j <= previous

ItemsInv == TypeInv /\ ChainsInv /\ WalkInv

\* Where the chain of the item at hand starts.
LEMMA HeadOfChain ==
  ASSUME TypeInv, ChainsInv, i <= Len(input)
  PROVE  /\ ChainHead \in 0..Len(out)
         /\ hashed /\ ChainHead # End => Hash(out[ChainHead]) = Hash(Item)
         /\ \A j \in 1..Len(out) : (hashed => Hash(out[j]) = Hash(Item)) => j <= ChainHead
<1>1. CASE ~hashed
  BY <1>1 DEF ChainHead, TypeInv
<1>2. CASE hashed /\ Hash(Item) \in DOMAIN buckets
  BY <1>2 DEF ChainHead, TypeInv, ChainsInv, End
<1>3. CASE hashed /\ Hash(Item) \notin DOMAIN buckets
  BY <1>3 DEF ChainHead, TypeInv, ChainsInv, End
<1>4. QED
  BY <1>1, <1>2, <1>3

LEMMA ItemsInit == Init => ItemsInv
<1> SUFFICES ASSUME Init PROVE ItemsInv
  OBVIOUS
<1>1. input \in Seq(AllNumbers) /\ remaining \in Nat
  BY InputsAssumption DEF Init
<1>2. TypeInv
  BY <1>1 DEF Init, TypeInv, End
<1>3. ChainsInv
  BY DEF Init, ChainsInv
<1>4. WalkInv
  BY DEF Init, WalkInv
<1>5. QED
  BY <1>2, <1>3, <1>4 DEF ItemsInv

LEMMA TakeItemKeepsItems == ItemsInv /\ TakeItem => ItemsInv'
<1> SUFFICES ASSUME ItemsInv, TakeItem PROVE ItemsInv'
  OBVIOUS
<1>1. /\ ChainHead \in 0..Len(out)
      /\ hashed /\ ChainHead # End => Hash(out[ChainHead]) = Hash(Item)
      /\ \A j \in 1..Len(out) : (hashed => Hash(out[j]) = Hash(Item)) => j <= ChainHead
  BY HeadOfChain DEF ItemsInv, TakeItem
<1>2. TypeInv'
  BY <1>1 DEF ItemsInv, TypeInv, TakeItem
<1>3. ChainsInv'
  BY DEF ItemsInv, ChainsInv, TakeItem, hashed
<1>4. WalkInv'
  BY <1>1 DEF WalkInv, TakeItem, hashed, Item
<1>5. QED
  BY <1>2, <1>3, <1>4 DEF ItemsInv

LEMMA CompareItemKeepsItems == ItemsInv /\ CompareItem => ItemsInv'
<1> SUFFICES ASSUME ItemsInv, CompareItem PROVE ItemsInv'
  OBVIOUS
<1>1. previous \in 1..Len(out) /\ i \in 1..Len(input)
  BY DEF ItemsInv, TypeInv, CompareItem, End
<1>2. ChainsInv'
  BY DEF ItemsInv, ChainsInv, CompareItem, hashed
<1>3. CASE remaining = 0
  <2>1. UNCHANGED <<input, remaining, i, out, buckets, next, previous>> /\ status' = "CostLimitExceeded"
    BY <1>3 DEF CompareItem
  <2>2. TypeInv' /\ WalkInv'
    BY <2>1 DEF ItemsInv, TypeInv, WalkInv
  <2>3. QED
    BY <1>2, <2>2 DEF ItemsInv
<1>4. CASE remaining # 0 /\ Eql(Item, out[previous])
  <2>1. /\ UNCHANGED <<input, out, buckets, next>>
        /\ remaining' = remaining - 1 /\ status' = "item" /\ i' = i + 1 /\ previous' = 0
    BY <1>4 DEF CompareItem, End
  <2>2. TypeInv' /\ WalkInv'
    BY <1>1, <1>4, <2>1 DEF ItemsInv, TypeInv, WalkInv
  <2>3. QED
    BY <1>2, <2>2 DEF ItemsInv
<1>5. CASE remaining # 0 /\ ~Eql(Item, out[previous])
  <2>1. /\ UNCHANGED <<input, out, buckets, next, status, i>> /\ status = "walk"
        /\ remaining' = remaining - 1
        /\ previous' = IF hashed THEN next[previous] ELSE previous - 1
    BY <1>5 DEF CompareItem
  <2>2. /\ previous' \in 0..(previous - 1)
        /\ hashed /\ previous' # End => Hash(out[previous']) = Hash(Item)
    BY <1>1, <2>1 DEF ItemsInv, ChainsInv, WalkInv, End
  <2>3. ASSUME NEW j \in 1..Len(out), hashed => Hash(out[j]) = Hash(Item), Eql(Item, out[j])
        PROVE  j <= previous'
    <3>1. j <= previous /\ j # previous
      BY <1>5, <2>1, <2>3 DEF ItemsInv, WalkInv
    <3>2. CASE ~hashed
      BY <1>1, <2>1, <3>1, <3>2
    <3>3. CASE hashed
      <4>1. Hash(out[j]) = Hash(out[previous])
        BY <1>1, <2>1, <2>3, <3>3 DEF ItemsInv, WalkInv, End
      <4>2. j \in 1..(previous - 1)
        BY <1>1, <3>1
      <4>3. QED
        BY <1>1, <2>1, <3>3, <4>1, <4>2 DEF ItemsInv, ChainsInv
    <3>4. QED
      BY <3>2, <3>3
  <2>4. TypeInv'
    BY <1>1, <1>5, <2>1, <2>2 DEF ItemsInv, TypeInv
  <2>5. WalkInv'
    BY <2>1, <2>2, <2>3 DEF WalkInv, hashed, Item
  <2>6. QED
    BY <1>2, <2>4, <2>5 DEF ItemsInv
<1>6. QED
  BY <1>3, <1>4, <1>5

LEMMA KeepItemKeepsItems == ItemsInv /\ KeepItem => ItemsInv'
<1> SUFFICES ASSUME ItemsInv, KeepItem PROVE ItemsInv'
  OBVIOUS
<1> DEFINE n == Len(out)
<1>1. i \in 1..Len(input) /\ Item \in AllNumbers /\ n \in Nat
  BY DEF ItemsInv, TypeInv, KeepItem, Item
<1>2. /\ out' \in Seq(AllNumbers) /\ Len(out') = n + 1
      /\ out'[n + 1] = Item /\ \A k \in 1..n : out'[k] = out[k]
  BY <1>1 DEF ItemsInv, TypeInv, KeepItem
<1>3. UNCHANGED <<input, remaining, previous>> /\ i' = i + 1 /\ status' = "item"
  BY DEF KeepItem
<1>4. TypeInv'
  <2>1. \A k \in 1..Len(out') : \E m \in 1..Len(input) : out'[k] = input[m]
    BY <1>1, <1>2 DEF ItemsInv, TypeInv, Item
  <2>2. QED
    BY <1>1, <1>2, <1>3, <2>1 DEF ItemsInv, TypeInv
<1>5. WalkInv'
  BY <1>3 DEF WalkInv
<1>6. ChainsInv'
  <2> SUFFICES ASSUME hashed PROVE ChainsInv'
    BY <1>3 DEF ChainsInv, hashed
  <2>1. /\ ChainHead \in 0..n
        /\ ChainHead # End => Hash(out[ChainHead]) = Hash(Item)
        /\ \A j \in 1..n : Hash(out[j]) = Hash(Item) => j <= ChainHead
    BY <1>1, HeadOfChain DEF ItemsInv
  <2>2. /\ next \in Seq(Nat) /\ Len(next) = n
        /\ \A k \in 1..n :
             /\ next[k] \in 0..(k - 1)
             /\ next[k] # 0 => Hash(out[next[k]]) = Hash(out[k])
             /\ \A j \in 1..(k - 1) : Hash(out[j]) = Hash(out[k]) => j <= next[k]
             /\ Hash(out[k]) \in DOMAIN buckets
             /\ k <= buckets[Hash(out[k])]
        /\ \A h \in DOMAIN buckets : buckets[h] \in 1..n /\ Hash(out[buckets[h]]) = h
    BY DEF ItemsInv, ChainsInv
  <2>3. /\ next' \in Seq(Nat) /\ Len(next') = n + 1
        /\ next'[n + 1] = ChainHead /\ \A k \in 1..n : next'[k] = next[k]
    <3>1. next' = Append(next, ChainHead)
      BY DEF KeepItem
    <3>2. ChainHead \in Nat /\ next \in Seq(Nat) /\ Len(next) = n
      BY <2>1, <2>2
    <3>3. QED
      BY <3>1, <3>2
  <2>4. /\ DOMAIN buckets' = DOMAIN buckets \cup {Hash(Item)}
        /\ buckets'[Hash(Item)] = n + 1
        /\ \A h \in DOMAIN buckets : h # Hash(Item) => buckets'[h] = buckets[h]
    BY DEF KeepItem
  <2> HIDE DEF n
  <2>5. ASSUME NEW k \in 1..(n + 1)
        PROVE  /\ next'[k] \in 0..(k - 1)
               /\ next'[k] # 0 => Hash(out'[next'[k]]) = Hash(out'[k])
               /\ \A j \in 1..(k - 1) : Hash(out'[j]) = Hash(out'[k]) => j <= next'[k]
               /\ Hash(out'[k]) \in DOMAIN buckets'
               /\ k <= buckets'[Hash(out'[k])]
    <3>1. CASE k = n + 1
      <4>1. next'[k] \in 0..(k - 1) /\ out'[k] = Item
        BY <1>1, <1>2, <2>1, <2>3, <3>1
      <4>2. next'[k] # 0 => Hash(out'[next'[k]]) = Hash(out'[k])
        BY <1>1, <1>2, <2>1, <2>3, <3>1 DEF End
      <4>3. \A j \in 1..(k - 1) : Hash(out'[j]) = Hash(out'[k]) => j <= next'[k]
        BY <1>1, <1>2, <2>1, <2>3, <3>1
      <4>4. QED
        BY <1>1, <4>1, <4>2, <4>3, <2>4, <3>1
    <3>2. CASE k \in 1..n
      <4>1. next'[k] = next[k] /\ out'[k] = out[k] /\ next[k] \in 0..(k - 1)
        BY <1>1, <1>2, <2>2, <2>3, <3>2
      <4>2. \A j \in 1..(k - 1) : out'[j] = out[j]
        BY <1>1, <1>2, <3>2
      <4>3. Hash(out[k]) \in DOMAIN buckets /\ k <= buckets[Hash(out[k])]
        BY <2>2, <3>2
      <4>4. Hash(out[k]) \in DOMAIN buckets' /\ k <= buckets'[Hash(out[k])]
        BY <1>1, <2>4, <3>2, <4>3
      <4>5. next[k] # 0 => next[k] \in 1..(k - 1) /\ Hash(out[next[k]]) = Hash(out[k])
        BY <2>2, <3>2
      <4>6. \A j \in 1..(k - 1) : Hash(out[j]) = Hash(out[k]) => j <= next[k]
        BY <2>2, <3>2
      <4>7. QED
        BY <4>1, <4>2, <4>4, <4>5, <4>6
    <3>3. QED
      BY <1>1, <3>1, <3>2
  <2>6. ASSUME NEW h \in DOMAIN buckets'
        PROVE  buckets'[h] \in 1..(n + 1) /\ Hash(out'[buckets'[h]]) = h
    <3>1. CASE h = Hash(Item)
      BY <1>1, <1>2, <2>4, <3>1
    <3>2. CASE h # Hash(Item)
      <4>1. h \in DOMAIN buckets /\ buckets'[h] = buckets[h]
        BY <2>4, <3>2
      <4>2. buckets[h] \in 1..n /\ Hash(out[buckets[h]]) = h
        BY <2>2, <4>1
      <4>3. QED
        BY <1>1, <1>2, <4>1, <4>2
    <3>3. QED
      BY <3>1, <3>2
  <2>7. QED
    BY <1>2, <2>3, <2>5, <2>6 DEF ChainsInv
<1>7. QED
  BY <1>4, <1>5, <1>6 DEF ItemsInv

LEMMA DoneKeepsItems == ItemsInv /\ Done => ItemsInv'
BY DEF ItemsInv, TypeInv, ChainsInv, WalkInv, Done, hashed

LEMMA ItemsInductive == ItemsInv /\ [Next]_vars => ItemsInv'
<1>1. ItemsInv /\ UNCHANGED vars => ItemsInv'
  BY DEF ItemsInv, TypeInv, ChainsInv, WalkInv, vars, hashed, Item
<1>2. QED
  BY <1>1, TakeItemKeepsItems, CompareItemKeepsItems, KeepItemKeepsItems, DoneKeepsItems DEF Next

LEMMA ItemsAlways == Spec => []ItemsInv
BY ItemsInit, ItemsInductive, PTL DEF Spec

\* The chains of buckets and next are complete in every state, whatever the
\* items, wherever lists begin to be hashed and whenever the budget ends.
THEOREM ChainsAlwaysComplete == Spec => []ChainsComplete
<1>1. ItemsInv => ChainsComplete
  <2> SUFFICES ASSUME ItemsInv, hashed, NEW k \in DOMAIN out
               PROVE  LET same == {j \in 1..(k - 1) : Hash(out[j]) = Hash(out[k])}
                      IN  /\ next[k] = IF same = {} THEN End ELSE CHOOSE j \in same : \A x \in same : x <= j
                          /\ Hash(out[k]) \in DOMAIN buckets
                          /\ buckets[Hash(out[k])] >= k
                          /\ Hash(out[buckets[Hash(out[k])]]) = Hash(out[k])
    BY DEF ChainsComplete
  <2> DEFINE same == {j \in 1..(k - 1) : Hash(out[j]) = Hash(out[k])}
  <2>1. k \in 1..Len(out) /\ Len(out) \in Nat
    BY DEF ItemsInv, TypeInv
  <2>2. /\ next[k] \in 0..(k - 1)
        /\ next[k] # 0 => Hash(out[next[k]]) = Hash(out[k])
        /\ \A j \in 1..(k - 1) : Hash(out[j]) = Hash(out[k]) => j <= next[k]
        /\ Hash(out[k]) \in DOMAIN buckets
        /\ buckets[Hash(out[k])] \in 1..Len(out)
        /\ k <= buckets[Hash(out[k])]
        /\ Hash(out[buckets[Hash(out[k])]]) = Hash(out[k])
    BY <2>1 DEF ItemsInv, ChainsInv
  <2>3. CASE same = {}
    BY <2>1, <2>2, <2>3 DEF End
  <2>4. CASE same # {}
    <3>1. next[k] \in same /\ \A x \in same : x <= next[k]
      BY <2>1, <2>2, <2>4
    <3>2. \A j \in same : (\A x \in same : x <= j) => j = next[k]
      BY <2>1, <3>1
    <3> HIDE DEF same
    <3>3. next[k] = CHOOSE j \in same : \A x \in same : x <= j
      BY <3>1, <3>2
    <3>4. QED
      BY <2>1, <2>2, <2>4, <3>3 DEF same
  <2>5. QED
    BY <2>3, <2>4
<1>2. QED
  BY <1>1, ItemsAlways, PTL

-----------------------------------------------------------------------------
(* Agreement with equality *)

\* Items that are equal hash alike, if they are hashed at all.
HashesAlike ==
  hashed => \A j, k \in DOMAIN input : Eql(input[j], input[k]) => Hash(input[j]) = Hash(input[k])

\* Before every item the kept ones are those that comparing all would keep.
KeptInv ==
  /\ HashesAlike => out = Kept[i - 1]
  /\ status = "done" => i = Len(input) + 1

LEMMA KeptUnchanged == input' = input => Kept' = Kept /\ HashesAlike' = HashesAlike
BY DEF Kept, HashesAlike, hashed

LEMMA KeptInit == Init => KeptInv
<1> SUFFICES ASSUME Init PROVE KeptInv
  OBVIOUS
<1>1. input \in Seq(AllNumbers)
  BY InputsAssumption DEF Init
<1>2. QED
  BY <1>1, KeptDefinition DEF Init, KeptInv

LEMMA KeptStep == ItemsInv /\ KeptInv /\ [Next]_vars => KeptInv'
<1> SUFFICES ASSUME ItemsInv, KeptInv, [Next]_vars PROVE KeptInv'
  OBVIOUS
<1>1. /\ input \in Seq(AllNumbers) /\ i \in 1..(Len(input) + 1) /\ out \in Seq(AllNumbers)
      /\ status = "walk" => i <= Len(input)
  BY DEF ItemsInv, TypeInv
<1>2. ASSUME UNCHANGED <<input, out, i>>, status' = "done" => i = Len(input) + 1
      PROVE  KeptInv'
  BY <1>2, KeptUnchanged DEF KeptInv
<1>3. CASE TakeItem
  BY <1>2, <1>3 DEF TakeItem
<1>4. CASE CompareItem
  <2>1. CASE remaining # 0 /\ Eql(Item, out[previous])
    <3>1. UNCHANGED <<input, out>> /\ i' = i + 1 /\ status' = "item" /\ i \in 1..Len(input)
      BY <1>1, <1>4, <2>1 DEF CompareItem
    <3>2. previous \in DOMAIN out
      BY <1>1, <1>4 DEF ItemsInv, TypeInv, CompareItem, End
    <3>3. HashesAlike => Kept[i] = out
      BY <1>1, <2>1, <3>1, <3>2, KeptDefinition DEF KeptInv, Added, Item
    <3>4. QED
      BY <1>1, <3>1, <3>3, KeptUnchanged DEF KeptInv
  <2>2. CASE ~(remaining # 0 /\ Eql(Item, out[previous]))
    <3>1. UNCHANGED <<input, out, i>> /\ status' # "done"
      BY <1>4, <2>2 DEF CompareItem
    <3>2. QED
      BY <1>2, <3>1
  <2>3. QED
    BY <2>1, <2>2
<1>5. CASE KeepItem
  <2>1. /\ out' = Append(out, Item) /\ i' = i + 1 /\ status' = "item" /\ UNCHANGED input
        /\ i \in 1..Len(input) /\ status = "walk" /\ previous = 0
    BY <1>1, <1>5 DEF KeepItem, End
  <2>2. ASSUME HashesAlike, NEW j \in DOMAIN out, Eql(Item, out[j])
        PROVE  FALSE
    <3>1. j \in 1..Len(out) /\ Len(out) \in Nat
      BY <1>1
    <3>2. PICK m \in 1..Len(input) : out[j] = input[m]
      BY <3>1 DEF ItemsInv, TypeInv
    <3>3. i \in DOMAIN input /\ m \in DOMAIN input
      BY <1>1, <2>1
    <3>4. hashed => Hash(out[j]) = Hash(Item)
      BY <2>2, <3>2, <3>3 DEF HashesAlike, Item
    <3>5. j <= previous
      BY <2>1, <2>2, <3>1, <3>4 DEF ItemsInv, WalkInv
    <3>6. QED
      BY <2>1, <3>1, <3>5
  <2>3. HashesAlike => Kept[i] = Append(out, Item)
    BY <1>1, <2>1, <2>2, KeptDefinition DEF KeptInv, Added, Item
  <2>4. QED
    BY <1>1, <2>1, <2>3, KeptUnchanged DEF KeptInv
<1>6. CASE Done
  BY <1>1, <1>2, <1>6 DEF Done
<1>7. CASE UNCHANGED vars
  BY <1>2, <1>7 DEF vars, KeptInv
<1>8. QED
  BY <1>3, <1>4, <1>5, <1>6, <1>7 DEF Next

LEMMA AgreesWhereHashesAlike == Spec => [](HashesAlike => AgreesWithEquality)
<1>1. Init => ItemsInv /\ KeptInv
  BY ItemsInit, KeptInit
<1>2. ItemsInv /\ KeptInv /\ [Next]_vars => (ItemsInv /\ KeptInv)'
  BY ItemsInductive, KeptStep
<1>3. ItemsInv /\ KeptInv => (HashesAlike => AgreesWithEquality)
  BY DEF ItemsInv, TypeInv, KeptInv, AgreesWithEquality
<1>4. QED
  BY <1>1, <1>2, <1>3, PTL DEF Spec

-----------------------------------------------------------------------------
(* Powers of two *)

\* From the number of subsets of a set with one more element.
LEMMA TwiceThePower ==
  ASSUME NEW n \in Nat
  PROVE  2 ^ n \in Nat \ {0} /\ 2 ^ (n + 1) = 2 * 2 ^ n
<1> DEFINE S == 1..n
           A == SUBSET S
           B == {T \cup {n + 1} : T \in A}
<1>1. IsFiniteSet(S) /\ Cardinality(S) = n
  BY FS_Interval
<1>2. IsFiniteSet(A) /\ Cardinality(A) = 2 ^ n
  <2> HIDE DEF S
  <2> QED BY <1>1, FS_SUBSET
<1>3. IsFiniteSet(1..(n + 1)) /\ Cardinality(1..(n + 1)) = n + 1
  BY FS_Interval
<1>4. IsFiniteSet(SUBSET (1..(n + 1))) /\ Cardinality(SUBSET (1..(n + 1))) = 2 ^ (n + 1)
  <2> DEFINE U == 1..(n + 1)
  <2>1. IsFiniteSet(U) /\ Cardinality(U) = n + 1
    BY <1>3
  <2> HIDE DEF U
  <2>2. IsFiniteSet(SUBSET U) /\ Cardinality(SUBSET U) = 2 ^ (n + 1)
    BY <2>1, FS_SUBSET
  <2>3. QED
    BY <2>2 DEF U
<1>5. SUBSET (1..(n + 1)) = A \cup B /\ A \cap B = {}
  <2>1. ASSUME NEW V \in SUBSET (1..(n + 1)) PROVE V \in A \cup B
    <3>1. CASE n + 1 \in V
      <4>1. V \ {n + 1} \in A /\ V = (V \ {n + 1}) \cup {n + 1}
        BY <3>1
      <4>2. QED
        BY <4>1
    <3>2. CASE n + 1 \notin V
      BY <3>2
    <3>3. QED
      BY <3>1, <3>2
  <2>2. ASSUME NEW V \in A PROVE V \in SUBSET (1..(n + 1)) /\ n + 1 \notin V
    OBVIOUS
  <2>3. ASSUME NEW V \in B PROVE V \in SUBSET (1..(n + 1)) /\ n + 1 \in V
    <3>1. PICK T \in A : V = T \cup {n + 1}
      OBVIOUS
    <3>2. T \subseteq 1..(n + 1) /\ n + 1 \in 1..(n + 1)
      BY <2>2
    <3>3. QED
      BY <3>1, <3>2
  <2>4. QED
    BY <2>1, <2>2, <2>3
<1>6. IsFiniteSet(B) /\ Cardinality(B) = Cardinality(A)
  <2> DEFINE f == [T \in A |-> T \cup {n + 1}]
  <2>1. \A T \in A : n + 1 \notin T
    OBVIOUS
  <2>2. f \in Bijection(A, B)
    <3>1. f \in [A -> B]
      OBVIOUS
    <3>2. \A T, V \in A : f[T] = f[V] => T = V
      <4> SUFFICES ASSUME NEW T \in A, NEW V \in A, f[T] = f[V] PROVE T = V
        OBVIOUS
      <4>1. T \cup {n + 1} = V \cup {n + 1} /\ n + 1 \notin T /\ n + 1 \notin V
        BY <2>1
      <4> HIDE DEF A, f
      <4>2. QED
        BY <4>1
    <3>3. \A V \in B : \E T \in A : f[T] = V
      OBVIOUS
    <3> HIDE DEF A, B, f
    <3>4. QED
      BY <3>1, <3>2, <3>3 DEF Bijection, Injection, Surjection, IsInjective
  <2>3. QED
    <3> HIDE DEF A, B, f
    <3> QED BY <1>2, <2>2, FS_Bijection DEF ExistsBijection
<1>7. QED
  <2> HIDE DEF A, B
  <2>1. Cardinality(A \cup B) = Cardinality(A) + Cardinality(B) - Cardinality(A \cap B)
    BY <1>2, <1>6, FS_Union
  <2>2. Cardinality(A \cap B) = 0
    BY <1>5, FS_EmptySet
  <2>3. {} \in A
    BY DEF A
  <2>4. Cardinality(A) \in Nat /\ Cardinality(A) # 0
    BY <1>2, <2>3, FS_CardinalityType, FS_EmptySet
  <2>5. Cardinality(SUBSET (1..(n + 1))) = 2 * Cardinality(A)
    <3>1. Cardinality(A \cup B) = 2 * Cardinality(A)
      BY <1>6, <2>1, <2>2, <2>4
    <3>2. Cardinality(SUBSET (1..(n + 1))) = Cardinality(A \cup B)
      BY <1>5
    <3>3. QED
      BY <3>1, <3>2
  <2>6. 2 ^ (n + 1) = Cardinality(SUBSET (1..(n + 1))) /\ 2 ^ n = Cardinality(A)
    BY <1>2, <1>4
  <2>7. QED
    BY <2>4, <2>5, <2>6

-----------------------------------------------------------------------------
(* Numbers that doubles represent *)

LEMMA HalvesAreIntegers == Halves \subseteq Int
<1>1. ASSUME NEW m \in 0..(2 ^ Precision - 1), NEW e \in 0..(Width + 2 - Precision)
      PROVE  m * 2 ^ e \in Int
  <2>1. e \in Nat /\ 2 ^ e \in Nat
    BY WidthAssumption, TwiceThePower
  <2>2. 2 ^ Precision \in Nat
    BY WidthAssumption, TwiceThePower
  <2>3. QED
    BY <2>1, <2>2
<1>2. Magnitudes \subseteq Int
  BY <1>1 DEF Magnitudes
<1>3. Infinity \in Int
  BY WidthAssumption, TwiceThePower DEF Infinity
<1>4. \A h \in Int : -h \in Int
  OBVIOUS
<1>5. {-h : h \in Magnitudes} \subseteq Int /\ {Infinity, -Infinity} \subseteq Int
  BY <1>2, <1>3
<1>6. QED
  BY <1>2, <1>5 DEF Halves

\* An integer that a double represents is rounded to itself.
LEMMA FloatFromIntExact ==
  ASSUME NEW n \in Int, 2 * n \in Halves
  PROVE  FloatFromInt(n) = 2 * n
<1> DEFINE nearest == {h \in Halves : \A x \in Halves : Distance(h, 2 * n) <= Distance(x, 2 * n)}
<1>1. Distance(2 * n, 2 * n) = 0
  BY DEF Distance
<1>2. ASSUME NEW h \in Halves PROVE Distance(h, 2 * n) \in Nat /\ (Distance(h, 2 * n) <= 0 => h = 2 * n)
  BY HalvesAreIntegers DEF Distance
<1>3. nearest = {2 * n}
  BY <1>1, <1>2
<1>4. Cardinality({2 * n}) = 1
  BY FS_Singleton
<1>5. FloatFromInt(n) =
        LET gap == CHOOSE d \in {Distance(x, y) : x, y \in nearest} :
                     \A x, y \in nearest : Distance(x, y) <= d
        IN  CHOOSE h \in nearest : Cardinality(nearest) = 1 \/ (h \div gap) % 2 = 0
  BY DEF FloatFromInt
<1> HIDE DEF nearest
<1>6. QED
  BY <1>3, <1>4, <1>5

\* The ranges of the types.
LEMMA Ranges ==
  /\ MinInt \in Int /\ MinInt <= 0 /\ MaxInt \in Int /\ MaxUint \in Nat
  /\ MaxInt <= MaxUint
<1>1. Width - 1 \in Nat /\ Width = (Width - 1) + 1
  BY WidthAssumption
<1>2. 2 ^ Width = 2 * 2 ^ (Width - 1) /\ 2 ^ (Width - 1) \in Nat \ {0}
  BY <1>1, TwiceThePower
<1>3. QED
  BY <1>2 DEF MinInt, MaxInt, MaxUint

IsInteger(a) == a.type \in {"int", "uint"}
Exact(a) == IsInteger(a) => 2 * a.n \in Halves

\* What the numbers are.
LEMMA NumberTypes ==
  ASSUME NEW a \in AllNumbers
  PROVE  \/ a.type = "int" /\ a.n \in MinInt..MaxInt
         \/ a.type = "uint" /\ a.n \in 0..MaxUint
         \/ a.type = "double" /\ a.n \in Halves
         \/ a.type = "nan"
BY DEF AllNumbers, IntNumber, UintNumber, DoubleNumber, NaN

\* A double that equals an exact integer has the bits of that integer.
LEMMA DoubleHashesAsInteger ==
  ASSUME NEW a, a.type = "double", NEW n \in MinInt..MaxUint, a.n = 2 * n
  PROVE  Hash(a) = <<0, Bits(n)>>
<1>1. n \in Int /\ a.n \in Int /\ a.n % 2 = 0 /\ a.n \div 2 = n
  BY Ranges
<1>2. a.n >= 2 * MinInt /\ a.n < 2 * (MaxUint + 1)
  BY <1>1, Ranges
<1>3. QED
  BY <1>1, <1>2 DEF Hash, Integral

LEMMA HashOfInteger ==
  ASSUME NEW a, IsInteger(a)
  PROVE  Hash(a) = <<0, Bits(a.n)>>
BY DEF Hash, IsInteger

\* Equal numbers hash alike: integers always, and doubles with exact integers.
LEMMA EqualNumbersHashAlike ==
  ASSUME NEW a \in AllNumbers, NEW b \in AllNumbers, Eql(a, b),
         a.type = "double" => Exact(b), b.type = "double" => Exact(a)
  PROVE  Hash(a) = Hash(b)
<1>1. ASSUME NEW x \in Int, NEW y \in Int, Compare(x, y) = "eq" PROVE x = y
  BY <1>1 DEF Compare
<1>2. MinInt..MaxInt \subseteq MinInt..MaxUint /\ 0..MaxUint \subseteq MinInt..MaxUint
      /\ MinInt..MaxUint \subseteq Int
  BY Ranges
<1>3. CASE a.type = "nan" \/ b.type = "nan"
  BY <1>3 DEF Eql, Order
<1>4. CASE IsInteger(a) /\ IsInteger(b)
  <2>1. a.n \in Int /\ b.n \in Int
    BY <1>2, <1>4, NumberTypes DEF IsInteger
  <2>2. Compare(a.n, b.n) = "eq"
    BY <1>4 DEF Eql, Order, IsInteger
  <2>3. QED
    BY <1>1, <1>4, <2>1, <2>2, HashOfInteger
<1>5. ASSUME NEW x \in AllNumbers, NEW y \in AllNumbers, x.type = "double", IsInteger(y), Exact(y),
             \/ y.type = "int" /\ OrderDoubleInt(x.n, y.n) = "eq"
             \/ y.type = "uint" /\ OrderDoubleUint(x.n, y.n) = "eq"
      PROVE  Hash(x) = Hash(y)
  <2>1. x.n \in Int /\ y.n \in MinInt..MaxUint /\ y.n \in Int
    BY <1>2, <1>5, NumberTypes, HalvesAreIntegers DEF IsInteger
  <2>2. FloatFromInt(y.n) = 2 * y.n
    BY <1>5, <2>1, FloatFromIntExact DEF Exact
  <2>3. Compare(x.n, FloatFromInt(y.n)) = "eq"
    BY <1>5 DEF OrderDoubleInt, OrderDoubleUint
  <2>4. x.n = 2 * y.n
    BY <1>1, <2>1, <2>2, <2>3
  <2>5. QED
    BY <1>5, <2>1, <2>4, DoubleHashesAsInteger, HashOfInteger
<1>6. CASE a.type = "double" /\ IsInteger(b)
  <2>1. \/ b.type = "int" /\ OrderDoubleInt(a.n, b.n) = "eq"
        \/ b.type = "uint" /\ OrderDoubleUint(a.n, b.n) = "eq"
    BY <1>6 DEF Eql, Order, IsInteger
  <2>2. QED
    BY <1>5, <1>6, <2>1
<1>7. CASE b.type = "double" /\ IsInteger(a)
  <2>1. \A order : Invert(order) = "eq" => order = "eq" \/ order \notin {"lt", "gt"}
    BY DEF Invert
  <2>2. OrderDoubleInt(b.n, a.n) \in {"lt", "gt", "eq"} /\ OrderDoubleUint(b.n, a.n) \in {"lt", "gt", "eq"}
    BY DEF OrderDoubleInt, OrderDoubleUint, Compare
  <2>3. \/ a.type = "int" /\ Invert(OrderDoubleInt(b.n, a.n)) = "eq"
        \/ a.type = "uint" /\ Invert(OrderDoubleUint(b.n, a.n)) = "eq"
    BY <1>7 DEF Eql, Order, IsInteger
  <2>4. \/ a.type = "int" /\ OrderDoubleInt(b.n, a.n) = "eq"
        \/ a.type = "uint" /\ OrderDoubleUint(b.n, a.n) = "eq"
    BY <2>1, <2>2, <2>3
  <2>5. Hash(b) = Hash(a)
    BY <1>5, <1>7, <2>4
  <2>6. QED
    BY <2>5
<1>8. CASE a.type = "double" /\ b.type = "double"
  <2>1. a.n \in Int /\ b.n \in Int
    BY <1>8, NumberTypes, HalvesAreIntegers
  <2>2. Compare(a.n, b.n) = "eq"
    BY <1>8 DEF Eql, Order
  <2>3. a.n = b.n
    BY <1>1, <2>1, <2>2
  <2>4. QED
    BY <1>8, <2>3 DEF Hash
<1>9. QED
  BY <1>3, <1>4, <1>6, <1>7, <1>8, NumberTypes DEF IsInteger

\* What makes hashing safe: the list is not hashed, or has no doubles, or every
\* integer of it is the value of a double.
Comparable ==
  \/ ~hashed
  \/ \A k \in DOMAIN input : input[k].type # "double"
  \/ \A k \in DOMAIN input : Exact(input[k])

\* distinct returns what comparing every item with all that were kept would,
\* for any widths of the types and for lists of any length, unless a list of
\* doubles has an integer that no double represents; there it does not, as
\* the run distinct_rounded shows.
THEOREM HashingDoesNotShow == Spec => [](Comparable => AgreesWithEquality)
<1>1. ItemsInv /\ Comparable => HashesAlike
  <2> SUFFICES ASSUME ItemsInv, Comparable, hashed,
                      NEW j \in DOMAIN input, NEW k \in DOMAIN input, Eql(input[j], input[k])
               PROVE  Hash(input[j]) = Hash(input[k])
    BY DEF HashesAlike
  <2>1. input[j] \in AllNumbers /\ input[k] \in AllNumbers
    BY DEF ItemsInv, TypeInv
  <2>2. /\ input[j].type = "double" => Exact(input[k])
        /\ input[k].type = "double" => Exact(input[j])
    BY DEF Comparable
  <2>3. QED
    BY <2>1, <2>2, EqualNumbersHashAlike
<1>2. QED
  BY <1>1, ItemsAlways, AgreesWhereHashesAlike, PTL
=============================================================================
