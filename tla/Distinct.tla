------------------------------- MODULE Distinct -------------------------------
(***************************************************************************)
(* list.distinct() over numbers (eval.zig: the distinct case of call, and  *)
(* distinctHash).  Short lists are compared with every item kept so far;   *)
(* longer ones only with those of the same hash, which are chained from    *)
(* buckets through next.  Wyhash is taken to be free of collisions: one    *)
(* would only put more items into a chain.                                 *)
(***************************************************************************)
EXTENDS Numbers, Sequences

CONSTANTS
  Inputs,       \* the lists
  Budgets,      \* the steps left when distinct starts
  HashedAbove   \* lists longer than this are hashed; 16 in the code

ASSUME HashedAboveAssumption == HashedAbove \in Nat
ASSUME InputsAssumption == Inputs \subseteq Seq(AllNumbers) /\ Budgets \subseteq Nat

VARIABLES
  input,      \* items
  remaining,  \* Context.remaining
  i,          \* the index of the item at hand
  out,        \* the items kept
  buckets,    \* the last kept item of each hash
  next,       \* next[k]: the item kept before k with the same hash
  previous,   \* the kept item to compare with, or End
  status      \* "item", "walk", "done" or "CostLimitExceeded"

vars == <<input, remaining, i, out, buckets, next, previous, status>>

\* items.len, the end of a chain.
End == 0

hashed == Len(input) > HashedAbove

\* An integral number hashes by its bits, another by those of the double.
Bits(n) == n % 2 ^ Width

\* Faulty: negative doubles do not hash like the equal ints.
IntegralPositive(a) == a.n % 2 = 0 /\ a.n >= 0 /\ a.n < 2 * (MaxUint + 1)

Integral(a) == a.n % 2 = 0 /\ a.n >= 2 * MinInt /\ a.n < 2 * (MaxUint + 1)

Hash(a) ==
  CASE a.type \in {"int", "uint"} -> <<0, Bits(a.n)>>
    [] a.type = "double" /\ Integral(a) -> <<0, Bits(a.n \div 2)>>
    [] OTHER -> <<10, a.n>>

Item == input[i]

Init ==
  /\ input \in Inputs
  /\ \E budget \in Budgets :
       IF Len(input) > budget
       THEN remaining = budget /\ status = "CostLimitExceeded"
       ELSE remaining = budget - Len(input) /\ status = "item"
  /\ i = 1
  /\ out = <<>> /\ next = <<>>
  /\ buckets = <<>>
  /\ previous = End

\* The chain an item is compared with starts at the head of its bucket, or at
\* the last item kept.
ChainHead == IF ~hashed THEN Len(out)
        ELSE IF Hash(Item) \in DOMAIN buckets THEN buckets[Hash(Item)] ELSE End

TakeItem ==
  /\ status = "item" /\ i <= Len(input)
  /\ previous' = ChainHead
  /\ status' = "walk"
  /\ UNCHANGED <<input, remaining, i, out, buckets, next>>

\* equal charges 1 before it compares.
CompareItem ==
  /\ status = "walk" /\ previous # End
  /\ IF remaining = 0
     THEN status' = "CostLimitExceeded" /\ UNCHANGED <<remaining, i, previous>>
     ELSE /\ remaining' = remaining - 1
          /\ IF Eql(Item, out[previous])
             THEN status' = "item" /\ i' = i + 1 /\ previous' = End
             ELSE /\ previous' = IF hashed THEN next[previous] ELSE previous - 1
                  /\ UNCHANGED <<status, i>>
  /\ UNCHANGED <<input, out, buckets, next>>

\* Faulty: the new head of a bucket forgets the chain.
KeepUnchained ==
  /\ status = "walk" /\ previous = End
  /\ out' = Append(out, Item)
  /\ IF hashed
     THEN /\ next' = Append(next, End)
          /\ buckets' = [h \in DOMAIN buckets \cup {Hash(Item)} |->
                           IF h = Hash(Item) THEN Len(out) + 1 ELSE buckets[h]]
     ELSE UNCHANGED <<next, buckets>>
  /\ i' = i + 1
  /\ status' = "item"
  /\ UNCHANGED <<input, remaining, previous>>

\* The item was not seen: it is kept and becomes the head of its bucket.
KeepItem ==
  /\ status = "walk" /\ previous = End
  /\ out' = Append(out, Item)
  /\ IF hashed
     THEN /\ next' = Append(next, ChainHead)
          /\ buckets' = [h \in DOMAIN buckets \cup {Hash(Item)} |->
                           IF h = Hash(Item) THEN Len(out) + 1 ELSE buckets[h]]
     ELSE UNCHANGED <<next, buckets>>
  /\ i' = i + 1
  /\ status' = "item"
  /\ UNCHANGED <<input, remaining, previous>>

Done ==
  /\ status = "item" /\ i > Len(input)
  /\ status' = "done"
  /\ UNCHANGED <<input, remaining, i, out, buckets, next, previous>>

Next == TakeItem \/ CompareItem \/ KeepItem \/ Done

Spec == Init /\ [][Next]_vars

-----------------------------------------------------------------------------
(* Properties *)

\* What distinct returns for a list of items: those that equal no item kept
\* before them.
Kept[n \in 0..Len(input)] ==
  IF n = 0 THEN <<>>
  ELSE IF \E k \in DOMAIN Kept[n - 1] : Eql(input[n], Kept[n - 1][k]) THEN Kept[n - 1]
  ELSE Append(Kept[n - 1], input[n])

\* Hashing does not show: a list of any length loses exactly the items that
\* equal one kept before them.
AgreesWithEquality == status = "done" => out = Kept[Len(input)]

\* Following next from the head of a bucket visits every kept item of that
\* hash and no other, the last kept first, and comes to an end.
ChainsComplete ==
  hashed =>
    \A k \in DOMAIN out :
      LET same == {j \in 1..(k - 1) : Hash(out[j]) = Hash(out[k])}
      IN  /\ next[k] = IF same = {} THEN End ELSE CHOOSE j \in same : \A x \in same : x <= j
          /\ Hash(out[k]) \in DOMAIN buckets
          /\ buckets[Hash(out[k])] >= k
          /\ Hash(out[buckets[Hash(out[k])]]) = Hash(out[k])
=============================================================================
