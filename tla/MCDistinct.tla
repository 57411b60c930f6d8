------------------------------ MODULE MCDistinct ------------------------------
(* Instances of Distinct for TLC: all lists of up to two numbers, and longer
   ones of numbers around the boundaries of their types. *)
EXTENDS Distinct

Boundary ==
  {IntNumber(n) : n \in {MinInt, -1, 0, MaxInt}} \cup {UintNumber(n) : n \in {0, MaxInt, MaxInt + 1, MaxUint}}
  \cup {DoubleNumber(h) : h \in {2 * MinInt, -2, -1, 0, 2 * MaxInt, 2 * MaxUint, 2 * (MaxUint + 1), Infinity} \cap Halves}
  \cup {NaN}

MCInputs == UNION {[1..n -> AllNumbers] : n \in 0..2} \cup [1..3 -> Boundary]

\* A few items, one of which comes back.
MoreInputs == {<<a, b, c, b>> : a, b, c \in AllNumbers}
=============================================================================
