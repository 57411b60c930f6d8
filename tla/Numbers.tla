------------------------------- MODULE Numbers --------------------------------
(***************************************************************************)
(* CEL numbers and their order (value.zig: Value.order and eql), with the  *)
(* widths as parameters: ints and uints of Width bits, doubles of          *)
(* Precision significant bits.  In the code they are 64 and 53.            *)
(*                                                                         *)
(* A double is represented by twice its value, so that halves are there;   *)
(* the infinities are the largest and the least of them.                   *)
(***************************************************************************)
EXTENDS Integers, FiniteSets

CONSTANTS Width, Precision

ASSUME WidthAssumption == Width \in Nat \ {0} /\ Precision \in Nat \ {0}

MinInt == -(2 ^ (Width - 1))
MaxInt == 2 ^ (Width - 1) - 1
MaxUint == 2 ^ Width - 1

Infinity == 2 ^ (Width + 3)

\* The finite doubles in the range of interest, beyond the largest uint too.
Magnitudes == {m * 2 ^ e : m \in 0..(2 ^ Precision - 1), e \in 0..(Width + 2 - Precision)}

Halves == Magnitudes \cup {-h : h \in Magnitudes} \cup {Infinity, -Infinity}

IntNumber(n) == [type |-> "int", n |-> n]
UintNumber(n) == [type |-> "uint", n |-> n]
DoubleNumber(h) == [type |-> "double", n |-> h]
NaN == [type |-> "nan", n |-> 2 * Infinity]

AllNumbers ==
  {IntNumber(n) : n \in MinInt..MaxInt} \cup {UintNumber(n) : n \in 0..MaxUint}
  \cup {DoubleNumber(h) : h \in Halves} \cup {NaN}

Distance(x, y) == IF x > y THEN x - y ELSE y - x

\* @floatFromInt: the nearest double, the even one of two that are as near.
FloatFromInt(n) ==
  LET nearest == {h \in Halves : \A x \in Halves : Distance(h, 2 * n) <= Distance(x, 2 * n)}
      gap == CHOOSE d \in {Distance(x, y) : x, y \in nearest} :
               \A x, y \in nearest : Distance(x, y) <= d
  IN  CHOOSE h \in nearest : Cardinality(nearest) = 1 \/ (h \div gap) % 2 = 0

Compare(x, y) == IF x < y THEN "lt" ELSE IF x > y THEN "gt" ELSE "eq"

Invert(order) == CASE order = "lt" -> "gt" [] order = "gt" -> "lt" [] OTHER -> order

\* Against an integer a double is clamped to the range of its type; inside it
\* the integer is rounded to a double.
OrderDoubleInt(h, n) ==
  IF h < FloatFromInt(MinInt) THEN "lt"
  ELSE IF h > FloatFromInt(MaxInt) THEN "gt"
  ELSE Compare(h, FloatFromInt(n))

OrderDoubleUint(h, n) ==
  IF h < 0 THEN "lt"
  ELSE IF h > FloatFromInt(MaxUint) THEN "gt"
  ELSE Compare(h, FloatFromInt(n))

\* NaN has no order with any number.
Order(a, b) ==
  LET types == <<a.type, b.type>> IN
  CASE "nan" \in {a.type, b.type} -> "none"
    [] types = <<"double", "int">> -> OrderDoubleInt(a.n, b.n)
    [] types = <<"int", "double">> -> Invert(OrderDoubleInt(b.n, a.n))
    [] types = <<"double", "uint">> -> OrderDoubleUint(a.n, b.n)
    [] types = <<"uint", "double">> -> Invert(OrderDoubleUint(b.n, a.n))
    [] OTHER -> Compare(a.n, b.n)

Eql(a, b) == Order(a, b) = "eq"
=============================================================================
