------------------------------ MODULE MathLibrary ------------------------------
(***************************************************************************)
(* The math extension (math.zig: evaluate) on ints, uints and finite       *)
(* doubles.  The bits of a number are the set of the positions of its      *)
(* ones, in two's complement.  The tests for NaN and infinities are left   *)
(* out with these values.                                                  *)
(***************************************************************************)
EXTENDS CelValues, FiniteSetsExt
LOCAL INSTANCE SequencesExt

CONSTANT MaxInt   \* the largest int; the largest uint is 2 * MaxInt + 1

\* Ints and uints have one width.
ASSUME MaxIntAssumption == MaxInt \in Nat /\ \E n \in 0..MaxInt : MaxInt + 1 = 2^n

Patterns == 2 * (MaxInt + 1)
Width == CHOOSE n \in 1..Patterns : 2^n = Patterns

\* @bitCast to and from the unsigned width.
Bits(r) == {k \in 0..(Width - 1) : (r[2] \div 2^k) % 2 = 1}

OfBits(type, bits) ==
  LET n == MapThenSumSet(LAMBDA k : 2^k, bits)
  IN  IF type = "uint" THEN Unsigned(n)
      ELSE Integer(IF n > MaxInt THEN n - Patterns ELSE n)

\* Bits that leave the width are lost; the sign is a bit as any other.
Shifted(operation, bits, offset) ==
  {IF operation = "bitShiftLeft" THEN k + offset ELSE k - offset : k \in bits} \cap 0..(Width - 1)

Shifts == {"bitShiftLeft", "bitShiftRight"}

Combined(operation, bits, other) ==
  CASE operation = "bitAnd" -> bits \cap other
    [] operation = "bitOr" -> bits \cup other
    [] operation = "bitXor" -> (bits \ other) \cup (other \ bits)

Combinations == {"bitAnd", "bitOr", "bitXor"}

Paired(operation, a, b) ==
  IF a[1] \notin {"int", "uint"} \/ b[1] # (IF operation \in Shifts THEN "int" ELSE a[1])
  THEN Error("NoMatchingOverload")
  ELSE IF operation \in Combinations THEN OfBits(a[1], Combined(operation, Bits(a), Bits(b)))
  ELSE IF b[2] < 0 THEN Error("InvalidArgument")
  ELSE OfBits(a[1], Shifted(operation, Bits(a), b[2]))

\* Halves without their fraction, in four directions.
WithoutFraction(operation, h) ==
  CASE operation = "floor" -> h \div 2
    [] operation = "ceil" -> -((-h) \div 2)
    [] operation = "trunc" -> IF h < 0 THEN -((-h) \div 2) ELSE h \div 2
    [] operation = "round" -> IF h < 0 THEN -((1 - h) \div 2) ELSE (h + 1) \div 2

Directions == {"floor", "ceil", "trunc", "round"}

Sign(n) == IF n < 0 THEN -1 ELSE IF n > 0 THEN 1 ELSE 0

Single(operation, a) ==
  CASE operation \in Directions /\ a[1] = "double" -> Double(2 * WithoutFraction(operation, a[2]))
    [] operation = "abs" /\ IsNumeric(a) ->
         IF IsInt(a) /\ a[2] = -(MaxInt + 1) THEN Error("Overflow")
         ELSE <<a[1], IF a[2] < 0 THEN -a[2] ELSE a[2]>>
    [] operation = "sign" /\ IsNumeric(a) ->
         IF a[1] = "double" THEN Double(2 * Sign(a[2])) ELSE <<a[1], Sign(a[2])>>
    [] operation = "bitNot" /\ a[1] \in {"int", "uint"} -> OfBits(a[1], 0..(Width - 1) \ Bits(a))
    [] OTHER -> Error("NoMatchingOverload")

\* Of numbers that are equal, of different types, the first is taken.
Exceeds(operation, a, b) ==
  IF operation = "greatest" THEN Halves(a) > Halves(b) ELSE Halves(a) < Halves(b)

\* One after the other, up to the first that is no number.
Extremum(operation, items) ==
  IF items = <<>> THEN Error("InvalidArgument")
  ELSE FoldLeft(LAMBDA best, item : IF IsError(best) THEN best
                                    ELSE IF ~IsNumeric(item) THEN Error("NoMatchingOverload")
                                    ELSE IF Exceeds(operation, item, best) THEN item
                                    ELSE best,
                IF IsNumeric(items[1]) THEN items[1] ELSE Error("NoMatchingOverload"), Tail(items))

Extrema == {"greatest", "least"}

\* evaluate
MathResult(operation, a) ==
  CASE operation \in Extrema -> Extremum(operation, a)
    [] operation \in Combinations \cup Shifts /\ Len(a) = 2 -> Paired(operation, a[1], a[2])
    [] operation \notin Extrema \cup Combinations \cup Shifts /\ Len(a) = 1 -> Single(operation, a[1])
    [] OTHER -> Error("NoMatchingOverload")
=============================================================================
