------------------------------ MODULE CelEquality -------------------------------
(***************************************************************************)
(* The parts of the evaluator that recurse over values: equality, lookup   *)
(* by key, and flattening (eval.zig: equal, lookup, flattenList), each     *)
(* with what it charges.  levels is how much deeper a call may nest.       *)
(***************************************************************************)
EXTENDS CelValues

Costs(cost, r) == [cost |-> cost, result |-> r]
After(cost, effect) == Costs(cost + effect.cost, effect.result)

RECURSIVE EqualValues(_, _, _), EqualItems(_, _, _), EqualEntries(_, _, _), LookupKey(_, _, _)

\* Values that hold no others; strings of equal length are compared.
EqualScalars(a, b) ==
  IF IsNumeric(a) /\ IsNumeric(b) THEN Costs(1, Bool(Halves(a) = Halves(b)))
  ELSE IF a[1] # b[1] THEN Costs(1, Bool(FALSE))
  ELSE Costs(IF IsString(a) THEN 2 ELSE 1, Bool(a[2] = b[2]))

EqualValues(a, b, levels) ==
  IF levels = 0 THEN Costs(1, Error("DepthLimitExceeded"))
  ELSE IF a[1] # b[1] \/ ~(IsOptional(a) \/ IsList(a) \/ IsMap(a)) THEN EqualScalars(a, b)
  ELSE IF Len(a[2]) # Len(b[2]) THEN Costs(1, Bool(FALSE))
  ELSE After(1, IF IsMap(a) THEN EqualEntries(a[2], b[2], levels - 1)
                ELSE EqualItems(a[2], b[2], levels - 1))

\* The first comparison that is not true decides.
EqualItems(xs, ys, levels) ==
  IF xs = <<>> THEN Costs(0, Bool(TRUE))
  ELSE LET first == EqualValues(Head(xs), Head(ys), levels)
       IN  IF first.result # Bool(TRUE) THEN first
           ELSE After(first.cost, EqualItems(Tail(xs), Tail(ys), levels))

EqualEntries(entries, others, levels) ==
  IF entries = <<>> THEN Costs(0, Bool(TRUE))
  ELSE LET found == LookupKey(others, Head(entries).key, levels)
           same == EqualValues(Head(entries).value, found.result, levels)
       IN  IF found.result = NoResult THEN Costs(found.cost, Bool(FALSE))
           ELSE IF IsError(found.result) THEN found
           ELSE IF same.result # Bool(TRUE) THEN After(found.cost, same)
           ELSE After(found.cost + same.cost, EqualEntries(Tail(entries), others, levels))

\* The value of the first entry with the key, or NoResult.  A string is compared
\* with the keys before the first that is no string without a call of equal.
LookupKey(entries, key, levels) ==
  LET byName == IsString(key) /\ (entries # <<>> => IsString(Head(entries).key))
      same == IF byName THEN Costs(2, Bool(Head(entries).key = key))
              ELSE EqualValues(Head(entries).key, key, levels)
  IN  IF IsString(key) /\ levels = 0 THEN Costs(0, Error("DepthLimitExceeded"))
      ELSE IF entries = <<>> THEN Costs(0, NoResult)
      ELSE IF IsError(same.result) THEN same
      ELSE IF same.result = Bool(TRUE) THEN Costs(same.cost, Head(entries).value)
      ELSE After(same.cost, LookupKey(Tail(entries), key, levels))

RECURSIVE FlattenedInto(_, _, _, _, _)

\* out and the items, lists among them flattened nested times: its one effect.
FlattenedInto(out, items, nested, levels, max) ==
  LET item == Head(items)
      Rest(cost, longer) ==
        {After(cost, e) : e \in FlattenedInto(longer, Tail(items), nested, levels, max)}
  IN  IF levels = 0 THEN {Costs(0, Error("DepthLimitExceeded"))}
      ELSE IF items = <<>> THEN {Costs(0, List(out))}
      ELSE IF nested > 0 /\ IsList(item)
      THEN IF Len(item[2]) > max THEN {Costs(1, Error("CollectionLimitExceeded"))}
           ELSE UNION {IF IsError(inner.result) THEN {After(1, inner)}
                       ELSE Rest(1 + inner.cost, inner.result[2]) :
                         inner \in FlattenedInto(out, item[2], nested - 1, levels - 1, max)}
      ELSE IF Len(out) >= max THEN {Costs(1, Error("CollectionLimitExceeded"))}
      ELSE Rest(1, Append(out, item))
=============================================================================
