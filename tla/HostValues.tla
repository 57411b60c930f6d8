------------------------------ MODULE HostValues ------------------------------
(***************************************************************************)
(* The classes of the Python package cel that stand for CEL values Python  *)
(* has no type for.  A Python object is a tuple that begins with its type: *)
(* <<"None">>, <<"bool", b>>, <<"int", n>>, <<"float", d>>, <<"str", s>>,  *)
(* <<"bytes", s>>, <<"tuple", items>>, <<"list", items>>, <<"dict",        *)
(* items>> or an instance of one of the classes; an exception is <<"raise",*)
(* type>>.  Doubles are <<"num", n>>, <<"NaN">> and <<"Infinity">>.        *)
(***************************************************************************)
EXTENDS Integers, Sequences

LOCAL INSTANCE TLC

CONSTANTS
  IntMax,           \* 2^63 - 1, scaled down
  UIntMax,          \* 2^64 - 1
  EnumMax,          \* 2^31 - 1
  SecondsMax,       \* the seconds of a timestamp lie in -SecondsMax .. SecondsMax
  NanosPerSecond,   \* 1_000_000_000
  QualifiedNames,   \* the names of types that are identifiers joined by dots
  Addresses,        \* the texts of addresses, each with its canonical text
  Prefixes          \* the texts of prefixes, likewise

ASSUME WidthsAssumption ==
  /\ EnumMax \in Nat /\ SecondsMax \in Nat
  /\ NanosPerSecond \in Nat \ {0}
  /\ EnumMax <= IntMax /\ IntMax < UIntMax

None == <<"None">>
Raise(exception) == <<"raise", exception>>
Raised(x) == x[1] = "raise"

\* The first exception among the results of computations made in order.
SomeRaised(results) == \E i \in DOMAIN results : Raised(results[i])
FirstRaised(results) ==
  results[CHOOSE i \in DOMAIN results :
            Raised(results[i]) /\ \A j \in 1 .. i - 1 : ~Raised(results[j])]

\* F(v).  TLC computes v once, where it would expand a LET.
With(v, F(_)) == CHOOSE r \in {F(x) : x \in {v}} : TRUE

\* What is made of a result, of the results of several computations, or of pairs
\* of results: the first exception, when there is one.
Then(result, Make(_)) == With(result, LAMBDA r : IF Raised(r) THEN r ELSE Make(r))

AllThen(results, Make(_)) ==
  With(results, LAMBDA rs : IF SomeRaised(rs) THEN FirstRaised(rs) ELSE Make(rs))

\* The same for the fields of a record, which have no order.
EachThen(record, Make(_)) ==
  With(record, LAMBDA r :
    IF SomeRaised(r) THEN r[CHOOSE x \in DOMAIN r : Raised(r[x])] ELSE Make(r))

\* F of every item of a sequence or record, and of both items of every pair; TLC
\* computes the items of f @@ <<>>, which is f.
Mapped(F(_), items) == With(items, LAMBDA s : [i \in DOMAIN s |-> F(s[i])] @@ <<>>)
MappedPairs(F(_), pairs) == Mapped(LAMBDA p : <<F(p[1]), F(p[2])>>, pairs)

PairsThen(pairs, Make(_)) ==
  With(pairs, LAMBDA ps :
    AllThen(Mapped(LAMBDA p : IF Raised(p[1]) THEN p[1] ELSE p[2], ps), LAMBDA each : Make(ps)))

Ints == -(IntMax + 1) .. IntMax

UInt(value) ==
  IF value[1] # "int" THEN Raise("TypeError")
  ELSE IF value[2] \in 0 .. UIntMax THEN <<"UInt", value[2]>>
  ELSE Raise("ValueError")

\* parameters and kind as the class's own constructors and methods give them.
CELType(name, parameters, kind) ==
  IF name[1] # "str" THEN Raise("TypeError")
  ELSE IF name[2] = "" THEN Raise("ValueError")
  ELSE IF \E i \in DOMAIN parameters : parameters[i][1] # "CELType" THEN Raise("TypeError")
  ELSE <<"CELType", name[2], parameters, kind>>

Concrete(name, parameters) == CELType(<<"str", name>>, parameters, "concrete")
TypeParameter(name) == CELType(<<"str", name>>, <<>>, "parameter")
Abstract(name, parameters) == CELType(<<"str", name>>, parameters, "abstract")

Message(type_name, data) ==
  IF type_name[1] # "str" \/ type_name[2] = "" THEN Raise("TypeError")
  ELSE <<"Message", type_name[2], data>>

\* A number is anything with __index__ except a bool.
EnumValue(type_name, number) ==
  IF type_name[1] # "str" THEN Raise("TypeError")
  ELSE IF type_name[2] \notin QualifiedNames THEN Raise("ValueError")
  ELSE IF number[1] # "int" THEN Raise("TypeError")
  ELSE IF number[2] \in -(EnumMax + 1) .. EnumMax
    THEN <<"EnumValue", type_name[2], number[2]>>
  ELSE Raise("ValueError")

OptionalValue(has_value, value) ==
  IF has_value[1] # "bool" THEN Raise("TypeError")
  ELSE IF ~has_value[2] /\ value # None THEN Raise("ValueError")
  ELSE <<"OptionalValue", has_value[2], value>>

OptionalOf(value) == OptionalValue(<<"bool", TRUE>>, value)
OptionalNone == OptionalValue(<<"bool", FALSE>>, None)

Timestamp(seconds, nanos) ==
  IF seconds[1] # "int" \/ nanos[1] # "int" THEN Raise("TypeError")
  ELSE IF seconds[2] \in -SecondsMax .. SecondsMax /\ nanos[2] \in 0 .. NanosPerSecond - 1
    THEN <<"Timestamp", seconds[2], nanos[2]>>
  ELSE Raise("ValueError")

Duration(nanoseconds) ==
  IF nanoseconds[1] # "int" THEN Raise("TypeError")
  ELSE IF nanoseconds[2] \in Ints THEN <<"Duration", nanoseconds[2]>>
  ELSE Raise("ValueError")

IPAddress(value) ==
  IF value[1] # "str" THEN Raise("TypeError")
  ELSE IF value[2] \in DOMAIN Addresses THEN <<"IPAddress", Addresses[value[2]]>>
  ELSE Raise("ValueError")

CIDR(value) ==
  IF value[1] # "str" THEN Raise("TypeError")
  ELSE IF value[2] \in DOMAIN Prefixes THEN <<"CIDR", Prefixes[value[2]]>>
  ELSE Raise("ValueError")

\* The keys of a dict: True == 1 and False == 0, and no UInt equals an int.
PythonKey(key) == IF key[1] = "bool" THEN <<"int", IF key[2] THEN 1 ELSE 0>> ELSE key

\* What tells the keys of a CELMap apart: True and 1 differ, 1 and UInt(1) do not.
CanonicalKey(key) ==
  <<key[1] = "bool", IF key[1] = "UInt" THEN <<"int", key[2]>> ELSE key>>

CELMap(entries) ==
  LET Key(i) == entries[i][1]
      checked ==
        [i \in DOMAIN entries |->
           IF Key(i)[1] \notin {"bool", "int", "str", "UInt"} THEN Raise("TypeError")
           ELSE IF \E j \in 1 .. i - 1 : CanonicalKey(Key(j)) = CanonicalKey(Key(i))
             THEN Raise("ValueError")
           ELSE None]
  IN  IF SomeRaised(checked) THEN FirstRaised(checked) ELSE <<"CELMap", entries>>

\* A declaration, as Environment takes it; no implementation stands for None.
Function(name, parameters, result, overload_id, member) ==
  IF name[1] # "str" THEN Raise("TypeError")
  ELSE IF name[2] = "" THEN Raise("ValueError")
  ELSE IF \E i \in DOMAIN parameters : parameters[i][1] # "CELType" THEN Raise("TypeError")
  ELSE IF result[1] # "CELType" THEN Raise("TypeError")
  ELSE <<"Function", name[2], parameters, result, overload_id, member>>
=============================================================================
