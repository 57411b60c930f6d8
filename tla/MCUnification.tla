---------------------------- MODULE MCUnification ----------------------------
(* Instances of Unification for TLC. *)
EXTENDS Solutions

Lists(ts) == {Named("list", <<t>>) : t \in ts}
Maps(ts) == {Named("map", <<t, u>>) : t, u \in ts}

\* Two variables, two primitive types and two types made of them.
ExactStores ==
  {<<Variable, Variable, Named("int", <<>>), Named("string", <<>>), x, y>> :
     x \in Lists({1, 3}), y \in Lists({2}) \cup {Named("map", <<1, 2>>), Named("map", <<3, 2>>)}}

\* Gradual types: dyn, wrappers and null besides.
GradualStores ==
  {<<Variable, Variable, Named("dyn", <<>>), x, Named("optional_type", <<2>>)>> :
     x \in Lists({3}) \cup {Named("wrapper", <<1>>), Named("null_type", <<>>)}}

MCStores == ExactStores \cup GradualStores

List(p) == Type("list", <<p>>)

\* list(T) -> T, (T, T) -> T, (T, list(T)) -> list(T) and int -> string.
MCFunctions ==
  <<[parameters |-> <<List(Parameter(1))>>, result |-> Parameter(1)],
    [parameters |-> <<Parameter(1), Parameter(1)>>, result |-> Parameter(1)],
    [parameters |-> <<Parameter(1), List(Parameter(1))>>, result |-> List(Parameter(1))],
    [parameters |-> <<Type("int", <<>>)>>, result |-> Type("string", <<>>)]>>

Int == Type("int", <<>>)
MCSolutions == {Int, Type("string", <<>>), List(Int), List(List(Int)), Type("map", <<Int, Type("string", <<>>)>>)}
=============================================================================
