--------------------------- MODULE MCBorrowedInputs ---------------------------
(* An instance of BorrowedInputs for TLC. *)
EXTENDS BorrowedInputs

CONSTANTS s, t, box, list, dict

MCSize == [o \in {s, t, box} |-> IF o = t THEN 2 ELSE 1]

\* A binding whose value is a list, which may contain itself.
MCHeaps ==
  {[o \in {list, dict} |-> IF o = list THEN inner ELSE <<s, list>>] :
     inner \in {<<t>>, <<list, s>>, <<box, s>>}}

CallSymmetry == Permutations(Calls)
=============================================================================
