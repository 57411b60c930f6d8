------------------------------ MODULE MCLifetimes ------------------------------
(* Instances of Lifetimes for TLC. *)
EXTENDS Lifetimes

CONSTANTS good, other, bad, big, long, e1, e2

MCPatterns == {good, other, bad, big, long}
MCLiterals == <<good, good>>
MCStatus == [p \in Patterns |-> IF p = bad THEN "invalid" ELSE IF p = big THEN "limited" ELSE "compiled"]
MCLong == {long}
MCLength == [p \in Patterns |-> IF p = long THEN 2 ELSE 1]
MCSize == [p \in Patterns |-> IF p = other THEN 2 ELSE 1]
MCEvaluations == {e1, e2}
=============================================================================
