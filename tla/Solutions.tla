----------------------------- MODULE Solutions -----------------------------
(* What unification is for: the types that solve the equations between terms. *)
EXTENDS Unification, FiniteSets

CONSTANTS
  Solutions,    \* types that variables may stand for
  MaxVariables  \* bound on the variables that solutions are enumerated for

ASSUME SolutionsAssumption == Solutions \subseteq Types[max_depth + 1]

\* The terms that were unified, and those the last operation failed to unify.
Equations == equations \cup ({refuted} \ {NoPair})

\* A term and all it is made of.
Inside ==
  LET f[t \in DOMAIN terms] == {t} \cup UNION {f[terms[t].parameters[i]] : i \in DOMAIN terms[t].parameters}
  IN  f

\* Types that unify with other types.
Gradual(term) ==
  term.name \in {"dyn", "wrapper", "null_type"} \/ (term.name = "type" /\ term.parameters # <<>>)

Precise ==
  \A pair \in Equations : \A t \in Inside[pair[1]] \cup Inside[pair[2]] : ~Gradual(terms[t])

\* Where representative and peek go next, and what a type has inside.
Successors(t) ==
  IF terms[t].parent # Nothing THEN {terms[t].parent}
  ELSE IF terms[t].binding # Nothing THEN {terms[t].binding}
  ELSE {terms[t].parameters[i] : i \in DOMAIN terms[t].parameters}

\* What the store says of its variables.
Substitution == {link \in Variables \X DOMAIN terms : link[2] \in Successors(link[1])}

\* The variables of the store and the equations; all others may be anything.
Constrained ==
  Variables \cap UNION {Inside[pair[1]] \cup Inside[pair[2]] : pair \in Substitution \cup Equations}

\* The type of every term, for the types of variables; without one they are dyn.
Denoted(solution) ==
  LET f[t \in DOMAIN terms] ==
        IF t \in DOMAIN solution THEN solution[t]
        ELSE IF IsVariable(terms, t) THEN Type("dyn", <<>>)
        ELSE Type(terms[t].name, [i \in DOMAIN terms[t].parameters |-> f[terms[t].parameters[i]]])
  IN  f

Solves(type, pairs) == \A pair \in pairs : type[pair[1]] = type[pair[2]]

\* Unification is most general: the variables may stand for exactly the types
\* that make the unified terms equal, and terms that do not unify are equal for
\* none of them.
MostGeneral ==
  Precise /\ status = "checking" /\ Cardinality(Constrained) <= MaxVariables =>
    \A solution \in [Constrained -> Solutions] :
      LET type == Denoted(solution) IN
      /\ Solves(type, Substitution) <=> Solves(type, equations)
      /\ refuted # NoPair /\ Solves(type, Substitution) => ~Solves(type, {refuted})

\* The terms from which every path ends within n steps.
LeadingTo(ts) == {t \in DOMAIN terms : Successors(t) \subseteq ts}
Ending ==
  LET f[n \in 0..Len(terms)] == IF n = 0 THEN {} ELSE LeadingTo(f[n - 1]) IN f

\* "Flat aggregate inference does not turn type variable links into nesting":
\* no type contains itself, so that only types which are nested too deeply can
\* exceed the depth limit.
TypesAreFinite == DOMAIN terms \subseteq Ending[Len(terms)]

\* Without gradual types no type contains itself.
PreciseTypesAreFinite == Precise => TypesAreFinite
=============================================================================
