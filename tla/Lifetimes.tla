------------------------------- MODULE Lifetimes -------------------------------
(***************************************************************************)
(* Who owns native memory: environments, compiled programs and the         *)
(* descriptor registry they share (clone, deinit and buildProgram of       *)
(* program.zig; retain and release of protobuf.cc), the handles through    *)
(* which the hosts refer to them and the finalizers of those (compile,     *)
(* environment and evaluate of python.zig and of node.zig).                *)
(*                                                                         *)
(* This composes with RegexCache: its program is one of the programs here, *)
(* compiled between taking the registry and making the handle, and         *)
(* released when a finalizer runs.  That no evaluation runs then is a      *)
(* precondition of Program.deinit, and what has to be shown of the hosts.  *)
(***************************************************************************)
EXTENDS RegexCache

CONSTANTS
  Environments,   \* environments a host may create
  Described,      \* those with protobuf descriptors: they load a registry
  Others,         \* programs beside Program; none of their literals is a pattern
  NoEnvironment   \* compiled without an environment

ASSUME HandleAssumption ==
  /\ IsFiniteSet(Environments) /\ IsFiniteSet(Others)
  /\ Described \subseteq Environments
  /\ Program \notin Others /\ Environments \cap (Others \cup {Program}) = {}
  /\ NoEnvironment \notin Environments \cup Others \cup {Program}

VARIABLES
  stage,       \* stage[x]: how far handle x has come
  home,        \* home[x]: the environment whose registry x uses
  references,  \* references[e]: CelProtoRegistry.references
  registry,    \* registry[e]: "none", "live" or "deleted"
  held,        \* the Environment and Program objects the host refers to
  holding      \* holding[e]: the handles among the arguments of evaluation e

handleVars == <<stage, home, references, registry, held, holding>>

Programs == Others \cup {Program}
Handle == Environments \cup Programs

\* Between "filling" and "made" the call that creates x is in progress; it owns
\* a reference to the registry of its home from "copying" on.  A handle is
\* "deleting" when its reference was the last.
Stage == {"none", "filling", "copying", "patterns", "made", "alive", "deleting", "gone"}
Creating == {"filling", "copying", "patterns", "made"}
Owning == {"copying", "patterns", "made", "alive"}

LifetimesInit ==
  /\ Init
  /\ stage = [x \in Handle |-> "none"]
  /\ home = [x \in Handle |-> IF x \in Environments THEN x ELSE NoEnvironment]
  /\ references = [e \in Environments |-> 0]
  /\ registry = [e \in Environments |-> "none"]
  /\ held = {}
  /\ holding = [e \in Evaluations |-> {}]

-----------------------------------------------------------------------------
(* The registry *)

Retained(e) ==
  references' = IF e \in Described THEN [references EXCEPT ![e] = @ + 1] ELSE references

\* cel_proto_release of the reference of x, if its home has a registry.  The
\* counter is atomic: only the owner that brought it to zero deletes, and it
\* does so afterwards.
Release(x) ==
  IF home[x] \in Described
  THEN /\ references' = [references EXCEPT ![home[x]] = @ - 1]
       /\ stage' = [stage EXCEPT ![x] = IF references[home[x]] = 1 THEN "deleting" ELSE "gone"]
  ELSE stage' = [stage EXCEPT ![x] = "gone"] /\ UNCHANGED references

Delete(x) ==
  /\ stage[x] = "deleting"
  /\ registry' = [registry EXCEPT ![home[x]] = "deleted"]
  /\ stage' = [stage EXCEPT ![x] = "gone"]
  /\ UNCHANGED <<vars, home, references, held, holding>>

-----------------------------------------------------------------------------
(* Creating an environment or a program *)

CreateEnvironment(e) ==
  /\ e \in Environments /\ stage[e] = "none"
  /\ stage' = [stage EXCEPT ![e] = "filling"]
  /\ UNCHANGED <<vars, home, references, registry, held, holding>>

\* Environment.clone loads the descriptors of an environment and starts its
\* registry with one reference.
Load(e) ==
  /\ e \in Environments /\ stage[e] = "filling"
  /\ stage' = [stage EXCEPT ![e] = "copying"]
  /\ registry' = IF e \in Described THEN [registry EXCEPT ![e] = "live"] ELSE registry
  /\ Retained(e)
  /\ UNCHANGED <<vars, home, held, holding>>

\* Program.__init__ with an environment the host refers to, or without one.
Compile(p, e) ==
  /\ p \in Programs /\ stage[p] = "none"
  /\ e \in (held \cap Environments) \cup {NoEnvironment}
  /\ stage' = [stage EXCEPT ![p] = "filling"]
  /\ home' = [home EXCEPT ![p] = e]
  /\ UNCHANGED <<vars, references, registry, held, holding>>

\* Faulty: shares the registry of the environment without counting.
Borrow(p) ==
  /\ p \in Programs /\ stage[p] = "filling"
  /\ stage' = [stage EXCEPT ![p] = "copying"]
  /\ UNCHANGED <<vars, home, references, registry, held, holding>>

\* Environment.clone for a program shares the registry of the environment.
Retain(p) ==
  /\ p \in Programs /\ stage[p] = "filling"
  /\ stage' = [stage EXCEPT ![p] = "copying"]
  /\ Retained(home[p])
  /\ UNCHANGED <<vars, home, registry, held, holding>>

\* A value does not convert, a limit is exceeded, memory or descriptors are
\* bad: the call ends before there is anything to release.
FillingFails(x) ==
  /\ stage[x] = "filling"
  /\ stage' = [stage EXCEPT ![x] = "gone"]
  /\ UNCHANGED <<vars, home, references, registry, held, holding>>

\* clone, parse and check: everything they allocate is in the arena.
CopyingFails(x) ==
  /\ stage[x] = "copying"
  /\ Release(x)
  /\ UNCHANGED <<vars, home, registry, held, holding>>

Copied(x) ==
  /\ stage[x] = "copying"
  /\ stage' = [stage EXCEPT ![x] = IF x = Program THEN "patterns" ELSE "made"]
  /\ UNCHANGED <<vars, home, references, registry, held, holding>>

\* The literals of Program; the cache is freed when one of them fails.
CompileLiteral ==
  /\ stage[Program] = "patterns"
  /\ BuildLiteral
  /\ IF phase' = "failed" THEN Release(Program) ELSE UNCHANGED <<stage, references>>
  /\ UNCHANGED <<home, registry, held, holding>>

LiteralsCompiled ==
  /\ stage[Program] = "patterns"
  /\ Built
  /\ stage' = [stage EXCEPT ![Program] = "made"]
  /\ UNCHANGED <<home, references, registry, held, holding>>

\* Program.deinit, or deinit of an environment and its arena.
Dispose(x) ==
  /\ Release(x)
  /\ IF x = Program THEN ReleaseCache ELSE UNCHANGED vars
  /\ UNCHANGED <<home, registry, held, holding>>

\* The host gets an object with the handle.
Return(x) ==
  /\ stage[x] = "made"
  /\ stage' = [stage EXCEPT ![x] = "alive"]
  /\ held' = held \cup {x}
  /\ UNCHANGED <<vars, home, references, registry, holding>>

\* No handle can be made: the native value is disposed of at once.
HandleFails(x) == stage[x] = "made" /\ Dispose(x)

\* The handle is made but cannot be tagged: the error leaves it to its finalizer.
TagFails(x) ==
  /\ stage[x] = "made"
  /\ stage' = [stage EXCEPT ![x] = "alive"]
  /\ UNCHANGED <<vars, home, references, registry, held, holding>>

-----------------------------------------------------------------------------
(* The host *)

\* Faulty: a program does not refer to its environment.
ReferredByNoProgram(x) ==
  \/ x \in held
  \/ \E p \in Programs : stage[p] \in Creating /\ home[p] = x
  \/ \E e \in Evaluations : x \in holding[e]

\* A Program object refers to its handle and to its Environment; a call that
\* compiles or evaluates refers to its arguments.
Reachable(x) ==
  \/ x \in held
  \/ \E p \in Programs : (p \in held \/ stage[p] \in Creating) /\ home[p] = x
  \/ \E e \in Evaluations : x \in holding[e]

\* capsuleDestroy, environmentDestroy, finalizeProgram, finalizeEnvironment
Finalize(x) ==
  /\ stage[x] = "alive" /\ ~Reachable(x)
  /\ Dispose(x)

\* Host code, also that of a callback, forgets an object.
Drop(x) ==
  /\ x \in held
  /\ held' = held \ {x}
  /\ UNCHANGED <<vars, stage, home, references, registry, holding>>

\* Faulty: an evaluation keeps its environment only.
EnvironmentArgument == {home[Program]} \cap Environments

\* The handles Program.evaluate passes to native code.
Arguments == {Program} \cup ({home[Program]} \cap Environments)

Evaluate(e) ==
  /\ Program \in held
  /\ Start(e)
  /\ holding' = [holding EXCEPT ![e] = Arguments]
  /\ UNCHANGED <<stage, home, references, registry, held>>

\* An evaluation goes on, and drops its arguments if that ends it.
Continue(e) ==
  /\ \/ Ends(e) \/ Match(e)
     \/ \E p \in Patterns, text \in Texts : Lookup(e, p, text)
  /\ holding' = IF e \in running' THEN holding ELSE [holding EXCEPT ![e] = {}]
  /\ UNCHANGED <<stage, home, references, registry, held>>

LifetimesNext ==
  \/ \E x \in Handle :
       \/ CreateEnvironment(x) \/ Load(x) \/ Retain(x) \/ FillingFails(x)
       \/ Copied(x) \/ CopyingFails(x) \/ Return(x) \/ HandleFails(x) \/ TagFails(x)
       \/ Finalize(x) \/ Delete(x) \/ Drop(x)
       \/ \E e \in Environments \cup {NoEnvironment} : Compile(x, e)
  \/ CompileLiteral \/ LiteralsCompiled
  \/ \E e \in Evaluations : Evaluate(e) \/ Continue(e)

LifetimesSpec == LifetimesInit /\ [][LifetimesNext]_<<vars, handleVars>>

-----------------------------------------------------------------------------
(* Properties *)

\* Type invariant.
LifetimesTypeOK ==
  /\ stage \in [Handle -> Stage]
  /\ home \in [Handle -> Environments \cup {NoEnvironment}]
  /\ references \in [Environments -> Nat]
  /\ registry \in [Environments -> {"none", "live", "deleted"}]
  /\ held \subseteq Handle
  /\ holding \in [Evaluations -> SUBSET Handle]

Owners(e) == {x \in Handle : home[x] = e /\ stage[x] \in Owning}
Deleters(e) == {x \in Handle : home[x] = e /\ stage[x] = "deleting"}

\* A registry counts its owners, whatever failed in clone, in buildProgram or
\* when the handle was made: it lives as long as there is one, the last one
\* alone deletes it, and it is gone when they all are.
RegistryOwned ==
  \A e \in Described :
    /\ references[e] = Cardinality(Owners(e))
    /\ registry[e] = "live" <=> Owners(e) \cup Deleters(e) # {}
    /\ Deleters(e) # {} => Owners(e) = {} /\ Cardinality(Deleters(e)) = 1

\* Native code never uses freed memory: the environment it copies, the program
\* it evaluates, or the environment in whose arena the contexts of the
\* program's functions are.
NothingDangles ==
  /\ \A p \in Programs :
       stage[p] \in Creating /\ home[p] # NoEnvironment => stage[home[p]] = "alive"
  /\ running # {} => /\ stage[Program] = "alive"
                     /\ home[Program] # NoEnvironment => stage[home[Program]] = "alive"

\* The hosts keep the precondition of Program.deinit, so that what holds of
\* RegexCache holds of a program that finalizers release.
ImplementsRegexCache == Spec
=============================================================================
