--------------------------- MODULE MCCallbackFrames ---------------------------
(* Instances of CallbackFrames for TLC. *)
EXTENDS CallbackFrames

CONSTANTS a, b, n, t1, t2

MCThreads == {t1, t2}
MCEnvs == {a, b, n}
MCRegistered == {a, b}

\* cel.Program.evaluate passes the environment the program was compiled in; the
\* private native function takes the two separately.
MCEvaluated ==
  [compiled : {a, b}, owner : {a, b}]
    \cup {[compiled |-> a, owner |-> NoEnv], [compiled |-> n, owner |-> n]}
=============================================================================
