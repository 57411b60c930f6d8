---------------------------- MODULE CallbackRouting ----------------------------
(***************************************************************************)
(* What both bindings promise about host callbacks: while an evaluation    *)
(* runs a host callback, the arguments and the result of that callback are *)
(* converted by the innermost evaluation of its thread that was started    *)
(* with the environment the callback is registered in.  For a program      *)
(* evaluated with the environment it was compiled in that is the caller.   *)
(* Each thread has a stack of evaluations, because host code may evaluate  *)
(* again; the evaluation at height i of thread t is named <<t, i>>.        *)
(***************************************************************************)
EXTENDS Naturals, Sequences

CONSTANTS
  Threads,     \* host threads
  Envs,        \* environments
  NoEnv,       \* a program compiled without an environment
  Registered,  \* environments that register at least one host function
  Nobody,      \* no evaluation is serving a callback
  MaxDepth     \* bound on nested evaluations of one thread

\* stack[t]: the evaluations thread t is inside, outermost first.  "host" says
\* that host code runs in it, "server" which evaluation converts for it;
\* "compiled" is the environment of its program, "owner" the one it was given.
VARIABLE stack

Top(t) == stack[t][Len(stack[t])]

Evaluates(t) == stack[t] # <<>> /\ ~Top(t).host

HostRuns(t) == stack[t] # <<>> => Top(t).host

Init == stack = [t \in Threads |-> <<>>]

\* Host code of thread t starts an evaluation.
Enter(t, compiled, owner) ==
  /\ HostRuns(t)
  /\ Len(stack[t]) < MaxDepth
  /\ stack' = [stack EXCEPT ![t] = Append(@, [compiled |-> compiled, owner |-> owner,
                                              host |-> FALSE, server |-> Nobody])]

\* Evaluation i is the innermost of thread t that was started with env.
Innermost(t, i, env) ==
  /\ stack[t][i].owner = env
  /\ \A j \in (i + 1)..Len(stack[t]) : stack[t][j].owner # env

\* The innermost evaluation calls a host function of its program's environment.
Call(t) ==
  /\ Evaluates(t)
  /\ Top(t).compiled \in Registered
  /\ \E i \in DOMAIN stack[t] :
       /\ Innermost(t, i, Top(t).compiled)
       /\ stack' = [stack EXCEPT ![t][Len(stack[t])].host = TRUE,
                                 ![t][Len(stack[t])].server = <<t, i>>]

\* The innermost evaluation runs host code that needs no conversion.
Getter(t) ==
  /\ Evaluates(t)
  /\ stack' = [stack EXCEPT ![t][Len(stack[t])].host = TRUE]

\* The host code is done, by returning or by raising.
HostDone(t) ==
  /\ stack[t] # <<>> /\ Top(t).host
  /\ stack' = [stack EXCEPT ![t][Len(stack[t])].host = FALSE,
                            ![t][Len(stack[t])].server = Nobody]

\* The innermost evaluation is done, with a result or with an error.
Leave(t) ==
  /\ Evaluates(t)
  /\ stack' = [stack EXCEPT ![t] = SubSeq(@, 1, Len(@) - 1)]

Next ==
  \E t \in Threads :
    \/ \E compiled, owner \in Envs \cup {NoEnv} : Enter(t, compiled, owner)
    \/ Call(t) \/ Getter(t) \/ HostDone(t) \/ Leave(t)

Spec == Init /\ [][Next]_stack
=============================================================================
