------------------------------ MODULE RegexCache ------------------------------
(***************************************************************************)
(* Who owns compiled regular expressions (regex.zig; buildProgram, deinit  *)
(* and matchesLiteral of program.zig; matches in eval.zig).  RE2 programs  *)
(* live on the C++ heap, outside every arena: a program owns those of its  *)
(* literals, which concurrent evaluations share, and each evaluation owns  *)
(* those of the patterns it computes.  Any allocation may fail.            *)
(***************************************************************************)
EXTENDS Naturals, FiniteSets, Sequences

CONSTANTS
  Patterns,         \* pattern texts
  Literals,         \* the literal patterns of the program, in source order
  Status,           \* what RE2 says of each: "compiled", "invalid" or "limited"
  Long,             \* patterns longer than max_pattern_bytes
  Length,           \* Length[p]: bytes of the text of p
  Size,             \* Size[p]: RE2 program size of p
  Texts,            \* lengths of the texts that are matched
  Evaluations,      \* evaluations that may run at the same time
  Program,          \* the owner of the literal cache
  NoRequest,        \* no match is being made
  NoAnswer,         \* no match was made
  max_patterns,     \* Limits.max_patterns
  max_steps,        \* the budget of an evaluation
  MemoryUsable,     \* RE2 can work with max_memory_bytes
  MaxRequests       \* bound on the matches made

ASSUME PatternAssumption ==
  /\ Literals \in Seq(Patterns) /\ Long \subseteq Patterns
  /\ Status \in [Patterns -> {"compiled", "invalid", "limited"}]
  /\ Length \in [Patterns -> Nat] /\ Size \in [Patterns -> Nat] /\ Texts \subseteq Nat

ASSUME LimitAssumption ==
  /\ max_patterns \in Nat /\ max_steps \in Nat /\ MaxRequests \in Nat
  /\ MemoryUsable \in BOOLEAN /\ Program \notin Evaluations

VARIABLES
  phase,    \* of the program: "building", "ready", "failed" or "released"
  built,    \* number of literals looked up by buildProgram
  cache,    \* cache[o]: the patterns and entries owned by o
  running,  \* the evaluations in progress
  left,     \* left[e]: Context.remaining of evaluation e
  request,  \* request[e]: the match e is about to make, or NoRequest
  answer,   \* answer[e]: the last match of e: its pattern, text and outcome
  asked,    \* matches asked for so far, to bound them
  live      \* the RE2 programs on the C++ heap, with the cache they are for

vars == <<phase, built, cache, running, left, request, answer, asked, live>>

Owner == Evaluations \cup {Program}

Empty == [p \in {} |-> "limited"]

With(entries, p, status) == [q \in DOMAIN entries \cup {p} |-> IF q = p THEN status ELSE entries[q]]

Bigger(m, n) == IF m > n THEN m ELSE n

Init ==
  /\ phase = "building" /\ built = 0
  /\ cache = [o \in Owner |-> Empty]
  /\ running = {}
  /\ left = [e \in Evaluations |-> 0]
  /\ request = [e \in Evaluations |-> NoRequest]
  /\ answer = [e \in Evaluations |-> NoAnswer]
  /\ asked = 0
  /\ live = {}

-----------------------------------------------------------------------------
(* Cache.get *)

\* Faulty: the compiled program is not freed.
LeakedPut(o, p) == IF Status[p] = "compiled" THEN live \cup {<<o, p>>} ELSE live

\* put fails: the entry is freed again.
AfterFailedPut(o, p) == live

\* Faulty: a full cache takes one more pattern.
GetOneMore(o, p) ==
  LET entries == cache[o]
      unchanged(returns) == [returns |-> returns, entries |-> entries, heap |-> live]
      heap == IF Status[p] = "compiled" THEN live \cup {<<o, p>>} ELSE live
  IN  IF p \in DOMAIN entries THEN {unchanged(entries[p])}
      ELSE IF p \in Long THEN {unchanged("limited")}
      ELSE IF Cardinality(DOMAIN entries) > max_patterns THEN {unchanged("RegexLimitExceeded")}
      ELSE IF ~MemoryUsable THEN {unchanged("limited")}
      ELSE {[returns |-> Status[p], entries |-> With(entries, p, Status[p]), heap |-> heap],
            unchanged("OutOfMemory")}

\* Faulty: a pattern that is too long is reported as invalid.
GetLongInvalid(o, p) ==
  LET entries == cache[o]
      unchanged(returns) == [returns |-> returns, entries |-> entries, heap |-> live]
      heap == IF Status[p] = "compiled" THEN live \cup {<<o, p>>} ELSE live
  IN  IF p \in DOMAIN entries THEN {unchanged(entries[p])}
      ELSE IF p \in Long THEN {unchanged("invalid")}
      ELSE IF Cardinality(DOMAIN entries) >= max_patterns THEN {unchanged("RegexLimitExceeded")}
      ELSE IF ~MemoryUsable THEN {unchanged("limited")}
      ELSE {[returns |-> Status[p], entries |-> With(entries, p, Status[p]), heap |-> heap],
            unchanged("OutOfMemory")}

\* The possible outcomes of get for owner o: what it returns, and the cache and
\* heap it leaves.  Only a pattern that RE2 was asked to compile is stored.
Get(o, p) ==
  LET entries == cache[o]
      unchanged(returns) == [returns |-> returns, entries |-> entries, heap |-> live]
      heap == IF Status[p] = "compiled" THEN live \cup {<<o, p>>} ELSE live
  IN  IF p \in DOMAIN entries THEN {unchanged(entries[p])}
      ELSE IF p \in Long THEN {unchanged("limited")}
      ELSE IF Cardinality(DOMAIN entries) >= max_patterns THEN {unchanged("RegexLimitExceeded")}
      ELSE IF ~MemoryUsable THEN {unchanged("limited")}
      ELSE {[returns |-> Status[p], entries |-> With(entries, p, Status[p]), heap |-> heap],
            unchanged("OutOfMemory"),
            [returns |-> "OutOfMemory", entries |-> entries, heap |-> AfterFailedPut(o, p)]}

Failed == {"RegexLimitExceeded", "OutOfMemory"}

\* Faulty: frees the programs of other owners of the same pattern.
FreedEverywhere(o, heap) == {h \in heap : h[2] \notin DOMAIN cache[o]}

\* Cache.deinit
Freed(o, heap) == heap \ {<<o, p>> : p \in DOMAIN cache[o]}

-----------------------------------------------------------------------------
(* The program *)

\* buildProgram looks up its literals one by one; the first failure releases
\* the cache and fails the compilation.
BuildLiteral ==
  /\ phase = "building" /\ built < Len(Literals)
  /\ \E got \in Get(Program, Literals[built + 1]) :
       IF got.returns \in Failed
       THEN /\ phase' = "failed"
            /\ live' = Freed(Program, got.heap)
            /\ cache' = [cache EXCEPT ![Program] = Empty]
            /\ UNCHANGED built
       ELSE /\ built' = built + 1
            /\ cache' = [cache EXCEPT ![Program] = got.entries]
            /\ live' = got.heap
            /\ UNCHANGED phase
  /\ UNCHANGED <<running, left, request, answer, asked>>

Built ==
  /\ phase = "building" /\ built = Len(Literals)
  /\ phase' = "ready"
  /\ UNCHANGED <<built, cache, running, left, request, answer, asked, live>>

\* Program.deinit frees the literal cache.
ReleaseCache ==
  /\ phase' = "released"
  /\ live' = Freed(Program, live)
  /\ cache' = [cache EXCEPT ![Program] = Empty]
  /\ UNCHANGED <<built, running, left, request, answer, asked>>

\* No evaluation may still be using the program.
Deinit ==
  /\ phase = "ready" /\ running = {}
  /\ ReleaseCache

-----------------------------------------------------------------------------
(* Evaluations *)

Start(e) ==
  /\ phase = "ready" /\ e \notin running
  /\ running' = running \cup {e}
  /\ left' = [left EXCEPT ![e] = max_steps]
  /\ answer' = [answer EXCEPT ![e] = NoAnswer]
  /\ UNCHANGED <<phase, built, cache, request, asked, live>>

\* The dynamic cache goes with the evaluation, whatever it returns.
EndWith(e, outcome, heap) ==
  /\ running' = running \ {e}
  /\ request' = [request EXCEPT ![e] = NoRequest]
  /\ answer' = [answer EXCEPT ![e] = outcome]
  /\ live' = Freed(e, heap)
  /\ cache' = [cache EXCEPT ![e] = Empty]

Ends(e) ==
  /\ e \in running /\ request[e] = NoRequest
  /\ EndWith(e, NoAnswer, live)
  /\ UNCHANGED <<phase, built, left, asked>>

\* text.matches(p): charge, then the literal cache, then the dynamic one.
Lookup(e, p, text) ==
  /\ e \in running /\ request[e] = NoRequest /\ asked < MaxRequests
  /\ asked' = asked + 1
  /\ LET outcome(o) == [pattern |-> p, text |-> text, returns |-> o]
         after == left[e] - (text + Length[p])
     IN  IF text + Length[p] > left[e]
         THEN EndWith(e, outcome("CostLimitExceeded"), live) /\ UNCHANGED left
         ELSE /\ left' = [left EXCEPT ![e] = after]
              /\ IF p \in DOMAIN cache[Program]
                 THEN /\ request' = [request EXCEPT ![e] =
                           [pattern |-> p, text |-> text, owner |-> Program, entry |-> cache[Program][p]]]
                      /\ UNCHANGED <<cache, running, answer, live>>
                 ELSE \E got \in Get(e, p) :
                        IF got.returns \in Failed
                        THEN EndWith(e, outcome(got.returns), got.heap)
                        ELSE /\ request' = [request EXCEPT ![e] =
                                  [pattern |-> p, text |-> text, owner |-> e, entry |-> got.returns]]
                             /\ cache' = [cache EXCEPT ![e] = got.entries]
                             /\ live' = got.heap
                             /\ UNCHANGED <<running, answer>>
  /\ UNCHANGED <<phase, built>>

MatchCost(p, text) == Bigger(Size[p], 1) * Bigger(text, 1)

\* Pattern.matches: what an entry may answer with a budget.  RE2 may run out of
\* memory while it matches.
Matches(entry, p, text, budget) ==
  CASE entry = "invalid" -> {"InvalidArgument"}
    [] entry = "limited" -> {"RegexLimitExceeded"}
    [] entry = "compiled" ->
         IF MatchCost(p, text) > budget THEN {"CostLimitExceeded"} ELSE {"matched", "OutOfMemory"}

\* Errors other than an invalid pattern are fatal and end the evaluation.
Match(e) ==
  /\ e \in running /\ request[e] # NoRequest
  /\ LET r == request[e]
         cost == MatchCost(r.pattern, r.text)
     IN  \E returns \in Matches(r.entry, r.pattern, r.text, left[e]) :
           LET outcome == [pattern |-> r.pattern, text |-> r.text, returns |-> returns] IN
           /\ left' = [left EXCEPT ![e] = IF returns \in {"matched", "OutOfMemory"} THEN @ - cost ELSE @]
           /\ IF returns \in {"matched", "InvalidArgument"}
              THEN /\ answer' = [answer EXCEPT ![e] = outcome]
                   /\ request' = [request EXCEPT ![e] = NoRequest]
                   /\ UNCHANGED <<cache, running, live>>
              ELSE EndWith(e, outcome, live)
  /\ UNCHANGED <<phase, built, asked>>

Next ==
  \/ BuildLiteral \/ Built \/ Deinit
  \/ \E e \in Evaluations :
       \/ Start(e) \/ Ends(e) \/ Match(e)
       \/ \E p \in Patterns, text \in Texts : Lookup(e, p, text)

Spec == Init /\ [][Next]_vars

-----------------------------------------------------------------------------
(* Properties *)

\* Type invariant; no cache grows beyond its limit.
TypeOK ==
  /\ phase \in {"building", "ready", "failed", "released"}
  /\ built \in 0..Len(Literals)
  /\ \A o \in Owner :
       DOMAIN cache[o] \subseteq Patterns /\ Cardinality(DOMAIN cache[o]) <= max_patterns
  /\ running \subseteq Evaluations
  /\ left \in [Evaluations -> 0..max_steps]
  /\ asked \in 0..MaxRequests
  /\ live \subseteq Owner \X Patterns

\* Every RE2 program on the heap is in exactly the cache that will free it,
\* and none is left when the program is gone and no evaluation runs, whichever
\* compilations and allocations failed.
HeapOwned ==
  live = {h \in Owner \X Patterns : h[2] \in DOMAIN cache[h[1]] /\ cache[h[1]][h[2]] = "compiled"}

\* A match in preparation holds an RE2 program that is still on the heap.
MatchesLiveProgram ==
  \A e \in running :
    request[e] # NoRequest /\ request[e].entry = "compiled" =>
      <<request[e].owner, request[e].pattern>> \in live

\* A pattern is answered the same whether it was compiled with the program, for
\* this evaluation, just now or before: an invalid pattern is an invalid
\* argument, one that is too long or too big exceeds the regex limit, and any
\* other matches unless a limit of work, patterns or memory is reached.
AnswerOfPattern(p) ==
  IF p \in Long \/ ~MemoryUsable \/ Status[p] = "limited" THEN "RegexLimitExceeded"
  ELSE IF Status[p] = "invalid" THEN "InvalidArgument" ELSE "matched"

AnswersAgree ==
  \A e \in Evaluations :
    answer[e] # NoAnswer =>
      answer[e].returns \in {AnswerOfPattern(answer[e].pattern),
                             "CostLimitExceeded", "OutOfMemory", "RegexLimitExceeded"}
=============================================================================
