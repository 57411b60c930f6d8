---------------------------- MODULE LifetimesProofs ----------------------------
(***************************************************************************)
(* Safety of the caches of regular expressions, for any patterns, literals *)
(* and limits and any number of concurrent evaluations, and of the         *)
(* ownership of native memory, for any finite numbers of environments and  *)
(* programs; and that hosts which release programs by finalizers keep the  *)
(* precondition of Program.deinit, so that what is proved of the caches    *)
(* holds of their programs.                                                *)
(***************************************************************************)
EXTENDS Lifetimes, FiniteSetTheorems, TLAPS

-----------------------------------------------------------------------------
(* Caches *)

\* The entries of owner o and its part of a heap belong together: what is stored
\* is what RE2 said, of patterns that were given to it, and the programs of o on
\* the heap are those that its entries refer to.
Good(o, entries, heap) ==
  /\ DOMAIN entries \subseteq Patterns
  /\ IsFiniteSet(DOMAIN entries) /\ Cardinality(DOMAIN entries) <= max_patterns
  /\ \A p \in DOMAIN entries : entries[p] = Status[p] /\ p \notin Long /\ MemoryUsable
  /\ \A p \in Patterns : <<o, p>> \in heap <=> p \in DOMAIN entries /\ entries[p] = "compiled"

StoreInv ==
  /\ DOMAIN cache = Owner
  /\ live \subseteq Owner \X Patterns
  /\ \A o \in Owner : Good(o, cache[o], live)

\* What is known of a pattern with such an entry.
Right(p, entry) ==
  /\ entry \in {"compiled", "invalid", "limited"}
  /\ entry = "compiled" => AnswerOfPattern(p) = "matched"
  /\ entry = "invalid" => AnswerOfPattern(p) = "InvalidArgument"

\* A request in preparation: its program is in the cache it was found in.
Held(e, r, caches) ==
  /\ r.owner \in {e, Program} /\ r.pattern \in Patterns /\ r.text \in Nat
  /\ Right(r.pattern, r.entry)
  /\ r.entry = "compiled" =>
       r.pattern \in DOMAIN caches[r.owner] /\ caches[r.owner][r.pattern] = "compiled"

RequestInv ==
  /\ DOMAIN request = Evaluations
  /\ \A e \in Evaluations : request[e] # NoRequest => e \in running /\ Held(e, request[e], cache)

\* An evaluation keeps its program from being released.
PhaseInv ==
  /\ phase \in {"building", "ready", "failed", "released"}
  /\ built \in 0..Len(Literals)
  /\ running \subseteq Evaluations
  /\ running # {} => phase = "ready"

BudgetInv ==
  /\ left \in [Evaluations -> 0..max_steps]
  /\ asked \in 0..MaxRequests

AnswerInv == DOMAIN answer = Evaluations /\ AnswersAgree

\* The inductive invariant.
Inv == StoreInv /\ RequestInv /\ PhaseInv /\ BudgetInv /\ AnswerInv

-----------------------------------------------------------------------------
(* Caches *)

LEMMA EmptyGood ==
  ASSUME NEW o, NEW heap, \A p \in Patterns : <<o, p>> \notin heap
  PROVE  Good(o, Empty, heap)
<1>1. DOMAIN Empty = {}
  BY DEF Empty
<1>2. IsFiniteSet({}) /\ Cardinality({}) = 0
  BY FS_EmptySet
<1>3. QED
  BY <1>1, <1>2, LimitAssumption DEF Good

LEMMA InitInv == Init => Inv
<1> SUFFICES ASSUME Init PROVE Inv
  OBVIOUS
<1> USE DEF Init
<1>1. StoreInv
  BY EmptyGood DEF StoreInv
<1>2. RequestInv /\ AnswerInv
  BY DEF RequestInv, AnswerInv, AnswersAgree
<1>3. PhaseInv
  BY PatternAssumption DEF PhaseInv
<1>4. BudgetInv
  BY LimitAssumption DEF BudgetInv
<1>5. QED
  BY <1>1, <1>2, <1>3, <1>4 DEF Inv

\* Whatever get returns, it leaves the caches and the heap as they should be,
\* keeps every entry, and changes nothing when it fails.
LEMMA GetGood ==
  ASSUME StoreInv, NEW o \in Owner, NEW p \in Patterns, NEW got \in Get(o, p)
  PROVE  /\ Good(o, got.entries, got.heap)
         /\ got.heap \subseteq Owner \X Patterns
         /\ \A x \in Owner \ {o} : \A q \in Patterns : <<x, q>> \in got.heap <=> <<x, q>> \in live
         /\ \A q \in DOMAIN cache[o] : q \in DOMAIN got.entries /\ got.entries[q] = cache[o][q]
         /\ got.returns \in Failed => got.heap = live
         /\ got.returns \notin Failed =>
              /\ Right(p, got.returns)
              /\ got.returns = "compiled" => p \in DOMAIN got.entries /\ got.entries[p] = "compiled"
<1> USE PatternAssumption, LimitAssumption
<1>1. Good(o, cache[o], live) /\ live \subseteq Owner \X Patterns
  BY DEF StoreInv
<1>2. CASE got.entries = cache[o] /\ got.heap = live /\ got.returns \in Failed
  BY <1>1, <1>2
<1>3. CASE p \in DOMAIN cache[o]
  <2>1. got.entries = cache[o] /\ got.heap = live /\ got.returns = cache[o][p]
    BY <1>3 DEF Get
  <2>2. got.returns = Status[p] /\ p \notin Long /\ MemoryUsable
    BY <1>1, <1>3, <2>1 DEF Good
  <2>3. Status[p] \in {"compiled", "invalid", "limited"}
    OBVIOUS
  <2>4. QED
    BY <1>1, <1>3, <2>1, <2>2, <2>3 DEF Right, AnswerOfPattern, Failed
<1>4. CASE p \notin DOMAIN cache[o] /\ (p \in Long \/ ~MemoryUsable)
  <2>1. /\ got.entries = cache[o] /\ got.heap = live
        /\ got.returns \in {"limited", "RegexLimitExceeded"}
    BY <1>4 DEF Get
  <2>2. QED
    BY <1>1, <2>1 DEF Right, Failed
<1>5. CASE /\ p \notin DOMAIN cache[o] /\ p \notin Long /\ MemoryUsable
           /\ Cardinality(DOMAIN cache[o]) >= max_patterns
  <2>1. got.entries = cache[o] /\ got.heap = live /\ got.returns = "RegexLimitExceeded"
    BY <1>5 DEF Get
  <2>2. QED
    BY <1>2, <2>1 DEF Failed
<1>6. CASE /\ p \notin DOMAIN cache[o] /\ p \notin Long /\ MemoryUsable
           /\ ~(Cardinality(DOMAIN cache[o]) >= max_patterns)
  <2>1. \/ got.entries = cache[o] /\ got.heap = live /\ got.returns = "OutOfMemory"
        \/ /\ got.entries = With(cache[o], p, Status[p])
           /\ got.heap = IF Status[p] = "compiled" THEN live \cup {<<o, p>>} ELSE live
           /\ got.returns = Status[p]
    <3> DEFINE heap == IF Status[p] = "compiled" THEN live \cup {<<o, p>>} ELSE live
               stored == With(cache[o], p, Status[p])
    <3>1. Get(o, p) = {[returns |-> Status[p], entries |-> stored, heap |-> heap],
                       [returns |-> "OutOfMemory", entries |-> cache[o], heap |-> live]}
      BY <1>6 DEF Get, AfterFailedPut
    <3> HIDE DEF heap, stored
    <3>2. \/ got = [returns |-> Status[p], entries |-> stored, heap |-> heap]
          \/ got = [returns |-> "OutOfMemory", entries |-> cache[o], heap |-> live]
      BY <3>1
    <3>3. \/ got.entries = cache[o] /\ got.heap = live /\ got.returns = "OutOfMemory"
          \/ got.entries = stored /\ got.heap = heap /\ got.returns = Status[p]
      BY <3>2
    <3>4. QED
      BY <3>3 DEF heap, stored
  <2>2. CASE got.returns = "OutOfMemory" /\ got.entries = cache[o] /\ got.heap = live
    BY <1>2, <2>2 DEF Failed
  <2>3. CASE /\ got.entries = With(cache[o], p, Status[p])
             /\ got.heap = IF Status[p] = "compiled" THEN live \cup {<<o, p>>} ELSE live
             /\ got.returns = Status[p]
    <3>1. /\ DOMAIN got.entries = DOMAIN cache[o] \cup {p}
          /\ got.entries[p] = Status[p]
          /\ \A q \in DOMAIN cache[o] : got.entries[q] = cache[o][q]
      BY <1>6, <2>3 DEF With
    <3>2. /\ IsFiniteSet(DOMAIN got.entries)
          /\ Cardinality(DOMAIN got.entries) <= max_patterns
      <4>1. IsFiniteSet(DOMAIN cache[o])
        BY <1>1 DEF Good
      <4>2. /\ Cardinality(DOMAIN cache[o]) \in Nat
            /\ IsFiniteSet(DOMAIN cache[o] \cup {p})
            /\ Cardinality(DOMAIN cache[o] \cup {p}) = Cardinality(DOMAIN cache[o]) + 1
        BY <1>6, <4>1, FS_AddElement, FS_CardinalityType
      <4>3. QED
        BY <1>6, <3>1, <4>2
    <3>3. \A x \in Owner, q \in Patterns :
            <<x, q>> \in got.heap <=>
              <<x, q>> \in live \/ (x = o /\ q = p /\ Status[p] = "compiled")
      BY <2>3
    <3>4. Good(o, got.entries, got.heap)
      BY <1>1, <1>6, <3>1, <3>2, <3>3 DEF Good
    <3>5. got.heap \subseteq Owner \X Patterns
      BY <1>1, <2>3
    <3>6. Status[p] \in {"compiled", "invalid", "limited"}
      OBVIOUS
    <3>7. Right(p, got.returns) /\ got.returns \notin Failed
      BY <1>6, <2>3, <3>6 DEF Right, AnswerOfPattern, Failed
    <3>8. QED
      BY <2>3, <3>1, <3>3, <3>4, <3>5, <3>7
  <2>4. QED
    BY <2>1, <2>2, <2>3
<1>7. QED
  BY <1>3, <1>4, <1>5, <1>6

\* Storing what get left.
LEMMA StoreGot ==
  ASSUME StoreInv, NEW o \in Owner, NEW p \in Patterns, NEW got \in Get(o, p),
         cache' = [cache EXCEPT ![o] = got.entries], live' = got.heap
  PROVE  /\ StoreInv'
         /\ \A x \in Owner : \A q \in DOMAIN cache[x] :
              q \in DOMAIN cache'[x] /\ cache'[x][q] = cache[x][q]
<1>1. /\ Good(o, got.entries, got.heap)
      /\ got.heap \subseteq Owner \X Patterns
      /\ \A x \in Owner \ {o} : \A q \in Patterns : <<x, q>> \in got.heap <=> <<x, q>> \in live
      /\ \A q \in DOMAIN cache[o] : q \in DOMAIN got.entries /\ got.entries[q] = cache[o][q]
  BY GetGood
<1>2. DOMAIN cache' = Owner /\ cache'[o] = got.entries
      /\ \A x \in Owner \ {o} : cache'[x] = cache[x]
  BY DEF StoreInv
<1>3. ASSUME NEW x \in Owner PROVE Good(x, cache'[x], live')
  <2>1. CASE x = o
    BY <1>1, <1>2, <2>1
  <2>2. CASE x # o
    BY <1>1, <1>2, <2>2 DEF StoreInv, Good
  <2>3. QED
    BY <2>1, <2>2
<1>4. QED
  BY <1>1, <1>2, <1>3 DEF StoreInv

\* Cache.deinit frees what its owner has, and nothing of another.
LEMMA StoreFreed ==
  ASSUME StoreInv, NEW o \in Owner,
         cache' = [cache EXCEPT ![o] = Empty], live' = Freed(o, live)
  PROVE  StoreInv' /\ \A x \in Owner \ {o} : cache'[x] = cache[x]
<1>1. DOMAIN cache' = Owner /\ cache'[o] = Empty
      /\ \A x \in Owner \ {o} : cache'[x] = cache[x]
  BY DEF StoreInv
<1>2. live' \subseteq live
  BY DEF Freed
<1>3. \A q \in Patterns : <<o, q>> \notin live'
  BY DEF StoreInv, Good, Freed
<1>4. \A x \in Owner \ {o} : \A q \in Patterns : <<x, q>> \in live' <=> <<x, q>> \in live
  BY DEF Freed
<1>5. ASSUME NEW x \in Owner PROVE Good(x, cache'[x], live')
  <2>1. CASE x = o
    BY <1>1, <1>3, <2>1, EmptyGood
  <2>2. CASE x # o
    BY <1>1, <1>4, <2>2 DEF StoreInv, Good
  <2>3. QED
    BY <2>1, <2>2
<1>6. QED
  BY <1>1, <1>2, <1>5 DEF StoreInv

-----------------------------------------------------------------------------
(* The program *)

LEMMA BuildLiteralInv == ASSUME Inv, BuildLiteral PROVE Inv'
<1>1. running = {} /\ \A e \in Evaluations : request[e] = NoRequest
  BY DEF Inv, BuildLiteral, PhaseInv, RequestInv
<1>2. /\ built \in 0..Len(Literals) /\ built < Len(Literals)
      /\ Literals[built + 1] \in Patterns /\ Len(Literals) \in Nat
  BY PatternAssumption DEF Inv, BuildLiteral, PhaseInv
<1>3. UNCHANGED <<running, left, request, answer, asked>>
  BY DEF BuildLiteral
<1>4. PICK got \in Get(Program, Literals[built + 1]) :
        IF got.returns \in Failed
        THEN /\ phase' = "failed"
             /\ live' = Freed(Program, got.heap)
             /\ cache' = [cache EXCEPT ![Program] = Empty]
             /\ UNCHANGED built
        ELSE /\ built' = built + 1
             /\ cache' = [cache EXCEPT ![Program] = got.entries]
             /\ live' = got.heap
             /\ UNCHANGED phase
  BY DEF BuildLiteral
<1>5. StoreInv'
  <2>1. Program \in Owner /\ StoreInv
    BY DEF Owner, Inv
  <2>2. CASE got.returns \in Failed
    <3>1. got.heap = live
      BY <1>2, <2>1, <2>2, GetGood
    <3>2. QED
      BY <1>4, <2>1, <2>2, <3>1, StoreFreed
  <2>3. CASE got.returns \notin Failed
    BY <1>2, <1>4, <2>1, <2>3, StoreGot
  <2>4. QED
    BY <2>2, <2>3
<1>6. PhaseInv'
  BY <1>1, <1>2, <1>3, <1>4 DEF Inv, PhaseInv, BuildLiteral
<1>7. RequestInv' /\ BudgetInv' /\ AnswerInv'
  BY <1>1, <1>3 DEF Inv, RequestInv, BudgetInv, AnswerInv, AnswersAgree
<1>8. QED
  BY <1>5, <1>6, <1>7 DEF Inv

LEMMA BuiltInv == ASSUME Inv, Built PROVE Inv'
BY DEF Built, Inv, StoreInv, RequestInv, PhaseInv, BudgetInv, AnswerInv, AnswersAgree

LEMMA DeinitInv == ASSUME Inv, Deinit PROVE Inv'
<1>1. \A e \in Evaluations : request[e] = NoRequest
  BY DEF Inv, Deinit, RequestInv
<1>2. StoreInv'
  <2>1. Program \in Owner /\ StoreInv
    BY DEF Owner, Inv
  <2>2. QED
    BY <2>1, StoreFreed DEF Deinit, ReleaseCache
<1>3. PhaseInv' /\ RequestInv' /\ BudgetInv' /\ AnswerInv'
  BY <1>1 DEF Deinit, ReleaseCache, Inv, RequestInv, PhaseInv, BudgetInv, AnswerInv, AnswersAgree
<1>4. QED
  BY <1>2, <1>3 DEF Inv

-----------------------------------------------------------------------------
(* Evaluations *)

LEMMA StartInv == ASSUME Inv, NEW e \in Evaluations, Start(e) PROVE Inv'
<1> USE DEF Start, Inv
<1>1. StoreInv' /\ RequestInv'
  BY DEF StoreInv, RequestInv
<1>2. PhaseInv'
  BY DEF PhaseInv
<1>3. left' \in [Evaluations -> 0..max_steps]
  BY LimitAssumption DEF BudgetInv
<1>4. BudgetInv'
  BY <1>3 DEF BudgetInv
<1>5. AnswerInv'
  BY DEF AnswerInv, AnswersAgree
<1>6. QED
  BY <1>1, <1>2, <1>4, <1>5

\* An evaluation that ends frees its own programs only, so that no request of
\* another loses the one it holds.
LEMMA EndWithInv ==
  ASSUME Inv, NEW e \in Evaluations, NEW outcome, EndWith(e, outcome, live),
         e \in running,
         \/ outcome = NoAnswer
         \/ outcome.returns \in {"CostLimitExceeded", "OutOfMemory", "RegexLimitExceeded"},
         UNCHANGED <<phase, built>>, BudgetInv'
  PROVE  Inv'
<1> USE DEF Inv
<1>1. e \in Owner /\ e # Program
  BY LimitAssumption DEF Owner
<1>2. StoreInv' /\ \A x \in Owner \ {e} : cache'[x] = cache[x]
  BY <1>1, StoreFreed DEF EndWith
<1>3. PhaseInv'
  BY DEF PhaseInv, EndWith
<1>4. RequestInv'
  <2>1. /\ DOMAIN request' = Evaluations /\ request'[e] = NoRequest
        /\ \A f \in Evaluations \ {e} : request'[f] = request[f]
    BY DEF RequestInv, EndWith
  <2>2. ASSUME NEW f \in Evaluations, request'[f] # NoRequest
        PROVE  f \in running' /\ Held(f, request'[f], cache')
    <3>1. f # e /\ f \in running /\ Held(f, request[f], cache)
      BY <2>1, <2>2 DEF RequestInv
    <3>2. \A o \in {f, Program} : cache'[o] = cache[o]
      BY <1>1, <1>2, <3>1 DEF Owner
    <3>3. QED
      BY <2>1, <3>1, <3>2 DEF Held, EndWith
  <2>3. QED
    BY <2>1, <2>2 DEF RequestInv
<1>5. AnswerInv'
  <2>1. /\ DOMAIN answer' = Evaluations /\ answer'[e] = outcome
        /\ \A f \in Evaluations \ {e} : answer'[f] = answer[f]
    BY DEF AnswerInv, EndWith
  <2>2. QED
    BY <2>1 DEF AnswerInv, AnswersAgree
<1>6. QED
  BY <1>2, <1>3, <1>4, <1>5

LEMMA EndsInv == ASSUME Inv, NEW e \in Evaluations, Ends(e) PROVE Inv'
<1>1. BudgetInv'
  BY DEF Ends, Inv, BudgetInv
<1>2. QED
  BY <1>1, EndWithInv DEF Ends

\* A request that is made: it holds what the caches now have.
LEMMA AskedInv ==
  ASSUME Inv, NEW e \in Evaluations, NEW r,
         e \in running, request' = [request EXCEPT ![e] = r], StoreInv',
         \A x \in Owner : \A q \in DOMAIN cache[x] :
           q \in DOMAIN cache'[x] /\ cache'[x][q] = cache[x][q],
         Held(e, r, cache'),
         UNCHANGED <<phase, built, running, answer>>, BudgetInv'
  PROVE  Inv'
<1> USE DEF Inv
<1>1. RequestInv'
  <2>1. /\ DOMAIN request' = Evaluations /\ request'[e] = r
        /\ \A f \in Evaluations \ {e} : request'[f] = request[f]
    BY DEF RequestInv
  <2>2. ASSUME NEW f \in Evaluations, f # e, request'[f] # NoRequest
        PROVE  f \in running' /\ Held(f, request'[f], cache')
    <3>1. f \in running /\ Held(f, request[f], cache)
      BY <2>1, <2>2 DEF RequestInv
    <3>2. f \in Owner /\ Program \in Owner
      BY DEF Owner
    <3>3. QED
      BY <2>1, <2>2, <3>1, <3>2 DEF Held
  <2>3. QED
    BY <2>1, <2>2 DEF RequestInv
<1>2. PhaseInv' /\ AnswerInv'
  BY DEF PhaseInv, AnswerInv, AnswersAgree
<1>3. QED
  BY <1>1, <1>2

LEMMA LookupInv ==
  ASSUME Inv, NEW e \in Evaluations, NEW p \in Patterns, NEW text \in Texts, Lookup(e, p, text)
  PROVE  Inv'
<1> USE DEF Inv
<1> DEFINE cost == text + Length[p]
           outcome(o) == [pattern |-> p, text |-> text, returns |-> o]
<1>1. text \in Nat /\ Length[p] \in Nat /\ cost \in Nat
  BY PatternAssumption
<1>2. e \in Owner /\ Program \in Owner /\ e \in running /\ UNCHANGED <<phase, built>>
  BY DEF Owner, Lookup
<1>3. asked' \in 0..MaxRequests
  BY LimitAssumption DEF Lookup, BudgetInv
<1>4. left[e] \in 0..max_steps
  BY DEF BudgetInv
<1>5. CASE cost > left[e]
  <2>1. EndWith(e, outcome("CostLimitExceeded"), live) /\ left' = left
    BY <1>5 DEF Lookup
  <2>2. BudgetInv'
    BY <1>3, <2>1 DEF BudgetInv
  <2>3. outcome("CostLimitExceeded").returns = "CostLimitExceeded"
    OBVIOUS
  <2> HIDE DEF outcome
  <2>4. QED
    BY <1>2, <2>1, <2>2, <2>3, EndWithInv
<1>6. CASE ~(cost > left[e])
  <2>1. left' = [left EXCEPT ![e] = left[e] - cost]
    BY <1>6 DEF Lookup
  <2>2. left[e] - cost \in 0..max_steps
    BY <1>1, <1>4, <1>6, LimitAssumption
  <2>3. BudgetInv'
    BY <1>3, <2>1, <2>2 DEF BudgetInv
  <2>4. CASE p \in DOMAIN cache[Program]
    <3> DEFINE r == [pattern |-> p, text |-> text, owner |-> Program, entry |-> cache[Program][p]]
    <3>1. request' = [request EXCEPT ![e] = r] /\ UNCHANGED <<cache, running, answer, live>>
      BY <1>6, <2>4 DEF Lookup
    <3>2. /\ cache[Program][p] = Status[p] /\ p \notin Long /\ MemoryUsable
          /\ Status[p] \in {"compiled", "invalid", "limited"}
      BY <1>2, <2>4, PatternAssumption DEF StoreInv, Good
    <3>3. Held(e, r, cache')
      BY <1>1, <2>4, <3>1, <3>2 DEF Held, Right, AnswerOfPattern
    <3>4. StoreInv'
      BY <3>1 DEF StoreInv
    <3> HIDE DEF r
    <3>5. QED
      BY <1>2, <2>3, <3>1, <3>3, <3>4, AskedInv
  <2>5. CASE p \notin DOMAIN cache[Program]
    <3>1. PICK got \in Get(e, p) :
            IF got.returns \in Failed
            THEN EndWith(e, outcome(got.returns), got.heap)
            ELSE /\ request' = [request EXCEPT ![e] =
                      [pattern |-> p, text |-> text, owner |-> e, entry |-> got.returns]]
                 /\ cache' = [cache EXCEPT ![e] = got.entries]
                 /\ live' = got.heap
                 /\ UNCHANGED <<running, answer>>
      BY <1>6, <2>5 DEF Lookup
    <3>2. CASE got.returns \in Failed
      <4>1. got.heap = live
        BY <1>2, <3>2, GetGood
      <4>2. outcome(got.returns).returns \in {"OutOfMemory", "RegexLimitExceeded"}
        BY <3>2 DEF Failed
      <4>3. EndWith(e, outcome(got.returns), live)
        BY <3>1, <3>2, <4>1
      <4> HIDE DEF outcome
      <4>4. QED
        BY <1>2, <2>3, <4>2, <4>3, EndWithInv
    <3>3. CASE got.returns \notin Failed
      <4> DEFINE r == [pattern |-> p, text |-> text, owner |-> e, entry |-> got.returns]
      <4>1. /\ request' = [request EXCEPT ![e] = r] /\ live' = got.heap
            /\ cache' = [cache EXCEPT ![e] = got.entries] /\ UNCHANGED <<running, answer>>
        BY <3>1, <3>3
      <4>2. /\ StoreInv'
            /\ \A x \in Owner : \A q \in DOMAIN cache[x] :
                 q \in DOMAIN cache'[x] /\ cache'[x][q] = cache[x][q]
        BY <1>2, <4>1, StoreGot
      <4>3. /\ Right(p, got.returns)
            /\ got.returns = "compiled" => p \in DOMAIN got.entries /\ got.entries[p] = "compiled"
        BY <1>2, <3>3, GetGood
      <4>4. cache'[e] = got.entries
        BY <1>2, <4>1 DEF StoreInv
      <4>5. Held(e, r, cache')
        BY <1>1, <4>3, <4>4 DEF Held
      <4> HIDE DEF r
      <4>6. QED
        BY <1>2, <2>3, <4>1, <4>2, <4>5, AskedInv
    <3>4. QED
      BY <3>2, <3>3
  <2>6. QED
    BY <2>4, <2>5
<1>7. QED
  BY <1>5, <1>6

LEMMA MatchInv == ASSUME Inv, NEW e \in Evaluations, Match(e) PROVE Inv'
<1> USE DEF Inv
<1> DEFINE r == request[e]
           cost == MatchCost(r.pattern, r.text)
           outcome(returns) == [pattern |-> r.pattern, text |-> r.text, returns |-> returns]
<1>1. e \in running /\ Held(e, r, cache) /\ UNCHANGED <<phase, built, asked>>
  BY DEF Match, RequestInv
<1>2. cost \in Nat
  <2>1. Size[r.pattern] \in Nat /\ r.text \in Nat
    BY <1>1, PatternAssumption DEF Held
  <2>2. Bigger(Size[r.pattern], 1) \in Nat /\ Bigger(r.text, 1) \in Nat
    BY <2>1 DEF Bigger
  <2>3. \A m, n \in Nat : m * n \in Nat
    OBVIOUS
  <2>4. QED
    BY <2>2, <2>3 DEF MatchCost
<1>3. PICK returns \in Matches(r.entry, r.pattern, r.text, left[e]) :
        /\ left' = [left EXCEPT ![e] = IF returns \in {"matched", "OutOfMemory"} THEN @ - cost ELSE @]
        /\ IF returns \in {"matched", "InvalidArgument"}
           THEN /\ answer' = [answer EXCEPT ![e] = outcome(returns)]
                /\ request' = [request EXCEPT ![e] = NoRequest]
                /\ UNCHANGED <<cache, running, live>>
           ELSE EndWith(e, outcome(returns), live)
  BY DEF Match
<1>4. /\ r.entry \in {"compiled", "invalid", "limited"} /\ r.pattern \in Patterns
      /\ r.entry = "compiled" => AnswerOfPattern(r.pattern) = "matched"
      /\ r.entry = "invalid" => AnswerOfPattern(r.pattern) = "InvalidArgument"
  BY <1>1 DEF Held, Right
<1>5. \/ returns = "InvalidArgument" /\ r.entry = "invalid"
      \/ returns = "RegexLimitExceeded" /\ r.entry = "limited"
      \/ returns = "CostLimitExceeded" /\ r.entry = "compiled"
      \/ returns \in {"matched", "OutOfMemory"} /\ r.entry = "compiled" /\ ~(cost > left[e])
  BY <1>3, <1>4 DEF Matches
<1>6. outcome(returns).returns = returns /\ outcome(returns).pattern = r.pattern
  OBVIOUS
<1> HIDE DEF r, cost, outcome
<1>7. BudgetInv'
  <2>1. left[e] \in 0..max_steps
    BY DEF BudgetInv
  <2>2. returns \in {"matched", "OutOfMemory"} => left[e] - cost \in 0..max_steps
    BY <1>2, <1>5, <2>1, LimitAssumption
  <2>3. left' \in [Evaluations -> 0..max_steps]
    BY <1>3, <2>1, <2>2 DEF BudgetInv
  <2>4. QED
    BY <1>1, <2>3 DEF BudgetInv
<1>8. CASE returns \in {"matched", "InvalidArgument"}
  <2>1. /\ answer' = [answer EXCEPT ![e] = outcome(returns)]
        /\ request' = [request EXCEPT ![e] = NoRequest]
        /\ UNCHANGED <<cache, running, live>>
    BY <1>3, <1>8
  <2>2. StoreInv' /\ PhaseInv'
    BY <1>1, <2>1 DEF StoreInv, PhaseInv
  <2>3. RequestInv'
    BY <2>1 DEF RequestInv
  <2>4. AnswerInv'
    <3>1. /\ DOMAIN answer' = Evaluations /\ answer'[e] = outcome(returns)
          /\ \A f \in Evaluations \ {e} : answer'[f] = answer[f]
      BY <2>1 DEF AnswerInv
    <3>2. returns = AnswerOfPattern(r.pattern)
      BY <1>4, <1>5, <1>8
    <3>3. QED
      BY <1>6, <3>1, <3>2 DEF AnswerInv, AnswersAgree
  <2>5. QED
    BY <1>7, <2>2, <2>3, <2>4
<1>9. CASE returns \notin {"matched", "InvalidArgument"}
  BY <1>1, <1>3, <1>5, <1>6, <1>7, <1>9, EndWithInv
<1>10. QED
  BY <1>8, <1>9

LEMMA NextInv == ASSUME Inv, [Next]_vars PROVE Inv'
<1>1. CASE UNCHANGED vars
  BY <1>1 DEF vars, Inv, StoreInv, RequestInv, PhaseInv, BudgetInv, AnswerInv, AnswersAgree
<1>2. CASE Next
  BY <1>2, BuildLiteralInv, BuiltInv, DeinitInv, StartInv, EndsInv, MatchInv, LookupInv DEF Next
<1>3. QED
  BY <1>1, <1>2

LEMMA AlwaysInv == Spec => []Inv
BY InitInv, NextInv, PTL DEF Spec

-----------------------------------------------------------------------------
(* Theorems *)

\* The caches, budgets and the heap are of the right type, and no cache grows
\* beyond max_patterns.
THEOREM TypeCorrect == Spec => []TypeOK
<1>1. Inv => TypeOK
  BY DEF Inv, StoreInv, Good, PhaseInv, BudgetInv, TypeOK
<1>2. QED
  BY <1>1, AlwaysInv, PTL

\* Every RE2 program on the C++ heap is freed by exactly the cache that has it,
\* whichever compilations and allocations fail.
THEOREM HeapIsOwned == Spec => []HeapOwned
<1>1. Inv => HeapOwned
  BY DEF Inv, StoreInv, Good, HeapOwned
<1>2. QED
  BY <1>1, AlwaysInv, PTL

\* No evaluation matches with a program that another one, or deinit, has freed.
THEOREM ProgramsLive == Spec => []MatchesLiveProgram
<1>1. ASSUME Inv PROVE MatchesLiveProgram
  <2> SUFFICES ASSUME NEW e \in running, request[e] # NoRequest, request[e].entry = "compiled"
               PROVE  <<request[e].owner, request[e].pattern>> \in live
    BY DEF MatchesLiveProgram
  <2>1. e \in Evaluations
    BY <1>1 DEF Inv, PhaseInv
  <2>2. Held(e, request[e], cache) /\ request[e].owner \in Owner
    BY <1>1, <2>1 DEF Inv, RequestInv, Held, Owner
  <2>3. Good(request[e].owner, cache[request[e].owner], live)
    BY <1>1, <2>2 DEF Inv, StoreInv
  <2>4. QED
    BY <2>2, <2>3 DEF Held, Good
<1>2. QED
  BY <1>1, AlwaysInv, PTL

\* A pattern is answered alike from the literal cache, from the evaluation's own
\* and without one, up to limits.
THEOREM AnswersAlwaysAgree == Spec => []AnswersAgree
BY AlwaysInv, PTL DEF Inv, AnswerInv

-----------------------------------------------------------------------------
(* Environments and programs *)

\* A program has an environment of its own or that of a handle that was made.
HomeInv ==
  /\ \A e \in Environments : home[e] = e
  /\ \A p \in Programs : home[p] \in Environments => stage[home[p]] \notin {"none", "filling"}

\* Something refers to x: an object of the host, a program or a call.
Referred(x) ==
  \/ x \in held
  \/ \E p \in Programs : (p \in held \/ stage[p] \in Creating) /\ home[p] = x
  \/ running # {} /\ x \in Arguments

\* What is referred to has not been finalized.
HostInv ==
  /\ \A x \in Handle : Referred(x) => stage[x] = "alive"
  /\ \A e \in running : holding[e] = Arguments

\* The literals of Program are compiled after it has the registry and before
\* its handle is made.
StepInv ==
  /\ stage[Program] \in {"none", "filling", "copying", "patterns"} => phase = "building"
  /\ stage[Program] \in {"made", "alive"} => phase = "ready"

\* RegistryOwned for one environment.
Counted(e) ==
  /\ references[e] = Cardinality(Owners(e))
  /\ registry[e] = "live" <=> Owners(e) \cup Deleters(e) # {}
  /\ Deleters(e) # {} => Owners(e) = {} /\ \E x \in Handle : Deleters(e) = {x}

RegistryInv == \A e \in Described : Counted(e)

HandleInv == LifetimesTypeOK /\ HomeInv /\ HostInv /\ StepInv /\ RegistryInv

\* The inductive invariant, on top of that of RegexCacheProofs.
LifetimesInv == Inv /\ HandleInv

-----------------------------------------------------------------------------
(* Owners of a registry *)

LEMMA FiniteOwners == ASSUME NEW e PROVE IsFiniteSet(Owners(e))
<1>1. IsFiniteSet(Others \cup {Program})
  BY HandleAssumption, FS_AddElement
<1>2. IsFiniteSet(Handle)
  BY <1>1, HandleAssumption, FS_Union DEF Handle, Programs
<1>3. Owners(e) \in SUBSET Handle
  BY DEF Owners
<1>4. QED
  BY <1>2, <1>3, FS_Subset

\* A step that neither takes nor gives a reference.
LEMMA SameOwners ==
  ASSUME LifetimesTypeOK, RegistryInv, NEW x \in Handle, NEW s,
         stage' = [stage EXCEPT ![x] = s],
         stage[x] \in Owning <=> s \in Owning, stage[x] # "deleting", s # "deleting",
         \A y \in Handle : y # x => home'[y] = home[y],
         home'[x] = home[x] \/ s \notin Owning,
         UNCHANGED <<references, registry>>
  PROVE  RegistryInv'
<1> SUFFICES ASSUME NEW e \in Described PROVE Counted(e)'
  BY DEF RegistryInv
<1>1. \A y \in Handle : y # x => stage'[y] = stage[y]
  BY DEF LifetimesTypeOK
<1>2. stage'[x] = s
  BY DEF LifetimesTypeOK
<1>3. Owners(e)' = Owners(e) /\ Deleters(e)' = Deleters(e)
  BY <1>1, <1>2 DEF Owners, Deleters
<1>4. Counted(e)
  BY DEF RegistryInv
<1>5. QED
  BY <1>3, <1>4 DEF Counted

\* A step that makes x an owner of the registry of its home.
LEMMA MoreOwners ==
  ASSUME LifetimesTypeOK, RegistryInv, NEW x \in Handle,
         stage' = [stage EXCEPT ![x] = "copying"], stage[x] = "filling", UNCHANGED home,
         Retained(home[x]),
         home[x] \in Described => Deleters(home[x]) = {},
         \A e \in Described : registry'[e] = IF e = home[x] THEN "live" ELSE registry[e]
  PROVE  RegistryInv'
<1> SUFFICES ASSUME NEW e \in Described PROVE Counted(e)'
  BY DEF RegistryInv
<1>1. \A y \in Handle : y # x => stage'[y] = stage[y]
  BY DEF LifetimesTypeOK
<1>2. stage'[x] = "copying"
  BY DEF LifetimesTypeOK
<1>3. Counted(e) /\ e \in Environments
  BY HandleAssumption DEF RegistryInv
<1>4. Deleters(e)' = Deleters(e)
  BY <1>1, <1>2 DEF Deleters
<1>5. CASE home[x] = e
  <2>1. Owners(e)' = Owners(e) \cup {x} /\ x \notin Owners(e)
    BY <1>1, <1>2, <1>5 DEF Owners, Owning
  <2>2. Cardinality(Owners(e)') = Cardinality(Owners(e)) + 1
    BY <2>1, FiniteOwners, FS_AddElement
  <2>3. references'[e] = references[e] + 1
    BY <1>3, <1>5 DEF Retained, LifetimesTypeOK
  <2>4. registry'[e] = "live" /\ Deleters(e) = {}
    BY <1>5
  <2>5. QED
    BY <1>3, <1>4, <2>1, <2>2, <2>3, <2>4 DEF Counted
<1>6. CASE home[x] # e
  <2>1. Owners(e)' = Owners(e)
    BY <1>1, <1>2, <1>6 DEF Owners
  <2>2. references'[e] = references[e] /\ registry'[e] = registry[e]
    BY <1>3, <1>6 DEF Retained, LifetimesTypeOK
  <2>3. QED
    BY <1>3, <1>4, <2>1, <2>2 DEF Counted
<1>7. QED
  BY <1>5, <1>6

\* An owner gives its reference back; the last one is going to delete.
LEMMA FewerOwners ==
  ASSUME LifetimesTypeOK, RegistryInv, NEW x \in Handle, stage[x] \in Owning, Release(x),
         UNCHANGED <<home, registry>>
  PROVE  RegistryInv'
<1> SUFFICES ASSUME NEW e \in Described PROVE Counted(e)'
  BY DEF RegistryInv
<1>1. Counted(e) /\ e \in Environments
  BY HandleAssumption DEF RegistryInv
<1>2. PICK s \in {"deleting", "gone"} : stage' = [stage EXCEPT ![x] = s]
  BY DEF Release
<1>3. \A y \in Handle : y # x => stage'[y] = stage[y]
  BY <1>2 DEF LifetimesTypeOK
<1>4. stage'[x] = s /\ s \notin Owning
  BY <1>2 DEF LifetimesTypeOK, Owning
<1>5. CASE home[x] = e
  <2>1. x \in Owners(e) /\ Owners(e)' = Owners(e) \ {x}
    BY <1>3, <1>4, <1>5 DEF Owners
  <2>2. IsFiniteSet(Owners(e)) /\ Cardinality(Owners(e)) \in Nat
    BY FiniteOwners, FS_CardinalityType
  <2>3. Cardinality(Owners(e)') = Cardinality(Owners(e)) - 1
    BY <2>1, <2>2, FS_RemoveElement
  <2>4. references'[e] = references[e] - 1
    BY <1>1, <1>5 DEF Release, LifetimesTypeOK
  <2>5. registry'[e] = "live" /\ Deleters(e) = {}
    BY <1>1, <2>1 DEF Counted
  <2>6. IsFiniteSet(Owners(e)')
    BY <2>1, <2>2, FS_RemoveElement
  <2>7. Cardinality(Owners(e)') = 0 <=> Owners(e)' = {}
    BY <2>6, FS_EmptySet
  <2>8. CASE references[e] = 1
    <3>1. s = "deleting"
      BY <1>1, <1>2, <1>4, <1>5, <2>8 DEF Release, LifetimesTypeOK
    <3>2. Deleters(e)' = {x}
      BY <1>3, <1>4, <1>5, <2>5, <3>1 DEF Deleters
    <3>3. Owners(e)' = {}
      BY <1>1, <2>3, <2>7, <2>8 DEF Counted
    <3>4. QED
      BY <1>1, <2>3, <2>4, <2>5, <3>2, <3>3 DEF Counted
  <2>9. CASE references[e] # 1
    <3>1. s = "gone"
      BY <1>1, <1>2, <1>4, <1>5, <2>9 DEF Release, LifetimesTypeOK
    <3>2. Deleters(e)' = {}
      BY <1>3, <1>4, <1>5, <2>5, <3>1 DEF Deleters
    <3>3. Owners(e)' # {}
      BY <1>1, <2>2, <2>3, <2>7, <2>9 DEF Counted
    <3>4. QED
      BY <1>1, <2>3, <2>4, <2>5, <3>2, <3>3 DEF Counted
  <2>10. QED
    BY <2>8, <2>9
<1>6. CASE home[x] # e
  <2>1. Owners(e)' = Owners(e) /\ Deleters(e)' = Deleters(e)
    BY <1>3, <1>6 DEF Owners, Deleters
  <2>2. references'[e] = references[e]
    BY <1>1, <1>6, HandleAssumption DEF Release, LifetimesTypeOK
  <2>3. QED
    BY <1>1, <2>1, <2>2 DEF Counted
<1>7. QED
  BY <1>5, <1>6

\* The last owner deletes the registry.
LEMMA NoOwners ==
  ASSUME LifetimesTypeOK, RegistryInv, NEW x \in Handle, Delete(x)
  PROVE  RegistryInv'
<1> SUFFICES ASSUME NEW e \in Described PROVE Counted(e)'
  BY DEF RegistryInv
<1>1. Counted(e) /\ e \in Environments
  BY HandleAssumption DEF RegistryInv
<1>2. \A y \in Handle : y # x => stage'[y] = stage[y]
  BY DEF LifetimesTypeOK, Delete
<1>3. stage[x] = "deleting" /\ stage'[x] = "gone" /\ UNCHANGED <<home, references>>
  BY DEF LifetimesTypeOK, Delete
<1>4. Owners(e)' = Owners(e)
  BY <1>2, <1>3 DEF Owners, Owning
<1>5. CASE home[x] = e
  <2>1. Deleters(e) = {x} /\ Owners(e) = {}
    BY <1>1, <1>3, <1>5 DEF Counted, Deleters
  <2>2. Deleters(e)' = {}
    BY <1>2, <1>3, <2>1 DEF Deleters
  <2>3. registry'[e] = "deleted"
    BY <1>1, <1>5 DEF Delete, LifetimesTypeOK
  <2>4. QED
    BY <1>1, <1>3, <1>4, <2>1, <2>2, <2>3 DEF Counted
<1>6. CASE home[x] # e
  <2>1. Deleters(e)' = Deleters(e)
    BY <1>2, <1>3, <1>6 DEF Deleters
  <2>2. registry'[e] = registry[e]
    BY <1>1, <1>6 DEF Delete, LifetimesTypeOK
  <2>3. QED
    BY <1>1, <1>3, <1>4, <2>1, <2>2 DEF Counted
<1>7. QED
  BY <1>5, <1>6

-----------------------------------------------------------------------------
(* References of the host *)

\* A handle may move on unless it is alive and referred to.
LEMMA HandleMoves ==
  ASSUME LifetimesTypeOK, HomeInv, HostInv, NEW x \in Handle, NEW s \in Stage,
         stage' = [stage EXCEPT ![x] = s],
         stage[x] = "alive" => ~Referred(x),
         s \in Creating => stage[x] \in Creating \/ x \in Environments,
         s \in {"none", "filling"} => x \in Environments /\ stage[x] = "none",
         UNCHANGED <<home, running, holding>>,
         held' \in {held, held \cup {x}},
         held' # held => s = "alive"  /\ (x \in Programs => stage[x] \in Creating)
  PROVE  HomeInv' /\ HostInv'
<1>1. stage'[x] = s /\ \A y \in Handle : y # x => stage'[y] = stage[y]
  BY DEF LifetimesTypeOK
<1>2. \A y \in Environments : y \in Handle /\ y \notin Programs
  BY HandleAssumption DEF Handle, Programs
<1>3. HomeInv'
  BY <1>1, <1>2 DEF HomeInv
<1>4. Arguments' = Arguments
  BY DEF Arguments
<1>5. ASSUME NEW y \in Handle, Referred(y)' PROVE stage'[y] = "alive"
  <2>1. Referred(y) \/ (y = x /\ s = "alive")
    <3>1. CASE y \in held'
      BY <3>1 DEF Referred
    <3>2. CASE \E p \in Programs : (p \in held' \/ stage'[p] \in Creating) /\ home'[p] = y
      <4>1. PICK p \in Programs : (p \in held' \/ stage'[p] \in Creating) /\ home[p] = y
        BY <3>2
      <4>2. p \in held \/ stage[p] \in Creating
        BY <1>1, <1>2, <4>1 DEF Handle
      <4>3. QED
        BY <4>1, <4>2 DEF Referred
    <3>3. CASE running' # {} /\ y \in Arguments'
      BY <1>4, <3>3 DEF Referred
    <3>4. QED
      BY <1>5, <3>1, <3>2, <3>3 DEF Referred
  <2>2. CASE y = x /\ s = "alive"
    BY <1>1, <2>2
  <2>3. CASE Referred(y)
    <3>1. stage[y] = "alive"
      BY <2>3 DEF HostInv
    <3>2. y # x
      BY <2>3, <3>1
    <3>3. QED
      BY <1>1, <3>1, <3>2
  <2>4. QED
    BY <2>1, <2>2, <2>3
<1>6. \A e \in running' : holding'[e] = Arguments'
  BY <1>4 DEF HostInv
<1>7. QED
  BY <1>3, <1>5, <1>6 DEF HostInv

\* What a finalizer takes for unreachable is not referred to.
LEMMA UnreachableUnreferred ==
  ASSUME LifetimesInv, NEW x \in Handle, ~Reachable(x)
  PROVE  ~Referred(x)
<1>1. running \subseteq Evaluations
  BY DEF LifetimesInv, Inv, PhaseInv
<1>2. QED
  BY <1>1 DEF LifetimesInv, HandleInv, HostInv, Reachable, Referred

-----------------------------------------------------------------------------
(* Steps *)

LEMMA LifetimesInitInv == LifetimesInit => LifetimesInv
<1> SUFFICES ASSUME LifetimesInit PROVE LifetimesInv
  OBVIOUS
<1>1. Inv
  BY InitInv DEF LifetimesInit
<1>2. Program \in Handle /\ Program \notin Environments /\ Programs \subseteq Handle /\ Environments \subseteq Handle
  BY HandleAssumption DEF Handle, Programs
<1>3. LifetimesTypeOK
  BY <1>2 DEF LifetimesInit, LifetimesTypeOK, Stage
<1>4. HomeInv
  BY <1>2, HandleAssumption DEF LifetimesInit, HomeInv, Programs
<1>5. HostInv
  BY <1>2 DEF LifetimesInit, Init, HostInv, Referred, Creating
<1>6. StepInv
  BY <1>2 DEF LifetimesInit, Init, StepInv
<1>7. RegistryInv
  <2> SUFFICES ASSUME NEW e \in Described PROVE Counted(e)
    BY DEF RegistryInv
  <2>1. Owners(e) = {} /\ Deleters(e) = {}
    BY DEF LifetimesInit, Owners, Deleters, Owning
  <2>2. references[e] = 0 /\ registry[e] = "none"
    BY HandleAssumption DEF LifetimesInit
  <2>3. QED
    BY <2>1, <2>2, FS_EmptySet DEF Counted
<1>8. QED
  BY <1>1, <1>3, <1>4, <1>5, <1>6, <1>7 DEF LifetimesInv, HandleInv

LEMMA HandleSorts ==
  /\ Environments \subseteq Handle /\ Programs \subseteq Handle /\ Program \in Programs
  /\ \A x \in Environments : x \notin Programs
  /\ \A x \in Handle : x \in Environments \/ x \in Programs
BY HandleAssumption DEF Handle, Programs

LEMMA NoHandle == NoEnvironment \notin Handle
BY HandleAssumption DEF Handle, Programs

\* Steps that change the stage of a handle, and neither take nor give a
\* reference.
LEMMA StageSteps ==
  ASSUME LifetimesInv, NEW x \in Handle,
         CreateEnvironment(x) \/ FillingFails(x) \/ Copied(x) \/ Return(x) \/ TagFails(x)
  PROVE  HandleInv'
<1> USE HandleSorts
<1>0. HandleInv /\ stage[x] \in {"none", "filling", "copying", "made"}
  BY DEF LifetimesInv, CreateEnvironment, FillingFails, Copied, Return, TagFails
<1>1. PICK s \in {"filling", "gone", "patterns", "made", "alive"} :
        /\ stage' = [stage EXCEPT ![x] = s]
        /\ s = "filling" => x \in Environments /\ stage[x] = "none"
        /\ s = "gone" => stage[x] = "filling"
        /\ s = "patterns" => stage[x] = "copying" /\ x = Program
        /\ s = "made" => stage[x] = "copying" /\ x # Program
        /\ s = "alive" => stage[x] = "made"
        /\ held' \in {held, held \cup {x}} /\ (held' # held => s = "alive")
  BY DEF CreateEnvironment, FillingFails, Copied, Return, TagFails
<1>2. UNCHANGED <<vars, home, references, registry, holding>>
  BY DEF CreateEnvironment, FillingFails, Copied, Return, TagFails
<1>3. s \in Stage /\ stage[x] # "alive"
  BY <1>0, <1>1 DEF Stage
<1>4. LifetimesTypeOK'
  BY <1>0, <1>1, <1>2, <1>3 DEF HandleInv, LifetimesTypeOK
<1>5. HomeInv' /\ HostInv'
  <2>1. s \in Creating => stage[x] \in Creating \/ x \in Environments
    BY <1>1 DEF Creating
  <2>2. held' # held => s = "alive" /\ (x \in Programs => stage[x] \in Creating)
    BY <1>1 DEF Creating
  <2>3. UNCHANGED <<home, running, holding>>
    BY <1>2 DEF vars
  <2>4. s \in {"none", "filling"} => x \in Environments /\ stage[x] = "none"
    BY <1>1
  <2>5. QED
    BY <1>0, <1>1, <1>3, <2>1, <2>2, <2>3, <2>4, HandleMoves DEF HandleInv
<1>6. StepInv'
  <2>1. UNCHANGED phase /\ StepInv /\ stage'[x] = s /\ \A y \in Handle : y # x => stage'[y] = stage[y]
    BY <1>0, <1>1, <1>2 DEF vars, HandleInv, LifetimesTypeOK
  <2>2. CASE x = Program
    BY <1>0, <1>1, <2>1, <2>2, HandleAssumption DEF StepInv
  <2>3. CASE x # Program
    BY <2>1, <2>3 DEF StepInv
  <2>4. QED
    BY <2>2, <2>3
<1>7. RegistryInv'
  <2>1. stage[x] \in Owning <=> s \in Owning
    BY <1>0, <1>1 DEF Owning
  <2>2. QED
    BY <1>0, <1>1, <1>2, <2>1, SameOwners DEF HandleInv
<1>8. QED
  BY <1>4, <1>5, <1>6, <1>7 DEF HandleInv

\* The registry an environment loads is new; the one a program takes belongs to
\* an environment that has not been finalized.
LEMMA RetainSteps ==
  ASSUME LifetimesInv, NEW x \in Handle, Load(x) \/ Retain(x)
  PROVE  HandleInv'
<1> USE HandleSorts
<1>0. HandleInv /\ stage[x] = "filling"
  BY DEF LifetimesInv, Load, Retain
<1>1. /\ stage' = [stage EXCEPT ![x] = "copying"]
      /\ UNCHANGED <<vars, home, held, holding>>
      /\ Retained(home[x])
  BY <1>0 DEF Load, Retain, HandleInv, HomeInv
<1>2. LifetimesTypeOK'
  <2>1. stage' \in [Handle -> Stage]
    BY <1>0, <1>1 DEF HandleInv, LifetimesTypeOK, Stage
  <2>2. references' \in [Environments -> Nat]
    <3>1. references \in [Environments -> Nat]
      BY <1>0 DEF HandleInv, LifetimesTypeOK
    <3>2. CASE home[x] \in Described
      <4>1. home[x] \in Environments /\ references[home[x]] + 1 \in Nat
        BY <3>1, <3>2, HandleAssumption
      <4>2. QED
        BY <1>1, <3>1, <3>2, <4>1 DEF Retained
    <3>3. CASE home[x] \notin Described
      BY <1>1, <3>1, <3>3 DEF Retained
    <3>4. QED
      BY <3>2, <3>3
  <2>3. registry' \in [Environments -> {"none", "live", "deleted"}]
    BY <1>0 DEF HandleInv, LifetimesTypeOK, Load, Retain
  <2>4. QED
    BY <1>0, <1>1, <2>1, <2>2, <2>3 DEF HandleInv, LifetimesTypeOK
<1>3. HomeInv' /\ HostInv'
  <2>1. "copying" \in Stage /\ "copying" \in Creating /\ stage[x] \in Creating
    BY <1>0 DEF Stage, Creating
  <2>2. UNCHANGED <<home, running, holding, held>>
    BY <1>1 DEF vars
  <2>3. QED
    BY <1>0, <1>1, <2>1, <2>2, HandleMoves DEF HandleInv
<1>4. StepInv'
  <2>1. UNCHANGED phase /\ StepInv /\ stage'[x] = "copying" /\ \A y \in Handle : y # x => stage'[y] = stage[y]
    BY <1>0, <1>1 DEF vars, HandleInv, LifetimesTypeOK
  <2>2. QED
    BY <1>0, <2>1 DEF StepInv
<1>5. RegistryInv'
  <2>1. ASSUME home[x] \in Described PROVE Deleters(home[x]) = {}
    <3>1. Counted(home[x]) /\ home[x] \in Environments
      BY <1>0, <2>1, HandleAssumption DEF HandleInv, RegistryInv
    <3>2. CASE Retain(x)
      <4>1. stage[home[x]] = "alive" /\ home[home[x]] = home[x]
        BY <1>0, <3>1, <3>2 DEF Retain, HandleInv, HostInv, HomeInv, Referred, Creating
      <4>2. home[x] \in Owners(home[x])
        BY <3>1, <4>1 DEF Owners, Owning
      <4>3. QED
        BY <3>1, <4>2 DEF Counted
    <3>3. CASE Load(x)
      <4>1. home[x] = x
        BY <1>0, <3>3 DEF Load, HandleInv, HomeInv
      <4>2. ASSUME NEW y \in Deleters(x) PROVE FALSE
        <5>1. y \in Handle /\ home[y] = x /\ stage[y] = "deleting"
          BY DEF Deleters
        <5>2. y \in Programs
          BY <1>0, <5>1 DEF HandleInv, HomeInv
        <5>3. QED
          BY <1>0, <3>3, <5>1, <5>2 DEF Load, HandleInv, HomeInv
      <4>3. QED
        BY <4>1, <4>2
    <3>4. QED
      BY <3>2, <3>3
  <2>2. ASSUME NEW e \in Described PROVE registry'[e] = IF e = home[x] THEN "live" ELSE registry[e]
    <3>1. e \in Environments
      BY HandleAssumption
    <3>2. CASE Load(x)
      BY <1>0, <3>1, <3>2 DEF Load, HandleInv, HomeInv, LifetimesTypeOK
    <3>3. CASE Retain(x)
      <4>1. UNCHANGED registry
        BY <3>3 DEF Retain
      <4>2. ASSUME e = home[x] PROVE registry[e] = "live"
        <5>1. stage[e] = "alive" /\ home[e] = e
          BY <1>0, <3>1, <3>3, <4>2 DEF Retain, HandleInv, HostInv, HomeInv, Referred, Creating
        <5>2. e \in Owners(e)
          BY <3>1, <5>1 DEF Owners, Owning
        <5>3. QED
          BY <1>0, <5>2 DEF HandleInv, RegistryInv, Counted
      <4>3. QED
        BY <4>1, <4>2
    <3>4. QED
      BY <3>2, <3>3
  <2>3. UNCHANGED home
    BY <1>1
  <2>4. QED
    BY <1>0, <1>1, <2>1, <2>2, <2>3, MoreOwners DEF HandleInv
<1>6. QED
  BY <1>2, <1>3, <1>4, <1>5 DEF HandleInv

\* A reference is given back by whoever fails, and by finalizers.
LEMMA ReleaseStep ==
  ASSUME HandleInv, NEW x \in Handle, stage[x] \in Owning,
         stage[x] = "alive" => ~Referred(x),
         Release(x), UNCHANGED <<home, registry, held, holding, running>>,
         x # Program => UNCHANGED phase
  PROVE  HandleInv'
<1> USE HandleSorts
<1>1. PICK s \in {"deleting", "gone"} : stage' = [stage EXCEPT ![x] = s]
  BY DEF Release
<1>2. LifetimesTypeOK'
  <2>1. stage' \in [Handle -> Stage]
    BY <1>1 DEF HandleInv, LifetimesTypeOK, Stage
  <2>2. references' \in [Environments -> Nat]
    <3>1. references \in [Environments -> Nat]
      BY DEF HandleInv, LifetimesTypeOK
    <3>2. CASE home[x] \in Described
      <4>1. home[x] \in Environments /\ Counted(home[x]) /\ x \in Owners(home[x])
        BY <3>2, HandleAssumption DEF HandleInv, RegistryInv, Owners
      <4>2. Cardinality(Owners(home[x])) \in Nat /\ Cardinality(Owners(home[x])) # 0
        BY <4>1, FiniteOwners, FS_CardinalityType, FS_EmptySet
      <4>3. references[home[x]] - 1 \in Nat
        BY <4>1, <4>2 DEF Counted
      <4>4. references' = [references EXCEPT ![home[x]] = references[home[x]] - 1]
        BY <3>2 DEF Release
      <4>5. QED
        BY <3>1, <4>1, <4>3, <4>4
    <3>3. CASE home[x] \notin Described
      BY <3>1, <3>3 DEF Release
    <3>4. QED
      BY <3>2, <3>3
  <2>3. QED
    BY <2>1, <2>2 DEF HandleInv, LifetimesTypeOK
<1>3. HomeInv' /\ HostInv'
  <2>1. s \in Stage /\ s \notin Creating /\ s \notin {"none", "filling"}
    BY DEF Stage, Creating
  <2>2. QED
    BY <1>1, <2>1, HandleMoves DEF HandleInv
<1>4. StepInv'
  <2>1. stage'[x] = s /\ \A y \in Handle : y # x => stage'[y] = stage[y]
    BY <1>1 DEF HandleInv, LifetimesTypeOK
  <2>2. QED
    BY <2>1 DEF HandleInv, StepInv
<1>5. RegistryInv'
  BY FewerOwners DEF HandleInv
<1>6. QED
  BY <1>2, <1>3, <1>4, <1>5 DEF HandleInv

LEMMA DeleteStep == ASSUME LifetimesInv, NEW x \in Handle, Delete(x) PROVE HandleInv'
<1> USE HandleSorts
<1>0. HandleInv /\ stage[x] = "deleting" /\ stage' = [stage EXCEPT ![x] = "gone"]
      /\ UNCHANGED <<vars, home, references, held, holding>>
  BY DEF LifetimesInv, Delete
<1>1. LifetimesTypeOK'
  BY <1>0 DEF HandleInv, LifetimesTypeOK, Stage, Delete
<1>2. HomeInv' /\ HostInv'
  <2>1. "gone" \in Stage /\ "gone" \notin Creating /\ UNCHANGED <<home, running, holding, held>>
    BY <1>0 DEF Stage, Creating, vars
  <2>2. QED
    BY <1>0, <2>1, HandleMoves DEF HandleInv
<1>3. StepInv'
  <2>1. UNCHANGED phase /\ stage'[x] = "gone" /\ \A y \in Handle : y # x => stage'[y] = stage[y]
    BY <1>0 DEF vars, HandleInv, LifetimesTypeOK
  <2>2. QED
    BY <1>0, <2>1 DEF HandleInv, StepInv
<1>4. RegistryInv'
  BY <1>0, NoOwners DEF HandleInv
<1>5. QED
  BY <1>1, <1>2, <1>3, <1>4 DEF HandleInv

\* Program.deinit runs when no evaluation does: one that does holds its program.
LEMMA DisposeStep ==
  ASSUME LifetimesInv, NEW x \in Handle, HandleFails(x) \/ Finalize(x)
  PROVE  HandleInv' /\ [Next]_vars
<1> USE HandleSorts
<1>1. HandleInv /\ stage[x] \in {"made", "alive"} /\ (stage[x] = "alive" => ~Referred(x))
  BY UnreachableUnreferred DEF LifetimesInv, HandleFails, Finalize
<1>2. Dispose(x)
  BY DEF HandleFails, Finalize
<1>3. UNCHANGED <<home, registry, held, holding, running>> /\ (x # Program => UNCHANGED phase)
  BY <1>2 DEF Dispose, ReleaseCache, vars
<1>4. HandleInv'
  BY <1>1, <1>2, <1>3, ReleaseStep DEF Dispose, Owning
<1>5. [Next]_vars
  <2>1. CASE x = Program
    <3>1. phase = "ready"
      BY <1>1, <2>1 DEF HandleInv, StepInv
    <3>2. running = {}
      BY <1>1, <2>1 DEF HandleInv, HostInv, Referred, Arguments
    <3>3. Deinit
      BY <1>2, <2>1, <3>1, <3>2 DEF Dispose, Deinit
    <3>4. QED
      BY <3>3 DEF Next
  <2>2. CASE x # Program
    BY <1>2, <2>2 DEF Dispose
  <2>3. QED
    BY <2>1, <2>2
<1>6. QED
  BY <1>4, <1>5

LEMMA CopyingFailsStep == ASSUME LifetimesInv, NEW x \in Handle, CopyingFails(x) PROVE HandleInv'
<1>1. HandleInv /\ stage[x] = "copying" /\ Release(x) /\ UNCHANGED <<home, registry, held, holding, running, phase>>
  BY DEF LifetimesInv, CopyingFails, vars
<1>2. QED
  BY <1>1, ReleaseStep DEF Owning

LEMMA LiteralSteps ==
  ASSUME LifetimesInv, CompileLiteral \/ LiteralsCompiled
  PROVE  HandleInv' /\ [Next]_vars
<1> USE HandleSorts
<1>1. HandleInv /\ stage[Program] = "patterns" /\ UNCHANGED <<home, registry, held, holding, running>>
  BY DEF LifetimesInv, CompileLiteral, LiteralsCompiled, BuildLiteral, Built
<1>2. [Next]_vars
  BY DEF CompileLiteral, LiteralsCompiled, Next
<1>3. CASE CompileLiteral /\ phase' = "failed"
  <2>1. Release(Program)
    BY <1>3 DEF CompileLiteral
  <2>2. QED
    BY <1>1, <1>2, <2>1, ReleaseStep DEF Owning
<1>4. CASE CompileLiteral /\ phase' # "failed"
  <2>1. UNCHANGED <<stage, references, phase>>
    BY <1>4 DEF CompileLiteral, BuildLiteral
  <2>2. LifetimesTypeOK' /\ HomeInv' /\ HostInv' /\ StepInv'
    BY <1>1, <2>1 DEF HandleInv, LifetimesTypeOK, HomeInv, HostInv, StepInv, Referred, Arguments
  <2>3. RegistryInv'
    BY <1>1, <2>1 DEF HandleInv, RegistryInv, Counted, Owners, Deleters
  <2>4. QED
    BY <1>2, <2>2, <2>3 DEF HandleInv
<1>5. CASE LiteralsCompiled
  <2>1. stage' = [stage EXCEPT ![Program] = "made"] /\ UNCHANGED references /\ phase' = "ready"
    BY <1>5 DEF LiteralsCompiled, Built
  <2>2. LifetimesTypeOK'
    BY <1>1, <2>1 DEF HandleInv, LifetimesTypeOK, Stage
  <2>3. HomeInv' /\ HostInv'
    <3>1. "made" \in Stage /\ stage[Program] \in Creating
      BY <1>1 DEF Stage, Creating
    <3>2. QED
      BY <1>1, <2>1, <3>1, HandleMoves DEF HandleInv
  <2>4. StepInv'
    BY <1>1, <2>1 DEF HandleInv, LifetimesTypeOK, StepInv
  <2>5. RegistryInv'
    BY <1>1, <2>1, SameOwners DEF HandleInv, Owning
  <2>6. QED
    BY <1>2, <2>2, <2>3, <2>4, <2>5 DEF HandleInv
<1>6. QED
  BY <1>3, <1>4, <1>5

\* A program is compiled in an environment that the host refers to, or in none.
LEMMA CompileStep ==
  ASSUME LifetimesInv, NEW p \in Handle, NEW e \in Environments \cup {NoEnvironment}, Compile(p, e)
  PROVE  HandleInv'
<1> USE HandleSorts
<1>1. /\ HandleInv /\ stage[p] = "none" /\ p \in Programs
      /\ stage' = [stage EXCEPT ![p] = "filling"] /\ home' = [home EXCEPT ![p] = e]
      /\ UNCHANGED <<vars, references, registry, held, holding>>
      /\ e \in Environments => e \in held
  BY HandleAssumption DEF LifetimesInv, Compile
<1>2. LifetimesTypeOK'
  BY <1>1 DEF HandleInv, LifetimesTypeOK, Stage
<1>3. /\ stage'[p] = "filling" /\ \A y \in Handle : y # p => stage'[y] = stage[y]
      /\ home'[p] = e /\ \A y \in Handle : y # p => home'[y] = home[y]
  BY <1>1 DEF HandleInv, LifetimesTypeOK
<1>4. e \in Environments => Referred(e) /\ stage[e] = "alive" /\ e # p
  BY <1>1 DEF HandleInv, HostInv, Referred
<1>5. HomeInv'
  BY <1>1, <1>3, <1>4 DEF HandleInv, HomeInv
<1>6. UNCHANGED running /\ (p = Program => running = {}) /\ UNCHANGED phase
  BY <1>1 DEF vars, HandleInv, HostInv, Referred, Arguments
<1>7. ASSUME NEW y \in Handle, Referred(y)' PROVE stage'[y] = "alive"
  <2>1. Referred(y)
    <3>1. CASE y \in held'
      BY <1>1, <3>1 DEF Referred
    <3>2. CASE \E q \in Programs : (q \in held' \/ stage'[q] \in Creating) /\ home'[q] = y
      <4>1. PICK q \in Programs : (q \in held' \/ stage'[q] \in Creating) /\ home'[q] = y
        BY <3>2
      <4>2. CASE q = p
        <5>1. y = e /\ e \in Environments
          BY <1>3, <1>7, <4>1, <4>2, NoHandle
        <5>2. QED
          BY <1>4, <5>1
      <4>3. CASE q # p
        BY <1>1, <1>3, <4>1, <4>3 DEF Referred
      <4>4. QED
        BY <4>2, <4>3
    <3>3. CASE running' # {} /\ y \in Arguments'
      BY <1>3, <1>6, <3>3 DEF Referred, Arguments
    <3>4. QED
      BY <1>7, <3>1, <3>2, <3>3 DEF Referred
  <2>2. stage[y] = "alive" /\ y # p
    BY <1>1, <2>1 DEF HandleInv, HostInv
  <2>3. QED
    BY <1>3, <2>2
<1>8. HostInv'
  <2>1. \A f \in running' : holding'[f] = Arguments'
    BY <1>1, <1>3, <1>6 DEF HandleInv, HostInv, Arguments
  <2>2. QED
    BY <1>7, <2>1 DEF HostInv
<1>9. StepInv'
  BY <1>1, <1>3, <1>6 DEF HandleInv, StepInv
<1>10. RegistryInv'
  BY <1>1, <1>3, SameOwners DEF HandleInv, Owning
<1>11. QED
  BY <1>2, <1>5, <1>8, <1>9, <1>10 DEF HandleInv

LEMMA DropStep == ASSUME LifetimesInv, NEW x \in Handle, Drop(x) PROVE HandleInv'
<1>1. HandleInv /\ held' \subseteq held /\ UNCHANGED <<vars, stage, home, references, registry, holding>>
  BY DEF LifetimesInv, Drop
<1>2. LifetimesTypeOK' /\ HomeInv' /\ StepInv'
  BY <1>1 DEF HandleInv, LifetimesTypeOK, HomeInv, StepInv, vars
<1>3. HostInv'
  BY <1>1 DEF HandleInv, HostInv, Referred, Arguments, vars
<1>4. RegistryInv'
  BY <1>1 DEF HandleInv, RegistryInv, Counted, Owners, Deleters
<1>5. QED
  BY <1>2, <1>3, <1>4 DEF HandleInv

\* An evaluation takes hold of the program and of its environment.
LEMMA EvaluateStep ==
  ASSUME LifetimesInv, NEW e \in Evaluations, Evaluate(e)
  PROVE  HandleInv'
<1> USE HandleSorts
<1>1. /\ HandleInv /\ Program \in held /\ UNCHANGED <<stage, home, references, registry, held, phase>>
      /\ running' = running \cup {e} /\ holding' = [holding EXCEPT ![e] = Arguments]
  BY DEF LifetimesInv, Evaluate, Start
<1>2. Arguments' = Arguments /\ Arguments \subseteq Handle
  BY <1>1 DEF Arguments
<1>3. LifetimesTypeOK'
  BY <1>1, <1>2 DEF HandleInv, LifetimesTypeOK
<1>4. HostInv'
  <2>1. ASSUME NEW x \in Handle, Referred(x)' PROVE stage'[x] = "alive"
    <3>1. CASE x \in Arguments
      <4>1. Referred(x)
        BY <1>1, <3>1 DEF Arguments, Referred
      <4>2. QED
        BY <1>1, <4>1 DEF HandleInv, HostInv
    <3>2. CASE x \notin Arguments
      <4>1. Referred(x)
        BY <1>1, <1>2, <2>1, <3>2 DEF Referred
      <4>2. QED
        BY <1>1, <4>1 DEF HandleInv, HostInv
    <3>3. QED
      BY <3>1, <3>2
  <2>2. ASSUME NEW f \in running' PROVE holding'[f] = Arguments'
    <3>1. holding \in [Evaluations -> SUBSET Handle]
      BY <1>1 DEF HandleInv, LifetimesTypeOK
    <3>2. running \subseteq Evaluations
      BY DEF LifetimesInv, Inv, PhaseInv
    <3>3. QED
      BY <1>1, <1>2, <3>1, <3>2 DEF HandleInv, HostInv
  <2>3. QED
    BY <2>1, <2>2 DEF HostInv
<1>5. HomeInv' /\ StepInv' /\ RegistryInv'
  BY <1>1 DEF HandleInv, HomeInv, StepInv, RegistryInv, Counted, Owners, Deleters
<1>6. QED
  BY <1>3, <1>4, <1>5 DEF HandleInv

LEMMA ContinueStep ==
  ASSUME LifetimesInv, NEW e \in Evaluations, Continue(e)
  PROVE  HandleInv' /\ [Next]_vars
<1> USE HandleSorts
<1>1. /\ HandleInv /\ UNCHANGED <<stage, home, references, registry, held>>
      /\ holding' = IF e \in running' THEN holding ELSE [holding EXCEPT ![e] = {}]
  BY DEF LifetimesInv, Continue
<1>2. running' \in {running, running \ {e}} /\ UNCHANGED phase /\ [Next]_vars
  <2>1. CASE Ends(e)
    BY <2>1 DEF Ends, EndWith, Next
  <2>2. CASE Match(e)
    <3>1. UNCHANGED phase /\ [Next]_vars
      BY <2>2 DEF Match, Next
    <3>2. running' \in {running, running \ {e}}
      BY <2>2 DEF Match, EndWith
    <3>3. QED
      BY <3>1, <3>2
  <2>3. ASSUME NEW p \in Patterns, NEW text \in Texts, Lookup(e, p, text)
        PROVE  running' \in {running, running \ {e}} /\ UNCHANGED phase /\ [Next]_vars
    <3>1. UNCHANGED phase /\ [Next]_vars
      BY <2>3 DEF Lookup, Next
    <3>2. running' \in {running, running \ {e}}
      BY <2>3 DEF Lookup, EndWith
    <3>3. QED
      BY <3>1, <3>2
  <2>4. QED
    BY <2>1, <2>2, <2>3 DEF Continue
<1>3. Arguments' = Arguments
  BY <1>1 DEF Arguments
<1>4. LifetimesTypeOK'
  BY <1>1 DEF HandleInv, LifetimesTypeOK
<1>5. HostInv'
  <2>1. \A x \in Handle : Referred(x)' => Referred(x)
    BY <1>1, <1>2, <1>3 DEF Referred
  <2>2. \A f \in running' : holding'[f] = Arguments'
    <3>1. holding \in [Evaluations -> SUBSET Handle] /\ running \subseteq Evaluations
      BY <1>1 DEF HandleInv, LifetimesTypeOK, LifetimesInv, Inv, PhaseInv
    <3>2. QED
      BY <1>1, <1>2, <1>3, <3>1 DEF HandleInv, HostInv
  <2>3. QED
    BY <1>1, <2>1, <2>2 DEF HandleInv, HostInv
<1>6. HomeInv' /\ StepInv' /\ RegistryInv'
  BY <1>1, <1>2 DEF HandleInv, HomeInv, StepInv, RegistryInv, Counted, Owners, Deleters
<1>7. QED
  BY <1>2, <1>4, <1>5, <1>6 DEF HandleInv

LEMMA LifetimesStep ==
  ASSUME LifetimesInv, [LifetimesNext]_<<vars, handleVars>>
  PROVE  LifetimesInv' /\ [Next]_vars
<1>1. HandleInv' /\ [Next]_vars
  <2>1. CASE UNCHANGED <<vars, handleVars>>
    BY <2>1 DEF vars, handleVars, LifetimesInv, HandleInv, LifetimesTypeOK, HomeInv, HostInv, StepInv,
                RegistryInv, Counted, Owners, Deleters, Referred, Arguments
  <2>2. ASSUME NEW x \in Handle,
               CreateEnvironment(x) \/ FillingFails(x) \/ Copied(x) \/ Return(x) \/ TagFails(x)
        PROVE  HandleInv' /\ UNCHANGED vars
    BY <2>2, StageSteps DEF CreateEnvironment, FillingFails, Copied, Return, TagFails
  <2>3. ASSUME NEW x \in Handle, Load(x) \/ Retain(x) PROVE HandleInv' /\ UNCHANGED vars
    BY <2>3, RetainSteps DEF Load, Retain
  <2>4. ASSUME NEW x \in Handle, CopyingFails(x) PROVE HandleInv' /\ UNCHANGED vars
    BY <2>4, CopyingFailsStep DEF CopyingFails
  <2>5. ASSUME NEW x \in Handle, Delete(x) PROVE HandleInv' /\ UNCHANGED vars
    BY <2>5, DeleteStep DEF Delete
  <2>6. ASSUME NEW x \in Handle, Drop(x) PROVE HandleInv' /\ UNCHANGED vars
    BY <2>6, DropStep DEF Drop
  <2>7. ASSUME NEW x \in Handle, NEW e \in Environments \cup {NoEnvironment}, Compile(x, e)
        PROVE  HandleInv' /\ UNCHANGED vars
    BY <2>7, CompileStep DEF Compile
  <2>8. ASSUME NEW e \in Evaluations, Evaluate(e) PROVE HandleInv' /\ [Next]_vars
    BY <2>8, EvaluateStep DEF Evaluate, Next
  <2>9. QED
    BY <2>1, <2>2, <2>3, <2>4, <2>5, <2>6, <2>7, <2>8, DisposeStep, LiteralSteps, ContinueStep
    DEF LifetimesNext
<1>2. Inv'
  BY <1>1, NextInv DEF LifetimesInv
<1>3. QED
  BY <1>1, <1>2 DEF LifetimesInv

LEMMA AlwaysLifetimesInv == LifetimesSpec => []LifetimesInv
<1>1. LifetimesInv /\ [LifetimesNext]_<<vars, handleVars>> => LifetimesInv'
  BY LifetimesStep
<1>2. QED
  BY <1>1, LifetimesInitInv, PTL DEF LifetimesSpec

-----------------------------------------------------------------------------
(* Theorems *)

\* The handles, their homes and the counts of registries keep their types.
THEOREM LifetimesTypeCorrect == LifetimesSpec => []LifetimesTypeOK
BY AlwaysLifetimesInv, PTL DEF LifetimesInv, HandleInv

\* A registry is counted, kept and deleted once, whichever call fails.
THEOREM RegistryIsOwned == LifetimesSpec => []RegistryOwned
<1>1. ASSUME LifetimesInv PROVE RegistryOwned
  <2> SUFFICES ASSUME NEW e \in Described
               PROVE  /\ references[e] = Cardinality(Owners(e))
                      /\ registry[e] = "live" <=> Owners(e) \cup Deleters(e) # {}
                      /\ Deleters(e) # {} => Owners(e) = {} /\ Cardinality(Deleters(e)) = 1
    BY DEF RegistryOwned
  <2>1. Counted(e)
    BY <1>1 DEF LifetimesInv, HandleInv, RegistryInv
  <2>2. QED
    BY <2>1, FS_Singleton DEF Counted
<1>2. QED
  BY <1>1, AlwaysLifetimesInv, PTL

\* Native code never reads an environment or a program that was finalized.
THEOREM NothingEverDangles == LifetimesSpec => []NothingDangles
<1>1. ASSUME LifetimesInv PROVE NothingDangles
  <2>1. \A x \in Handle : Referred(x) => stage[x] = "alive"
    BY <1>1 DEF LifetimesInv, HandleInv, HostInv
  <2>2. \A p \in Programs : home[p] # NoEnvironment => home[p] \in Environments
    BY <1>1, HandleSorts DEF LifetimesInv, HandleInv, LifetimesTypeOK
  <2>3. QED
    BY <2>1, <2>2, HandleSorts DEF NothingDangles, Referred, Arguments
<1>2. QED
  BY <1>1, AlwaysLifetimesInv, PTL

\* Finalizers release a program only when no evaluation uses it: hosts are
\* users of RegexCache as it asks for them.
THEOREM HostsKeepPrecondition == LifetimesSpec => ImplementsRegexCache
<1>1. LifetimesInit => Init
  BY DEF LifetimesInit
<1>2. LifetimesInv /\ [LifetimesNext]_<<vars, handleVars>> => [Next]_vars
  BY LifetimesStep
<1>3. QED
  BY <1>1, <1>2, AlwaysLifetimesInv, PTL DEF LifetimesSpec, ImplementsRegexCache, Spec

\* What holds of the caches alone holds of those of programs that hosts compile,
\* share between evaluations and forget.
THEOREM HostedCaches == LifetimesSpec => [](HeapOwned /\ MatchesLiveProgram /\ AnswersAgree)
BY HostsKeepPrecondition, HeapIsOwned, ProgramsLive, AnswersAlwaysAgree, PTL DEF ImplementsRegexCache
=============================================================================
