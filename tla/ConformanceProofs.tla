--------------------------- MODULE ConformanceProofs ---------------------------
(***************************************************************************)
(* Proofs about ConformanceRun: where every single case is judged rightly, *)
(* a run of many judges all of them, in their places, or is given up for a *)
(* reason; and its exit status says what the verdicts say.                 *)
(***************************************************************************)
EXTENDS ConformanceRun, FiniteSetTheorems, SequenceTheorems, TLAPS

-----------------------------------------------------------------------------
(* Identifiers *)

\* Without its last part a name is the one that was numbered.
LEMMA WithoutNumber ==
  ASSUME NEW S, NEW s \in Seq(S), NEW x \in S
  PROVE  /\ Append(s, x) # <<>>
         /\ SubSeq(Append(s, x), 1, Len(Append(s, x)) - 1) = s
         /\ Append(s, x)[Len(Append(s, x))] = x
OBVIOUS

\* Different occurrences of the names of a corpus have different identifiers.
LEMMA IdentifiersDiffer ==
  ASSUME NEW c \in Corpora, NEW b \in BaseNames(c), NEW d \in BaseNames(c),
         NEW n \in Nat \ {0}, NEW m \in Nat \ {0}, Identifier(b, n) = Identifier(d, m)
  PROVE  b = d /\ n = m
<1> DEFINE S == STRING \cup Nat
<1>1. /\ b = <<b[1], b[2], b[3]>> /\ d = <<d[1], d[2], d[3]>>
  BY DEF BaseNames, BaseName
<1>2. b[3] \in Seq(S) /\ d[3] \in Seq(S)
  BY CorporaAssumption
<1>3. \A x, y \in BaseNames(c) : \A k \in Nat \ {0} :
        x[3] \in Seq(S) /\ y[3] \in Seq(S) => x # <<y[1], y[2], Append(y[3], k)>>
  <2> SUFFICES ASSUME NEW x \in BaseNames(c), NEW y \in BaseNames(c), NEW k \in Nat \ {0},
                      x[3] \in Seq(S), y[3] \in Seq(S), x = <<y[1], y[2], Append(y[3], k)>>
               PROVE  FALSE
    OBVIOUS
  <2>1. x[1] = y[1] /\ x[2] = y[2] /\ x[3] = Append(y[3], k)
    OBVIOUS
  <2>2. x[3] # <<>> /\ SubSeq(x[3], 1, Len(x[3]) - 1) = y[3]
    <3>1. k \in S
      OBVIOUS
    <3>2. y[3] \in Seq(S)
      OBVIOUS
    <3> HIDE DEF S
    <3>3. Append(y[3], k) # <<>> /\ SubSeq(Append(y[3], k), 1, Len(Append(y[3], k)) - 1) = y[3]
      BY <3>1, <3>2, WithoutNumber
    <3>4. QED
      BY <2>1, <3>3
  <2>3. QED
    BY <2>1, <2>2, CorporaAssumption
<1>4. CASE n = 1 /\ m = 1
  BY <1>4 DEF Identifier
<1>5. CASE n = 1 /\ m # 1
  BY <1>2, <1>3, <1>5 DEF Identifier
<1>6. CASE n # 1 /\ m = 1
  BY <1>2, <1>3, <1>6 DEF Identifier
<1>7. CASE n # 1 /\ m # 1
  <2>1. b[1] = d[1] /\ b[2] = d[2] /\ Append(b[3], n) = Append(d[3], m)
    BY <1>7 DEF Identifier
  <2>2. b[3] = d[3] /\ n = m
    <3>1. n \in S /\ m \in S
      OBVIOUS
    <3> HIDE DEF S
    <3>2. SubSeq(Append(b[3], n), 1, Len(Append(b[3], n)) - 1) = b[3] /\ Append(b[3], n)[Len(Append(b[3], n))] = n
      BY <1>2, <3>1, WithoutNumber
    <3>3. SubSeq(Append(d[3], m), 1, Len(Append(d[3], m)) - 1) = d[3] /\ Append(d[3], m)[Len(Append(d[3], m))] = m
      BY <1>2, <3>1, WithoutNumber
    <3>4. QED
      BY <2>1, <3>2, <3>3
  <2>3. QED
    BY <1>1, <2>1, <2>2
<1>8. QED
  BY <1>4, <1>5, <1>6, <1>7

-----------------------------------------------------------------------------
(* Loading *)

TestsOf(c) == UNION {{c.files[f].tests[t] : t \in DOMAIN c.files[f].tests} : f \in DOMAIN c.files}

Cases(c, m) ==
  [identifier : {Identifier(base, n) : base \in BaseNames(c), n \in Nat},
   kind : {c.files[f].kind : f \in DOMAIN c.files}, test : TestsOf(c),
   reasons : {ReasonsFor(test, m) : test \in TestsOf(c)}, strong_enums : BOOLEAN]

\* A case is what loading makes of a test of the corpus.
FromCorpus(c, m, case) ==
  \E f \in DOMAIN c.files : \E t \in DOMAIN c.files[f].tests :
    /\ case.test = c.files[f].tests[t]
    /\ case.strong_enums = StrongEnums(c.files[f], case.test)
    /\ case.reasons = ReasonsFor(case.test, m)

\* The cases so far: theirs are the occurrences counted, and no two have the
\* same identifier.
CasesInv ==
  /\ corpus \in Corpora /\ mode \in Modes
  /\ cases \in Seq(Cases(corpus, mode))
  /\ \A k \in 1..Len(cases) : FromCorpus(corpus, mode, cases[k])
  /\ DOMAIN occurrences \subseteq BaseNames(corpus)
  /\ \A base \in DOMAIN occurrences : occurrences[base] \in 1..Len(cases)
  /\ \A k \in 1..Len(cases) : \E base \in DOMAIN occurrences : \E n \in 1..occurrences[base] :
       cases[k].identifier = Identifier(base, n)
  /\ \A j, k \in 1..Len(cases) : cases[j].identifier = cases[k].identifier => j = k

\* Those that are run are the cases without reasons.
SupportedInv ==
  /\ supported \in Seq(Cases(corpus, mode))
  /\ \A s \in 1..Len(supported) :
       supported[s].reasons = {} /\ \E k \in 1..Len(cases) : supported[s] = cases[k]
  /\ \A k \in 1..Len(cases) :
       cases[k].reasons = {} => \E s \in 1..Len(supported) : supported[s] = cases[k]
  /\ \A r, s \in 1..Len(supported) : supported[r].identifier = supported[s].identifier => r = s

\* The files before the current one are as the manifest says; after loading all are.
FilesInv ==
  /\ file \in 1..(Len(corpus.files) + 1) /\ seen \in Nat
  /\ file <= Len(corpus.files) => seen <= Len(corpus.files[file].tests)
  /\ \A f \in 1..(file - 1) :
       corpus.files[f].intact /\ corpus.files[f].count = Len(corpus.files[f].tests)
  /\ phase \notin {"load", "aborted"} =>
       file = Len(corpus.files) + 1 /\ Len(cases) = corpus.total

LoadInv == CasesInv /\ SupportedInv /\ FilesInv

LEMMA LoadInit == Init => LoadInv
<1> SUFFICES ASSUME Init PROVE LoadInv
  OBVIOUS
<1>1. corpus \in Corpora /\ mode \in Modes /\ phase = "load" /\ file = 1 /\ seen = 0
      /\ occurrences = <<>> /\ cases = <<>> /\ supported = <<>>
  BY DEF Init
<1>2. Len(corpus.files) \in Nat /\ DOMAIN corpus.files = 1..Len(corpus.files)
      /\ \A f \in DOMAIN corpus.files : Len(corpus.files[f].tests) \in Nat
  BY <1>1, CorporaAssumption
<1>3. CasesInv
  BY <1>1 DEF CasesInv
<1>4. SupportedInv
  BY <1>1 DEF SupportedInv
<1>5. FilesInv
  BY <1>1, <1>2 DEF FilesInv
<1>6. QED
  BY <1>3, <1>4, <1>5 DEF LoadInv

LEMMA LoadTestKeepsLoad == LoadInv /\ LoadTest => LoadInv'
<1> SUFFICES ASSUME LoadInv, LoadTest PROVE LoadInv'
  OBVIOUS
<1> DEFINE test == CurrentFile.tests[seen + 1]
           base == BaseName(CurrentFile, test)
           new == Loaded(test)
           n == Len(cases)
           occ == Occurrence(base)
<1>1. /\ corpus \in Corpora /\ mode \in Modes /\ UNCHANGED <<corpus, mode, phase, file>>
      /\ cases' = Append(cases, new) /\ supported' = Selected(new)
      /\ occurrences' = Counted(BaseName(CurrentFile, new.test)) /\ seen' = seen + 1
      /\ phase = "load" /\ file <= Len(corpus.files) /\ seen < Len(CurrentFile.tests)
  BY DEF LoadInv, CasesInv, LoadTest, setting
<1>2. /\ Len(corpus.files) \in Nat /\ DOMAIN corpus.files = 1..Len(corpus.files)
      /\ \A f \in DOMAIN corpus.files :
           Len(corpus.files[f].tests) \in Nat /\ DOMAIN corpus.files[f].tests = 1..Len(corpus.files[f].tests)
  BY <1>1, CorporaAssumption
<1>3. file \in DOMAIN corpus.files /\ seen + 1 \in DOMAIN corpus.files[file].tests /\ seen \in Nat
  BY <1>1, <1>2 DEF LoadInv, FilesInv, CurrentFile
<1>4. new.test = test /\ test = corpus.files[file].tests[seen + 1] /\ test \in TestsOf(corpus)
  BY <1>3 DEF Loaded, CurrentFile, TestsOf
<1>5. base \in BaseNames(corpus)
  BY <1>3 DEF BaseNames, CurrentFile
<1>6. n \in Nat /\ cases \in Seq(Cases(corpus, mode))
  BY DEF LoadInv, CasesInv
<1>7. occ \in 1..(n + 1) /\ (base \in DOMAIN occurrences => occ = occurrences[base] + 1)
  BY <1>6 DEF Occurrence, LoadInv, CasesInv
<1>8. new \in Cases(corpus, mode) /\ new.identifier = Identifier(base, occ)
  BY <1>3, <1>4, <1>5, <1>7 DEF Loaded, Cases, CurrentFile, StrongEnums
<1>9. FromCorpus(corpus, mode, new)
  BY <1>1, <1>3, <1>4 DEF FromCorpus, Loaded, CurrentFile
<1>10. /\ cases' \in Seq(Cases(corpus, mode)) /\ Len(cases') = n + 1 /\ cases'[n + 1] = new
       /\ \A k \in 1..n : cases'[k] = cases[k]
  BY <1>1, <1>6, <1>8
<1>11. /\ DOMAIN occurrences' = DOMAIN occurrences \cup {base} /\ occurrences'[base] = occ
       /\ \A b \in DOMAIN occurrences : b # base => occurrences'[b] = occurrences[b]
  BY <1>1, <1>4 DEF Counted
<1> HIDE DEF test, base, new, n, occ
<1>12. CasesInv'
  <2>1. \A k \in 1..(n + 1) : FromCorpus(corpus, mode, cases'[k])
    <3>1. \A k \in 1..n : FromCorpus(corpus, mode, cases[k])
      BY DEF LoadInv, CasesInv, n
    <3>2. QED
      BY <1>6, <1>9, <1>10, <3>1
  <2>2. \A b \in DOMAIN occurrences' : b \in BaseNames(corpus) /\ occurrences'[b] \in 1..(n + 1)
    BY <1>5, <1>6, <1>7, <1>11 DEF LoadInv, CasesInv, n
  <2>3. \A k \in 1..n : \E b \in DOMAIN occurrences : \E m \in 1..occurrences[b] :
          cases[k].identifier = Identifier(b, m)
    BY DEF LoadInv, CasesInv, n
  <2>4. ASSUME NEW k \in 1..(n + 1)
        PROVE  \E b \in DOMAIN occurrences' : \E m \in 1..occurrences'[b] :
                 cases'[k].identifier = Identifier(b, m)
    <3>1. CASE k = n + 1
      BY <1>7, <1>8, <1>10, <1>11, <3>1
    <3>2. CASE k \in 1..n
      <4>1. PICK b \in DOMAIN occurrences : \E m \in 1..occurrences[b] : cases[k].identifier = Identifier(b, m)
        BY <2>3, <3>2
      <4>2. PICK m \in 1..occurrences[b] : cases[k].identifier = Identifier(b, m)
        BY <4>1
      <4>3. m \in 1..occurrences'[b]
        BY <1>7, <1>11, <4>2 DEF LoadInv, CasesInv
      <4>4. QED
        BY <1>10, <1>11, <3>2, <4>2, <4>3
    <3>3. QED
      BY <1>6, <3>1, <3>2
  <2>5. ASSUME NEW k \in 1..n PROVE cases[k].identifier # new.identifier
    <3>1. PICK b \in DOMAIN occurrences : \E m \in 1..occurrences[b] : cases[k].identifier = Identifier(b, m)
      BY <2>3
    <3>2. PICK m \in 1..occurrences[b] : cases[k].identifier = Identifier(b, m)
      BY <3>1
    <3>3. b \in BaseNames(corpus) /\ m \in Nat \ {0} /\ occ \in Nat \ {0}
      BY <1>7, <3>2 DEF LoadInv, CasesInv
    <3>4. ~(b = base /\ m = occ)
      BY <1>7, <3>2, <3>3 DEF LoadInv, CasesInv
    <3>5. QED
      BY <1>1, <1>5, <1>8, <3>2, <3>3, <3>4, IdentifiersDiffer
  <2>6. \A j, k \in 1..n : cases[j].identifier = cases[k].identifier => j = k
    BY DEF LoadInv, CasesInv, n
  <2>7. \A j, k \in 1..(n + 1) : cases'[j].identifier = cases'[k].identifier => j = k
    BY <1>6, <1>10, <2>5, <2>6
  <2>8. corpus' = corpus /\ mode' = mode /\ n + 1 = Len(cases') /\ corpus \in Corpora /\ mode \in Modes
    BY <1>1, <1>10
  <2>9. cases' \in Seq(Cases(corpus, mode))
    BY <1>10
  <2>10. QED
    BY <2>1, <2>2, <2>4, <2>7, <2>8, <2>9 DEF CasesInv
<1>13. SupportedInv'
  <2> DEFINE l == Len(supported)
  <2>1. l \in Nat /\ supported \in Seq(Cases(corpus, mode))
    BY DEF LoadInv, SupportedInv
  <2>2. /\ \A s \in 1..l : supported[s].reasons = {} /\ \E k \in 1..n : supported[s] = cases[k]
        /\ \A k \in 1..n : cases[k].reasons = {} => \E s \in 1..l : supported[s] = cases[k]
        /\ \A r, s \in 1..l : supported[r].identifier = supported[s].identifier => r = s
    BY DEF LoadInv, SupportedInv, n
  <2>3. \A j, k \in 1..(n + 1) : cases'[j].identifier = cases'[k].identifier => j = k
    BY <1>10, <1>12 DEF CasesInv
  <2>4. corpus' = corpus /\ mode' = mode /\ n + 1 = Len(cases')
    BY <1>1, <1>10
  <2>5. CASE new.reasons # {}
    <3>1. supported' = supported
      BY <1>1, <2>5 DEF Selected
    <3> HIDE DEF l
    <3>2. \A s \in 1..l : supported[s].reasons = {} /\ \E k \in 1..(n + 1) : supported[s] = cases'[k]
      BY <1>6, <1>10, <2>2
    <3>3. \A k \in 1..(n + 1) : cases'[k].reasons = {} => \E s \in 1..l : supported[s] = cases'[k]
      BY <1>6, <1>10, <2>2, <2>5
    <3>4. QED
      BY <2>1, <2>2, <2>4, <3>1, <3>2, <3>3 DEF SupportedInv, l
  <2>6. CASE new.reasons = {}
    <3>1. supported' = Append(supported, new)
      BY <1>1, <2>6 DEF Selected
    <3>2. /\ supported' \in Seq(Cases(corpus, mode)) /\ Len(supported') = l + 1
          /\ supported'[l + 1] = new /\ \A s \in 1..l : supported'[s] = supported[s]
      BY <1>8, <2>1, <3>1
    <3> HIDE DEF l
    <3>3. ASSUME NEW s \in 1..(l + 1)
          PROVE  supported'[s].reasons = {} /\ \E k \in 1..(n + 1) : supported'[s] = cases'[k]
      <4>1. CASE s = l + 1
        <5>1. n + 1 \in 1..(n + 1) /\ cases'[n + 1] = new
          BY <1>6, <1>10
        <5>2. QED
          BY <2>6, <3>2, <4>1, <5>1
      <4>2. CASE s # l + 1
        <5>1. s \in 1..l
          BY <2>1, <4>2 DEF l
        <5>2. PICK k \in 1..n : supported[s] = cases[k]
          BY <2>2, <5>1
        <5>3. k \in 1..(n + 1) /\ cases'[k] = cases[k]
          BY <1>6, <1>10, <5>2
        <5>4. QED
          BY <2>2, <3>2, <5>1, <5>2, <5>3
      <4>3. QED
        BY <4>1, <4>2
    <3>4. ASSUME NEW k \in 1..(n + 1), cases'[k].reasons = {}
          PROVE  \E s \in 1..(l + 1) : supported'[s] = cases'[k]
      <4>1. CASE k = n + 1
        <5>1. cases'[k] = new /\ l + 1 \in 1..(l + 1)
          BY <1>10, <2>1, <4>1 DEF l
        <5>2. QED
          BY <3>2, <5>1
      <4>2. CASE k # n + 1
        <5>1. k \in 1..n
          BY <1>6, <4>2
        <5>2. cases'[k] = cases[k]
          BY <1>10, <5>1
        <5>3. PICK s \in 1..l : supported[s] = cases[k]
          BY <2>2, <3>4, <5>1, <5>2
        <5>4. s \in 1..(l + 1) /\ supported'[s] = supported[s]
          BY <2>1, <3>2, <5>3 DEF l
        <5>5. QED
          BY <5>2, <5>3, <5>4
      <4>3. QED
        BY <4>1, <4>2
    <3>5. ASSUME NEW s \in 1..l PROVE supported[s].identifier # new.identifier
      <4>1. PICK k \in 1..n : supported[s] = cases[k]
        BY <2>2
      <4>2. QED
        BY <1>6, <1>10, <2>3, <4>1
    <3>6. \A r, s \in 1..(l + 1) : supported'[r].identifier = supported'[s].identifier => r = s
      BY <2>1, <2>2, <3>2, <3>5
    <3>7. QED
      BY <2>4, <3>2, <3>3, <3>4, <3>6 DEF SupportedInv
  <2>7. QED
    BY <2>5, <2>6
<1>14. FilesInv'
  BY <1>1, <1>2, <1>3 DEF LoadInv, FilesInv, CurrentFile
<1>15. QED
  BY <1>12, <1>13, <1>14 DEF LoadInv

\* No other step adds a case.
LEMMA CasesKept ==
  ASSUME LoadInv, UNCHANGED <<corpus, mode, occurrences, cases, supported>>
  PROVE  CasesInv' /\ SupportedInv'
<1>1. CasesInv'
  BY DEF LoadInv, CasesInv
<1>2. SupportedInv'
  BY DEF LoadInv, SupportedInv
<1>3. QED
  BY <1>1, <1>2

LEMMA FilesKept ==
  ASSUME LoadInv, UNCHANGED <<setting, loading>>, phase' \notin {"load", "aborted"} => phase \notin {"load", "aborted"}
  PROVE  LoadInv'
<1>1. UNCHANGED <<corpus, mode, occurrences, cases, supported, file, seen>>
  BY DEF setting, loading
<1>2. FilesInv'
  BY <1>1 DEF LoadInv, FilesInv
<1>3. QED
  BY <1>1, <1>2, CasesKept DEF LoadInv

LEMMA NextFileKeepsLoad == LoadInv /\ NextFile => LoadInv'
<1> SUFFICES ASSUME LoadInv, NextFile PROVE LoadInv'
  OBVIOUS
<1>1. /\ UNCHANGED <<corpus, mode, phase, occurrences, cases, supported>> /\ phase = "load"
      /\ file' = file + 1 /\ seen' = 0 /\ file <= Len(corpus.files)
      /\ corpus.files[file].intact /\ corpus.files[file].count = Len(corpus.files[file].tests)
  BY DEF NextFile, setting, CurrentFile
<1>2. /\ Len(corpus.files) \in Nat /\ DOMAIN corpus.files = 1..Len(corpus.files)
      /\ \A f \in DOMAIN corpus.files : Len(corpus.files[f].tests) \in Nat
  BY CorporaAssumption DEF LoadInv, CasesInv
<1>3. FilesInv'
  <2>1. \A f \in 1..(file - 1) : corpus.files[f].intact /\ corpus.files[f].count = Len(corpus.files[f].tests)
    BY DEF LoadInv, FilesInv
  <2>2. file \in 1..(Len(corpus.files) + 1)
    BY DEF LoadInv, FilesInv
  <2>3. QED
    BY <1>1, <1>2, <2>1, <2>2 DEF FilesInv
<1>4. QED
  BY <1>1, <1>3, CasesKept DEF LoadInv

LEMMA FinishLoadingKeepsLoad == LoadInv /\ FinishLoading => LoadInv'
<1> SUFFICES ASSUME LoadInv, FinishLoading PROVE LoadInv'
  OBVIOUS
<1>1. /\ UNCHANGED <<corpus, mode, occurrences, cases, supported, file, seen>>
      /\ file > Len(corpus.files) /\ (phase' # "aborted" => Len(cases) = corpus.total)
  BY DEF FinishLoading, setting, loading
<1>2. Len(corpus.files) \in Nat
  BY CorporaAssumption DEF LoadInv, CasesInv
<1>3. FilesInv'
  BY <1>1, <1>2 DEF LoadInv, FilesInv
<1>4. QED
  BY <1>1, <1>3, CasesKept DEF LoadInv

\* The steps after loading leave the cases alone, and return to loading never.
LEMMA LaterKeepsLoad ==
  ASSUME LoadInv,
         \/ RefuseFile \/ ExecuteCase \/ ExecutedAll \/ SendRequests \/ Timeout \/ Receive
         \/ CompareCase \/ Summarize \/ CompareReports \/ Adapter \/ UNCHANGED vars
  PROVE  LoadInv'
<1>1. CASE RefuseFile
  BY <1>1, FilesKept DEF RefuseFile, Abort
<1>2. CASE ExecuteCase
  BY <1>2, FilesKept DEF ExecuteCase, Abort
<1>3. CASE ExecutedAll
  BY <1>3, FilesKept DEF ExecutedAll
<1>4. CASE SendRequests
  BY <1>4, FilesKept DEF SendRequests
<1>5. CASE Timeout
  BY <1>5, FilesKept DEF Timeout, Abort
<1>6. CASE Receive
  BY <1>6, FilesKept DEF Receive
<1>7. CASE CompareCase
  BY <1>7, FilesKept DEF CompareCase, Abort
<1>8. CASE Summarize
  BY <1>8, FilesKept DEF Summarize
<1>9. CASE CompareReports
  BY <1>9, FilesKept DEF CompareReports
<1>10. CASE Adapter
  BY <1>10, FilesKept
     DEF Adapter, AdapterAnswers, AdapterLoses, AdapterRepeats, AdapterReorders, AdapterRefuses, AdapterFails,
         Printed, Abort
<1>11. CASE UNCHANGED vars
  BY <1>11, FilesKept DEF vars
<1>12. QED
  BY <1>1, <1>2, <1>3, <1>4, <1>5, <1>6, <1>7, <1>8, <1>9, <1>10, <1>11

LEMMA LoadInductive == LoadInv /\ [Next]_vars => LoadInv'
BY LoadTestKeepsLoad, NextFileKeepsLoad, FinishLoadingKeepsLoad, LaterKeepsLoad DEF Next, Runner

-----------------------------------------------------------------------------
(* Running *)

\* An outcome with the identifier of a case is the one that the case should have.
Right(case, outcome, m) ==
  outcome.id = case.identifier =>
    JudgedAs(case.identifier, case.test, outcome, m, VerdictOf(case.test, case.strong_enums, m))

Ran(case, m) == Executed(case.identifier, case.test, case.strong_enums, m)

\* Every case that is loaded is one that is judged rightly.
LEMMA LoadedCases ==
  ASSUME LoadInv, phase \notin {"load", "aborted"}, NEW k \in 1..Len(cases)
  PROVE  /\ CaseRight(cases[k].identifier, cases[k].test, cases[k].strong_enums, mode)
         /\ cases[k].reasons = ReasonsFor(cases[k].test, mode)
         /\ cases[k].identifier \in Identifiers(corpus)
<1>1. /\ corpus \in Corpora /\ mode \in Modes /\ Len(cases) = corpus.total
      /\ FromCorpus(corpus, mode, cases[k])
  BY DEF LoadInv, CasesInv, FilesInv
<1>2. cases[k].identifier \in Identifiers(corpus)
  <2>1. PICK base \in DOMAIN occurrences : \E n \in 1..occurrences[base] :
          cases[k].identifier = Identifier(base, n)
    BY DEF LoadInv, CasesInv
  <2>2. PICK n \in 1..occurrences[base] : cases[k].identifier = Identifier(base, n)
    BY <2>1
  <2>3. base \in BaseNames(corpus) /\ n \in 1..corpus.total
    BY <1>1 DEF LoadInv, CasesInv
  <2>4. QED
    BY <2>2, <2>3 DEF Identifiers
<1>3. PICK f \in DOMAIN corpus.files : \E t \in DOMAIN corpus.files[f].tests :
        /\ cases[k].test = corpus.files[f].tests[t]
        /\ cases[k].strong_enums = StrongEnums(corpus.files[f], cases[k].test)
        /\ cases[k].reasons = ReasonsFor(cases[k].test, mode)
  BY <1>1 DEF FromCorpus
<1>4. QED
  BY <1>1, <1>2, <1>3, CasesAssumption

LEMMA SupportedCases ==
  ASSUME LoadInv, phase \notin {"load", "aborted"}, NEW s \in 1..Len(supported)
  PROVE  /\ supported[s].identifier \in Identifiers(corpus)
         /\ Ran(supported[s], mode).outcome # "raised"
         /\ Ran(supported[s], mode).id = supported[s].identifier
         /\ Right(supported[s], Ran(supported[s], mode), mode)
         /\ RequestOf(supported[s])[1] # "raise" =>
              /\ Received(Answered(RequestOf(supported[s]))).id = supported[s].identifier
              /\ Right(supported[s], Received(Answered(RequestOf(supported[s]))), mode)
<1>1. PICK k \in 1..Len(cases) : supported[s] = cases[k] /\ cases[k].reasons = {}
  BY DEF LoadInv, SupportedInv
<1>2. QED
  BY <1>1, LoadedCases DEF CaseRight, Right, Ran, RequestOf, JudgedAs

\* The outcomes there are belong to the cases in their places, or to none there.
OutcomesInv ==
  /\ phase = "execute" => engine = Python
  /\ phase \in {"request", "adapter"} => engine # Python
  /\ phase = "adapter" => ~Undeliverable
  /\ phase \in {"load", "request", "adapter"} => outcomes = <<>>
  /\ Len(outcomes) \in Nat /\ DOMAIN outcomes = 1..Len(outcomes)
  /\ phase = "execute" =>
       outcomes \in Seq({Ran(case, mode) : case \in Cases(corpus, mode)}) /\ Len(outcomes) <= Len(supported)
  /\ phase \in {"compare", "reported", "done"} => Len(outcomes) = Len(supported)
  /\ phase = "receive" /\ engine = Python => Len(outcomes) = Len(supported)
  /\ phase \in {"execute", "receive", "compare"} =>
       \A i \in 1..Len(outcomes) :
         /\ i <= Len(supported) => Right(supported[i], outcomes[i], mode)
         /\ engine = Python => outcomes[i].id = supported[i].identifier

VerdictIn(results, key, case) ==
  /\ key \in DOMAIN results
  /\ results[key].id = case.identifier
  /\ <<results[key].status, results[key].phase>> = VerdictOf(case.test, case.strong_enums, mode)

\* The cases compared so far have their verdicts.
ComparedInv ==
  /\ phase \in {"load", "request", "adapter", "execute", "receive"} => compared = 0
  /\ phase = "compare" =>
       /\ compared \in 0..Len(supported)
       /\ \A s \in 1..compared : VerdictIn(by_id, supported[s].identifier, supported[s])

ReportInv ==
  phase \in {"reported", "done"} =>
    /\ DOMAIN report.results = 1..Len(cases) /\ Len(report.results) = Len(cases)
    /\ \A k \in 1..Len(cases) : VerdictIn(report.results, k, cases[k])
    /\ report.summary = Summary(report.results)
    /\ report.fullConformance = FullConformance(report.summary)

AbortInv ==
  phase = "aborted" /\ Consistent(corpus) => engine # Python /\ (outcomes = <<>> \/ ~InPlace)

RunInv == OutcomesInv /\ ComparedInv /\ ReportInv /\ AbortInv

\* Nothing to say while loading.
LEMMA LoadingKeepsRun ==
  ASSUME RunInv, UNCHANGED <<setting, phase, outcomes, judging>>, phase = "load"
  PROVE  RunInv'
BY DEF RunInv, OutcomesInv, ComparedInv, ReportInv, AbortInv, judging, setting

LEMMA RefuseFileKeepsRun == LoadInv /\ RunInv /\ RefuseFile => RunInv'
<1> SUFFICES ASSUME LoadInv, RunInv, RefuseFile PROVE RunInv'
  OBVIOUS
<1>1. /\ phase' = "aborted" /\ phase = "load" /\ UNCHANGED <<corpus, engine, outcomes, cases, supported>>
      /\ file <= Len(corpus.files)
      /\ ~corpus.files[file].intact \/ corpus.files[file].count # Len(corpus.files[file].tests)
  BY DEF RefuseFile, Abort, setting, loading, CurrentFile
<1>2. file \in DOMAIN corpus.files
  BY <1>1, CorporaAssumption DEF LoadInv, CasesInv, FilesInv
<1>3. ~Consistent(corpus)'
  BY <1>1, <1>2 DEF Consistent
<1>4. OutcomesInv' /\ ComparedInv' /\ ReportInv'
  BY <1>1 DEF RunInv, OutcomesInv, ComparedInv, ReportInv
<1>5. QED
  BY <1>3, <1>4 DEF RunInv, AbortInv

LEMMA FinishLoadingKeepsRun == LoadInv /\ RunInv /\ FinishLoading => RunInv'
<1> SUFFICES ASSUME LoadInv, RunInv, FinishLoading PROVE RunInv'
  OBVIOUS
<1>1. /\ phase = "load" /\ UNCHANGED <<corpus, engine, mode, outcomes, cases, supported, compared, by_id>>
      /\ phase' = IF Len(cases) # corpus.total THEN "aborted"
                  ELSE IF engine = Python THEN "execute" ELSE "request"
  BY DEF FinishLoading, setting, loading, judging
<1>2. outcomes = <<>> /\ compared = 0 /\ Len(supported) \in Nat
  BY <1>1 DEF RunInv, OutcomesInv, ComparedInv, LoadInv, SupportedInv
<1>3. OutcomesInv'
  BY <1>1, <1>2 DEF OutcomesInv
<1>4. ComparedInv' /\ ReportInv'
  BY <1>1, <1>2 DEF ComparedInv, ReportInv
<1>5. AbortInv'
  BY <1>1 DEF AbortInv, Consistent
<1>6. QED
  BY <1>3, <1>4, <1>5 DEF RunInv

LEMMA ExecuteCaseKeepsRun == LoadInv /\ RunInv /\ ExecuteCase => RunInv'
<1> SUFFICES ASSUME LoadInv, RunInv, ExecuteCase PROVE RunInv'
  OBVIOUS
<1> DEFINE n == Len(outcomes)
           case == supported[n + 1]
           R == {Ran(x, mode) : x \in Cases(corpus, mode)}
<1>1. /\ UNCHANGED <<corpus, engine, mode, cases, supported, compared, by_id>>
      /\ phase = "execute" /\ n < Len(supported)
      /\ IF Ran(case, mode).outcome = "raised" THEN Abort /\ UNCHANGED outcomes
         ELSE outcomes' = Append(outcomes, Ran(case, mode)) /\ UNCHANGED phase
  BY DEF ExecuteCase, Ran, setting, loading, judging
<1>2. /\ n \in Nat /\ outcomes \in Seq(R) /\ engine = Python
      /\ \A i \in 1..n : Right(supported[i], outcomes[i], mode) /\ outcomes[i].id = supported[i].identifier
  BY <1>1 DEF RunInv, OutcomesInv
<1>3. supported \in Seq(Cases(corpus, mode)) /\ n + 1 \in 1..Len(supported)
  BY <1>1, <1>2 DEF LoadInv, SupportedInv
<1>4. /\ Ran(case, mode).outcome # "raised" /\ Ran(case, mode).id = case.identifier
      /\ Right(case, Ran(case, mode), mode) /\ case \in Cases(corpus, mode)
  BY <1>1, <1>3, SupportedCases
<1>5. /\ phase' = "execute" /\ outcomes' \in Seq(R) /\ Len(outcomes') = n + 1
      /\ outcomes'[n + 1] = Ran(case, mode) /\ \A i \in 1..n : outcomes'[i] = outcomes[i]
  BY <1>1, <1>2, <1>4
<1> HIDE DEF R
<1>6. \A i \in 1..(n + 1) :
        Right(supported[i], outcomes'[i], mode) /\ outcomes'[i].id = supported[i].identifier
  BY <1>2, <1>4, <1>5
<1>7. Len(outcomes') = n + 1 /\ n + 1 <= Len(supported) /\ n + 1 \in Nat
  BY <1>2, <1>3, <1>5
<1>8. OutcomesInv'
  BY <1>1, <1>2, <1>5, <1>6, <1>7 DEF OutcomesInv, R
<1>9. ComparedInv' /\ ReportInv' /\ AbortInv'
  BY <1>1, <1>5 DEF RunInv, ComparedInv, ReportInv, AbortInv
<1>10. QED
  BY <1>8, <1>9 DEF RunInv

LEMMA ExecutedAllKeepsRun == LoadInv /\ RunInv /\ ExecutedAll => RunInv'
<1> SUFFICES ASSUME LoadInv, RunInv, ExecutedAll PROVE RunInv'
  OBVIOUS
<1>1. /\ UNCHANGED <<corpus, engine, mode, cases, supported, outcomes, compared, by_id>>
      /\ phase = "execute" /\ phase' = "receive" /\ Len(outcomes) = Len(supported)
  BY DEF ExecutedAll, setting, loading, judging
<1>2. OutcomesInv'
  BY <1>1 DEF RunInv, OutcomesInv
<1>3. ComparedInv' /\ ReportInv' /\ AbortInv'
  BY <1>1 DEF RunInv, ComparedInv, ReportInv, AbortInv
<1>4. QED
  BY <1>2, <1>3 DEF RunInv

LEMMA SendRequestsKeepsRun == LoadInv /\ RunInv /\ SendRequests => RunInv'
<1> SUFFICES ASSUME LoadInv, RunInv, SendRequests PROVE RunInv'
  OBVIOUS
<1>1. /\ UNCHANGED <<corpus, engine, mode, cases, supported, outcomes, compared, by_id>>
      /\ phase = "request" /\ phase' = IF Undeliverable THEN "aborted" ELSE "adapter"
  BY DEF SendRequests, setting, loading, judging
<1>2. Undeliverable' = Undeliverable
  BY <1>1 DEF Undeliverable, Requests, RequestOf
<1>3. OutcomesInv'
  BY <1>1, <1>2 DEF RunInv, OutcomesInv
<1>4. ComparedInv' /\ ReportInv' /\ AbortInv'
  BY <1>1 DEF RunInv, OutcomesInv, ComparedInv, ReportInv, AbortInv
<1>5. QED
  BY <1>3, <1>4 DEF RunInv

\* The answer to the request of a case, at the place of another one, is not the other's.
LEMMA AnswerBelongs ==
  ASSUME LoadInv, phase = "adapter", ~Undeliverable,
         NEW i \in 1..Len(supported), NEW k \in 1..Len(supported)
  PROVE  Right(supported[i], Received(Answers[k]), mode)
<1>1. supported \in Seq(Cases(corpus, mode)) /\ DOMAIN supported = 1..Len(supported)
  BY DEF LoadInv, SupportedInv
<1>2. Answers[k] = Answered(RequestOf(supported[k])) /\ RequestOf(supported[k])[1] # "raise"
  BY <1>1 DEF Answers, Requests, Undeliverable
<1>3. /\ Received(Answers[k]).id = supported[k].identifier
      /\ Right(supported[k], Received(Answers[k]), mode)
  BY <1>2, SupportedCases
<1>4. supported[k].identifier = supported[i].identifier => k = i
  BY DEF LoadInv, SupportedInv
<1>5. QED
  BY <1>3, <1>4 DEF Right

\* Whatever is printed: in every place an answer to some request, or to none.
LEMMA PrintedKeepsRun ==
  ASSUME LoadInv, RunInv, NEW n \in Nat, NEW answers, DOMAIN answers = 1..n, Printed(answers),
         \A i \in 1..n : i <= Len(supported) => Right(supported[i], Received(answers[i]), mode)
  PROVE  RunInv'
<1>1. /\ UNCHANGED <<corpus, engine, mode, cases, supported, compared, by_id>>
      /\ phase = "adapter" /\ phase' = "receive" /\ outcomes' = [i \in 1..n |-> Received(answers[i])]
  BY DEF Printed, setting, loading, judging
<1>2. engine # Python
  BY <1>1 DEF RunInv, OutcomesInv
<1>3. Len(outcomes') = n /\ DOMAIN outcomes' = 1..n /\ \A i \in 1..n : outcomes'[i] = Received(answers[i])
  BY <1>1
<1>4. OutcomesInv'
  BY <1>1, <1>2, <1>3 DEF OutcomesInv
<1>5. ComparedInv' /\ ReportInv' /\ AbortInv'
  BY <1>1 DEF RunInv, ComparedInv, ReportInv, AbortInv
<1>6. QED
  BY <1>4, <1>5 DEF RunInv

LEMMA AdapterKeepsRun == LoadInv /\ RunInv /\ Adapter => RunInv'
<1> SUFFICES ASSUME LoadInv, RunInv, Adapter PROVE RunInv'
  OBVIOUS
<1> DEFINE l == Len(supported)
<1>1. phase = "adapter"
  BY DEF Adapter, AdapterAnswers, AdapterLoses, AdapterRepeats, AdapterReorders, AdapterRefuses, AdapterFails, Printed
<1>2. l \in Nat /\ DOMAIN supported = 1..l /\ DOMAIN Answers = 1..l
  BY DEF LoadInv, SupportedInv, Answers
<1>3. \A i, k \in 1..l : Right(supported[i], Received(Answers[k]), mode)
  BY <1>1, AnswerBelongs DEF RunInv, OutcomesInv
<1> HIDE DEF l
<1>4. CASE AdapterAnswers
  BY <1>2, <1>3, <1>4, PrintedKeepsRun DEF AdapterAnswers, l
<1>5. CASE AdapterLoses
  <2>1. PICK i \in 1..l : Printed([j \in 1 .. l - 1 |-> Answers[IF j < i THEN j ELSE j + 1]])
    BY <1>2, <1>5 DEF AdapterLoses, l
  <2> DEFINE answers == [j \in 1 .. l - 1 |-> Answers[IF j < i THEN j ELSE j + 1]]
  <2>2. l - 1 \in Nat /\ DOMAIN answers = 1..(l - 1)
    BY <1>2
  <2>3. \A j \in 1..(l - 1) : Right(supported[j], Received(answers[j]), mode)
    BY <1>2, <1>3
  <2>4. Printed(answers)
    BY <2>1
  <2> HIDE DEF answers
  <2>5. QED
    BY <2>2, <2>3, <2>4, PrintedKeepsRun
<1>6. CASE AdapterRepeats
  <2>1. PICK i \in 1..l, k \in 1..l : Printed([j \in DOMAIN supported |-> Answers[IF j = i THEN k ELSE j]])
    BY <1>2, <1>6 DEF AdapterRepeats, l
  <2> DEFINE answers == [j \in DOMAIN supported |-> Answers[IF j = i THEN k ELSE j]]
  <2>2. DOMAIN answers = 1..l
    BY <1>2
  <2>3. \A j \in 1..l : Right(supported[j], Received(answers[j]), mode)
    BY <1>2, <1>3
  <2>4. Printed(answers)
    BY <2>1
  <2> HIDE DEF answers
  <2>5. QED
    BY <1>2, <2>2, <2>3, <2>4, PrintedKeepsRun
<1>7. CASE AdapterReorders
  <2>1. PICK i \in 1..l, k \in 1..l :
          Printed([j \in DOMAIN supported |-> Answers[IF j = i THEN k ELSE IF j = k THEN i ELSE j]])
    BY <1>2, <1>7 DEF AdapterReorders, l
  <2> DEFINE answers == [j \in DOMAIN supported |-> Answers[IF j = i THEN k ELSE IF j = k THEN i ELSE j]]
  <2>2. DOMAIN answers = 1..l
    BY <1>2
  <2>3. \A j \in 1..l : Right(supported[j], Received(answers[j]), mode)
    BY <1>2, <1>3
  <2>4. Printed(answers)
    BY <2>1
  <2> HIDE DEF answers
  <2>5. QED
    BY <1>2, <2>2, <2>3, <2>4, PrintedKeepsRun
<1>8. CASE AdapterRefuses
  <2>1. Printed(<<NoOutcome>>)
    BY <1>8 DEF AdapterRefuses
  <2>2. ASSUME NEW i \in 1..1, i <= Len(supported) PROVE Right(supported[i], Received(<<NoOutcome>>[i]), mode)
    <3>1. i = 1 /\ i \in 1..Len(supported) /\ corpus \in Corpora
      BY <1>2, <2>2 DEF l, LoadInv, CasesInv
    <3>2. supported[i].identifier \in Identifiers(corpus)
      BY <1>1, <3>1, SupportedCases
    <3>3. Received(NoOutcome).id # supported[i].identifier
      BY <3>1, <3>2, NoOutcomeAssumption
    <3>4. QED
      BY <3>1, <3>3 DEF Right
  <2>3. DOMAIN <<NoOutcome>> = 1..1 /\ 1 \in Nat
    OBVIOUS
  <2>4. QED
    BY <2>1, <2>2, <2>3, PrintedKeepsRun
<1>9. CASE AdapterFails
  <2>1. /\ UNCHANGED <<engine, mode, corpus, outcomes, supported, cases>> /\ phase' = "aborted"
    BY <1>9 DEF AdapterFails, Abort, setting, loading
  <2>2. outcomes = <<>> /\ engine # Python
    BY <1>1 DEF RunInv, OutcomesInv
  <2>3. QED
    BY <2>1, <2>2 DEF RunInv, OutcomesInv, ComparedInv, ReportInv, AbortInv
<1>10. QED
  BY <1>4, <1>5, <1>6, <1>7, <1>8, <1>9 DEF Adapter

LEMMA TimeoutKeepsRun == RunInv /\ Timeout => RunInv'
<1> SUFFICES ASSUME RunInv, Timeout PROVE RunInv'
  OBVIOUS
<1>1. UNCHANGED <<engine, outcomes>> /\ phase = "adapter" /\ phase' = "aborted"
  BY DEF Timeout, Abort, setting
<1>2. outcomes = <<>> /\ engine # Python
  BY <1>1 DEF RunInv, OutcomesInv
<1>3. QED
  BY <1>1, <1>2 DEF RunInv, OutcomesInv, ComparedInv, ReportInv, AbortInv

LEMMA ReceiveKeepsRun == LoadInv /\ RunInv /\ Receive => RunInv'
<1> SUFFICES ASSUME LoadInv, RunInv, Receive PROVE RunInv'
  OBVIOUS
<1>1. /\ UNCHANGED <<corpus, engine, mode, cases, supported, outcomes, compared, by_id>> /\ phase = "receive"
      /\ phase' = IF Len(outcomes) = Len(supported) THEN "compare" ELSE "aborted"
  BY DEF Receive, setting, loading, judging
<1>2. Len(supported) \in Nat
  BY DEF LoadInv, SupportedInv
<1>3. OutcomesInv'
  BY <1>1 DEF RunInv, OutcomesInv
<1>4. ComparedInv' /\ ReportInv'
  BY <1>1, <1>2 DEF RunInv, ComparedInv, ReportInv
<1>5. AbortInv'
  BY <1>1 DEF RunInv, OutcomesInv, AbortInv, InPlace
<1>6. QED
  BY <1>3, <1>4, <1>5 DEF RunInv

\* A comparison files the verdict of its case and leaves those of the others; it
\* gives up only at an outcome of another case, which only an adapter prints.
LEMMA CompareCaseKeepsRun == LoadInv /\ RunInv /\ CompareCase => RunInv'
<1> SUFFICES ASSUME LoadInv, RunInv, CompareCase PROVE RunInv'
  OBVIOUS
<1> DEFINE n == compared
           case == supported[n + 1]
           outcome == outcomes[n + 1]
           judgement == Judged(case.test, outcome, mode)
           good == Belongs(case, outcome) /\ judgement.status # "raised"
<1>1. /\ UNCHANGED <<corpus, engine, mode, cases, supported, outcomes>> /\ phase = "compare" /\ n < Len(supported)
      /\ good => by_id' = Filed(case.identifier, Result(case, judgement)) /\ compared' = n + 1 /\ phase' = phase
      /\ ~good => phase' = "aborted"
  BY DEF CompareCase, Abort, setting, loading
<1>2. /\ Len(supported) \in Nat /\ n \in 0..Len(supported) /\ n + 1 \in 1..Len(supported)
      /\ Len(outcomes) = Len(supported) /\ DOMAIN outcomes = 1..Len(outcomes)
      /\ Right(case, outcome, mode) /\ (engine = Python => outcome.id = case.identifier)
  BY <1>1 DEF LoadInv, SupportedInv, RunInv, OutcomesInv, ComparedInv
<1> HIDE DEF case, outcome, judgement
<1>3. CASE good
  <2>1. JudgedAs(case.identifier, case.test, outcome, mode, VerdictOf(case.test, case.strong_enums, mode))
    BY <1>2, <1>3 DEF Right, Belongs
  <2>2. VerdictIn(by_id', case.identifier, case)
    BY <1>1, <1>3, <2>1 DEF VerdictIn, Filed, Result, JudgedAs, judgement
  <2>3. ASSUME NEW s \in 1..n PROVE VerdictIn(by_id', supported[s].identifier, supported[s])
    <3>1. VerdictIn(by_id, supported[s].identifier, supported[s])
      BY <1>1 DEF RunInv, ComparedInv
    <3>2. supported[s].identifier # case.identifier
      BY <1>2 DEF LoadInv, SupportedInv, case
    <3>3. QED
      BY <1>1, <1>3, <3>1, <3>2 DEF VerdictIn, Filed
  <2>4. ComparedInv'
    <3>1. n + 1 \in 0..Len(supported)
      BY <1>2
    <3>2. \A s \in 1..(n + 1) : VerdictIn(by_id', supported[s].identifier, supported[s])
      BY <1>2, <2>2, <2>3 DEF case
    <3>3. QED
      BY <1>1, <1>3, <3>1, <3>2 DEF ComparedInv, VerdictIn
  <2>5. OutcomesInv' /\ ReportInv' /\ AbortInv'
    BY <1>1, <1>3 DEF RunInv, OutcomesInv, ReportInv, AbortInv
  <2>6. QED
    BY <2>4, <2>5 DEF RunInv
<1>4. CASE ~good
  <2>1. ~Belongs(case, outcome)
    BY <1>2, <1>4 DEF Right, Belongs, JudgedAs, judgement
  <2>2. ~InPlace /\ engine # Python
    BY <1>2, <2>1 DEF InPlace, Belongs, case, outcome
  <2>3. ~InPlace'
    BY <1>1, <2>2 DEF InPlace
  <2>4. OutcomesInv' /\ ComparedInv' /\ ReportInv'
    BY <1>1, <1>4 DEF RunInv, OutcomesInv, ComparedInv, ReportInv
  <2>5. QED
    BY <1>1, <2>2, <2>3, <2>4 DEF RunInv, AbortInv
<1>5. QED
  BY <1>3, <1>4

\* The result of a case that is not run.
LEMMA UnsupportedResult ==
  ASSUME NEW case, NEW result, result = Unsupported(case)
  PROVE  result.id = case.identifier /\ <<result.status, result.phase>> = <<"unsupported", "">>
<1>1. result.id = case.identifier
  BY Zenon DEF Unsupported
<1>2. result.status = "unsupported"
  BY Zenon DEF Unsupported
<1>3. result.phase = ""
  BY Zenon DEF Unsupported
<1>4. QED
  BY <1>1, <1>2, <1>3, Zenon

LEMMA SummarizeKeepsRun == LoadInv /\ RunInv /\ Summarize => RunInv'
<1> SUFFICES ASSUME LoadInv, RunInv, Summarize PROVE RunInv'
  OBVIOUS
<1>1. /\ UNCHANGED <<corpus, engine, mode, cases, supported, outcomes>> /\ phase = "compare"
      /\ compared = Len(supported) /\ report' = Summarized(Results) /\ phase' = "reported"
  BY DEF Summarize, setting, loading
<1>2. /\ DOMAIN cases = 1..Len(cases) /\ Len(cases) \in Nat
      /\ \A s \in 1..Len(supported) : VerdictIn(by_id, supported[s].identifier, supported[s])
  BY <1>1 DEF LoadInv, CasesInv, RunInv, ComparedInv
<1>3. DOMAIN Results = 1..Len(cases) /\ Len(Results) = Len(cases)
  BY <1>2 DEF Results
<1>4. ASSUME NEW k \in 1..Len(cases) PROVE VerdictIn(Results, k, cases[k])
  <2>1. CASE cases[k].reasons = {}
    <3>1. PICK s \in 1..Len(supported) : supported[s] = cases[k]
      BY <2>1 DEF LoadInv, SupportedInv
    <3>2. Results[k] = by_id[cases[k].identifier]
      BY <1>2, <2>1 DEF Results
    <3>3. QED
      BY <1>2, <1>3, <3>1, <3>2 DEF VerdictIn
  <2>2. CASE cases[k].reasons # {}
    <3>1. Results[k] = Unsupported(cases[k])
      BY <1>2, <2>2 DEF Results
    <3>2. VerdictOf(cases[k].test, cases[k].strong_enums, mode) = <<"unsupported", "">>
      BY <1>1, <2>2, LoadedCases DEF CaseRight
    <3>3. Results[k].id = cases[k].identifier /\ <<Results[k].status, Results[k].phase>> = <<"unsupported", "">>
      BY <3>1, UnsupportedResult, Zenon
    <3>4. k \in DOMAIN Results
      BY <1>3
    <3>5. QED
      BY <3>2, <3>3, <3>4, Zenon DEF VerdictIn
  <2>3. QED
    BY <2>1, <2>2
<1>5. /\ report'.results = Results /\ report'.summary = Summary(Results)
      /\ report'.fullConformance = FullConformance(Summary(Results))
  BY <1>1 DEF Summarized
<1>6. ReportInv'
  <2>1. /\ DOMAIN report'.results = 1..Len(cases) /\ Len(report'.results) = Len(cases)
        /\ \A k \in 1..Len(cases) : VerdictIn(report'.results, k, cases[k])
        /\ report'.summary = Summary(report'.results)
    BY <1>3, <1>4, <1>5
  <2>2. FullConformance(report.summary)' = FullConformance(Summary(Results))
    BY <1>1, <1>5 DEF FullConformance
  <2>3. report'.fullConformance = FullConformance(report.summary)'
    BY <1>5, <2>2
  <2>4. QED
    BY <1>1, <2>1, <2>3 DEF ReportInv, VerdictIn, Summary, Count
<1>7. OutcomesInv' /\ ComparedInv' /\ AbortInv'
  BY <1>1 DEF RunInv, OutcomesInv, ComparedInv, AbortInv
<1>8. QED
  BY <1>6, <1>7 DEF RunInv

LEMMA CompareReportsKeepsRun == RunInv /\ CompareReports => RunInv'
<1> SUFFICES ASSUME RunInv, CompareReports PROVE RunInv'
  OBVIOUS
<1>1. /\ UNCHANGED <<corpus, engine, mode, cases, supported, outcomes, report>>
      /\ phase = "reported" /\ phase' = "done"
  BY DEF CompareReports, setting, loading
<1>2. OutcomesInv' /\ ComparedInv' /\ AbortInv'
  BY <1>1 DEF RunInv, OutcomesInv, ComparedInv, AbortInv
<1>3. ReportInv'
  BY <1>1 DEF RunInv, ReportInv, VerdictIn, FullConformance
<1>4. QED
  BY <1>2, <1>3 DEF RunInv

LEMMA RunInit == Init => RunInv
BY DEF Init, RunInv, OutcomesInv, ComparedInv, ReportInv, AbortInv

LEMMA StutterKeepsRun == RunInv /\ UNCHANGED vars => RunInv'
<1> SUFFICES ASSUME RunInv, UNCHANGED vars PROVE RunInv'
  OBVIOUS
<1>1. UNCHANGED <<corpus, engine, mode, phase, cases, supported, outcomes, compared, by_id, report>>
  BY DEF vars, setting, loading, judging
<1>2. OutcomesInv'
  BY <1>1 DEF RunInv, OutcomesInv, Undeliverable, Requests, RequestOf
<1>3. ComparedInv' /\ ReportInv' /\ AbortInv'
  BY <1>1 DEF RunInv, ComparedInv, ReportInv, AbortInv, VerdictIn, FullConformance, Consistent, InPlace
<1>4. QED
  BY <1>2, <1>3 DEF RunInv

LEMMA RunInductive == LoadInv /\ RunInv /\ [Next]_vars => RunInv'
<1> SUFFICES ASSUME LoadInv, RunInv, [Next]_vars PROVE RunInv'
  OBVIOUS
<1>1. CASE LoadTest
  BY <1>1, LoadingKeepsRun DEF LoadTest
<1>2. CASE NextFile
  BY <1>2, LoadingKeepsRun DEF NextFile
<1>3. CASE RefuseFile \/ FinishLoading \/ ExecuteCase \/ ExecutedAll \/ SendRequests \/ Timeout \/ Receive
  BY <1>3, RefuseFileKeepsRun, FinishLoadingKeepsRun, ExecuteCaseKeepsRun, ExecutedAllKeepsRun,
     SendRequestsKeepsRun, TimeoutKeepsRun, ReceiveKeepsRun
<1>4. CASE CompareCase \/ Summarize \/ CompareReports \/ Adapter \/ UNCHANGED vars
  BY <1>4, CompareCaseKeepsRun, SummarizeKeepsRun, CompareReportsKeepsRun, AdapterKeepsRun, StutterKeepsRun
<1>5. QED
  BY <1>1, <1>2, <1>3, <1>4 DEF Next, Runner

LEMMA RunAlways == Spec => [](LoadInv /\ RunInv)
BY LoadInit, LoadInductive, RunInit, RunInductive, PTL DEF Spec

\* EveryCaseJudged: a report has for every test, in its place, the verdict that
\* the test gives, whatever the adapter did; a run is given up only for a corpus
\* that differs from its manifest, or for an adapter's answer.
THEOREM EveryCaseIsJudged == Spec => []EveryCaseJudged
<1>1. LoadInv /\ RunInv => EveryCaseJudged
  <2> SUFFICES ASSUME LoadInv, RunInv PROVE EveryCaseJudged
    OBVIOUS
  <2>1. ASSUME phase \in {"reported", "done"} PROVE Consistent(corpus)
    <3>1. /\ DOMAIN corpus.files = 1..Len(corpus.files) /\ Len(corpus.files) \in Nat
          /\ file = Len(corpus.files) + 1 /\ Len(cases) = corpus.total
      BY <2>1, CorporaAssumption DEF LoadInv, CasesInv, FilesInv
    <3>2. file - 1 = Len(corpus.files)
      BY <3>1
    <3>3. QED
      BY <3>1, <3>2 DEF LoadInv, FilesInv, Consistent
  <2>2. DOMAIN cases = 1..Len(cases)
    BY DEF LoadInv, CasesInv
  <2>3. phase \in {"reported", "done"} =>
          /\ Len(report.results) = Len(cases)
          /\ \A k \in 1..Len(cases) : VerdictIn(report.results, k, cases[k])
    BY DEF RunInv, ReportInv
  <2>4. QED
    BY <2>1, <2>2, <2>3 DEF EveryCaseJudged, VerdictIn, RunInv, AbortInv
<1>2. QED
  BY RunAlways, <1>1, PTL

-----------------------------------------------------------------------------
(* The exit status *)

\* A count is zero exactly when there is nothing to count.
LEMMA NothingToCount ==
  ASSUME NEW n \in Nat, NEW results, DOMAIN results = 1..n, NEW status \in Statuses
  PROVE  Count(results, "total", status) = 0 <=> \A i \in 1..n : results[i].status # status
<1> DEFINE S == {i \in 1..n : results[i].status = status}
<1>1. Count(results, "total", status) = Cardinality(S)
  BY DEF Count, Statuses
<1>2. IsFiniteSet(1..n)
  BY FS_Interval
<1>3. IsFiniteSet(S)
  BY <1>2, FS_Subset
<1>4. Cardinality(S) = 0 <=> S = {}
  BY <1>3, FS_EmptySet
<1>5. QED
  BY <1>1, <1>4

LEMMA PassedVerdict ==
  ASSUME NEW v, v = <<"passed", "">> PROVE v[1] = "passed"
BY Zenon

\* ExitStatusHonest: 0 in full mode only when every test was run and passed, in
\* evaluation mode only when none that was run failed.
THEOREM ExitStatusIsHonest == Spec => []ExitStatusHonest
<1>1. LoadInv /\ RunInv => ExitStatusHonest
  <2> SUFFICES ASSUME LoadInv, RunInv, phase \in {"reported", "done"} PROVE ExitStatusHonest
    BY DEF ExitStatusHonest
  <2> DEFINE verdict(k) == VerdictOf(cases[k].test, cases[k].strong_enums, mode)
             verdicts == {verdict(k) : k \in DOMAIN cases}
             total == report.summary["total"]
  <2>1. /\ Len(cases) \in Nat /\ DOMAIN cases = 1..Len(cases)
        /\ DOMAIN report.results = 1..Len(cases) /\ Len(report.results) = Len(cases)
        /\ \A k \in 1..Len(cases) : VerdictIn(report.results, k, cases[k])
        /\ report.summary = Summary(report.results)
        /\ report.fullConformance = FullConformance(report.summary)
    BY DEF LoadInv, CasesInv, RunInv, ReportInv
  <2>2. \A k \in 1..Len(cases) :
          /\ verdict(k)[1] \in Statuses /\ (verdict(k)[1] = "passed" => verdict(k) = <<"passed", "">>)
          /\ report.results[k].status = verdict(k)[1]
    <3> TAKE k \in 1..Len(cases)
    <3>1. CaseRight(cases[k].identifier, cases[k].test, cases[k].strong_enums, mode)
      BY LoadedCases
    <3>2. <<report.results[k].status, report.results[k].phase>> = verdict(k)
      BY <2>1 DEF VerdictIn
    <3>3. /\ verdict(k)[1] \in Statuses
          /\ verdict(k)[1] = "passed" => verdict(k) = <<"passed", "">>
      BY <3>1, Zenon DEF CaseRight
    <3>4. report.results[k].status = verdict(k)[1]
      BY <3>2
    <3>5. QED
      BY <3>3, <3>4
  <2>3. \A status \in Statuses : total[status] = Count(report.results, "total", status)
    BY <2>1 DEF Summary
  <2>4. \A status \in Statuses : total[status] = 0 <=> \A k \in 1..Len(cases) : verdict(k)[1] # status
    <3> TAKE status \in Statuses
    <3>1. Count(report.results, "total", status) = 0 <=> \A k \in 1..Len(cases) : report.results[k].status # status
      BY <2>1, NothingToCount
    <3> HIDE DEF verdict
    <3>2. QED
      BY <2>2, <2>3, <3>1
  <2> HIDE DEF total, verdict
  <2>5. total["failed"] = 0 <=> \A v \in verdicts : v[1] # "failed"
    BY <2>1, <2>4 DEF Statuses
  <2>6. total["failed"] = 0 /\ total["unsupported"] = 0 <=> verdicts \subseteq {<<"passed", "">>}
    <3>1. \A k \in 1..Len(cases) :
            verdict(k)[1] # "failed" /\ verdict(k)[1] # "unsupported" <=> verdict(k) = <<"passed", "">>
      <4> TAKE k \in 1..Len(cases)
      <4>1. verdict(k)[1] \in {"passed", "failed", "unsupported"}
        BY <2>2 DEF Statuses
      <4>2. verdict(k)[1] # "failed" /\ verdict(k)[1] # "unsupported" <=> verdict(k)[1] = "passed"
        BY <4>1
      <4>3. verdict(k) = <<"passed", "">> => verdict(k)[1] = "passed"
        BY PassedVerdict, Zenon
      <4>4. verdict(k)[1] = "passed" => verdict(k) = <<"passed", "">>
        BY <2>2
      <4>5. QED
        BY <4>2, <4>3, <4>4, Zenon
    <3>2. \A k \in 1..Len(cases) : verdict(k) \in verdicts
      BY <2>1
    <3>3. total["failed"] = 0 /\ total["unsupported"] = 0 <=>
            \A k \in 1..Len(cases) : verdict(k)[1] # "failed" /\ verdict(k)[1] # "unsupported"
      BY <2>4 DEF Statuses
    <3>4. verdicts \subseteq {<<"passed", "">>} <=> \A k \in 1..Len(cases) : verdict(k) = <<"passed", "">>
      BY <2>1, <3>2
    <3>5. QED
      BY <3>1, <3>3, <3>4
  <2>7. report.fullConformance <=> mode = "full" /\ total["failed"] = 0 /\ total["unsupported"] = 0
    BY <2>1 DEF FullConformance, total
  <2>8. ExitStatus = IF mode = "full" THEN IF report.fullConformance THEN 0 ELSE 1
                     ELSE IF total["failed"] # 0 THEN 1 ELSE 0
    BY DEF ExitStatus, total
  <2>9. verdicts = {VerdictOf(cases[i].test, cases[i].strong_enums, mode) : i \in DOMAIN cases}
    BY DEF verdict
  <2> HIDE DEF verdicts
  <2>10. mode = "full" => (ExitStatus = 0 <=> verdicts \subseteq {<<"passed", "">>})
    <3> DEFINE passed == verdicts \subseteq {<<"passed", "">>}
               full == report.fullConformance
    <3>1. mode = "full" => (full <=> passed)
      BY <2>6, <2>7
    <3>2. mode = "full" => (full => ExitStatus = 0) /\ (~full => ExitStatus = 1)
      BY <2>8
    <3> HIDE DEF passed, full
    <3>3. mode = "full" => (ExitStatus = 0 <=> passed)
      BY <3>1, <3>2
    <3>4. QED
      BY <3>3 DEF passed
  <2>11. mode = "evaluation" =>
           (ExitStatus = 0 <=> \A v \in verdicts : v[1] # "failed") /\ ~report.fullConformance
    BY <2>5, <2>7, <2>8
  <2>12. QED
    BY <2>9, <2>10, <2>11 DEF ExitStatusHonest
<1>2. QED
  BY RunAlways, <1>1, PTL

-----------------------------------------------------------------------------
(* The comparison of reports *)

\* What was found is what differs.
ProblemsInv == phase = "done" => problems = differences(report, baseline)

LEMMA ProblemsInductive == ProblemsInv /\ [Next]_vars => ProblemsInv'
<1> SUFFICES ASSUME ProblemsInv, [Next]_vars PROVE ProblemsInv'
  OBVIOUS
<1>1. CASE CompareReports
  <2>1. problems' = differences(report, baseline') /\ report' = report
    BY <1>1 DEF CompareReports
  <2>2. QED
    BY <2>1 DEF ProblemsInv
<1>2. CASE UNCHANGED vars
  BY <1>2 DEF vars, audit, ProblemsInv
<1>3. CASE LoadTest \/ NextFile \/ RefuseFile \/ FinishLoading \/ ExecuteCase \/ ExecutedAll
           \/ SendRequests \/ Timeout \/ Receive \/ CompareCase \/ Summarize \/ Adapter
  <2>1. phase' # "done"
    BY <1>3
       DEF LoadTest, NextFile, RefuseFile, FinishLoading, ExecuteCase, ExecutedAll, SendRequests, Timeout,
           Receive, CompareCase, Summarize, Adapter, AdapterAnswers, AdapterLoses, AdapterRepeats,
           AdapterReorders, AdapterRefuses, AdapterFails, Printed, Abort
  <2>2. QED
    BY <2>1 DEF ProblemsInv
<1>4. QED
  BY <1>1, <1>2, <1>3 DEF Next, Runner

\* ChangesNoticed: the comparison with a baseline finds nothing exactly when it
\* has the same results and counts.
THEOREM ChangesAreNoticed == Spec => []ChangesNoticed
<1>1. Init => ProblemsInv
  BY DEF Init, ProblemsInv
<1>2. ProblemsInv => ChangesNoticed
  <2> SUFFICES ASSUME ProblemsInv, phase = "done", Identified(baseline)
               PROVE  problems = {} <=>
                        /\ \A key \in ComparedKeys : report[key] = baseline[key]
                        /\ {report.results[i] : i \in DOMAIN report.results}
                           = {baseline.results[i] : i \in DOMAIN baseline.results}
    BY DEF ChangesNoticed
  <2> DEFINE R == report.results
             B == baseline.results
             found == {<<"key", key>> : key \in {k \in ComparedKeys : report[k] # baseline[k]}}
             new == {<<"not in baseline", id>> : id \in Ids(report) \ Ids(baseline)}
             other == {<<"differs", id>> : id \in Changed(report, baseline)}
             missing == {<<"missing", id>> : id \in Ids(baseline) \ Ids(report)}
             same == {R[i] : i \in DOMAIN R} = {B[i] : i \in DOMAIN B}
  <2>1. problems = {} <=> found = {} /\ new = {} /\ other = {} /\ missing = {}
    BY DEF ProblemsInv, differences
  <2>2. found = {} <=> \A key \in ComparedKeys : report[key] = baseline[key]
    OBVIOUS
  <2>3. ASSUME NEW j \in DOMAIN B PROVE ResultOf(baseline, B[j].id) = B[j]
    <3> DEFINE Last(i) == /\ B[i].id = B[j].id
                          /\ \A k \in DOMAIN B : B[k].id = B[j].id => k <= i
    <3>1. \A i \in DOMAIN B : B[i].id = B[j].id <=> i = j
      BY DEF Identified
    <3>2. j \in Nat
      BY DEF Identified
    <3>3. \A i \in DOMAIN B : Last(i) <=> i = j
      BY <3>1, <3>2
    <3>4. ResultOf(baseline, B[j].id) = B[CHOOSE i \in DOMAIN B : Last(i)]
      BY DEF ResultOf
    <3> HIDE DEF Last
    <3>5. QED
      BY <3>3, <3>4
  <2>4. /\ new = {} <=> \A i \in DOMAIN R : \E j \in DOMAIN B : B[j].id = R[i].id
        /\ missing = {} <=> \A j \in DOMAIN B : \E i \in DOMAIN R : R[i].id = B[j].id
        /\ other = {} <=> \A i \in DOMAIN R : R[i].id \in Ids(baseline) => R[i] = ResultOf(baseline, R[i].id)
    BY DEF Ids, Changed
  <2>5. new = {} /\ other = {} /\ missing = {} <=> same
    <3>1. ASSUME same PROVE new = {} /\ other = {} /\ missing = {}
      <4>1. \A i \in DOMAIN R : \E j \in DOMAIN B : B[j] = R[i]
        BY <3>1
      <4>2. \A j \in DOMAIN B : \E i \in DOMAIN R : R[i] = B[j]
        BY <3>1
      <4> HIDE DEF R, B, new, other, missing, same
      <4>3. QED
        BY <2>3, <2>4, <4>1, <4>2
    <3>2. ASSUME new = {}, other = {}, missing = {} PROVE same
      <4>1. ASSUME NEW i \in DOMAIN R PROVE \E j \in DOMAIN B : B[j] = R[i]
        <5>1. PICK j \in DOMAIN B : B[j].id = R[i].id
          BY <2>4, <3>2
        <5>2. R[i].id \in Ids(baseline)
          BY <5>1 DEF Ids
        <5> HIDE DEF R, B, new, other, missing, same
        <5>3. R[i] = ResultOf(baseline, R[i].id)
          BY <2>4, <3>2, <5>2
        <5>4. QED
          BY <2>3, <5>1, <5>3
      <4>2. ASSUME NEW j \in DOMAIN B PROVE \E i \in DOMAIN R : R[i] = B[j]
        <5>1. PICK i \in DOMAIN R : R[i].id = B[j].id
          BY <2>4, <3>2
        <5>2. R[i].id \in Ids(baseline)
          BY <5>1 DEF Ids
        <5> HIDE DEF R, B, new, other, missing, same
        <5>3. R[i] = ResultOf(baseline, R[i].id)
          BY <2>4, <3>2, <5>2
        <5>4. QED
          BY <2>3, <5>1, <5>3
      <4> HIDE DEF R, B, new, other, missing
      <4>3. QED
        BY <4>1, <4>2
    <3> HIDE DEF new, other, missing, same
    <3>3. QED
      BY <3>1, <3>2
  <2>6. QED
    BY <2>1, <2>2, <2>5
<1>3. QED
  BY <1>1, <1>2, ProblemsInductive, PTL DEF Spec
=============================================================================
