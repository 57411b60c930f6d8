---------------------------- MODULE ConformanceRun ----------------------------
(***************************************************************************)
(* One run of the conformance runner: it loads the corpus, runs the        *)
(* supported cases in Python or sends them all to an adapter, compares the *)
(* outcomes with the cases, reports, and the report is compared with a     *)
(* baseline.  What is done with a single case is given by operators.       *)
(*                                                                         *)
(* An adapter is a process: it may lose, repeat or reorder outcomes, fail, *)
(* or never answer.                                                        *)
(***************************************************************************)
EXTENDS Integers, Sequences, FiniteSets

CONSTANTS
  Corpora,             \* corpora: manifests with the tests of their files
  Engines, Modes,
  ReasonsFor(_, _),    \* why a test is not run in a mode
  Executed(_, _, _, _),    \* the outcome of a case in Python: id, test, strong enums, mode
  Requested(_, _, _, _),   \* what is sent to an adapter for it, or an exception
  Answered(_),         \* the outcome that the adapter answers to it
  Received(_),         \* the runner's reading of an outcome
  Judged(_, _, _),     \* the comparison of a test and an outcome in a mode
  VerdictOf(_, _, _),  \* what the test itself says of it: test, strong enums, mode
  NoOutcome,           \* the adapter's answer to what it cannot read
  Baselines(_)         \* baselines that a report is compared with

Python == "python"
Statuses == {"passed", "failed", "unsupported"}

BaseName(f, test) == <<f.name, test.section, test.name>>

\* The second and later tests of a name get a number: name#2.
Identifier(base, n) ==
  IF n = 1 THEN base ELSE <<base[1], base[2], Append(base[3], n)>>

StrongEnums(f, test) ==
  f.name = "enums" /\ test.section \in {"strong_proto2", "strong_proto3"}

BaseNames(c) ==
  UNION {{BaseName(c.files[f], c.files[f].tests[t]) : t \in DOMAIN c.files[f].tests} : f \in DOMAIN c.files}

Identifiers(c) == {Identifier(base, n) : base \in BaseNames(c), n \in 1..c.total}

\* The corpora are sequences of files with sequences of tests, and no test has
\* the name of another followed by a number.
ASSUME CorporaAssumption ==
  \A c \in Corpora :
    /\ c.total \in Nat
    /\ Len(c.files) \in Nat /\ DOMAIN c.files = 1..Len(c.files)
    /\ \A f \in DOMAIN c.files :
         Len(c.files[f].tests) \in Nat /\ DOMAIN c.files[f].tests = 1..Len(c.files[f].tests)
    /\ \A base \in BaseNames(c) : base[3] \in Seq(STRING)
    /\ \A base, other \in BaseNames(c) :
         base[1] = other[1] /\ base[2] = other[2] /\ base[3] # <<>> =>
           SubSeq(base[3], 1, Len(base[3]) - 1) # other[3]

\* A single case: a package's outcome for it, however it was obtained, is the
\* case's own and gets the verdict that the test itself gives.
JudgedAs(id, test, outcome, in_mode, verdict) ==
  LET judgement == Judged(test, outcome, in_mode)
  IN  /\ outcome.id = id
      /\ judgement.status # "raised"
      /\ <<judgement.status, judgement.phase>> = verdict

CaseRight(id, test, strong, in_mode) ==
  LET verdict == VerdictOf(test, strong, in_mode)
      executed == Executed(id, test, strong, in_mode)
      request == Requested(id, test, strong, in_mode)
  IN  /\ verdict[1] \in Statuses
      /\ verdict[1] = "passed" => verdict = <<"passed", "">>
      /\ IF ReasonsFor(test, in_mode) # {} THEN verdict = <<"unsupported", "">>
         ELSE /\ executed.outcome # "raised" /\ JudgedAs(id, test, executed, in_mode, verdict)
              /\ request[1] # "raise" => JudgedAs(id, test, Received(Answered(request)), in_mode, verdict)

\* The codecs, packages and comparisons are right about every single case of the
\* corpora; what a run makes of many of them is the subject of this module.
ASSUME CasesAssumption ==
  \A c \in Corpora, in_mode \in Modes :
    \A f \in DOMAIN c.files : \A t \in DOMAIN c.files[f].tests : \A id \in Identifiers(c) :
      LET test == c.files[f].tests[t]
      IN  CaseRight(id, test, StrongEnums(c.files[f], test), in_mode)

\* What an adapter answers to an input it cannot read belongs to no case.
ASSUME NoOutcomeAssumption ==
  \A c \in Corpora : Received(NoOutcome).id \notin Identifiers(c)

VARIABLES
  corpus, engine, mode,    \* what the run is about
  phase,
  file, seen,              \* the file being loaded, the tests found in it so far
  occurrences,             \* how often each name occurred
  cases,                   \* the cases, in the order of the corpus
  supported,               \* those of them that are run
  outcomes,                \* their outcomes
  compared,                \* how many of them are compared
  by_id,                   \* the comparisons made, by the identifiers of the cases
  report,
  baseline, problems       \* the comparison of reports

setting == <<corpus, engine, mode>>
loading == <<file, seen, occurrences, cases, supported>>
judging == <<compared, by_id>>
audit == <<baseline, problems>>
vars == <<setting, phase, loading, outcomes, judging, report, audit>>

NoReport == [mode |-> "none"]

-----------------------------------------------------------------------------
(* load_cases *)

Init ==
  /\ corpus \in Corpora /\ engine \in Engines /\ mode \in Modes
  /\ phase = "load"
  /\ file = 1 /\ seen = 0
  /\ occurrences = <<>>
  /\ cases = <<>> /\ supported = <<>> /\ outcomes = <<>>
  /\ compared = 0 /\ by_id = <<>>
  /\ report = NoReport /\ baseline = NoReport /\ problems = {}

CurrentFile == corpus.files[file]

Occurrence(base) == 1 + IF base \in DOMAIN occurrences THEN occurrences[base] ELSE 0

Counted(base) ==
  [b \in DOMAIN occurrences \cup {base} |-> IF b = base THEN Occurrence(b) ELSE occurrences[b]]

Loaded(test) ==
  LET base == BaseName(CurrentFile, test)
  IN  [identifier |-> Identifier(base, Occurrence(base)),
       kind |-> CurrentFile.kind, test |-> test, reasons |-> ReasonsFor(test, mode),
       strong_enums |-> StrongEnums(CurrentFile, test)]

Abort == phase' = "aborted"

Selected(case) == IF case.reasons = {} THEN Append(supported, case) ELSE supported

LoadTest ==
  /\ phase = "load" /\ file <= Len(corpus.files)
  /\ CurrentFile.intact /\ seen < Len(CurrentFile.tests)
  /\ \E case \in {Loaded(CurrentFile.tests[seen + 1])} :
       /\ cases' = Append(cases, case)
       /\ supported' = Selected(case)
       /\ occurrences' = Counted(BaseName(CurrentFile, case.test))
  /\ seen' = seen + 1
  /\ UNCHANGED <<setting, phase, file, outcomes, judging, report, audit>>

\* The file has the tests that the manifest says.
NextFile ==
  /\ phase = "load" /\ file <= Len(corpus.files)
  /\ CurrentFile.intact /\ seen = Len(CurrentFile.tests) /\ seen = CurrentFile.count
  /\ file' = file + 1 /\ seen' = 0
  /\ UNCHANGED <<setting, phase, occurrences, cases, supported, outcomes, judging, report, audit>>

\* A checksum or a number of tests differs from the manifest's.
RefuseFile ==
  /\ phase = "load" /\ file <= Len(corpus.files)
  /\ ~CurrentFile.intact \/ (seen = Len(CurrentFile.tests) /\ seen # CurrentFile.count)
  /\ Abort
  /\ UNCHANGED <<setting, loading, outcomes, judging, report, audit>>

FinishLoading ==
  /\ phase = "load" /\ file > Len(corpus.files)
  /\ phase' = IF Len(cases) # corpus.total THEN "aborted"
              ELSE IF engine = Python THEN "execute" ELSE "request"
  /\ UNCHANGED <<setting, loading, outcomes, judging, report, audit>>

-----------------------------------------------------------------------------
(* Execution *)

\* execute_python on the next case; what it does not catch ends the run.
ExecuteCase ==
  /\ phase = "execute" /\ Len(outcomes) < Len(supported)
  /\ \E case \in {supported[Len(outcomes) + 1]} :
       \E outcome \in {Executed(case.identifier, case.test, case.strong_enums, mode)} :
         IF outcome.outcome = "raised" THEN Abort /\ UNCHANGED outcomes
         ELSE outcomes' = Append(outcomes, outcome) /\ UNCHANGED phase
  /\ UNCHANGED <<setting, loading, judging, report, audit>>

ExecutedAll ==
  /\ phase = "execute" /\ Len(outcomes) = Len(supported)
  /\ phase' = "receive"
  /\ UNCHANGED <<setting, loading, outcomes, judging, report, audit>>

RequestOf(case) == Requested(case.identifier, case.test, case.strong_enums, mode)

Requests == [i \in DOMAIN supported |-> RequestOf(supported[i])]

Undeliverable == \E i \in DOMAIN supported : Requests[i][1] = "raise"

SendRequests ==
  /\ phase = "request"
  /\ phase' = IF Undeliverable THEN "aborted" ELSE "adapter"
  /\ UNCHANGED <<setting, loading, outcomes, judging, report, audit>>

Answers == [i \in DOMAIN supported |-> Answered(Requests[i])]

\* The runner reads what the adapter printed.
Printed(answers) ==
  /\ phase = "adapter"
  /\ outcomes' = [i \in DOMAIN answers |-> Received(answers[i])]
  /\ phase' = "receive"
  /\ UNCHANGED <<setting, loading, judging, report, audit>>

AdapterAnswers == Printed(Answers)

AdapterLoses ==
  \E i \in DOMAIN supported :
    Printed([j \in 1 .. Len(supported) - 1 |-> Answers[IF j < i THEN j ELSE j + 1]])

AdapterRepeats ==
  \E i, k \in DOMAIN supported :
    i # k /\ Printed([j \in DOMAIN supported |-> Answers[IF j = i THEN k ELSE j]])

AdapterReorders ==
  \E i, k \in DOMAIN supported :
    i < k /\ Printed([j \in DOMAIN supported |->
                        Answers[IF j = i THEN k ELSE IF j = k THEN i ELSE j]])

\* The answer to an input that is not an array of requests.
AdapterRefuses == Printed(<<NoOutcome>>)

\* A nonzero exit status, or output that is not JSON.
AdapterFails ==
  /\ phase = "adapter" /\ Abort
  /\ UNCHANGED <<setting, loading, outcomes, judging, report, audit>>

\* Faulty: the runner waits for the adapter as long as it takes.
Waits == phase = "adapter" /\ UNCHANGED vars

\* subprocess.run stops the adapter after 120 seconds.
Timeout ==
  /\ phase = "adapter" /\ Abort
  /\ UNCHANGED <<setting, loading, outcomes, judging, report, audit>>

Receive ==
  /\ phase = "receive"
  /\ phase' = IF Len(outcomes) = Len(supported) THEN "compare" ELSE "aborted"
  /\ UNCHANGED <<setting, loading, outcomes, judging, report, audit>>

-----------------------------------------------------------------------------
(* Comparison *)

Result(case, judgement) ==
  [id |-> case.identifier, kind |-> case.kind, strongEnums |-> case.strong_enums,
   status |-> judgement.status, reasons |-> judgement.reasons,
   phase |-> judgement.phase, checkedType |-> judgement.checkedType]

Unsupported(case) ==
  [id |-> case.identifier, kind |-> case.kind, strongEnums |-> FALSE,
   status |-> "unsupported", reasons |-> case.reasons, phase |-> "", checkedType |-> <<>>]

\* by_id[id] = result
Filed(id, result) == [i \in DOMAIN by_id \cup {id} |-> IF i = id THEN result ELSE by_id[i]]

\* Faulty: the outcomes are taken as they come.
AnyOutcome(case, outcome) == TRUE

Belongs(case, outcome) == outcome.id = case.identifier

CompareCase ==
  /\ phase = "compare" /\ compared < Len(supported)
  /\ LET case == supported[compared + 1]
         outcome == outcomes[compared + 1]
     IN  \E judgement \in {Judged(case.test, outcome, mode)} :
           IF Belongs(case, outcome) /\ judgement.status # "raised"
           THEN /\ by_id' = Filed(case.identifier, Result(case, judgement))
                /\ compared' = compared + 1 /\ UNCHANGED phase
           ELSE Abort /\ UNCHANGED judging
  /\ UNCHANGED <<setting, loading, outcomes, report, audit>>

Results ==
  [i \in DOMAIN cases |->
     IF cases[i].reasons = {} THEN by_id[cases[i].identifier] ELSE Unsupported(cases[i])]

-----------------------------------------------------------------------------
(* The report *)

Count(results, name, status) ==
  Cardinality({i \in DOMAIN results :
                 /\ name = "total" \/ results[i].kind = name
                 /\ status = "total" \/ results[i].status = status})

Summary(results) ==
  [name \in {"total", "core", "extension"} |->
     [status \in Statuses \cup {"total"} |-> Count(results, name, status)]]

\* Checks that the evaluation mode leaves out.
OmittedChecks ==
  IF mode = "evaluation"
  THEN Cardinality({i \in DOMAIN cases :
                      /\ cases[i].reasons = {}
                      /\ ~cases[i].test.disableCheck \/ cases[i].test.typedResult # <<>>})
  ELSE 0

Gaps(results) ==
  LET reasons == UNION {results[i].reasons : i \in DOMAIN results}
  IN  [r \in reasons |-> Cardinality({i \in DOMAIN results : r \in results[i].reasons})]

\* Faulty: unsupported cases do not count.
NothingFailed(summary) == mode = "full" /\ summary["total"]["failed"] = 0

FullConformance(summary) ==
  mode = "full" /\ summary["total"]["failed"] = 0 /\ summary["total"]["unsupported"] = 0

Summarized(results) ==
  LET summary == Summary(results)
  IN  [mode |-> mode, summary |-> summary,
       successfullyChecked |-> Cardinality({i \in DOMAIN results : results[i].checkedType # <<>>}),
       omittedChecks |-> OmittedChecks,
       fullConformance |-> FullConformance(summary),
       sourceGaps |-> Gaps(results), results |-> results]

Summarize ==
  /\ phase = "compare" /\ compared = Len(supported)
  /\ report' = Summarized(Results)
  /\ phase' = "reported"
  /\ UNCHANGED <<setting, loading, outcomes, judging, audit>>

\* What main returns for the report.
ExitStatus ==
  IF mode = "full" THEN IF report.fullConformance THEN 0 ELSE 1
  ELSE IF report.summary["total"]["failed"] # 0 THEN 1 ELSE 0

-----------------------------------------------------------------------------
(* compare_reports *)

ComparedKeys == {"summary", "successfullyChecked", "mode", "fullConformance"}

Ids(r) == {r.results[i].id : i \in DOMAIN r.results}

\* The last result of an identifier.
ResultOf(r, id) ==
  r.results[CHOOSE i \in DOMAIN r.results :
              /\ r.results[i].id = id
              /\ \A j \in DOMAIN r.results : r.results[j].id = id => j <= i]

Changed(actual, expected) ==
  {actual.results[i].id :
     i \in {j \in DOMAIN actual.results :
             /\ actual.results[j].id \in Ids(expected)
             /\ actual.results[j] # ResultOf(expected, actual.results[j].id)}}

\* Faulty: neither counts nor the cases that only the baseline has are looked at.
DifferencesOfActual(actual, expected) ==
  {<<"key", key>> : key \in {k \in ComparedKeys \ {"summary"} : actual[k] # expected[k]}}
    \cup {<<"not in baseline", id>> : id \in Ids(actual) \ Ids(expected)}
    \cup {<<"differs", id>> : id \in Changed(actual, expected)}

differences(actual, expected) ==
  {<<"key", key>> : key \in {k \in ComparedKeys : actual[k] # expected[k]}}
    \cup {<<"not in baseline", id>> : id \in Ids(actual) \ Ids(expected)}
    \cup {<<"differs", id>> : id \in Changed(actual, expected)}
    \cup {<<"missing", id>> : id \in Ids(expected) \ Ids(actual)}

CompareReports ==
  /\ phase = "reported"
  /\ \E b \in Baselines(report) :
       baseline' = b /\ problems' = differences(report, b)
  /\ phase' = "done"
  /\ UNCHANGED <<setting, loading, outcomes, judging, report>>

-----------------------------------------------------------------------------
(* Specification *)

Runner ==
  \/ LoadTest \/ NextFile \/ RefuseFile \/ FinishLoading
  \/ ExecuteCase \/ ExecutedAll \/ SendRequests \/ Timeout \/ Receive
  \/ CompareCase \/ Summarize \/ CompareReports

Adapter ==
  \/ AdapterAnswers \/ AdapterLoses \/ AdapterRepeats \/ AdapterReorders
  \/ AdapterRefuses \/ AdapterFails

Next == Runner \/ Adapter

\* The runner goes on; nothing is assumed of the adapter.
Spec == Init /\ [][Next]_vars /\ WF_vars(Runner)

-----------------------------------------------------------------------------
(* Properties *)

Consistent(c) ==
  /\ \A i \in DOMAIN c.files : c.files[i].intact /\ c.files[i].count = Len(c.files[i].tests)
  /\ c.total = Len(cases)

\* What the adapter printed has an outcome for every request, in its place.
InPlace ==
  /\ Len(outcomes) = Len(supported)
  /\ \A i \in DOMAIN outcomes : outcomes[i].id = supported[i].identifier

\* A report has, for every test of the corpus and in its place, the verdict that
\* the test itself gives, whichever package ran it, however values travelled and
\* whatever outcomes the adapter lost, repeated or put in another order; a run
\* is given up only for a corpus that differs from its manifest, or for an
\* adapter that prints nothing or not what was asked.
EveryCaseJudged ==
  /\ phase \in {"reported", "done"} =>
       /\ Consistent(corpus)
       /\ Len(report.results) = Len(cases)
       /\ \A i \in DOMAIN cases :
            LET case == cases[i]
                result == report.results[i]
            IN  /\ result.id = case.identifier
                /\ <<result.status, result.phase>> = VerdictOf(case.test, case.strong_enums, mode)
  /\ phase = "aborted" /\ Consistent(corpus) => engine # Python /\ (outcomes = <<>> \/ ~InPlace)

\* The exit status is 0 in full mode only when every test of the corpus was run
\* and passed, and in evaluation mode only when none that was run failed; a
\* report of the evaluation mode never claims full conformance.
ExitStatusHonest ==
  phase \in {"reported", "done"} =>
    LET verdicts == {VerdictOf(cases[i].test, cases[i].strong_enums, mode) : i \in DOMAIN cases}
    IN  /\ mode = "full" => (ExitStatus = 0 <=> verdicts \subseteq {<<"passed", "">>})
        /\ mode = "evaluation" =>
             /\ ExitStatus = 0 <=> \A v \in verdicts : v[1] # "failed"
             /\ ~report.fullConformance

\* A report lists every case once.
Identified(r) ==
  /\ DOMAIN r.results \subseteq Nat
  /\ \A i, j \in DOMAIN r.results : r.results[i].id = r.results[j].id => i = j

\* The comparison with a baseline that has every case once finds nothing exactly
\* when the baseline has the same results of the same cases, in whatever order,
\* and the same counts.
ChangesNoticed ==
  phase = "done" /\ Identified(baseline) =>
    (problems = {} <=>
       /\ \A key \in ComparedKeys : report[key] = baseline[key]
       /\ {report.results[i] : i \in DOMAIN report.results} = {baseline.results[i] : i \in DOMAIN baseline.results})

\* A run ends, whatever the adapter does: it is stopped when it does not answer.
RunEnds == <>(phase \in {"done", "aborted"})
=============================================================================
