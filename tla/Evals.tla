------------------------------- MODULE Evals --------------------------------
(***************************************************************************)
(* Scoring of model attempts against a dataset (evals.ts) and the packets   *)
(* a failing attempt is answered with (repair-loop.ts).                     *)
(*                                                                          *)
(* What the compiler makes of a query or of raw text is an Outcome: the     *)
(* fragments of the text it renders, whether the plan may execute, and the  *)
(* sets of diagnostic codes and of repair kinds (the code removes           *)
(* duplicates from both, evals.ts:215 and 240).  A report is a function     *)
(* from the tasks of a dataset to their results.  Rates and scores are in   *)
(* ten-thousandths, the four decimals that ratio and rounded keep.          *)
(***************************************************************************)
EXTENDS Integers, FiniteSets, Sequences

CONSTANTS
    Tasks,                \* ids of the tasks of the dataset, all different
    Expected,             \* Expected[t]: the expectations task t states
    Fragments,            \* pieces of text an expectation may ask for
    Codes,                \* diagnostic codes
    RepairKinds,          \* kinds of repair
    RawCypherCanExecute,  \* EvalOptions.rawCypherCanExecute
    None                  \* a field that is not there

\* canExecute holds the expected value, and is empty when none is stated.
Expectation == [contains: SUBSET Fragments, codes: SUBSET Codes,
                repairs: SUBSET RepairKinds, canExecute: {{}, {TRUE}, {FALSE}}]

Outcome == [cypher: SUBSET Fragments, canExecute: BOOLEAN,
            diagnostics: SUBSET Codes, repairs: SUBSET RepairKinds]

Attempt == [taskId: Tasks \cup {None}, timeout: BOOLEAN, noCypher: BOOLEAN,
            query: Outcome \cup {None}, rawCypher: Outcome \cup {None}]

ASSUME EvalsAssumption ==
    /\ IsFiniteSet(Tasks) /\ IsFiniteSet(Fragments)
    /\ IsFiniteSet(Codes) /\ IsFiniteSet(RepairKinds)
    /\ Expected \in [Tasks -> Expectation]
    /\ RawCypherCanExecute \in BOOLEAN
    /\ {"missing-attempt", "empty-attempt", "timeout", "no-cypher-output"}
          \subseteq Codes
    /\ None \notin Outcome /\ None \notin Tasks

-----------------------------------------------------------------------------
(* One task                                                                 *)

Check == [kind: {"cypher-contains"}, expected: Fragments, passed: BOOLEAN]
     \cup [kind: {"diagnostic-code"}, expected: Codes, passed: BOOLEAN]
     \cup [kind: {"repair-kind"}, expected: RepairKinds, passed: BOOLEAN]
     \cup [kind: {"can-execute"}, expected: BOOLEAN, passed: BOOLEAN]

Kinds == {"ir", "raw", "no-cypher", "timeout", "missing"}

Result == [kind: Kinds, passed: BOOLEAN, canExecute: BOOLEAN,
           diagnostics: SUBSET Codes, repairs: SUBSET RepairKinds,
           expectations: SUBSET Check]

Checked(kind, wanted, got) ==
    {[kind |-> kind, expected |-> x, passed |-> x \in got] : x \in wanted}

expectationResults(o, expected) ==
    Checked("cypher-contains", expected.contains, o.cypher)
      \cup Checked("diagnostic-code", expected.codes, o.diagnostics)
      \cup Checked("repair-kind", expected.repairs, o.repairs)
      \cup Checked("can-execute", expected.canExecute, {o.canExecute})

AllPassed(checks) == \A c \in checks : c.passed

ResultOf(t, kind, o) ==
    LET checks == expectationResults(o, Expected[t])
    IN  [kind |-> kind, canExecute |-> o.canExecute,
         passed |-> kind # "missing" /\ AllPassed(checks),
         diagnostics |-> o.diagnostics, repairs |-> o.repairs,
         expectations |-> checks]

\* Nothing was compiled: no text, no repair, one diagnostic that says why.
NothingCompiled(code) ==
    [cypher |-> {}, canExecute |-> FALSE, diagnostics |-> {code}, repairs |-> {}]

\* Raw text executes only when the caller says so, and not when the repair
\* found no query in it.
RawOutcome(o) ==
    [o EXCEPT !.canExecute =
        RawCypherCanExecute /\ "no-cypher-output" \notin o.diagnostics]

evaluateTask(t, a) ==
    CASE a = None -> ResultOf(t, "missing", NothingCompiled("missing-attempt"))
      [] a # None /\ a.timeout ->
            ResultOf(t, "timeout", NothingCompiled("timeout"))
      [] a # None /\ ~a.timeout /\ a.noCypher ->
            ResultOf(t, "no-cypher", NothingCompiled("no-cypher-output"))
      [] a # None /\ ~a.timeout /\ ~a.noCypher /\ a.query # None ->
            ResultOf(t, "ir", a.query)
      [] a # None /\ ~a.timeout /\ ~a.noCypher /\ a.query = None
                  /\ a.rawCypher # None ->
            ResultOf(t, "raw", RawOutcome(a.rawCypher))
      [] OTHER -> ResultOf(t, "missing", NothingCompiled("empty-attempt"))

\* new Map(attempts): of two attempts at one task the later one counts.
AttemptFor(attempts, t) ==
    LET at == {i \in DOMAIN attempts : attempts[i].taskId = t}
    IN  IF at = {} THEN None
        ELSE attempts[CHOOSE i \in at : \A j \in at : j <= i]

Report == [Tasks -> Result]

evaluateAttempts(attempts) ==
    [t \in Tasks |-> evaluateTask(t, AttemptFor(attempts, t))]

-----------------------------------------------------------------------------
(* Counts over a report                                                     *)

ratio(n, d) == IF d = 0 THEN 0 ELSE (20000 * n + d) \div (2 * d)

PassedIn(r) == {t \in DOMAIN r : r[t].passed}
OfKind(r, kind) == {t \in DOMAIN r : r[t].kind = kind}
Executable(r) == {t \in DOMAIN r : r[t].canExecute}
Repaired(r) == {t \in DOMAIN r : r[t].repairs # {}}
WithCode(r, c) == {t \in DOMAIN r : c \in r[t].diagnostics}

PassesOf(checks, kind) == {x \in checks : x.kind = kind /\ x.passed}

ExpectationPasses(r, kind) ==
    Cardinality(UNION {{t} \X PassesOf(r[t].expectations, kind) : t \in DOMAIN r})

computeMetrics(r) ==
    LET total == Cardinality(DOMAIN r)
        missing == Cardinality(OfKind(r, "missing"))
        passed == Cardinality(PassedIn(r))
    IN  [totalTasks |-> total,
         missingAttempts |-> missing,
         attemptedTasks |-> total - missing,
         passedTasks |-> passed,
         failedTasks |-> total - passed,
         irAttempts |-> Cardinality(OfKind(r, "ir")),
         rawAttempts |-> Cardinality(OfKind(r, "raw")),
         noCypherAttempts |-> Cardinality(OfKind(r, "no-cypher")),
         timeoutAttempts |-> Cardinality(OfKind(r, "timeout")),
         executablePlans |-> Cardinality(Executable(r)),
         repairApplied |-> Cardinality(Repaired(r)),
         expectedCypherMatches |-> ExpectationPasses(r, "cypher-contains"),
         expectedDiagnosticMatches |-> ExpectationPasses(r, "diagnostic-code"),
         passRate |-> ratio(passed, total),
         executableRate |-> ratio(Cardinality(Executable(r)), total),
         repairRate |-> ratio(Cardinality(Repaired(r)), total - missing)]

diagnosticsByCode(r) == [c \in Codes |-> Cardinality(WithCode(r, c))]

-----------------------------------------------------------------------------
(* Feedback packets (repair-loop.ts)                                        *)

\* A packet answers every result the model can still improve: a passed one
\* too, when it cannot execute or carries a diagnostic.
repairFeedbackPackets(r) ==
    {t \in DOMAIN r : \/ ~r[t].passed
                      \/ ~r[t].canExecute
                      \/ r[t].diagnostics # {}}

=============================================================================
