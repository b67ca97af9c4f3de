------------------------------ MODULE EvalGate ------------------------------
(***************************************************************************)
(* Reports against one another: the comparison of two eval reports          *)
(* (eval-compare.ts), the gate that turns it into pass or fail              *)
(* (benchmark-gate.ts) and the scorecard over several (scorecard.ts).       *)
(*                                                                          *)
(* The reports are those of the rounds of a retry evaluation; a baseline    *)
(* may be older than the dataset and know fewer of its tasks.  Every metric *)
(* is in ten-thousandths, counts too, so that one tolerance applies to all, *)
(* as it does in the code.                                                  *)
(***************************************************************************)
EXTENDS RetryEval

CONSTANTS
    Options,      \* options a caller may state
    Datasets      \* the sets of tasks a baseline may know

\* The floors are None when they are not asked for.
GateOptions == [tolerance: Nat, minPassRate: Nat \cup {None},
                minExecutableRate: Nat \cup {None},
                failOnDiagnosticRegression: BOOLEAN]

ASSUME GateAssumption ==
    /\ Options \subseteq GateOptions
    /\ None \notin Nat
    /\ Datasets \subseteq SUBSET Tasks

VARIABLES
    gate,       \* the last gate that ran
    scorecard   \* the last scorecard

gateVars == <<gate, scorecard>>

-----------------------------------------------------------------------------
(* Comparison                                                               *)

HIGHER_IS_BETTER == {"passedTasks", "executablePlans", "expectedCypherMatches",
                     "expectedDiagnosticMatches", "passRate", "executableRate"}

\* The three labels an importer observes are left out with the labels.
LOWER_IS_BETTER == {"missingAttempts", "failedTasks", "noCypherAttempts",
                    "timeoutAttempts"}

Rates == {"passRate", "executableRate"}

Directional == HIGHER_IS_BETTER \cup LOWER_IS_BETTER

Metric(r, m) == computeMetrics(r)[m] * (IF m \in Rates THEN 1 ELSE 10000)

Distance(x, y) == IF x <= y THEN y - x ELSE x - y

Better(m, x, y) == IF m \in HIGHER_IS_BETTER THEN x > y ELSE x < y

Regressed(base, cand, tolerance) ==
    {m \in Directional :
        /\ Distance(Metric(base, m), Metric(cand, m)) > tolerance
        /\ Better(m, Metric(base, m), Metric(cand, m))}

ImprovedMetrics(base, cand, tolerance) ==
    {m \in Directional :
        /\ Distance(Metric(base, m), Metric(cand, m)) > tolerance
        /\ Better(m, Metric(cand, m), Metric(base, m))}

\* Mutant: only the codes the baseline has are looked at.
KnownDiagnosticRegressions(base, cand) ==
    {c \in Codes : /\ diagnosticsByCode(base)[c] > 0
                   /\ diagnosticsByCode(cand)[c] > diagnosticsByCode(base)[c]}

\* Diagnostic counts have no tolerance.
DiagnosticRegressions(base, cand) ==
    {c \in Codes : diagnosticsByCode(cand)[c] > diagnosticsByCode(base)[c]}

\* Mutant: an improvement anywhere outweighs the regressions.
VerdictImprovedFirst(regressions, improvements) ==
    CASE improvements > 0 -> "improved"
      [] improvements = 0 /\ regressions > 0 -> "regressed"
      [] OTHER -> "unchanged"

Verdict(regressions, improvements) ==
    CASE regressions > 0 -> "regressed"
      [] regressions = 0 /\ improvements > 0 -> "improved"
      [] OTHER -> "unchanged"

-----------------------------------------------------------------------------
(* Gate                                                                     *)

MeetsFloor(rate, floor, tolerance) == floor # None => rate + tolerance >= floor

\* The names of the checks that fail.
FailedChecks(base, cand, o) ==
    {c \in {"no-metric-regressions", "min-pass-rate", "min-executable-rate",
            "no-diagnostic-regressions"} :
        CASE c = "no-metric-regressions" -> Regressed(base, cand, o.tolerance) # {}
          [] c = "min-pass-rate" ->
                ~MeetsFloor(Metric(cand, "passRate"), o.minPassRate, o.tolerance)
          [] c = "min-executable-rate" ->
                ~MeetsFloor(Metric(cand, "executableRate"), o.minExecutableRate,
                            o.tolerance)
          [] OTHER -> /\ o.failOnDiagnosticRegression
                      /\ DiagnosticRegressions(base, cand) # {}}

GateStatus(base, cand, o) ==
    IF FailedChecks(base, cand, o) = {} THEN "passed" ELSE "failed"

Over(r, T) == [t \in T |-> r[t]]

Lane(i) == reports[i].results

Lanes == DOMAIN reports

\* One gate, or one scorecard, for each evaluation: they are independent calls.
Idle == phase = "done" /\ gate = None /\ scorecard = None

RunGate(b, T, c, o) ==
    /\ Idle
    /\ gate' = [baseline |-> b, known |-> T, candidate |-> c, options |-> o,
                status |-> GateStatus(Over(Lane(b), T), Lane(c), o)]
    /\ UNCHANGED <<vars, scorecard>>

-----------------------------------------------------------------------------
(* Scorecard                                                                *)

laneKind(r) ==
    LET n(kind) == Cardinality(OfKind(r, kind))
        terminal == n("no-cypher") + n("timeout")
    IN  CASE n("ir") > 0 /\ n("raw") = 0 /\ terminal = 0 -> "ir-first"
          [] n("raw") > 0 /\ n("ir") = 0 -> "raw"
          [] terminal > 0 /\ (n("raw") = 0 \/ n("ir") > 0) -> "terminal"
          [] n("ir") > 0 /\ n("raw") > 0 /\ terminal = 0 -> "mixed"
          [] OTHER -> "unknown"

\* rankLanes: a lane's place is one more than the lanes ahead of it.  A lane
\* id begins with the place of its report, which settles ties.
Ahead(m, i, j) ==
    \/ computeMetrics(Lane(i))[m] > computeMetrics(Lane(j))[m]
    \/ computeMetrics(Lane(i))[m] = computeMetrics(Lane(j))[m] /\ i < j

Rank(m, j) == 1 + Cardinality({i \in Lanes : Ahead(m, i, j)})

BestRate(m) == Max({computeMetrics(Lane(i))[m] : i \in Lanes})

Scorecard(b) ==
    LET others == Lanes \ {b}
        regressions ==
            Total([i \in others |-> Cardinality(Regressed(Lane(b), Lane(i), 0))])
        improvements ==
            Total([i \in others |-> Cardinality(ImprovedMetrics(Lane(b), Lane(i), 0))])
    IN  [baseline |-> b,
         kinds |-> [i \in Lanes |-> laneKind(Lane(i))],
         bestPassRate |-> BestRate("passRate"),
         bestExecutableRate |-> BestRate("executableRate"),
         diagnostics |->
            [c \in Codes |-> Total([i \in Lanes |-> diagnosticsByCode(Lane(i))[c]])],
         rankings |-> [m \in Rates \cup {"repairRate"} |->
                          [i \in Lanes |-> Rank(m, i)]],
         status |-> Verdict(regressions, improvements)]

\* A baseline index beyond the reports is refused: no scorecard.
BuildScorecard(b) ==
    /\ Idle
    /\ scorecard' = IF b \in Lanes THEN Scorecard(b) ELSE None
    /\ UNCHANGED <<vars, gate>>

-----------------------------------------------------------------------------

GateInit == Init /\ gate = None /\ scorecard = None

GateNext ==
    \/ Next /\ UNCHANGED gateVars
    \/ \E b, c \in Lanes, T \in Datasets, o \in Options : RunGate(b, T, c, o)
    \/ \E b \in 1..(MaxRounds + 1) : BuildScorecard(b)

GateSpec == GateInit /\ [][GateNext]_<<vars, gate, scorecard>>

-----------------------------------------------------------------------------
(* Properties                                                               *)

\* o asks for at most as much as p.
Laxer(o, p) ==
    /\ o.tolerance >= p.tolerance
    /\ o.minPassRate \in {None, p.minPassRate}
    /\ o.minExecutableRate \in {None, p.minExecutableRate}
    /\ o.failOnDiagnosticRegression => p.failOnDiagnosticRegression

\* A gate that passes keeps passing when the caller asks for less: a higher
\* tolerance, a floor fewer, or no gate on diagnostics.
LaxerGateStillPasses ==
    gate # None /\ gate.status = "passed" =>
        \A o \in Options :
            Laxer(o, gate.options) =>
                GateStatus(Over(Lane(gate.baseline), gate.known),
                           Lane(gate.candidate), o) = "passed"

\* Baselines may be moved forward: without tolerance, a candidate that passes
\* against a report which itself passed against an older baseline passes
\* against the older baseline too.  (With a tolerance it need not: small
\* losses add up.)
GatesCompose ==
    gate # None /\ gate.status = "passed" /\ gate.options.tolerance = 0 =>
        \A i \in Lanes :
            GateStatus(Lane(gate.candidate), Lane(i), gate.options) = "passed" =>
                GateStatus(Over(Lane(gate.baseline), gate.known), Lane(i),
                           gate.options) = "passed"

\* When no lane regresses, the baseline is nowhere ahead: it has the lowest
\* rate, and is ranked before another lane only where their rates are equal.
UnregressedBaselineIsNotAhead ==
    scorecard # None /\ scorecard.status # "regressed" =>
        \A m \in Rates : \A i \in Lanes :
            scorecard.rankings[m][scorecard.baseline] < scorecard.rankings[m][i] =>
                Metric(Lane(i), m) = Metric(Lane(scorecard.baseline), m)

=============================================================================
