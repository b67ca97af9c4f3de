----------------------------- MODULE RetryEval ------------------------------
(***************************************************************************)
(* evaluateRetryAttempts (retry-eval.ts): the rounds in which a model       *)
(* answers the same dataset again, each with the packets of the round       *)
(* before it, scored, compared pairwise, and summed up per task and for     *)
(* the whole run.                                                           *)
(*                                                                          *)
(* The model's side is AddRound: a round is an identifier, maybe none, and  *)
(* the attempts in it, in any order, with tasks left out, unknown or        *)
(* attempted twice.  The other actions are the steps of the function.       *)
(***************************************************************************)
EXTENDS Evals, FiniteSetsExt, Functions

CONSTANTS
    RoundIds,     \* identifiers a round may state
    AttemptSets,  \* the attempt lists a model may hand in
    MaxRounds     \* bound on the rounds of a run

\* What the code falls back on for a round without an identifier.
DefaultIds == <<"round-1", "round-2", "round-3", "round-4">>

ASSUME RetryAssumption ==
    /\ None \notin RoundIds \cup {DefaultIds[i] : i \in 1..4}
    /\ AttemptSets \subseteq Seq(Attempt)
    /\ MaxRounds \in 1..4

VARIABLES
    phase,        \* where the function is
    rounds,       \* the rounds handed in
    reports,      \* the eval report of each round, in their order
    transitions,  \* one report per pair of consecutive rounds
    tasks,        \* the report per task
    summary       \* the summary

vars == <<phase, rounds, reports, transitions, tasks, summary>>

Phases == {"collecting", "evaluating", "comparing", "tasks", "summing",
           "done", "rejected"}

-----------------------------------------------------------------------------
(* Scores                                                                   *)

PassedChecks(checks) == {c \in checks : c.passed}

AtMost(x, y) == IF x <= y THEN x ELSE y

\* Mutant: passing weighs no more than an expectation does.
FlatScore(res) ==
    (IF res.passed THEN 10000 ELSE 0)
    + (IF res.canExecute THEN 20000 ELSE 0)
    + ratio(Cardinality(PassedChecks(res.expectations)),
            Cardinality(res.expectations))
    + (IF res.repairs # {} THEN 2500 ELSE 0)
    - AtMost(10000, 1000 * Cardinality(res.diagnostics))

qualityScore(res) ==
    (IF res.passed THEN 40000 ELSE 0)
    + (IF res.canExecute THEN 20000 ELSE 0)
    + ratio(Cardinality(PassedChecks(res.expectations)),
            Cardinality(res.expectations))
    + (IF res.repairs # {} THEN 2500 ELSE 0)
    - AtMost(10000, 1000 * Cardinality(res.diagnostics))

-----------------------------------------------------------------------------
(* Rounds                                                                   *)

RoundId(i) == IF rounds[i].id = None THEN DefaultIds[i] ELSE rounds[i].id

\* Mutant: only the identifiers stated are compared.
DuplicateStatedId ==
    \E i, j \in DOMAIN rounds : i < j /\ rounds[i].id # None
                                       /\ rounds[i].id = rounds[j].id

DuplicateId == \E i, j \in DOMAIN rounds : i < j /\ RoundId(i) = RoundId(j)

Init ==
    /\ phase = "collecting" /\ rounds = <<>> /\ reports = <<>>
    /\ transitions = <<>> /\ tasks = None /\ summary = None

AddRound(id, attempts) ==
    /\ phase = "collecting" /\ Len(rounds) < MaxRounds
    /\ rounds' = Append(rounds, [id |-> id, attempts |-> attempts])
    /\ UNCHANGED <<phase, reports, transitions, tasks, summary>>

\* No round at all and an identifier used twice are both refused before
\* anything is evaluated.
NormalizeRounds ==
    /\ phase = "collecting"
    /\ phase' = IF rounds = <<>> \/ DuplicateId THEN "rejected" ELSE "evaluating"
    /\ UNCHANGED <<rounds, reports, transitions, tasks, summary>>

EvaluateRound ==
    /\ phase = "evaluating"
    /\ LET i == Len(reports) + 1
       IN  /\ reports' = Append(reports, [id |-> RoundId(i),
                            results |-> evaluateAttempts(rounds[i].attempts)])
           /\ phase' = IF i = Len(rounds) THEN "comparing" ELSE phase
    /\ UNCHANGED <<rounds, transitions, tasks, summary>>

-----------------------------------------------------------------------------
(* Transitions                                                              *)

Improved(left, right) ==
    {t \in Tasks : qualityScore(right[t]) > qualityScore(left[t])}

\* Mutant: a code is addressed only when no task carries it any more.
CodeGoneEverywhere(left, right, c) ==
    IF WithCode(right, c) = {} THEN WithCode(left, c) ELSE {}

\* The tasks that carry code c on the left and no longer on the right.
CodeGone(left, right, c) == WithCode(left, c) \ WithCode(right, c)

\* The two counts retryPacketsResolved and passedTasksAfter are the same
\* expression in the code.
Transition(before, after) ==
    LET left == before.results
        right == after.results
        packets == repairFeedbackPackets(left)
        resolved == Cardinality(packets \cap PassedIn(right))
    IN  [fromRoundId |-> before.id,
         toRoundId |-> after.id,
         failedTasksBefore |-> Cardinality(Tasks \ PassedIn(left)),
         passedTasksAfter |-> resolved,
         improvedTasks |-> Cardinality(Improved(left, right)),
         regressedTasks |-> Cardinality(Improved(right, left)),
         retryPacketsGenerated |-> Cardinality(packets),
         retryPacketsResolved |-> resolved,
         retryPacketResolutionRate |-> ratio(resolved, Cardinality(packets)),
         diagnosticsAddressed |->
            [c \in Codes |-> Cardinality(CodeGone(left, right, c))],
         diagnosticsIntroduced |->
            [c \in Codes |-> Cardinality(CodeGone(right, left, c))]]

CompareRounds ==
    /\ phase = "comparing" /\ Len(transitions) < Len(reports) - 1
    /\ LET i == Len(transitions) + 1
       IN  transitions' = Append(transitions, Transition(reports[i], reports[i + 1]))
    /\ UNCHANGED <<phase, rounds, reports, tasks, summary>>

Compared ==
    /\ phase = "comparing" /\ Len(transitions) = Len(reports) - 1
    /\ phase' = "tasks"
    /\ UNCHANGED <<rounds, reports, transitions, tasks, summary>>

-----------------------------------------------------------------------------
(* Tasks                                                                    *)

Statuses == {"already-passed", "converged", "improved", "regressed", "unresolved"}

\* Mutant: a task that ends up executable has improved.
StatusByExecution(initial, final) ==
    CASE initial.passed /\ final.passed -> "already-passed"
      [] ~initial.passed /\ final.passed -> "converged"
      [] ~final.passed /\ final.canExecute -> "improved"
      [] ~final.passed /\ ~final.canExecute
            /\ qualityScore(final) < qualityScore(initial) -> "regressed"
      [] OTHER -> "unresolved"

\* Mutant: what passed once stays passed.
StatusSticks(initial, final) ==
    CASE initial.passed -> "already-passed"
      [] ~initial.passed /\ final.passed -> "converged"
      [] ~initial.passed /\ ~final.passed
            /\ qualityScore(final) > qualityScore(initial) -> "improved"
      [] ~initial.passed /\ ~final.passed
            /\ qualityScore(final) < qualityScore(initial) -> "regressed"
      [] OTHER -> "unresolved"

taskStatus(initial, final) ==
    CASE initial.passed /\ final.passed -> "already-passed"
      [] ~initial.passed /\ final.passed -> "converged"
      [] ~final.passed /\ qualityScore(final) > qualityScore(initial) -> "improved"
      [] ~final.passed /\ qualityScore(final) < qualityScore(initial) -> "regressed"
      [] OTHER -> "unresolved"

\* The rounds in which task t passed.
PassingRounds(t) == {i \in DOMAIN reports : reports[i].results[t].passed}

TaskReport(t) ==
    LET passing == PassingRounds(t)
    IN  [status |-> taskStatus(reports[1].results[t],
                               reports[Len(reports)].results[t]),
         firstPassingRoundId |->
            IF passing = {} THEN None ELSE reports[Min(passing)].id,
         finalRoundId |-> reports[Len(reports)].id]

BuildTaskReports ==
    /\ phase = "tasks"
    /\ tasks' = [t \in Tasks |-> TaskReport(t)]
    /\ phase' = "summing"
    /\ UNCHANGED <<rounds, reports, transitions, summary>>

-----------------------------------------------------------------------------
(* Summary                                                                  *)

Total(f) == FoldFunction(LAMBDA x, y : x + y, 0, f)

WithStatus(s) == Cardinality({t \in Tasks : tasks[t].status = s})

Summary ==
    LET first == computeMetrics(reports[1].results)
        last == reports[Len(reports)].results
        final == computeMetrics(last)
        generated == Total([i \in DOMAIN transitions |->
                              transitions[i].retryPacketsGenerated])
        resolved == Total([i \in DOMAIN transitions |->
                              transitions[i].retryPacketsResolved])
        ever == {t \in Tasks : PassingRounds(t) # {}}
    IN  [totalTasks |-> Cardinality(Tasks),
         rounds |-> Len(reports),
         totalAttempts |-> Total([i \in DOMAIN reports |->
                              computeMetrics(reports[i].results).attemptedTasks]),
         initialPassedTasks |-> first.passedTasks,
         finalPassedTasks |-> final.passedTasks,
         deltaPassedTasks |-> final.passedTasks - first.passedTasks,
         deltaPassRate |-> final.passRate - first.passRate,
         statuses |-> [s \in Statuses |-> WithStatus(s)],
         retryPacketsGenerated |-> generated,
         retryPacketsResolvedNextRound |-> resolved,
         retryPacketResolutionRate |-> ratio(resolved, generated),
         averageRoundsToPass |->
            ratio(Total([t \in ever |-> Min(PassingRounds(t))]), Cardinality(ever)),
         diagnosticsRemaining |-> diagnosticsByCode(last)]

BuildSummary ==
    /\ phase = "summing"
    /\ summary' = Summary
    /\ phase' = "done"
    /\ UNCHANGED <<rounds, reports, transitions, tasks>>

-----------------------------------------------------------------------------

Terminated == phase \in {"done", "rejected"} /\ UNCHANGED vars

Next ==
    \/ \E id \in RoundIds \cup {None}, attempts \in AttemptSets : AddRound(id, attempts)
    \/ NormalizeRounds
    \/ EvaluateRound
    \/ CompareRounds
    \/ Compared
    \/ BuildTaskReports
    \/ BuildSummary
    \/ Terminated

Spec == Init /\ [][Next]_vars

-----------------------------------------------------------------------------
(* Properties                                                               *)

\* Type invariant: every round is scored on every task.
TypeOK ==
    /\ phase \in Phases
    /\ rounds \in Seq([id: RoundIds \cup {None}, attempts: AttemptSets])
    /\ Len(rounds) <= MaxRounds
    /\ reports \in Seq([id: RoundIds \cup {DefaultIds[i] : i \in 1..4},
                        results: Report])
    /\ Len(reports) <= Len(rounds)
    /\ Len(transitions) <= Len(reports)

\* The score that ranks two attempts at a task never ranks one that fails
\* above one that passes, however many repairs, satisfied expectations or
\* diagnostics they have: improvedTasks, regressedTasks and the statuses
\* rest on it.
PassingOutranksFailing ==
    \A i, j \in DOMAIN reports : \A t \in Tasks :
        LET win == reports[i].results[t]
            loss == reports[j].results[t]
        IN  win.passed /\ ~loss.passed => qualityScore(win) > qualityScore(loss)

\* A task the first round passed and the last one fails is reported as
\* regressed, never as improved or merely unresolved.
LostTasksRegress ==
    tasks # None =>
        \A t \in PassedIn(reports[1].results)
                    \ PassedIn(reports[Len(reports)].results) :
            tasks[t].status = "regressed"

\* Between two rounds diagnostics are neither lost nor invented: for each
\* code the count before, less those addressed, plus those introduced, is the
\* count after.
DiagnosticsConserved ==
    \A i \in DOMAIN transitions : \A c \in Codes :
        diagnosticsByCode(reports[i + 1].results)[c] =
            diagnosticsByCode(reports[i].results)[c]
            - transitions[i].diagnosticsAddressed[c]
            + transitions[i].diagnosticsIntroduced[c]

\* Who passes after a round either was sent a packet, and counts as resolved,
\* or had already passed without a blemish: no pass of a retry goes uncounted.
PassesAccountedFor ==
    \A i \in DOMAIN transitions :
        LET before == reports[i].results
            after == reports[i + 1].results
            clean == Tasks \ repairFeedbackPackets(before)
        IN  /\ clean \subseteq PassedIn(before)
            /\ Cardinality(PassedIn(after)) =
                  transitions[i].retryPacketsResolved
                  + Cardinality(clean \cap PassedIn(after))

\* The statuses split the tasks, and agree with the metrics of the first and
\* the last round: those passing at the end are the already passed and the
\* converged, and the change in passes is the converged less the lost ones.
StatusesAgreeWithMetrics ==
    summary # None =>
        LET n == summary.statuses
            lost == PassedIn(reports[1].results)
                       \ PassedIn(reports[Len(reports)].results)
        IN  /\ n["already-passed"] + n["converged"] + n["improved"]
                 + n["regressed"] + n["unresolved"] = summary.totalTasks
            /\ n["already-passed"] + n["converged"] = summary.finalPassedTasks
            /\ summary.deltaPassedTasks = n["converged"] - Cardinality(lost)

\* A round identifier in a task report names one round, and the first in
\* which the task passed: also when a stated identifier looks like one the
\* code makes up for a round without.
RoundIdsIdentify ==
    tasks # None =>
        \A t \in Tasks : \A i \in DOMAIN reports :
            tasks[t].firstPassingRoundId = reports[i].id =>
                /\ reports[i].results[t].passed
                /\ \A j \in 1..(i - 1) : ~reports[j].results[t].passed

=============================================================================
