---------------------------- MODULE MCRetryEval -----------------------------
(* RetryEval and EvalGate on three tasks: one states a fragment and that    *)
(* the plan executes, one that it does not, one states nothing.  Up to      *)
(* three rounds: the third makes "converged, then lost" possible.  A        *)
(* baseline of the gate knows every task, or only the first.                *)
EXTENDS EvalGate

CONSTANTS ask, write, list   \* three questions

MCTasks == {ask, write, list}
MCCodes == {"missing-attempt", "empty-attempt", "timeout", "no-cypher-output",
            "unknown-label"}

Nothing == [contains |-> {}, codes |-> {}, repairs |-> {}, canExecute |-> {}]

MCExpected ==
    [t \in MCTasks |->
        CASE t = ask -> [Nothing EXCEPT !.contains = {"match"},
                                        !.canExecute = {TRUE}]
          [] t = write -> [Nothing EXCEPT !.canExecute = {FALSE}]
          [] OTHER -> Nothing]

Strict == [tolerance |-> 0, minPassRate |-> None, minExecutableRate |-> None,
           failOnDiagnosticRegression |-> TRUE]

\* 10000 lets one count go down by one, and any rate by all.
MCOptions ==
    { Strict,
      [Strict EXCEPT !.minPassRate = 5000, !.failOnDiagnosticRegression = FALSE],
      [Strict EXCEPT !.tolerance = 5000, !.minPassRate = 5000,
                     !.failOnDiagnosticRegression = FALSE],
      [Strict EXCEPT !.tolerance = 10000, !.minExecutableRate = 10000,
                     !.failOnDiagnosticRegression = FALSE] }

MCDatasets == {MCTasks, {ask}}

Good == [cypher |-> {"match"}, canExecute |-> TRUE,
         diagnostics |-> {}, repairs |-> {}]
Flagged == [Good EXCEPT !.diagnostics = {"unknown-label"}]
Wrong == [cypher |-> {}, canExecute |-> TRUE,
          diagnostics |-> {}, repairs |-> {"relabel"}]
Stuck == [cypher |-> {}, canExecute |-> FALSE,
          diagnostics |-> {"unknown-label"}, repairs |-> {}]
Empty == [cypher |-> {}, canExecute |-> FALSE,
          diagnostics |-> {"no-cypher-output"}, repairs |-> {}]

Answer(t) == [taskId |-> t, timeout |-> FALSE, noCypher |-> FALSE,
              query |-> None, rawCypher |-> None]
Ir(t, o) == [Answer(t) EXCEPT !.query = o]
Raw(t, o) == [Answer(t) EXCEPT !.rawCypher = o]
Late(t) == [Ir(t, Good) EXCEPT !.timeout = TRUE]
Prose(t) == [Answer(t) EXCEPT !.noCypher = TRUE]

MCAttemptSets ==
    { <<>>,
      <<Ir(ask, Good), Prose(write), Ir(list, Good)>>,
      <<Ir(write, Stuck), Ir(ask, Wrong), Prose(list)>>,
      <<Ir(ask, Flagged), Prose(write), Ir(list, Flagged)>>,
      <<Ir(ask, Good), Prose(write), Ir(ask, Flagged), Ir(list, Good)>>, \* twice
      <<Raw(ask, Good), Raw(write, Wrong), Raw(list, Empty)>>,
      <<Late(ask), Answer(write), Ir(None, Good), Ir(list, Stuck)>> }
                                                          \* empty, unknown

=============================================================================
