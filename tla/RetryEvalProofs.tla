--------------------------- MODULE RetryEvalProofs ---------------------------
(***************************************************************************)
(* Proofs about RetryEval and EvalGate, for any dataset, attempts, rounds  *)
(* and options.                                                            *)
(***************************************************************************)
EXTENDS EvalGate, FiniteSetTheorems, WellFoundedInduction, SequenceTheorems, TLAPS

-----------------------------------------------------------------------------
(***************************************************************************)
(* Rates.                                                                  *)
(***************************************************************************)
LEMMA DivBounds ==
  ASSUME NEW a \in Int, NEW b \in Nat, b > 0
  PROVE  /\ a \div b \in Int
         /\ b * (a \div b) <= a
         /\ a < b * (a \div b) + b
OBVIOUS

\* All of something is 10000 of it, rounding or not.
LEMMA RatioWhole ==
  ASSUME NEW n \in Nat, n # 0
  PROVE  ratio(n, n) = 10000
<1> DEFINE x == (20000 * n + n) \div (2 * n)
<1>1. /\ x \in Int
      /\ (2 * n) * x <= 20001 * n
      /\ 20001 * n < (2 * n) * x + 2 * n
  BY DivBounds
<1> HIDE DEF x
<1>2. ~(x <= 9999)
  <2> SUFFICES ASSUME x <= 9999 PROVE FALSE
    OBVIOUS
  <2>1. (2 * n) * x <= (2 * n) * 9999
    BY <1>1
  <2>2. QED
    BY <1>1, <2>1
<1>3. ~(x >= 10001)
  <2> SUFFICES ASSUME x >= 10001 PROVE FALSE
    OBVIOUS
  <2>1. (2 * n) * x >= (2 * n) * 10001
    BY <1>1
  <2>2. QED
    BY <1>1, <2>1
<1>4. x = 10000
  BY <1>1, <1>2, <1>3
<1>5. QED
  BY <1>4 DEF ratio, x

LEMMA RatioBounds ==
  ASSUME NEW n \in Nat, NEW d \in Nat, n <= d
  PROVE  /\ ratio(n, d) \in Int
         /\ 0 <= ratio(n, d) /\ ratio(n, d) <= 10000
<1>1. CASE d = 0
  BY <1>1 DEF ratio
<1>2. CASE d # 0
  <2> DEFINE x == (20000 * n + d) \div (2 * d)
  <2>1. /\ x \in Int
        /\ (2 * d) * x <= 20000 * n + d
        /\ 20000 * n + d < (2 * d) * x + 2 * d
    BY <1>2, DivBounds
  <2> HIDE DEF x
  <2>2. ~(x <= -1)
    <3> SUFFICES ASSUME x <= -1 PROVE FALSE
      OBVIOUS
    <3>1. (2 * d) * x <= (2 * d) * (-1)
      BY <2>1
    <3>2. QED
      BY <1>2, <2>1, <3>1
  <2>3. ~(x >= 10001)
    <3> SUFFICES ASSUME x >= 10001 PROVE FALSE
      OBVIOUS
    <3>1. (2 * d) * x >= (2 * d) * 10001
      BY <2>1
    <3>2. QED
      BY <1>2, <2>1, <3>1
  <2>4. ratio(n, d) = x
    BY <1>2 DEF ratio, x
  <2>5. QED
    BY <2>1, <2>2, <2>3, <2>4
<1>3. QED
  BY <1>1, <1>2

-----------------------------------------------------------------------------
(***************************************************************************)
(* Positions.                                                              *)
(***************************************************************************)
\* A nonempty set of positions has a first one ...
LEMMA FirstExists ==
  ASSUME NEW S \in SUBSET Nat, S # {}
  PROVE  Min(S) \in S /\ \A j \in S : Min(S) <= j
<1> DEFINE R == OpToRel(<, Nat)
<1>1. PICK i \in S : \A j \in S : <<j, i>> \notin R
  BY NatLessThanWellFounded, WFMin
<1>2. \A j \in S : <<j, i>> \in R <=> j < i
  BY <1>1 DEF OpToRel
<1> HIDE DEF R
<1>3. ASSUME NEW j \in S
      PROVE  i <= j
  <2>1. ~(j < i)
    BY <1>1, <1>2
  <2>2. i \in Nat /\ j \in Nat
    BY <1>1
  <2>3. QED
    BY <2>1, <2>2
<1>4. QED
  BY <1>1, <1>3 DEF Min

\* ... and, below a bound, a last one.
LEMMA LastExists ==
  ASSUME NEW n \in Nat, NEW S \in SUBSET (1..n), S # {}
  PROVE  \E i \in S : \A j \in S : j <= i
<1> DEFINE T == {n - i : i \in S}
<1>1. T \in SUBSET Nat /\ T # {}
  <2>1. \A i \in S : n - i \in Nat
    OBVIOUS
  <2>2. QED
    BY <2>1
<1> HIDE DEF T
<1>2. Min(T) \in T /\ \A u \in T : Min(T) <= u
  BY <1>1, FirstExists
<1>3. PICK i \in S : Min(T) = n - i
  BY <1>2 DEF T
<1>4. \A j \in S : n - i <= n - j
  BY <1>2, <1>3 DEF T
<1>5. \A j \in S : j <= i
  BY <1>4
<1>6. QED
  BY <1>5

\* What a sequence over S holds at a position is in S.
LEMMA MemberOfSeq ==
  ASSUME NEW S, NEW s \in Seq(S), NEW i \in DOMAIN s
  PROVE  s[i] \in S
OBVIOUS

-----------------------------------------------------------------------------
(***************************************************************************)
(* Results.                                                                *)
(***************************************************************************)
NoExpectations(t) ==
    /\ Expected[t].contains = {} /\ Expected[t].codes = {}
    /\ Expected[t].repairs = {} /\ Expected[t].canExecute = {}

\* What every result of task t has, whatever was attempted.
Scored(t, res) ==
    /\ res \in Result
    /\ IsFiniteSet(res.expectations)
    /\ res.expectations = {} <=> NoExpectations(t)
    /\ res.passed <=> res.kind # "missing" /\ AllPassed(res.expectations)
    /\ res.kind = "missing" => ~res.canExecute /\ res.repairs = {}

LEMMA CheckedFinite ==
  ASSUME NEW kind, NEW wanted, NEW got, IsFiniteSet(wanted)
  PROVE  /\ IsFiniteSet(Checked(kind, wanted, got))
         /\ Checked(kind, wanted, got) = {} <=> wanted = {}
<1> DEFINE check(x) == [kind |-> kind, expected |-> x, passed |-> x \in got]
           image == {check(x) : x \in wanted}
           f == [x \in wanted |-> check(x)]
<1>1. image = Checked(kind, wanted, got)
  BY DEF Checked
<1>2. f \in Surjection(wanted, image)
  BY DEF Surjection
<1>3. IsFiniteSet(image)
  <2> HIDE DEF f, image
  <2>1. QED
    BY <1>2, FS_Surjection
<1>4. image = {} <=> wanted = {}
  OBVIOUS
<1>5. QED
  BY <1>1, <1>3, <1>4

LEMMA CheckedType ==
  ASSUME NEW kind, NEW S, NEW wanted \in SUBSET S, NEW got
  PROVE  Checked(kind, wanted, got) \subseteq
           [kind: {kind}, expected: S, passed: BOOLEAN]
<1>1. ASSUME NEW x \in wanted
      PROVE  [kind |-> kind, expected |-> x, passed |-> x \in got]
               \in [kind: {kind}, expected: S, passed: BOOLEAN]
  <2>1. (x \in got) \in BOOLEAN
    OBVIOUS
  <2>2. QED
    BY <2>1
<1>2. QED
  BY <1>1 DEF Checked

LEMMA ExpectationsType ==
  ASSUME NEW t \in Tasks, NEW o \in Outcome
  PROVE  LET checks == expectationResults(o, Expected[t])
         IN  /\ checks \in SUBSET Check
             /\ IsFiniteSet(checks)
             /\ checks = {} <=> NoExpectations(t)
<1> DEFINE E == Expected[t]
           A == Checked("cypher-contains", E.contains, o.cypher)
           B == Checked("diagnostic-code", E.codes, o.diagnostics)
           C == Checked("repair-kind", E.repairs, o.repairs)
           D == Checked("can-execute", E.canExecute, {o.canExecute})
<1>1. E \in Expectation
  BY EvalsAssumption
<1> HIDE DEF E
<1>2. /\ E.contains \in SUBSET Fragments /\ E.codes \in SUBSET Codes
      /\ E.repairs \in SUBSET RepairKinds
      /\ E.canExecute \in {{}, {TRUE}, {FALSE}}
  BY <1>1 DEF Expectation
<1>3. E.canExecute \subseteq BOOLEAN
  <2>1. {} \subseteq BOOLEAN /\ {TRUE} \subseteq BOOLEAN /\ {FALSE} \subseteq BOOLEAN
    OBVIOUS
  <2>2. QED
    BY <1>2, <2>1
<1>4. /\ IsFiniteSet(E.contains) /\ IsFiniteSet(E.codes)
      /\ IsFiniteSet(E.repairs)
  BY <1>2, EvalsAssumption, FS_Subset
<1>5. IsFiniteSet(E.canExecute)
  <2>1. \A x : IsFiniteSet({x})
    BY FS_Singleton
  <2>2. IsFiniteSet({}) /\ IsFiniteSet({TRUE}) /\ IsFiniteSet({FALSE})
    BY <2>1, FS_EmptySet, Zenon
  <2>3. QED
    BY <1>2, <2>2
<1>6. expectationResults(o, Expected[t]) = A \cup B \cup C \cup D
  BY DEF expectationResults, E
<1>7. /\ IsFiniteSet(A) /\ IsFiniteSet(B) /\ IsFiniteSet(C) /\ IsFiniteSet(D)
      /\ A = {} <=> E.contains = {}
      /\ B = {} <=> E.codes = {}
      /\ C = {} <=> E.repairs = {}
      /\ D = {} <=> E.canExecute = {}
  BY <1>4, <1>5, CheckedFinite
<1>8. /\ A \subseteq [kind: {"cypher-contains"}, expected: Fragments, passed: BOOLEAN]
      /\ B \subseteq [kind: {"diagnostic-code"}, expected: Codes, passed: BOOLEAN]
      /\ C \subseteq [kind: {"repair-kind"}, expected: RepairKinds, passed: BOOLEAN]
      /\ D \subseteq [kind: {"can-execute"}, expected: BOOLEAN, passed: BOOLEAN]
  BY <1>2, <1>3, CheckedType
<1> HIDE DEF A, B, C, D
<1>9. A \cup B \cup C \cup D \in SUBSET Check
  BY <1>8 DEF Check
<1>10. IsFiniteSet(A \cup B \cup C \cup D)
  BY <1>7, FS_Union
<1>11. A \cup B \cup C \cup D = {} <=> NoExpectations(t)
  BY <1>7 DEF NoExpectations, E
<1>12. QED
  BY <1>6, <1>9, <1>10, <1>11 DEF E

LEMMA ResultIsScored ==
  ASSUME NEW t \in Tasks, NEW kind \in Kinds, NEW o \in Outcome,
         kind = "missing" => ~o.canExecute /\ o.repairs = {}
  PROVE  Scored(t, ResultOf(t, kind, o))
<1> DEFINE checks == expectationResults(o, Expected[t])
           res == ResultOf(t, kind, o)
<1>1. /\ checks \in SUBSET Check /\ IsFiniteSet(checks)
      /\ checks = {} <=> NoExpectations(t)
  BY ExpectationsType
<1>2. /\ o.canExecute \in BOOLEAN /\ o.diagnostics \in SUBSET Codes
      /\ o.repairs \in SUBSET RepairKinds
  BY DEF Outcome
<1>3. AllPassed(checks) \in BOOLEAN
  BY DEF AllPassed
<1>4. /\ res.kind = kind /\ res.canExecute = o.canExecute
      /\ res.passed = (kind # "missing" /\ AllPassed(checks))
      /\ res.diagnostics = o.diagnostics /\ res.repairs = o.repairs
      /\ res.expectations = checks
  BY DEF ResultOf
<1>5. res \in Result
  BY <1>1, <1>2, <1>3 DEF ResultOf, Result
<1> HIDE DEF checks, res
<1>6. QED
  BY <1>1, <1>4, <1>5 DEF Scored, res

LEMMA NothingCompiledType ==
  ASSUME NEW c \in Codes
  PROVE  /\ NothingCompiled(c) \in Outcome
         /\ ~NothingCompiled(c).canExecute
         /\ NothingCompiled(c).repairs = {}
BY DEF NothingCompiled, Outcome

\* Every attempt, and none, is scored.
LEMMA EvaluatedIsScored ==
  ASSUME NEW t \in Tasks, NEW a \in Attempt \cup {None}
  PROVE  Scored(t, evaluateTask(t, a))
<1>1. {"missing-attempt", "empty-attempt", "timeout", "no-cypher-output"}
         \subseteq Codes
  BY EvalsAssumption
<1>2. \A c \in {"missing-attempt", "empty-attempt"} :
         Scored(t, ResultOf(t, "missing", NothingCompiled(c)))
  BY <1>1, NothingCompiledType, ResultIsScored DEF Kinds
<1>3. Scored(t, ResultOf(t, "timeout", NothingCompiled("timeout")))
  BY <1>1, NothingCompiledType, ResultIsScored DEF Kinds
<1>4. Scored(t, ResultOf(t, "no-cypher", NothingCompiled("no-cypher-output")))
  BY <1>1, NothingCompiledType, ResultIsScored DEF Kinds
<1>5. a # None => /\ a.timeout \in BOOLEAN /\ a.noCypher \in BOOLEAN
                  /\ a.query # None => a.query \in Outcome
                  /\ a.rawCypher # None => a.rawCypher \in Outcome
  BY DEF Attempt
<1>6. a # None /\ a.query # None => Scored(t, ResultOf(t, "ir", a.query))
  BY <1>5, ResultIsScored DEF Kinds
<1>7. a # None /\ a.rawCypher # None =>
         Scored(t, ResultOf(t, "raw", RawOutcome(a.rawCypher)))
  <2> SUFFICES ASSUME a # None, a.rawCypher # None
               PROVE  RawOutcome(a.rawCypher) \in Outcome
    BY ResultIsScored DEF Kinds
  <2>1. a.rawCypher \in Outcome
    BY <1>5
  <2>2. RawCypherCanExecute \in BOOLEAN
    BY EvalsAssumption
  <2>3. QED
    BY <2>1, <2>2 DEF RawOutcome, Outcome
<1>8. QED
  BY <1>2, <1>3, <1>4, <1>5, <1>6, <1>7 DEF evaluateTask

LEMMA AttemptForType ==
  ASSUME NEW attempts \in Seq(Attempt), NEW t
  PROVE  AttemptFor(attempts, t) \in Attempt \cup {None}
<1> DEFINE at == {i \in DOMAIN attempts : attempts[i].taskId = t}
<1>1. at \in SUBSET (1..Len(attempts)) /\ Len(attempts) \in Nat
  OBVIOUS
<1>2. CASE at = {}
  BY <1>2 DEF AttemptFor
<1>3. CASE at # {}
  <2> DEFINE last == CHOOSE i \in at : \A j \in at : j <= i
  <2>1. last \in at
    <3> HIDE DEF at
    <3>1. \E i \in at : \A j \in at : j <= i
      BY <1>1, <1>3, LastExists
    <3>2. QED
      BY <3>1
  <2>2. attempts[last] \in Attempt
    BY <2>1
  <2>3. QED
    BY <1>3, <2>2 DEF AttemptFor
<1>4. QED
  BY <1>2, <1>3

LEMMA EvaluatedReport ==
  ASSUME NEW attempts \in AttemptSets
  PROVE  /\ evaluateAttempts(attempts) \in Report
         /\ \A t \in Tasks : Scored(t, evaluateAttempts(attempts)[t])
<1>1. attempts \in Seq(Attempt)
  BY RetryAssumption
<1>2. \A t \in Tasks : Scored(t, evaluateAttempts(attempts)[t])
  BY <1>1, AttemptForType, EvaluatedIsScored DEF evaluateAttempts
<1>3. \A t \in Tasks : evaluateAttempts(attempts)[t] \in Result
  BY <1>2 DEF Scored
<1>4. QED
  BY <1>2, <1>3 DEF evaluateAttempts, Report

-----------------------------------------------------------------------------
(***************************************************************************)
(* Scores.  Passing is worth 40000 and takes every expectation with it;    *)
(* all else together moves a score by less, and a task without             *)
(* expectations fails only when nothing is compiled.                       *)
(***************************************************************************)
LEMMA ScoreParts ==
  ASSUME NEW t \in Tasks, NEW res, Scored(t, res)
  PROVE  LET rate == ratio(Cardinality(PassedChecks(res.expectations)),
                           Cardinality(res.expectations))
             noise == AtMost(10000, 1000 * Cardinality(res.diagnostics))
         IN  /\ rate \in Int /\ 0 <= rate /\ rate <= 10000
             /\ noise \in Int /\ 0 <= noise /\ noise <= 10000
<1> DEFINE all == res.expectations
           some == PassedChecks(all)
           n == Cardinality(some)
           d == Cardinality(all)
<1>1. IsFiniteSet(all) /\ res.diagnostics \in SUBSET Codes
  BY DEF Scored, Result
<1>2. some \in SUBSET all
  BY DEF PassedChecks
<1> HIDE DEF all, some
<1>3. n \in Nat /\ d \in Nat /\ n <= d
  BY <1>1, <1>2, FS_Subset, FS_CardinalityType
<1> HIDE DEF n, d
<1>4. ratio(n, d) \in Int /\ 0 <= ratio(n, d) /\ ratio(n, d) <= 10000
  BY <1>3, RatioBounds
<1>5. IsFiniteSet(res.diagnostics)
  BY <1>1, EvalsAssumption, FS_Subset
<1>6. Cardinality(res.diagnostics) \in Nat
  BY <1>5, FS_CardinalityType
<1> DEFINE noise == AtMost(10000, 1000 * Cardinality(res.diagnostics))
<1>7. noise \in Int /\ 0 <= noise /\ noise <= 10000
  BY <1>6 DEF AtMost
<1>8. QED
  BY <1>4, <1>7 DEF n, d, all, some

LEMMA PassingScore ==
  ASSUME NEW t \in Tasks, NEW res, Scored(t, res), res.passed
  PROVE  /\ qualityScore(res) \in Int
         /\ qualityScore(res) >= 30000
         /\ ~NoExpectations(t) => qualityScore(res) >= 40000
<1> DEFINE rate == ratio(Cardinality(PassedChecks(res.expectations)),
                         Cardinality(res.expectations))
           noise == AtMost(10000, 1000 * Cardinality(res.diagnostics))
<1>1. /\ rate \in Int /\ 0 <= rate /\ rate <= 10000
      /\ noise \in Int /\ 0 <= noise /\ noise <= 10000
  BY ScoreParts
<1>2. qualityScore(res) = 40000 + (IF res.canExecute THEN 20000 ELSE 0) + rate
                            + (IF res.repairs # {} THEN 2500 ELSE 0) - noise
  BY DEF qualityScore
<1>3. ~NoExpectations(t) => rate = 10000
  <2> SUFFICES ASSUME ~NoExpectations(t) PROVE rate = 10000
    OBVIOUS
  <2>1. IsFiniteSet(res.expectations) /\ res.expectations # {}
    BY DEF Scored
  <2>2. AllPassed(res.expectations)
    BY DEF Scored
  <2>3. PassedChecks(res.expectations) = res.expectations
    BY <2>2 DEF PassedChecks, AllPassed
  <2>4. /\ Cardinality(res.expectations) \in Nat
        /\ Cardinality(res.expectations) # 0
    BY <2>1, FS_CardinalityType, FS_EmptySet
  <2>5. QED
    BY <2>3, <2>4, RatioWhole
<1> HIDE DEF rate, noise
<1>4. QED
  BY <1>1, <1>2, <1>3

LEMMA FailingScore ==
  ASSUME NEW t \in Tasks, NEW res, Scored(t, res), ~res.passed
  PROVE  /\ qualityScore(res) \in Int
         /\ qualityScore(res) <= 32500
         /\ NoExpectations(t) => qualityScore(res) <= 0
<1> DEFINE rate == ratio(Cardinality(PassedChecks(res.expectations)),
                         Cardinality(res.expectations))
           noise == AtMost(10000, 1000 * Cardinality(res.diagnostics))
<1>1. /\ rate \in Int /\ 0 <= rate /\ rate <= 10000
      /\ noise \in Int /\ 0 <= noise /\ noise <= 10000
  BY ScoreParts
<1>2. qualityScore(res) = 0 + (IF res.canExecute THEN 20000 ELSE 0) + rate
                            + (IF res.repairs # {} THEN 2500 ELSE 0) - noise
  BY DEF qualityScore
<1>3. NoExpectations(t) => rate = 0 /\ ~res.canExecute /\ res.repairs = {}
  <2> SUFFICES ASSUME NoExpectations(t)
               PROVE  rate = 0 /\ ~res.canExecute /\ res.repairs = {}
    OBVIOUS
  <2>1. res.expectations = {}
    BY DEF Scored
  <2>2. AllPassed(res.expectations)
    BY <2>1 DEF AllPassed
  <2>3. res.kind = "missing"
    BY <2>2 DEF Scored
  <2>4. rate = 0
    BY <2>1, FS_EmptySet DEF ratio
  <2>5. QED
    BY <2>3, <2>4 DEF Scored
<1> HIDE DEF rate, noise
<1>4. QED
  BY <1>1, <1>2, <1>3

LEMMA PassingIsAhead ==
  ASSUME NEW t \in Tasks, NEW win, Scored(t, win), win.passed,
         NEW loss, Scored(t, loss), ~loss.passed
  PROVE  qualityScore(win) > qualityScore(loss)
BY PassingScore, FailingScore

-----------------------------------------------------------------------------
(***************************************************************************)
(* The inductive invariant: what each phase has built, and from what.      *)
(***************************************************************************)
Built == phase \in {"comparing", "tasks", "summing", "done"}

ReportsInv ==
    /\ reports \in Seq([id: RoundIds \cup {DefaultIds[i] : i \in 1..4},
                        results: Report])
    /\ \A i \in DOMAIN reports : reports[i].id = RoundId(i)
    /\ \A i \in DOMAIN reports : \A t \in Tasks : Scored(t, reports[i].results[t])
    /\ phase \in {"collecting", "rejected"} => reports = <<>>
    /\ phase = "evaluating" \/ Built => rounds # <<>> /\ ~DuplicateId
    /\ phase = "evaluating" => Len(reports) < Len(rounds)
    /\ Built => Len(reports) = Len(rounds)

TransitionsInv ==
    /\ transitions \in Seq({Transition(reports[i], reports[i + 1]) :
                               i \in 1..(Len(reports) - 1)})
    /\ \A i \in DOMAIN transitions :
          transitions[i] = Transition(reports[i], reports[i + 1])
    /\ ~Built => transitions = <<>>
    /\ Built => Len(transitions) <= Len(reports) - 1

SummaryInv ==
    /\ tasks # None => phase \in {"summing", "done"}
    /\ phase \in {"summing", "done"} => tasks = [t \in Tasks |-> TaskReport(t)]
    /\ summary # None => phase = "done" /\ summary = Summary

IInv ==
    /\ phase \in Phases
    /\ rounds \in Seq([id: RoundIds \cup {None}, attempts: AttemptSets])
    /\ Len(rounds) <= MaxRounds
    /\ ReportsInv
    /\ TransitionsInv
    /\ SummaryInv

LEMMA InitInvariant == Init => IInv
<1> SUFFICES ASSUME Init PROVE IInv
  OBVIOUS
<1>1. /\ phase = "collecting" /\ rounds = <<>> /\ reports = <<>>
      /\ transitions = <<>> /\ tasks = None /\ summary = None
  BY DEF Init
<1>2. phase \in Phases /\ ~Built /\ phase # "evaluating"
  BY <1>1 DEF Phases, Built
<1>3. /\ rounds \in Seq([id: RoundIds \cup {None}, attempts: AttemptSets])
      /\ Len(rounds) <= MaxRounds
  BY <1>1, RetryAssumption
<1>4. ReportsInv
  BY <1>1, <1>2 DEF ReportsInv
<1>5. TransitionsInv
  BY <1>1, <1>2 DEF TransitionsInv
<1>6. SummaryInv
  BY <1>1 DEF SummaryInv
<1>7. QED
  BY <1>2, <1>3, <1>4, <1>5, <1>6 DEF IInv

\* What is built from the rounds and the reports stays while they stay.
LEMMA SameRounds ==
  ASSUME rounds' = rounds
  PROVE  DuplicateId' = DuplicateId /\ \A i : RoundId(i)' = RoundId(i)
BY DEF DuplicateId, RoundId

LEMMA AddRoundStep ==
  ASSUME IInv, NEW id \in RoundIds \cup {None}, NEW attempts \in AttemptSets,
         AddRound(id, attempts)
  PROVE  IInv'
<1>1. /\ phase = "collecting" /\ phase' = phase /\ Len(rounds) < MaxRounds
      /\ rounds' = Append(rounds, [id |-> id, attempts |-> attempts])
      /\ reports' = reports /\ transitions' = transitions
      /\ tasks' = tasks /\ summary' = summary
  BY DEF AddRound
<1>2. ~Built /\ ~Built' /\ phase' # "evaluating"
  BY <1>1 DEF Built
<1>3. reports = <<>> /\ transitions = <<>> /\ tasks = None /\ summary = None
  BY <1>1, <1>2 DEF IInv, ReportsInv, TransitionsInv, SummaryInv
<1>4. rounds \in Seq([id: RoundIds \cup {None}, attempts: AttemptSets])
  BY DEF IInv
<1>5. /\ rounds' \in Seq([id: RoundIds \cup {None}, attempts: AttemptSets])
      /\ Len(rounds') <= MaxRounds
  <2>1. [id |-> id, attempts |-> attempts]
          \in [id: RoundIds \cup {None}, attempts: AttemptSets]
    OBVIOUS
  <2>2. Len(rounds') = Len(rounds) + 1 /\ Len(rounds) \in Nat /\ MaxRounds \in Int
    BY <1>1, <1>4, <2>1, RetryAssumption
  <2>3. QED
    BY <1>1, <1>4, <2>1, <2>2
<1>6. ReportsInv'
  BY <1>1, <1>2, <1>3 DEF ReportsInv
<1>7. TransitionsInv'
  BY <1>1, <1>2, <1>3 DEF TransitionsInv
<1>8. SummaryInv'
  BY <1>1, <1>2, <1>3 DEF SummaryInv, Built
<1>9. QED
  BY <1>1, <1>5, <1>6, <1>7, <1>8 DEF IInv

LEMMA NormalizeRoundsStep ==
  ASSUME IInv, NormalizeRounds
  PROVE  IInv'
<1>1. /\ phase = "collecting" /\ phase' \in {"rejected", "evaluating"}
      /\ phase' = "evaluating" => rounds # <<>> /\ ~DuplicateId
      /\ rounds' = rounds
      /\ reports' = reports /\ transitions' = transitions
      /\ tasks' = tasks /\ summary' = summary
  BY DEF NormalizeRounds
<1>2. ~Built /\ ~Built' /\ phase' \in Phases
  BY <1>1 DEF Built, Phases
<1>3. reports = <<>> /\ transitions = <<>> /\ tasks = None /\ summary = None
  BY <1>1, <1>2 DEF IInv, ReportsInv, TransitionsInv, SummaryInv
<1>4. /\ rounds \in Seq([id: RoundIds \cup {None}, attempts: AttemptSets])
      /\ Len(rounds) <= MaxRounds
  BY DEF IInv
<1>5. ReportsInv'
  <2>1. DuplicateId' = DuplicateId
    BY <1>1, SameRounds
  <2>2. rounds # <<>> => 0 < Len(rounds)
    BY <1>4
  <2>3. QED
    BY <1>1, <1>2, <1>3, <2>1, <2>2 DEF ReportsInv
<1>6. TransitionsInv'
  BY <1>1, <1>2, <1>3 DEF TransitionsInv
<1>7. SummaryInv'
  BY <1>1, <1>2, <1>3 DEF SummaryInv, Built
<1>8. QED
  BY <1>1, <1>2, <1>4, <1>5, <1>6, <1>7 DEF IInv

LEMMA EvaluateRoundStep ==
  ASSUME IInv, EvaluateRound
  PROVE  IInv'
<1> DEFINE i == Len(reports) + 1
           new == [id |-> RoundId(i),
                   results |-> evaluateAttempts(rounds[i].attempts)]
           Ids == RoundIds \cup {DefaultIds[k] : k \in 1..4}
<1>1. /\ phase = "evaluating" /\ reports' = Append(reports, new)
      /\ phase' = IF i = Len(rounds) THEN "comparing" ELSE phase
      /\ rounds' = rounds /\ transitions' = transitions
      /\ tasks' = tasks /\ summary' = summary
  BY DEF EvaluateRound
<1>2. ~Built /\ phase' \in Phases /\ phase' \in {"evaluating", "comparing"}
  BY <1>1 DEF Built, Phases
<1>3. transitions = <<>> /\ tasks = None /\ summary = None
  BY <1>1, <1>2 DEF IInv, TransitionsInv, SummaryInv
<1>4. /\ rounds \in Seq([id: RoundIds \cup {None}, attempts: AttemptSets])
      /\ Len(rounds) <= MaxRounds
      /\ reports \in Seq([id: Ids, results: Report])
      /\ Len(reports) < Len(rounds)
      /\ rounds # <<>> /\ ~DuplicateId
  BY <1>1 DEF IInv, ReportsInv
<1>5. i \in DOMAIN rounds /\ i \in 1..4
  <2>1. /\ Len(reports) \in Nat /\ Len(rounds) \in Nat
        /\ DOMAIN rounds = 1..Len(rounds)
    BY <1>4, LenProperties
  <2>2. MaxRounds \in Nat /\ MaxRounds <= 4
    BY RetryAssumption
  <2>3. Len(reports) < Len(rounds) /\ Len(rounds) <= MaxRounds
    BY <1>4
  <2> HIDE DEF new, Ids
  <2>4. QED
    BY <2>1, <2>2, <2>3
<1>6. /\ rounds[i].id \in RoundIds \cup {None}
      /\ rounds[i].attempts \in AttemptSets
  <2>1. rounds[i] \in [id: RoundIds \cup {None}, attempts: AttemptSets]
    BY <1>4, <1>5, MemberOfSeq
  <2>2. QED
    BY <2>1
<1>7. RoundId(i) \in Ids
  BY <1>5, <1>6 DEF RoundId
<1>8. /\ new \in [id: Ids, results: Report]
      /\ \A t \in Tasks : Scored(t, new.results[t])
  BY <1>6, <1>7, EvaluatedReport
<1>9. new.id = RoundId(i)
  OBVIOUS
<1> HIDE DEF new, Ids
<1>10. /\ reports' \in Seq([id: Ids, results: Report])
       /\ Len(reports') = i
       /\ reports'[i] = new
       /\ \A k \in DOMAIN reports' : k # i => k \in DOMAIN reports
                                              /\ reports'[k] = reports[k]
  BY <1>1, <1>4, <1>8
<1>11. ReportsInv'
  <2>1. DuplicateId' = DuplicateId /\ \A k : RoundId(k)' = RoundId(k)
    BY <1>1, SameRounds
  <2>2. \A k \in DOMAIN reports' : reports'[k].id = RoundId(k)'
    BY <1>9, <1>10, <2>1 DEF IInv, ReportsInv
  <2>3. \A k \in DOMAIN reports' : \A t \in Tasks : Scored(t, reports'[k].results[t])
    BY <1>8, <1>10 DEF IInv, ReportsInv
  <2>4. phase' \notin {"collecting", "rejected"}
    BY <1>2
  <2>5. phase' = "evaluating" => Len(reports') < Len(rounds')
    BY <1>1, <1>4, <1>10
  <2>6. Built' => Len(reports') = Len(rounds')
    BY <1>1, <1>2, <1>10 DEF Built
  <2>7. QED
    BY <1>1, <1>4, <1>10, <2>1, <2>2, <2>3, <2>4, <2>5, <2>6 DEF ReportsInv, Ids
<1>12. TransitionsInv'
  <2>1. Len(transitions') = 0 /\ Len(reports') \in Nat /\ Len(reports') >= 1
    BY <1>1, <1>3, <1>4, <1>10
  <2>2. QED
    BY <1>1, <1>3, <2>1 DEF TransitionsInv
<1>13. SummaryInv'
  BY <1>1, <1>2, <1>3 DEF SummaryInv, Built
<1>14. QED
  BY <1>1, <1>2, <1>4, <1>11, <1>12, <1>13 DEF IInv

\* The reports stay: so do the facts about them, in the phases that build on
\* them.
LEMMA ReportsKept ==
  ASSUME IInv, rounds' = rounds, reports' = reports, Built, Built'
  PROVE  /\ ReportsInv'
         /\ rounds' \in Seq([id: RoundIds \cup {None}, attempts: AttemptSets])
         /\ Len(rounds') <= MaxRounds
         /\ Len(reports) \in Nat \ {0}
<1>1. DuplicateId' = DuplicateId /\ \A k : RoundId(k)' = RoundId(k)
  BY SameRounds
<1>2. phase' \notin {"collecting", "rejected", "evaluating"}
  BY DEF Built
<1>3. ReportsInv
  BY DEF IInv
<1>4. rounds \in Seq([id: RoundIds \cup {None}, attempts: AttemptSets])
  BY DEF IInv
<1>5. Len(rounds) \in Nat \ {0} /\ Len(reports) = Len(rounds)
  BY <1>3, <1>4 DEF ReportsInv
<1>6. ReportsInv'
  BY <1>1, <1>2, <1>3 DEF ReportsInv
<1>7. QED
  BY <1>4, <1>5, <1>6 DEF IInv

LEMMA CompareRoundsStep ==
  ASSUME IInv, CompareRounds
  PROVE  IInv'
<1> DEFINE i == Len(transitions) + 1
           S == {Transition(reports[k], reports[k + 1]) : k \in 1..(Len(reports) - 1)}
<1>1. /\ phase = "comparing" /\ phase' = phase
      /\ Len(transitions) < Len(reports) - 1
      /\ transitions' = Append(transitions, Transition(reports[i], reports[i + 1]))
      /\ rounds' = rounds /\ reports' = reports /\ tasks' = tasks /\ summary' = summary
  BY DEF CompareRounds
<1>2. Built /\ Built'
  BY <1>1 DEF Built
<1>3. /\ ReportsInv'
      /\ rounds' \in Seq([id: RoundIds \cup {None}, attempts: AttemptSets])
      /\ Len(rounds') <= MaxRounds
      /\ Len(reports) \in Nat \ {0}
  BY <1>1, <1>2, ReportsKept
<1>4. /\ transitions \in Seq(S)
      /\ \A k \in DOMAIN transitions :
            transitions[k] = Transition(reports[k], reports[k + 1])
  BY DEF IInv, TransitionsInv
<1>5. i \in 1..(Len(reports) - 1)
  BY <1>1, <1>3, <1>4
<1> DEFINE new == Transition(reports[i], reports[i + 1])
<1>6. new \in S
  BY <1>5
<1> HIDE DEF S, new
<1>7. /\ transitions' \in Seq(S) /\ Len(transitions') = i
      /\ transitions'[i] = new
      /\ \A k \in DOMAIN transitions' : k # i => k \in DOMAIN transitions
                                          /\ transitions'[k] = transitions[k]
  BY <1>1, <1>4, <1>6 DEF new
<1>8. \A k \in DOMAIN transitions' :
         transitions'[k] = Transition(reports[k], reports[k + 1])
  BY <1>4, <1>7 DEF new
<1>9. TransitionsInv'
  BY <1>1, <1>2, <1>5, <1>7, <1>8 DEF TransitionsInv, S
<1>10. SummaryInv'
  BY <1>1 DEF IInv, SummaryInv
<1>11. QED
  BY <1>1, <1>3, <1>9, <1>10 DEF IInv, Phases

LEMMA ComparedStep ==
  ASSUME IInv, Compared
  PROVE  IInv'
<1>1. /\ phase = "comparing" /\ phase' = "tasks"
      /\ rounds' = rounds /\ reports' = reports /\ transitions' = transitions
      /\ tasks' = tasks /\ summary' = summary
  BY DEF Compared
<1>2. Built /\ Built'
  BY <1>1 DEF Built
<1>3. /\ ReportsInv'
      /\ rounds' \in Seq([id: RoundIds \cup {None}, attempts: AttemptSets])
      /\ Len(rounds') <= MaxRounds
  BY <1>1, <1>2, ReportsKept
<1>4. TransitionsInv'
  BY <1>1, <1>2 DEF IInv, TransitionsInv
<1>5. SummaryInv'
  BY <1>1 DEF IInv, SummaryInv
<1>6. QED
  BY <1>1, <1>3, <1>4, <1>5 DEF IInv, Phases

LEMMA BuildTaskReportsStep ==
  ASSUME IInv, BuildTaskReports
  PROVE  IInv'
<1>1. /\ phase = "tasks" /\ phase' = "summing"
      /\ tasks' = [t \in Tasks |-> TaskReport(t)]
      /\ rounds' = rounds /\ reports' = reports /\ transitions' = transitions
      /\ summary' = summary
  BY DEF BuildTaskReports
<1>2. Built /\ Built'
  BY <1>1 DEF Built
<1>3. /\ ReportsInv'
      /\ rounds' \in Seq([id: RoundIds \cup {None}, attempts: AttemptSets])
      /\ Len(rounds') <= MaxRounds
  BY <1>1, <1>2, ReportsKept
<1>4. TransitionsInv'
  BY <1>1, <1>2 DEF IInv, TransitionsInv
<1>5. SummaryInv'
  <2>1. summary' = None
    BY <1>1 DEF IInv, SummaryInv
  <2>2. tasks' = [t \in Tasks |-> TaskReport(t)']
    BY <1>1 DEF TaskReport, PassingRounds
  <2>3. QED
    BY <1>1, <2>1, <2>2 DEF SummaryInv
<1>6. QED
  BY <1>1, <1>3, <1>4, <1>5 DEF IInv, Phases

LEMMA BuildSummaryStep ==
  ASSUME IInv, BuildSummary
  PROVE  IInv'
<1>1. /\ phase = "summing" /\ phase' = "done" /\ summary' = Summary
      /\ rounds' = rounds /\ reports' = reports /\ transitions' = transitions
      /\ tasks' = tasks
  BY DEF BuildSummary
<1>2. Built /\ Built'
  BY <1>1 DEF Built
<1>3. /\ ReportsInv'
      /\ rounds' \in Seq([id: RoundIds \cup {None}, attempts: AttemptSets])
      /\ Len(rounds') <= MaxRounds
  BY <1>1, <1>2, ReportsKept
<1>4. TransitionsInv'
  BY <1>1, <1>2 DEF IInv, TransitionsInv
<1>5. SummaryInv'
  <2>1. Summary' = Summary
    BY <1>1 DEF Summary, PassingRounds, WithStatus
  <2>2. tasks = [t \in Tasks |-> TaskReport(t)]
    BY <1>1 DEF IInv, SummaryInv
  <2>3. tasks' = [t \in Tasks |-> TaskReport(t)']
    BY <1>1, <2>2 DEF TaskReport, PassingRounds
  <2>4. QED
    BY <1>1, <2>1, <2>3 DEF SummaryInv
<1>6. QED
  BY <1>1, <1>3, <1>4, <1>5 DEF IInv, Phases

LEMMA StutterStep ==
  ASSUME IInv, UNCHANGED vars
  PROVE  IInv'
<1>1. /\ phase' = phase /\ rounds' = rounds /\ reports' = reports
      /\ transitions' = transitions /\ tasks' = tasks /\ summary' = summary
  BY DEF vars
<1>2. Built' = Built
  BY <1>1 DEF Built
<1>3. ReportsInv'
  <2>1. DuplicateId' = DuplicateId /\ \A k : RoundId(k)' = RoundId(k)
    BY <1>1, SameRounds
  <2>2. QED
    BY <1>1, <1>2, <2>1 DEF IInv, ReportsInv
<1>4. TransitionsInv'
  BY <1>1, <1>2 DEF IInv, TransitionsInv
<1>5. SummaryInv'
  <2>1. Summary' = Summary
    BY <1>1 DEF Summary, PassingRounds, WithStatus
  <2>2. [t \in Tasks |-> TaskReport(t)'] = [t \in Tasks |-> TaskReport(t)]
    BY <1>1 DEF TaskReport, PassingRounds
  <2>3. QED
    BY <1>1, <2>1, <2>2 DEF IInv, SummaryInv
<1>6. QED
  BY <1>1, <1>3, <1>4, <1>5 DEF IInv

LEMMA NextInvariant == IInv /\ [Next]_vars => IInv'
BY AddRoundStep, NormalizeRoundsStep, EvaluateRoundStep, CompareRoundsStep,
   ComparedStep, BuildTaskReportsStep, BuildSummaryStep, StutterStep
   DEF Next, Terminated

LEMMA Invariant == Spec => []IInv
<1>1. QED
  BY InitInvariant, NextInvariant, PTL DEF Spec

-----------------------------------------------------------------------------
(***************************************************************************)
(* Theorems about the rounds.                                              *)
(***************************************************************************)
LEMMA ReportTypes ==
  ASSUME IInv
  PROVE  /\ reports \in Seq([id: RoundIds \cup {DefaultIds[i] : i \in 1..4},
                             results: Report])
         /\ Len(reports) \in Nat
         /\ \A i \in DOMAIN reports : \A t \in Tasks :
               /\ Scored(t, reports[i].results[t])
               /\ reports[i].results[t] \in Result
         /\ \A i \in DOMAIN reports : reports[i].results \in Report
         /\ \A i \in DOMAIN transitions : i \in DOMAIN reports /\ i + 1 \in DOMAIN reports
<1>1. ReportsInv /\ TransitionsInv
  BY DEF IInv
<1>2. reports \in Seq([id: RoundIds \cup {DefaultIds[i] : i \in 1..4},
                       results: Report])
  BY <1>1 DEF ReportsInv
<1>3. \A i \in DOMAIN reports : reports[i].results \in Report
  <2>1. \A i \in DOMAIN reports :
          reports[i] \in [id: RoundIds \cup {DefaultIds[k] : k \in 1..4}, results: Report]
    BY <1>2, MemberOfSeq
  <2>2. QED
    BY <2>1
<1>4. \A i \in DOMAIN transitions : i \in DOMAIN reports /\ i + 1 \in DOMAIN reports
  <2>1. transitions # <<>> => Len(transitions) <= Len(reports) - 1
    BY <1>1 DEF TransitionsInv
  <2>2. Len(transitions) \in Nat /\ DOMAIN transitions = 1..Len(transitions)
    BY <1>1 DEF TransitionsInv
  <2>3. Len(reports) \in Nat /\ DOMAIN reports = 1..Len(reports)
    BY <1>2
  <2>4. transitions = <<>> => Len(transitions) = 0
    OBVIOUS
  <2>5. QED
    BY <2>1, <2>2, <2>3, <2>4
<1>5. QED
  BY <1>1, <1>2, <1>3, <1>4 DEF ReportsInv, Scored

\* The type invariant, for any number of rounds within the bound.
THEOREM TypeCorrect == Spec => []TypeOK
<1>1. IInv => TypeOK
  <2> SUFFICES ASSUME IInv PROVE TypeOK
    OBVIOUS
  <2>1. reports \in Seq([id: RoundIds \cup {DefaultIds[i] : i \in 1..4}, results: Report])
    BY ReportTypes
  <2>2. Len(reports) \in Nat /\ Len(rounds) \in Nat
    <3>1. rounds \in Seq([id: RoundIds \cup {None}, attempts: AttemptSets])
      BY DEF IInv
    <3>2. QED
      BY <2>1, <3>1
  <2>3. Len(reports) <= Len(rounds)
    <3>1. phase \in {"collecting", "rejected"} \/ phase = "evaluating" \/ Built
      BY DEF IInv, Phases, Built
    <3>2. QED
      BY <2>2, <3>1 DEF IInv, ReportsInv
  <2>4. Len(transitions) <= Len(reports)
    <3>1. Len(transitions) \in Nat
      BY DEF IInv, TransitionsInv
    <3>2. Built \/ Len(transitions) = 0
      BY DEF IInv, TransitionsInv
    <3>3. QED
      BY <2>2, <3>1, <3>2 DEF IInv, TransitionsInv
  <2>5. QED
    BY <2>1, <2>3, <2>4 DEF IInv, TypeOK
<1>2. QED
  BY <1>1, Invariant, PTL

\* qualityScore never ranks a failing attempt above a passing one: for every
\* dataset, every set of codes and repairs and however many of them.
THEOREM PassingOutranks == Spec => []PassingOutranksFailing
<1>1. IInv => PassingOutranksFailing
  BY ReportTypes, PassingIsAhead DEF PassingOutranksFailing
<1>2. QED
  BY <1>1, Invariant, PTL

\* A task that is lost between the first and the last round is reported as
\* regressed: the score the status is read from falls with the verdict.
THEOREM LostRegress == Spec => []LostTasksRegress
<1>1. IInv => LostTasksRegress
  <2> SUFFICES ASSUME IInv, tasks # None,
                      NEW t \in PassedIn(reports[1].results)
                                  \ PassedIn(reports[Len(reports)].results)
               PROVE  tasks[t].status = "regressed"
    BY DEF LostTasksRegress
  <2> DEFINE first == reports[1].results
             last == reports[Len(reports)].results
  <2>1. Built
    BY DEF IInv, SummaryInv, Built
  <2>2. Len(reports) \in Nat \ {0}
    BY <2>1, ReportTypes DEF IInv, ReportsInv
  <2>3. 1 \in DOMAIN reports /\ Len(reports) \in DOMAIN reports
    BY <2>2, ReportTypes
  <2>4. DOMAIN first = Tasks /\ DOMAIN last = Tasks
    BY <2>3, ReportTypes DEF Report
  <2>5. t \in Tasks /\ first[t].passed /\ ~last[t].passed
    BY <2>4 DEF PassedIn
  <2>6. Scored(t, first[t]) /\ Scored(t, last[t])
    BY <2>3, <2>5, ReportTypes
  <2>7. qualityScore(last[t]) < qualityScore(first[t])
    BY <2>5, <2>6, PassingScore, FailingScore
  <2>8. tasks[t].status = taskStatus(first[t], last[t])
    BY <2>5 DEF IInv, SummaryInv, TaskReport
  <2>9. ~(qualityScore(last[t]) > qualityScore(first[t]))
    BY <2>5, <2>6, PassingScore, FailingScore
  <2> HIDE DEF first, last
  <2>10. QED
    BY <2>5, <2>7, <2>8, <2>9 DEF taskStatus
<1>2. QED
  BY <1>1, Invariant, PTL

-----------------------------------------------------------------------------
(***************************************************************************)
(* Counts.                                                                 *)
(***************************************************************************)
LEMMA CountSplits ==
  ASSUME NEW U, IsFiniteSet(U), NEW S \in SUBSET U, NEW T
  PROVE  /\ Cardinality(S) \in Nat
         /\ Cardinality(S \ T) \in Nat /\ Cardinality(S \cap T) \in Nat
         /\ Cardinality(S) = Cardinality(S \ T) + Cardinality(S \cap T)
<1>1. IsFiniteSet(S)
  BY FS_Subset
<1>2. IsFiniteSet(S \ T) /\ IsFiniteSet(S \cap T)
  BY <1>1, FS_Difference, FS_Intersection
<1>3. Cardinality(S \ T) = Cardinality(S) - Cardinality(S \cap T)
  BY <1>1, FS_Difference
<1>4. /\ Cardinality(S) \in Nat /\ Cardinality(S \ T) \in Nat
      /\ Cardinality(S \cap T) \in Nat
  BY <1>1, <1>2, FS_CardinalityType
<1>5. QED
  BY <1>3, <1>4

\* Two rounds differ in a code by what was addressed and what was introduced.
THEOREM DiagnosticsKept == Spec => []DiagnosticsConserved
<1>1. IInv => DiagnosticsConserved
  <2> SUFFICES ASSUME IInv, NEW i \in DOMAIN transitions, NEW c \in Codes
               PROVE  diagnosticsByCode(reports[i + 1].results)[c] =
                        diagnosticsByCode(reports[i].results)[c]
                        - transitions[i].diagnosticsAddressed[c]
                        + transitions[i].diagnosticsIntroduced[c]
    BY DEF DiagnosticsConserved
  <2> DEFINE left == reports[i].results
             right == reports[i + 1].results
             L == WithCode(left, c)
             R == WithCode(right, c)
  <2>1. /\ diagnosticsByCode(left)[c] = Cardinality(L)
        /\ diagnosticsByCode(right)[c] = Cardinality(R)
    BY DEF diagnosticsByCode
  <2>2. transitions[i] = Transition(reports[i], reports[i + 1])
    BY DEF IInv, TransitionsInv
  <2>3. /\ transitions[i].diagnosticsAddressed[c] = Cardinality(L \ R)
        /\ transitions[i].diagnosticsIntroduced[c] = Cardinality(R \ L)
    BY <2>2 DEF Transition, CodeGone
  <2>4. left \in Report /\ right \in Report
    BY ReportTypes
  <2>5. L \in SUBSET Tasks /\ R \in SUBSET Tasks
    BY <2>4 DEF WithCode, Report
  <2> HIDE DEF L, R
  <2>6. L \cap R = R \cap L
    OBVIOUS
  <2>7. /\ Cardinality(L) = Cardinality(L \ R) + Cardinality(L \cap R)
        /\ Cardinality(R) = Cardinality(R \ L) + Cardinality(R \cap L)
        /\ Cardinality(L \ R) \in Nat /\ Cardinality(R \ L) \in Nat
        /\ Cardinality(L \cap R) \in Nat
    BY <2>5, CountSplits, EvalsAssumption
  <2>8. Cardinality(L \cap R) = Cardinality(R \cap L)
    BY <2>6
  <2>9. Cardinality(R) = Cardinality(L) - Cardinality(L \ R) + Cardinality(R \ L)
    BY <2>7, <2>8
  <2>10. QED
    BY <2>1, <2>3, <2>9
<1>2. QED
  BY <1>1, Invariant, PTL

\* No pass of a retry goes uncounted.
THEOREM PassesCounted == Spec => []PassesAccountedFor
<1>1. IInv => PassesAccountedFor
  <2> SUFFICES ASSUME IInv, NEW i \in DOMAIN transitions
               PROVE  LET before == reports[i].results
                          after == reports[i + 1].results
                          clean == Tasks \ repairFeedbackPackets(before)
                      IN  /\ clean \subseteq PassedIn(before)
                          /\ Cardinality(PassedIn(after)) =
                               transitions[i].retryPacketsResolved
                               + Cardinality(clean \cap PassedIn(after))
    BY DEF PassesAccountedFor
  <2> DEFINE before == reports[i].results
             after == reports[i + 1].results
             packets == repairFeedbackPackets(before)
             P == PassedIn(after)
  <2>1. before \in Report /\ after \in Report
    BY ReportTypes
  <2>2. Tasks \ packets \subseteq PassedIn(before)
    BY <2>1 DEF repairFeedbackPackets, PassedIn, Report
  <2>3. P \in SUBSET Tasks
    BY <2>1 DEF PassedIn, Report
  <2>4. transitions[i] = Transition(reports[i], reports[i + 1])
    BY DEF IInv, TransitionsInv
  <2>5. transitions[i].retryPacketsResolved = Cardinality(packets \cap P)
    BY <2>4 DEF Transition
  <2> HIDE DEF packets, P
  <2>6. P \ packets = (Tasks \ packets) \cap P /\ packets \cap P = P \cap packets
    BY <2>3
  <2>7. /\ Cardinality(P) = Cardinality(P \ packets) + Cardinality(P \cap packets)
        /\ Cardinality(P \ packets) \in Nat /\ Cardinality(P \cap packets) \in Nat
    BY <2>3, CountSplits, EvalsAssumption
  <2>8. /\ Cardinality(P \ packets) = Cardinality((Tasks \ packets) \cap P)
        /\ Cardinality(packets \cap P) = Cardinality(P \cap packets)
    BY <2>6, Zenon
  <2>9. Cardinality(P) = Cardinality(packets \cap P)
                           + Cardinality((Tasks \ packets) \cap P)
    <3> DEFINE a == Cardinality(P \ packets)
               b == Cardinality(P \cap packets)
    <3>1. /\ a \in Nat /\ b \in Nat /\ Cardinality(P) = a + b
          /\ a = Cardinality((Tasks \ packets) \cap P)
          /\ b = Cardinality(packets \cap P)
      BY <2>7, <2>8
    <3> HIDE DEF a, b
    <3>2. QED
      BY <3>1
  <2>10. QED
    BY <2>2, <2>5, <2>9 DEF packets, P
<1>2. QED
  BY <1>1, Invariant, PTL

LEMMA IdsAreDifferent ==
  ASSUME IInv, Built, NEW i \in DOMAIN reports, NEW j \in DOMAIN reports,
         reports[i].id = reports[j].id
  PROVE  i = j
<1>1. Len(reports) = Len(rounds) /\ ~DuplicateId
  BY DEF IInv, ReportsInv
<1>2. Len(rounds) \in Nat /\ DOMAIN rounds = 1..Len(rounds)
  <2>1. rounds \in Seq([id: RoundIds \cup {None}, attempts: AttemptSets])
    BY DEF IInv
  <2>2. QED
    BY <2>1
<1>3. DOMAIN reports = 1..Len(rounds)
  BY <1>1, ReportTypes
<1>4. i \in DOMAIN rounds /\ j \in DOMAIN rounds /\ i \in Nat /\ j \in Nat
  BY <1>2, <1>3
<1>5. RoundId(i) = RoundId(j)
  BY DEF IInv, ReportsInv
<1>6. ~(i < j) /\ ~(j < i)
  BY <1>1, <1>4, <1>5 DEF DuplicateId
<1>7. QED
  BY <1>4, <1>6

\* The first passing round of a task report is the first passing round.
THEOREM RoundsIdentified == Spec => []RoundIdsIdentify
<1>1. IInv => RoundIdsIdentify
  <2> SUFFICES ASSUME IInv, tasks # None, NEW t \in Tasks, NEW i \in DOMAIN reports,
                      tasks[t].firstPassingRoundId = reports[i].id
               PROVE  /\ reports[i].results[t].passed
                      /\ \A j \in 1..(i - 1) : ~reports[j].results[t].passed
    BY DEF RoundIdsIdentify
  <2> DEFINE passing == PassingRounds(t)
  <2>1. Built
    BY DEF IInv, SummaryInv, Built
  <2>2. tasks[t].firstPassingRoundId =
           IF passing = {} THEN None ELSE reports[Min(passing)].id
    BY DEF IInv, SummaryInv, TaskReport
  <2>3. reports[i].id # None
    <3>1. reports[i] \in [id: RoundIds \cup {DefaultIds[k] : k \in 1..4}, results: Report]
      BY ReportTypes, MemberOfSeq
    <3>2. reports[i].id \in RoundIds \cup {DefaultIds[k] : k \in 1..4}
      BY <3>1
    <3>3. QED
      BY <3>2, RetryAssumption
  <2>4. passing # {}
    BY <2>2, <2>3
  <2>5. DOMAIN reports = 1..Len(reports) /\ Len(reports) \in Nat
    BY ReportTypes
  <2>6. passing \in SUBSET Nat
    BY <2>5 DEF PassingRounds
  <2>7. Min(passing) \in passing /\ \A j \in passing : Min(passing) <= j
    BY <2>4, <2>6, FirstExists
  <2>8. Min(passing) \in DOMAIN reports
    BY <2>7 DEF PassingRounds
  <2>9. Min(passing) = i
    BY <2>1, <2>2, <2>4, <2>8, IdsAreDifferent
  <2>10. reports[i].results[t].passed
    BY <2>7, <2>9 DEF PassingRounds
  <2>11. ASSUME NEW j \in 1..(i - 1)
         PROVE  ~reports[j].results[t].passed
    <3>1. j \in DOMAIN reports /\ j < i
      BY <2>5
    <3>2. j \notin passing
      BY <2>5, <2>7, <2>9, <3>1
    <3>3. QED
      BY <3>1, <3>2 DEF PassingRounds
  <2>12. QED
    BY <2>10, <2>11
<1>2. QED
  BY <1>1, Invariant, PTL

LEMMA CountOfDisjoint ==
  ASSUME NEW U, IsFiniteSet(U), NEW S \in SUBSET U, NEW T \in SUBSET U,
         S \cap T = {}
  PROVE  Cardinality(S \cup T) = Cardinality(S) + Cardinality(T)
<1>1. S \cup T \in SUBSET U
  OBVIOUS
<1>2. (S \cup T) \ S = T /\ (S \cup T) \cap S = S
  OBVIOUS
<1>3. /\ Cardinality(S \cup T) = Cardinality((S \cup T) \ S)
                                    + Cardinality((S \cup T) \cap S)
      /\ Cardinality(S) \in Nat /\ Cardinality(T) \in Nat
  BY <1>1, CountSplits
<1>4. /\ Cardinality((S \cup T) \ S) = Cardinality(T)
      /\ Cardinality((S \cup T) \cap S) = Cardinality(S)
  BY <1>2
<1>5. QED
  BY <1>3, <1>4

\* The statuses of the task reports, from the verdicts of the first and the
\* last round.
LEMMA StatusSets ==
  ASSUME IInv, phase \in {"summing", "done"}
  PROVE  LET first == PassedIn(reports[1].results)
             last == PassedIn(reports[Len(reports)].results)
             With(s) == {t \in Tasks : tasks[t].status = s}
         IN  /\ first \in SUBSET Tasks /\ last \in SUBSET Tasks
             /\ With("already-passed") = first \cap last
             /\ With("converged") = last \ first
             /\ With("improved") \cup With("regressed") \cup With("unresolved")
                  = Tasks \ last
<1> DEFINE one == reports[1].results
           end == reports[Len(reports)].results
           first == PassedIn(one)
           last == PassedIn(end)
           With(s) == {t \in Tasks : tasks[t].status = s}
<1>1. Built
  BY DEF Built
<1>2. Len(reports) \in Nat \ {0}
  BY <1>1, ReportTypes DEF IInv, ReportsInv
<1>3. 1 \in DOMAIN reports /\ Len(reports) \in DOMAIN reports
  BY <1>2, ReportTypes
<1>4. one \in Report /\ end \in Report
  BY <1>3, ReportTypes
<1>5. \A t \in Tasks : /\ t \in first <=> one[t].passed
                       /\ t \in last <=> end[t].passed
  BY <1>4 DEF PassedIn, Report
<1>6. first \in SUBSET Tasks /\ last \in SUBSET Tasks
  BY <1>4 DEF PassedIn, Report
<1>7. \A t \in Tasks : tasks[t].status = taskStatus(one[t], end[t])
  BY DEF IInv, SummaryInv, TaskReport
<1> HIDE DEF one, end, first, last
<1>8. \A t \in Tasks :
        /\ tasks[t].status = "already-passed" <=> t \in first /\ t \in last
        /\ tasks[t].status = "converged" <=> t \notin first /\ t \in last
        /\ tasks[t].status \in {"improved", "regressed", "unresolved"}
             <=> t \notin last
  BY <1>5, <1>7 DEF taskStatus
<1>9. /\ With("already-passed") = first \cap last
      /\ With("converged") = last \ first
      /\ With("improved") \cup With("regressed") \cup With("unresolved")
           = Tasks \ last
  BY <1>6, <1>8
<1>10. QED
  BY <1>6, <1>9 DEF first, last, one, end

\* The statuses agree with the metrics of the first and the last round.
THEOREM StatusesAgree == Spec => []StatusesAgreeWithMetrics
<1>1. IInv => StatusesAgreeWithMetrics
  <2> DEFINE first == PassedIn(reports[1].results)
             last == PassedIn(reports[Len(reports)].results)
             With(s) == {t \in Tasks : tasks[t].status = s}
             n == summary.statuses
  <2> SUFFICES ASSUME IInv, summary # None
               PROVE  /\ n["already-passed"] + n["converged"] + n["improved"]
                           + n["regressed"] + n["unresolved"] = summary.totalTasks
                      /\ n["already-passed"] + n["converged"] = summary.finalPassedTasks
                      /\ summary.deltaPassedTasks
                           = n["converged"] - Cardinality(first \ last)
    BY DEF StatusesAgreeWithMetrics
  <2>1. phase = "done" /\ summary = Summary
    BY DEF IInv, SummaryInv
  <2>2. \A s \in Statuses : n[s] = Cardinality(With(s))
    BY <2>1 DEF Summary, WithStatus
  <2>3. /\ summary.totalTasks = Cardinality(Tasks)
        /\ summary.finalPassedTasks = Cardinality(last)
        /\ summary.deltaPassedTasks = Cardinality(last) - Cardinality(first)
    BY <2>1 DEF Summary, computeMetrics
  <2>4. /\ first \in SUBSET Tasks /\ last \in SUBSET Tasks
        /\ With("already-passed") = first \cap last
        /\ With("converged") = last \ first
        /\ With("improved") \cup With("regressed") \cup With("unresolved")
             = Tasks \ last
    BY <2>1, StatusSets
  <2>5. IsFiniteSet(Tasks)
    BY EvalsAssumption
  <2> DEFINE a == With("already-passed")
             c == With("converged")
             i == With("improved")
             r == With("regressed")
             u == With("unresolved")
  <2>6. /\ i \cap r = {} /\ (i \cup r) \cap u = {}
        /\ i \in SUBSET Tasks /\ r \in SUBSET Tasks /\ u \in SUBSET Tasks
        /\ i \cup r \in SUBSET Tasks
    OBVIOUS
  <2> HIDE DEF first, last, n
  <2>7. /\ n["already-passed"] = Cardinality(a) /\ n["converged"] = Cardinality(c)
        /\ n["improved"] = Cardinality(i) /\ n["regressed"] = Cardinality(r)
        /\ n["unresolved"] = Cardinality(u)
    BY <2>2 DEF Statuses
  <2> HIDE DEF a, c, i, r, u, With
  <2>8. Cardinality(i \cup r \cup u) = Cardinality(i) + Cardinality(r) + Cardinality(u)
    <3>1. Cardinality(i \cup r) = Cardinality(i) + Cardinality(r)
      BY <2>5, <2>6, CountOfDisjoint
    <3>2. Cardinality((i \cup r) \cup u) = Cardinality(i \cup r) + Cardinality(u)
      BY <2>5, <2>6, CountOfDisjoint
    <3>3. QED
      BY <3>1, <3>2
  <2>9. /\ Cardinality(i) \in Nat /\ Cardinality(r) \in Nat /\ Cardinality(u) \in Nat
    BY <2>5, <2>6, CountSplits
  <2>10. a = first \cap last /\ c = last \ first /\ i \cup r \cup u = Tasks \ last
    BY <2>4 DEF a, c, i, r, u
  <2>11. last \cap first = first \cap last /\ Tasks \cap last = last
    BY <2>4
  <2>12. /\ Cardinality(last) = Cardinality(last \ first) + Cardinality(last \cap first)
         /\ Cardinality(first) = Cardinality(first \ last) + Cardinality(first \cap last)
         /\ Cardinality(Tasks) = Cardinality(Tasks \ last) + Cardinality(Tasks \cap last)
         /\ Cardinality(last) \in Nat /\ Cardinality(first) \in Nat
         /\ Cardinality(last \ first) \in Nat /\ Cardinality(first \ last) \in Nat
         /\ Cardinality(first \cap last) \in Nat
    BY <2>4, <2>5, CountSplits
  <2>13. /\ Cardinality(a) = Cardinality(first \cap last)
         /\ Cardinality(last \cap first) = Cardinality(first \cap last)
         /\ Cardinality(c) = Cardinality(last \ first)
         /\ Cardinality(Tasks \ last) = Cardinality(i \cup r \cup u)
         /\ Cardinality(Tasks \cap last) = Cardinality(last)
    BY <2>10, <2>11
  <2>14. /\ Cardinality(a) \in Nat /\ Cardinality(c) \in Nat
         /\ Cardinality(last) = Cardinality(c) + Cardinality(a)
         /\ Cardinality(first) = Cardinality(first \ last) + Cardinality(a)
         /\ Cardinality(Tasks) = Cardinality(i) + Cardinality(r) + Cardinality(u)
                                   + Cardinality(last)
    BY <2>8, <2>9, <2>12, <2>13
  <2>15. n["already-passed"] + n["converged"] + n["improved"] + n["regressed"]
            + n["unresolved"] = summary.totalTasks
    BY <2>3, <2>7, <2>9, <2>12, <2>14
  <2>16. n["already-passed"] + n["converged"] = summary.finalPassedTasks
    BY <2>3, <2>7, <2>14
  <2>17. summary.deltaPassedTasks = n["converged"] - Cardinality(first \ last)
    BY <2>3, <2>7, <2>12, <2>14
  <2>18. QED
    BY <2>15, <2>16, <2>17 DEF first, last, n
<1>2. QED
  BY <1>1, Invariant, PTL

-----------------------------------------------------------------------------
(***************************************************************************)
(* Metrics are numbers.                                                    *)
(***************************************************************************)
ScoredReport(r) ==
    DOMAIN r \in SUBSET Tasks /\ \A t \in DOMAIN r : Scored(t, r[t])

LEMMA SubsetCounts ==
  ASSUME NEW S, IsFiniteSet(S), NEW T \in SUBSET S
  PROVE  /\ Cardinality(T) \in Nat /\ Cardinality(S) \in Nat
         /\ Cardinality(T) <= Cardinality(S)
BY FS_Subset, FS_CardinalityType

LEMMA ExpectationPassesType ==
  ASSUME NEW r, ScoredReport(r), NEW kind
  PROVE  ExpectationPasses(r, kind) \in Nat
<1> DEFINE pairs(t) == {t} \X PassesOf(r[t].expectations, kind)
           image == {pairs(t) : t \in DOMAIN r}
           f == [t \in DOMAIN r |-> pairs(t)]
<1>1. IsFiniteSet(DOMAIN r)
  BY EvalsAssumption, FS_Subset DEF ScoredReport
<1>2. ASSUME NEW t \in DOMAIN r
      PROVE  IsFiniteSet(pairs(t))
  <2>1. IsFiniteSet(r[t].expectations)
    BY DEF ScoredReport, Scored
  <2>2. PassesOf(r[t].expectations, kind) \in SUBSET r[t].expectations
    BY DEF PassesOf
  <2>3. IsFiniteSet(PassesOf(r[t].expectations, kind))
    BY <2>1, <2>2, FS_Subset
  <2>4. IsFiniteSet({t})
    BY FS_Singleton
  <2>5. QED
    BY <2>3, <2>4, FS_Product
<1>3. f \in Surjection(DOMAIN r, image)
  BY DEF Surjection
<1>4. \A S \in image : IsFiniteSet(S)
  BY <1>2
<1>5. ExpectationPasses(r, kind) = Cardinality(UNION image)
  BY DEF ExpectationPasses
<1> HIDE DEF f, image, pairs
<1>6. IsFiniteSet(image)
  BY <1>1, <1>3, FS_Surjection
<1>7. IsFiniteSet(UNION image)
  BY <1>4, <1>6, FS_UNION
<1>8. QED
  BY <1>5, <1>7, FS_CardinalityType

LEMMA CountsType ==
  ASSUME NEW r, ScoredReport(r)
  PROVE  LET total == Cardinality(DOMAIN r)
             passed == Cardinality(PassedIn(r))
             runs == Cardinality(Executable(r))
         IN  /\ total \in Nat
             /\ passed \in Nat /\ passed <= total
             /\ runs \in Nat /\ runs <= total
             /\ \A kind : Cardinality(OfKind(r, kind)) \in Nat
             /\ \A c : diagnosticsByCode(r) = [x \in Codes |-> Cardinality(WithCode(r, x))]
                       /\ Cardinality(WithCode(r, c)) \in Nat
<1>1. IsFiniteSet(DOMAIN r)
  BY EvalsAssumption, FS_Subset DEF ScoredReport
<1>2. PassedIn(r) \in SUBSET DOMAIN r /\ Executable(r) \in SUBSET DOMAIN r
  BY DEF PassedIn, Executable
<1>3. \A kind : OfKind(r, kind) \in SUBSET DOMAIN r
  BY DEF OfKind
<1>4. \A c : WithCode(r, c) \in SUBSET DOMAIN r
  BY DEF WithCode
<1>5. QED
  BY <1>1, <1>2, <1>3, <1>4, SubsetCounts DEF diagnosticsByCode

LEMMA MetricType ==
  ASSUME NEW r, ScoredReport(r), NEW m \in Directional
  PROVE  Metric(r, m) \in Int
<1> DEFINE total == Cardinality(DOMAIN r)
           passed == Cardinality(PassedIn(r))
           runs == Cardinality(Executable(r))
           M == computeMetrics(r)
<1>1. /\ total \in Nat /\ passed \in Nat /\ passed <= total
      /\ runs \in Nat /\ runs <= total
      /\ \A kind : Cardinality(OfKind(r, kind)) \in Nat
  BY CountsType
<1>2. /\ M.passRate = ratio(passed, total) /\ M.executableRate = ratio(runs, total)
      /\ M.passedTasks = passed /\ M.executablePlans = runs
      /\ M.failedTasks = total - passed
      /\ M.missingAttempts = Cardinality(OfKind(r, "missing"))
      /\ M.noCypherAttempts = Cardinality(OfKind(r, "no-cypher"))
      /\ M.timeoutAttempts = Cardinality(OfKind(r, "timeout"))
      /\ M.expectedCypherMatches = ExpectationPasses(r, "cypher-contains")
      /\ M.expectedDiagnosticMatches = ExpectationPasses(r, "diagnostic-code")
  BY DEF computeMetrics
<1>3. /\ ExpectationPasses(r, "cypher-contains") \in Int
      /\ ExpectationPasses(r, "diagnostic-code") \in Int
  BY ExpectationPassesType
<1> HIDE DEF total, passed, runs, M
<1>4. ratio(passed, total) \in Int /\ ratio(runs, total) \in Int
  BY <1>1, RatioBounds
<1>5. /\ M["passRate"] \in Int /\ M["executableRate"] \in Int
      /\ M["passedTasks"] \in Int /\ M["executablePlans"] \in Int
      /\ M["failedTasks"] \in Int /\ M["missingAttempts"] \in Int
      /\ M["noCypherAttempts"] \in Int /\ M["timeoutAttempts"] \in Int
      /\ M["expectedCypherMatches"] \in Int
      /\ M["expectedDiagnosticMatches"] \in Int
  BY <1>1, <1>2, <1>3, <1>4
<1>6. M[m] \in Int
  BY <1>5 DEF Directional, HIGHER_IS_BETTER, LOWER_IS_BETTER
<1>7. QED
  BY <1>6 DEF Metric, M

-----------------------------------------------------------------------------
(***************************************************************************)
(* Gates.                                                                  *)
(***************************************************************************)
LEMMA GatePassed ==
  ASSUME NEW base, NEW cand, NEW o
  PROVE  GateStatus(base, cand, o) = "passed" <=>
           /\ Regressed(base, cand, o.tolerance) = {}
           /\ MeetsFloor(Metric(cand, "passRate"), o.minPassRate, o.tolerance)
           /\ MeetsFloor(Metric(cand, "executableRate"), o.minExecutableRate,
                         o.tolerance)
           /\ o.failOnDiagnosticRegression => DiagnosticRegressions(base, cand) = {}
BY DEF GateStatus, FailedChecks

LEMMA ToleranceForgives ==
  ASSUME NEW base, ScoredReport(base), NEW cand, ScoredReport(cand),
         NEW x \in Nat, NEW y \in Nat, x >= y,
         Regressed(base, cand, y) = {}
  PROVE  Regressed(base, cand, x) = {}
<1> SUFFICES ASSUME NEW m \in Regressed(base, cand, x)
             PROVE  FALSE
  OBVIOUS
<1> DEFINE d == Distance(Metric(base, m), Metric(cand, m))
<1>1. /\ m \in Directional /\ d > x
      /\ Better(m, Metric(base, m), Metric(cand, m))
  BY DEF Regressed
<1>2. Metric(base, m) \in Int /\ Metric(cand, m) \in Int
  BY <1>1, MetricType
<1>3. d \in Int
  BY <1>2 DEF Distance
<1> HIDE DEF d
<1>4. d > y
  BY <1>1, <1>3
<1>5. m \in Regressed(base, cand, y)
  BY <1>1, <1>4 DEF Regressed, d
<1>6. QED
  BY <1>5

LEMMA NoLoss ==
  ASSUME NEW base, ScoredReport(base), NEW cand, ScoredReport(cand)
  PROVE  Regressed(base, cand, 0) = {} <=>
           \A m \in Directional : ~Better(m, Metric(base, m), Metric(cand, m))
<1>1. ASSUME NEW m \in Directional, Better(m, Metric(base, m), Metric(cand, m))
      PROVE  Distance(Metric(base, m), Metric(cand, m)) > 0
  BY <1>1, MetricType DEF Better, Distance
<1>2. QED
  BY <1>1 DEF Regressed

LEMMA LossesAdd ==
  ASSUME NEW a, ScoredReport(a), NEW b, ScoredReport(b), NEW c, ScoredReport(c),
         Regressed(a, b, 0) = {}, Regressed(b, c, 0) = {}
  PROVE  Regressed(a, c, 0) = {}
<1> SUFFICES ASSUME NEW m \in Directional
             PROVE  ~Better(m, Metric(a, m), Metric(c, m))
  BY NoLoss
<1>1. /\ ~Better(m, Metric(a, m), Metric(b, m))
      /\ ~Better(m, Metric(b, m), Metric(c, m))
  BY NoLoss
<1>2. Metric(a, m) \in Int /\ Metric(b, m) \in Int /\ Metric(c, m) \in Int
  BY MetricType
<1>3. QED
  BY <1>1, <1>2 DEF Better

LEMMA DiagnosticsAdd ==
  ASSUME NEW a, ScoredReport(a), NEW b, ScoredReport(b), NEW c, ScoredReport(c),
         DiagnosticRegressions(a, b) = {}, DiagnosticRegressions(b, c) = {}
  PROVE  DiagnosticRegressions(a, c) = {}
<1> SUFFICES ASSUME NEW x \in Codes
             PROVE  ~(diagnosticsByCode(c)[x] > diagnosticsByCode(a)[x])
  BY DEF DiagnosticRegressions
<1>1. /\ ~(diagnosticsByCode(b)[x] > diagnosticsByCode(a)[x])
      /\ ~(diagnosticsByCode(c)[x] > diagnosticsByCode(b)[x])
  BY DEF DiagnosticRegressions
<1>2. /\ diagnosticsByCode(a)[x] \in Nat /\ diagnosticsByCode(b)[x] \in Nat
      /\ diagnosticsByCode(c)[x] \in Nat
  BY CountsType DEF diagnosticsByCode
<1>3. QED
  BY <1>1, <1>2

\* The verdict of the last gate is that of the reports it was given, which
\* are still there.
GateInv ==
    gate # None =>
        /\ phase = "done"
        /\ gate.baseline \in Lanes /\ gate.candidate \in Lanes
        /\ gate.known \in Datasets /\ gate.options \in Options
        /\ gate.status = GateStatus(Over(Lane(gate.baseline), gate.known),
                                    Lane(gate.candidate), gate.options)

LEMMA GateKept ==
  ASSUME GateInv, gate' = gate, reports' = reports, phase' = phase
  PROVE  GateInv'
BY DEF GateInv, Lanes, Lane

LEMMA GateInvariant == GateSpec => [](IInv /\ GateInv)
<1>1. GateInit => IInv /\ GateInv
  BY InitInvariant DEF GateInit, GateInv
<1>2. IInv /\ GateInv /\ [GateNext]_<<vars, gate, scorecard>> => (IInv /\ GateInv)'
  <2> SUFFICES ASSUME IInv, GateInv, [GateNext]_<<vars, gate, scorecard>>
               PROVE  IInv' /\ GateInv'
    OBVIOUS
  <2>1. CASE Next /\ UNCHANGED gateVars
    <3>1. IInv'
      BY <2>1, NextInvariant
    <3>2. gate' = gate
      BY <2>1 DEF gateVars
    <3>3. CASE gate = None
      BY <3>1, <3>2, <3>3 DEF GateInv
    <3>4. CASE gate # None
      <4>1. phase = "done"
        BY <3>4 DEF GateInv
      <4>2. UNCHANGED vars
        BY <2>1, <4>1 DEF Next, AddRound, NormalizeRounds, EvaluateRound,
           CompareRounds, Compared, BuildTaskReports, BuildSummary, Terminated
      <4>3. QED
        BY <3>1, <3>2, <4>2, GateKept DEF vars
    <3>5. QED
      BY <3>3, <3>4
  <2>2. ASSUME NEW b \in Lanes, NEW c \in Lanes, NEW T \in Datasets, NEW o \in Options,
               RunGate(b, T, c, o)
        PROVE  IInv' /\ GateInv'
    <3>1. /\ UNCHANGED vars /\ phase = "done"
          /\ gate' = [baseline |-> b, known |-> T, candidate |-> c, options |-> o,
                      status |-> GateStatus(Over(Lane(b), T), Lane(c), o)]
      BY <2>2 DEF RunGate, Idle
    <3>2. phase' = phase /\ reports' = reports
      BY <3>1 DEF vars
    <3>3. IInv'
      BY <3>1, StutterStep
    <3>4. /\ gate'.baseline = b /\ gate'.candidate = c /\ gate'.known = T
          /\ gate'.options = o
          /\ gate'.status = GateStatus(Over(Lane(b), T), Lane(c), o)
      BY <3>1
    <3>5. GateInv'
      BY <3>1, <3>2, <3>4 DEF GateInv, Lanes, Lane
    <3>6. QED
      BY <3>3, <3>5
  <2>3. ASSUME NEW b, BuildScorecard(b)
        PROVE  IInv' /\ GateInv'
    <3>1. UNCHANGED vars /\ gate' = gate
      BY <2>3 DEF BuildScorecard
    <3>2. QED
      BY <3>1, StutterStep, GateKept DEF vars
  <2>4. CASE UNCHANGED <<vars, gate, scorecard>>
    <3>1. UNCHANGED vars /\ gate' = gate
      BY <2>4
    <3>2. QED
      BY <3>1, StutterStep, GateKept DEF vars
  <2>5. QED
    BY <2>1, <2>2, <2>3, <2>4 DEF GateNext
<1>3. QED
  BY <1>1, <1>2, PTL DEF GateSpec

LEMMA LanesAreScored ==
  ASSUME IInv, NEW i \in Lanes
  PROVE  /\ ScoredReport(Lane(i))
         /\ \A T \in SUBSET Tasks : ScoredReport(Over(Lane(i), T))
<1>1. Lane(i) \in Report /\ \A t \in Tasks : Scored(t, Lane(i)[t])
  BY ReportTypes DEF Lane, Lanes
<1>2. DOMAIN Lane(i) = Tasks
  BY <1>1 DEF Report
<1>3. QED
  BY <1>1, <1>2 DEF ScoredReport, Over

LEMMA OptionTypes ==
  ASSUME NEW o \in Options
  PROVE  /\ o.tolerance \in Nat
         /\ o.minPassRate \in Nat \cup {None}
         /\ o.minExecutableRate \in Nat \cup {None}
         /\ o.failOnDiagnosticRegression \in BOOLEAN
BY GateAssumption DEF GateOptions

LEMMA FloorForgives ==
  ASSUME NEW rate \in Int, NEW x \in Nat, NEW y \in Nat, x >= y,
         NEW low, NEW floor \in Nat \cup {None}, low \in {None, floor},
         MeetsFloor(rate, floor, y)
  PROVE  MeetsFloor(rate, low, x)
<1> SUFFICES ASSUME low # None
             PROVE  rate + x >= low
  BY DEF MeetsFloor
<1>1. low = floor /\ floor \in Nat /\ rate + y >= floor
  BY DEF MeetsFloor
<1>2. QED
  BY <1>1

\* A gate never fails for being asked less: the checks are monotone in every
\* option, whatever the reports.
THEOREM LaxerPasses == GateSpec => []LaxerGateStillPasses
<1>1. IInv /\ GateInv => LaxerGateStillPasses
  <2> SUFFICES ASSUME IInv, GateInv, gate # None, gate.status = "passed",
                      NEW o \in Options, Laxer(o, gate.options)
               PROVE  GateStatus(Over(Lane(gate.baseline), gate.known),
                                 Lane(gate.candidate), o) = "passed"
    BY DEF LaxerGateStillPasses
  <2> DEFINE base == Over(Lane(gate.baseline), gate.known)
             cand == Lane(gate.candidate)
             p == gate.options
  <2>1. /\ gate.baseline \in Lanes /\ gate.candidate \in Lanes
        /\ gate.known \in SUBSET Tasks /\ p \in Options
        /\ GateStatus(base, cand, p) = "passed"
    BY GateAssumption DEF GateInv
  <2>2. ScoredReport(base) /\ ScoredReport(cand)
    BY <2>1, LanesAreScored
  <2>3. /\ o.tolerance \in Nat /\ p.tolerance \in Nat
        /\ p.minPassRate \in Nat \cup {None}
        /\ p.minExecutableRate \in Nat \cup {None}
        /\ o.failOnDiagnosticRegression \in BOOLEAN
        /\ p.failOnDiagnosticRegression \in BOOLEAN
    BY <2>1, OptionTypes
  <2>4. /\ o.tolerance >= p.tolerance
        /\ o.minPassRate \in {None, p.minPassRate}
        /\ o.minExecutableRate \in {None, p.minExecutableRate}
        /\ o.failOnDiagnosticRegression => p.failOnDiagnosticRegression
    BY DEF Laxer
  <2>5. Metric(cand, "passRate") \in Int /\ Metric(cand, "executableRate") \in Int
    BY <2>2, MetricType DEF Directional, HIGHER_IS_BETTER
  <2> HIDE DEF base, cand, p
  <2>6. /\ Regressed(base, cand, p.tolerance) = {}
        /\ MeetsFloor(Metric(cand, "passRate"), p.minPassRate, p.tolerance)
        /\ MeetsFloor(Metric(cand, "executableRate"), p.minExecutableRate, p.tolerance)
        /\ p.failOnDiagnosticRegression => DiagnosticRegressions(base, cand) = {}
    BY <2>1, GatePassed
  <2>7. Regressed(base, cand, o.tolerance) = {}
    BY <2>2, <2>3, <2>4, <2>6, ToleranceForgives
  <2>8. MeetsFloor(Metric(cand, "passRate"), o.minPassRate, o.tolerance)
    BY <2>3, <2>4, <2>5, <2>6, FloorForgives
  <2>9. MeetsFloor(Metric(cand, "executableRate"), o.minExecutableRate, o.tolerance)
    BY <2>3, <2>4, <2>5, <2>6, FloorForgives
  <2>10. o.failOnDiagnosticRegression => DiagnosticRegressions(base, cand) = {}
    BY <2>3, <2>4, <2>6
  <2>11. GateStatus(base, cand, o) = "passed"
    BY <2>7, <2>8, <2>9, <2>10, GatePassed
  <2>12. QED
    BY <2>11 DEF base, cand
<1>2. QED
  BY <1>1, GateInvariant, PTL

\* Baselines may be moved forward when nothing is tolerated: "no metric got
\* worse" is transitive, also over reports of different datasets.
THEOREM GatesChain == GateSpec => []GatesCompose
<1>1. IInv /\ GateInv => GatesCompose
  <2> SUFFICES ASSUME IInv, GateInv, gate # None, gate.status = "passed",
                      gate.options.tolerance = 0, NEW i \in Lanes,
                      GateStatus(Lane(gate.candidate), Lane(i), gate.options) = "passed"
               PROVE  GateStatus(Over(Lane(gate.baseline), gate.known), Lane(i),
                                 gate.options) = "passed"
    BY DEF GatesCompose
  <2> DEFINE base == Over(Lane(gate.baseline), gate.known)
             mid == Lane(gate.candidate)
             cand == Lane(i)
             o == gate.options
  <2>1. /\ gate.baseline \in Lanes /\ gate.candidate \in Lanes
        /\ gate.known \in SUBSET Tasks
        /\ GateStatus(base, mid, o) = "passed"
        /\ GateStatus(mid, cand, o) = "passed"
    BY GateAssumption DEF GateInv
  <2>2. ScoredReport(base) /\ ScoredReport(mid) /\ ScoredReport(cand)
    BY <2>1, LanesAreScored
  <2>3. o.tolerance = 0
    OBVIOUS
  <2> HIDE DEF base, mid, cand, o
  <2>4. /\ Regressed(base, mid, 0) = {} /\ Regressed(mid, cand, 0) = {}
        /\ MeetsFloor(Metric(cand, "passRate"), o.minPassRate, o.tolerance)
        /\ MeetsFloor(Metric(cand, "executableRate"), o.minExecutableRate, o.tolerance)
        /\ o.failOnDiagnosticRegression => /\ DiagnosticRegressions(base, mid) = {}
                                           /\ DiagnosticRegressions(mid, cand) = {}
    BY <2>1, <2>3, GatePassed
  <2>5. Regressed(base, cand, o.tolerance) = {}
    BY <2>2, <2>3, <2>4, LossesAdd
  <2>6. o.failOnDiagnosticRegression => DiagnosticRegressions(base, cand) = {}
    BY <2>2, <2>4, DiagnosticsAdd
  <2>7. GateStatus(base, cand, o) = "passed"
    BY <2>4, <2>5, <2>6, GatePassed
  <2>8. QED
    BY <2>7 DEF base, cand, o
<1>2. QED
  BY <1>1, GateInvariant, PTL

-----------------------------------------------------------------------------
(***************************************************************************)
(* The scorecard.  Its status adds up the regressions of every lane, so    *)
(* the proof needs what a sum promises: it is no less than any summand.    *)
(***************************************************************************)
Adding == INSTANCE Folding WITH Op <- LAMBDA x, y : x + y

LEMMA SummandOfTotal ==
  ASSUME NEW S, IsFiniteSet(S), NEW f, DOMAIN f = S, \A i \in S : f[i] \in Nat
  PROVE  Total(f) \in Nat /\ \A i \in S : f[i] <= Total(f)
<1>1. Adding!Adds
  BY DEF Adding!Adds
<1>2. Adding!IsFiniteSet(S)
  BY DEF Adding!IsFiniteSet, IsFiniteSet
<1>3. Total(f) = Adding!SumOver(f, S)
  BY DEF Total, Adding!SumOver, FoldFunction, FoldFunctionOnSet, MapThenFoldSet,
     Adding!FoldFunctionOnSet, Adding!MapThenFoldSet
<1>4. \A i \in S : f[i] <= Adding!SumOver(f, S)
  BY <1>1, <1>2, Adding!SumMonotone
<1>5. Adding!SumOver(f, S) \in Nat
  BY <1>1, <1>2, Adding!SumWithout
<1>6. QED
  BY <1>3, <1>4, <1>5

LEMMA RegressionsCounted ==
  ASSUME NEW base, NEW cand
  PROVE  LET n == Cardinality(Regressed(base, cand, 0))
         IN  n \in Nat /\ (n <= 0 => Regressed(base, cand, 0) = {})
<1> DEFINE R == Regressed(base, cand, 0)
<1> DEFINE up == <<"passedTasks", "executablePlans", "expectedCypherMatches",
                   "expectedDiagnosticMatches", "passRate", "executableRate">>
           down == <<"missingAttempts", "failedTasks", "noCypherAttempts",
                     "timeoutAttempts">>
<1>1. HIGHER_IS_BETTER = {up[i] : i \in 1..6} /\ LOWER_IS_BETTER = {down[i] : i \in 1..4}
  BY DEF HIGHER_IS_BETTER, LOWER_IS_BETTER
<1>2. /\ IsFiniteSet(1..6) /\ IsFiniteSet(1..4)
  <2>1. 1 \in Int /\ 4 \in Int /\ 6 \in Int
    OBVIOUS
  <2>2. QED
    BY <2>1, FS_Interval
<1>3. IsFiniteSet(Directional)
  <2> DEFINE f == [i \in 1..6 |-> up[i]]
             g == [i \in 1..4 |-> down[i]]
  <2> HIDE DEF up, down
  <2>1. f \in Surjection(1..6, HIGHER_IS_BETTER) /\ g \in Surjection(1..4, LOWER_IS_BETTER)
    BY <1>1 DEF Surjection
  <2>2. IsFiniteSet(HIGHER_IS_BETTER) /\ IsFiniteSet(LOWER_IS_BETTER)
    BY <1>2, <2>1, FS_Surjection
  <2>3. QED
    BY <2>2, FS_Union DEF Directional
<1>4. R \in SUBSET Directional
  BY DEF Regressed
<1>5. IsFiniteSet(R)
  BY <1>3, <1>4, FS_Subset
<1> HIDE DEF R
<1>6. Cardinality(R) \in Nat /\ (Cardinality(R) = 0 => R = {})
  BY <1>5, FS_CardinalityType, FS_EmptySet
<1>7. Cardinality(R) \in Nat /\ (Cardinality(R) <= 0 => R = {})
  BY <1>6
<1>8. QED
  BY <1>7 DEF R

\* The last scorecard is that of the reports, which are still there.
ScorecardInv ==
    scorecard # None =>
        /\ phase = "done" /\ scorecard.baseline \in Lanes
        /\ scorecard = Scorecard(scorecard.baseline)

LEMMA ScorecardKept ==
  ASSUME ScorecardInv, scorecard' = scorecard, reports' = reports, phase' = phase
  PROVE  ScorecardInv'
<1>1. Lanes' = Lanes /\ \A i : Lane(i)' = Lane(i)
  BY DEF Lanes, Lane
<1>2. \A b : Scorecard(b)' = Scorecard(b)
  BY <1>1 DEF Scorecard, BestRate, Rank, Ahead
<1>3. QED
  BY <1>1, <1>2 DEF ScorecardInv

LEMMA ScorecardInvariant == GateSpec => []ScorecardInv
<1>1. GateInit => ScorecardInv
  BY DEF GateInit, ScorecardInv
<1>2. ScorecardInv /\ [GateNext]_<<vars, gate, scorecard>> => ScorecardInv'
  <2> SUFFICES ASSUME ScorecardInv, [GateNext]_<<vars, gate, scorecard>>
               PROVE  ScorecardInv'
    OBVIOUS
  <2>1. CASE Next /\ UNCHANGED gateVars
    <3>1. scorecard' = scorecard
      BY <2>1 DEF gateVars
    <3>2. CASE scorecard = None
      BY <3>1, <3>2 DEF ScorecardInv
    <3>3. CASE scorecard # None
      <4>1. phase = "done"
        BY <3>3 DEF ScorecardInv
      <4>2. UNCHANGED vars
        BY <2>1, <4>1 DEF Next, AddRound, NormalizeRounds, EvaluateRound,
           CompareRounds, Compared, BuildTaskReports, BuildSummary, Terminated
      <4>3. QED
        BY <3>1, <4>2, ScorecardKept DEF vars
    <3>4. QED
      BY <3>2, <3>3
  <2>2. ASSUME NEW b \in Lanes, NEW c \in Lanes, NEW T \in Datasets, NEW o \in Options,
               RunGate(b, T, c, o)
        PROVE  ScorecardInv'
    <3>1. UNCHANGED vars /\ scorecard' = scorecard
      BY <2>2 DEF RunGate
    <3>2. QED
      BY <3>1, ScorecardKept DEF vars
  <2>3. ASSUME NEW b, BuildScorecard(b)
        PROVE  ScorecardInv'
    <3>1. /\ UNCHANGED vars /\ phase = "done"
          /\ scorecard' = IF b \in Lanes THEN Scorecard(b) ELSE None
      BY <2>3 DEF BuildScorecard, Idle
    <3>2. phase' = "done" /\ reports' = reports
      BY <3>1 DEF vars
    <3>3. Lanes' = Lanes /\ \A i : Lane(i)' = Lane(i)
      BY <3>2 DEF Lanes, Lane
    <3>4. \A x : Scorecard(x)' = Scorecard(x)
      BY <3>3 DEF Scorecard, BestRate, Rank, Ahead
    <3>5. Scorecard(b).baseline = b
      BY DEF Scorecard
    <3>6. QED
      BY <3>1, <3>2, <3>3, <3>4, <3>5 DEF ScorecardInv
  <2>4. CASE UNCHANGED <<vars, gate, scorecard>>
    <3>1. UNCHANGED vars /\ scorecard' = scorecard
      BY <2>4
    <3>2. QED
      BY <3>1, ScorecardKept DEF vars
  <2>5. QED
    BY <2>1, <2>2, <2>3, <2>4 DEF GateNext
<1>3. QED
  BY <1>1, <1>2, PTL DEF GateSpec

\* A lane with a better rate has a place before the other's: whatever is
\* ahead of it is ahead of the other, and so is the lane itself.
LEMMA BetterRateRanksFirst ==
  ASSUME IInv, NEW m \in Rates, NEW i \in Lanes, NEW j \in Lanes,
         Metric(Lane(i), m) > Metric(Lane(j), m)
  PROVE  Rank(m, i) \in Nat /\ Rank(m, j) \in Nat /\ Rank(m, i) < Rank(m, j)
<1> DEFINE rate(k) == computeMetrics(Lane(k))[m]
           front(k) == {l \in Lanes : Ahead(m, l, k)}
<1>1. Lanes = 1..Len(reports) /\ Len(reports) \in Nat
  BY ReportTypes DEF Lanes
<1>2. \A k \in Lanes : k \in Int
  BY <1>1
<1>3. IsFiniteSet(Lanes)
  BY <1>1, FS_Interval
<1>4. ASSUME NEW k \in Lanes
      PROVE  Metric(Lane(k), m) = rate(k) * 1 /\ Metric(Lane(k), m) \in Int
  <2>1. Metric(Lane(k), m) = rate(k) * 1
    BY DEF Metric
  <2>2. m \in Directional
    BY DEF Rates, Directional, HIGHER_IS_BETTER
  <2>3. QED
    BY <2>1, <2>2, LanesAreScored, MetricType
<1>5. \A k \in Lanes : rate(k) \in Int
  <2>1. ASSUME NEW k \in Lanes
        PROVE  rate(k) \in Int
    <3> DEFINE r == Lane(k)
               total == Cardinality(DOMAIN r)
    <3>1. ScoredReport(r)
      BY LanesAreScored
    <3>2. /\ total \in Nat
          /\ Cardinality(PassedIn(r)) \in Nat /\ Cardinality(PassedIn(r)) <= total
          /\ Cardinality(Executable(r)) \in Nat /\ Cardinality(Executable(r)) <= total
      BY <3>1, CountsType
    <3>3. /\ ratio(Cardinality(PassedIn(r)), total) \in Int
          /\ ratio(Cardinality(Executable(r)), total) \in Int
      BY <3>2, RatioBounds
    <3>4. /\ computeMetrics(r).passRate \in Int
          /\ computeMetrics(r).executableRate \in Int
      BY <3>3 DEF computeMetrics
    <3>5. m = "passRate" \/ m = "executableRate"
      BY DEF Rates
    <3>6. QED
      BY <3>4, <3>5
  <2>2. QED
    BY <2>1
<1> HIDE DEF rate
<1>6. \A l \in Lanes, k \in Lanes :
        Ahead(m, l, k) <=> rate(l) > rate(k) \/ (rate(l) = rate(k) /\ l < k)
  BY DEF Ahead, rate
<1>7. rate(i) > rate(j)
  BY <1>4, <1>5
<1>8. ASSUME NEW l \in front(i)
      PROVE  l \in front(j) \ {i}
  <2>1. l \in Lanes /\ (rate(l) > rate(i) \/ (rate(l) = rate(i) /\ l < i))
    BY <1>6
  <2>2. rate(l) \in Int /\ rate(i) \in Int /\ rate(j) \in Int /\ l \in Int /\ i \in Int
    BY <1>2, <1>5, <2>1
  <2>3. rate(l) > rate(j)
    BY <1>7, <2>1, <2>2
  <2>4. l # i
    BY <2>1, <2>2
  <2>5. QED
    BY <1>6, <2>1, <2>3, <2>4
<1>9. i \in front(j)
  BY <1>6, <1>7
<1>10. IsFiniteSet(front(j)) /\ front(i) \in SUBSET (front(j) \ {i})
  BY <1>3, <1>8, FS_Subset
<1>11. Rank(m, i) = 1 + Cardinality(front(i)) /\ Rank(m, j) = 1 + Cardinality(front(j))
  BY DEF Rank
<1> HIDE DEF front
<1>12. /\ IsFiniteSet(front(j) \ {i})
       /\ Cardinality(front(j) \ {i}) = Cardinality(front(j)) - 1
  BY <1>9, <1>10, FS_RemoveElement
<1>13. /\ Cardinality(front(i)) \in Nat /\ Cardinality(front(j) \ {i}) \in Nat
       /\ Cardinality(front(i)) <= Cardinality(front(j) \ {i})
  BY <1>10, <1>12, SubsetCounts
<1>14. Cardinality(front(j)) \in Nat
  BY <1>10, FS_CardinalityType
<1>15. QED
  BY <1>11, <1>12, <1>13, <1>14

\* A scorecard whose status is not "regressed" has no regression in any lane,
\* so the baseline is ahead of no lane: for any number of lanes.
THEOREM BaselineNotAhead == GateSpec => []UnregressedBaselineIsNotAhead
<1>1. IInv /\ ScorecardInv => UnregressedBaselineIsNotAhead
  <2> SUFFICES ASSUME IInv, ScorecardInv, scorecard # None,
                      scorecard.status # "regressed", NEW m \in Rates, NEW i \in Lanes,
                      scorecard.rankings[m][scorecard.baseline] < scorecard.rankings[m][i]
               PROVE  Metric(Lane(i), m) = Metric(Lane(scorecard.baseline), m)
    BY DEF UnregressedBaselineIsNotAhead
  <2> DEFINE b == scorecard.baseline
             others == Lanes \ {b}
             losses == [k \in others |-> Cardinality(Regressed(Lane(b), Lane(k), 0))]
             gains == [k \in others |-> Cardinality(ImprovedMetrics(Lane(b), Lane(k), 0))]
  <2>1. b \in Lanes /\ scorecard = Scorecard(b)
    BY DEF ScorecardInv
  <2>2. /\ Scorecard(b).status = Verdict(Total(losses), Total(gains))
        /\ \A k \in Lanes : Scorecard(b).rankings[m][k] = Rank(m, k)
    BY DEF Scorecard
  <2> HIDE DEF b
  <2>3. IsFiniteSet(others)
    <3>1. Lanes = 1..Len(reports) /\ Len(reports) \in Nat
      BY ReportTypes DEF Lanes
    <3>2. IsFiniteSet(Lanes)
      BY <3>1, FS_Interval
    <3>3. QED
      BY <3>2, FS_Subset
  <2>4. Total(losses) \in Nat /\ \A k \in others : losses[k] <= Total(losses)
    <3>1. \A k \in others : losses[k] \in Nat
      BY RegressionsCounted
    <3>2. DOMAIN losses = others
      OBVIOUS
    <3> HIDE DEF losses, others
    <3>3. QED
      BY <2>3, <3>1, <3>2, SummandOfTotal
  <2>5. Verdict(Total(losses), Total(gains)) # "regressed"
    BY <2>1, <2>2
  <2>6. ~(Total(losses) > 0)
    BY <2>5 DEF Verdict
  <2>7. CASE i = b
    BY <2>7 DEF b
  <2>8. CASE i # b
    <3>1. i \in others
      BY <2>8
    <3>2. Cardinality(Regressed(Lane(b), Lane(i), 0)) <= Total(losses)
      BY <2>4, <3>1
    <3>3. Cardinality(Regressed(Lane(b), Lane(i), 0)) \in Nat
      BY RegressionsCounted
    <3>4. Cardinality(Regressed(Lane(b), Lane(i), 0)) <= 0
      <4> HIDE DEF losses
      <4>1. QED
        BY <2>4, <2>6, <3>2, <3>3
    <3>5. Regressed(Lane(b), Lane(i), 0) = {}
      BY <3>4, RegressionsCounted
    <3>6. ScoredReport(Lane(b)) /\ ScoredReport(Lane(i))
      BY <2>1, LanesAreScored
    <3>7. m \in Directional /\ m \in HIGHER_IS_BETTER
      BY DEF Rates, Directional, HIGHER_IS_BETTER
    <3>8. ~(Metric(Lane(b), m) > Metric(Lane(i), m))
      BY <3>5, <3>6, <3>7, NoLoss DEF Better
    <3>9. Metric(Lane(b), m) \in Int /\ Metric(Lane(i), m) \in Int
      BY <3>6, <3>7, MetricType
    <3>10. Rank(m, b) < Rank(m, i)
      BY <2>1, <2>2 DEF b
    <3>11. CASE Metric(Lane(i), m) > Metric(Lane(b), m)
      <4>1. Rank(m, i) \in Nat /\ Rank(m, b) \in Nat /\ Rank(m, i) < Rank(m, b)
        BY <2>1, <3>11, BetterRateRanksFirst
      <4>2. QED
        BY <3>10, <4>1
    <3>12. CASE ~(Metric(Lane(i), m) > Metric(Lane(b), m))
      BY <3>8, <3>9, <3>12 DEF b
    <3>13. QED
      BY <3>11, <3>12
  <2>9. QED
    BY <2>7, <2>8
<1>2. QED
  BY <1>1, GateInvariant, ScorecardInvariant, PTL

=============================================================================
