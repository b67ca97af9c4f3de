---------------------------- MODULE PolicyReview -----------------------------
(***************************************************************************)
(* Policy evals (policy-eval.ts): the attempts of a model at the tasks of  *)
(* a dataset, each judged by the static policy as it was handed in, while  *)
(* the compiler repairs it before it says whether it may execute.          *)
(*                                                                         *)
(* A behaviour is one call of evaluatePolicyAttempts.  The query of an     *)
(* attempt is drawn clause by clause; its bindings are collected and its   *)
(* clauses assessed one after the other, as assessCypherPolicy does.       *)
(***************************************************************************)
EXTENDS PolicyRules

CONSTANTS
  Calls,      \* what a caller passes: thresholds, evidence, repair defaults
  Clauses,    \* the clauses a query is drawn from
  MaxClauses  \* MaxClauses[t]: clauses of the query of task t; one per task

VARIABLES
  call,      \* the options of the call
  stage,     \* "draft", "bind", "assess", "judge" or "done"
  kind,      \* of the attempt under evaluation: "ir" or "raw"
  query,     \* its clauses
  at,        \* the clause the walk has reached
  bindings,  \* what the names of the query are bound to
  findings,  \* what the policy found so far
  results    \* the results of the tasks so far

CallRecord == [given: {c.given : c \in Calls}, evidence: {c.evidence : c \in Calls},
               defaultLimit: Nat \cup {Absent}, defaultMaxHops: Nat \cup {Absent}]

ASSUME PolicyReviewAssumption ==
  /\ Clauses \subseteq Clause
  /\ Calls \subseteq CallRecord
  /\ \A c \in Calls : IsGiven(c.given) /\ IsEvidence(c.evidence)
  /\ MaxClauses \in Seq(Nat)

vars == <<call, stage, kind, query, at, bindings, findings, results>>

NoFindings == Summary({})

TypeOK ==
  /\ call \in Calls
  /\ stage \in {"draft", "bind", "assess", "judge", "done"}
  /\ kind \in {"ir", "raw"}
  /\ query \in Seq(Clauses)
  /\ at \in 1..(Len(query) + 1)
  /\ bindings \in [Var -> [kind: {"none", "node", "relationship"},
                           names: SUBSET (Label \cup Type)]]
  /\ \A f \in findings : f.severity \in {"info", "warning", "error"}
  /\ Len(results) <= Len(MaxClauses)

-----------------------------------------------------------------------------
(***************************************************************************)
(* repairQuery, as far as the policy can tell: the clauses at the top of   *)
(* the query get canonical names, bounds and limits, bodies get nothing.   *)
(***************************************************************************)
RepairedNode(node) ==
  [node EXCEPT !.labels = [i \in DOMAIN @ |-> CanonicalLabel[@[i]]]]

RepairedRel(rel) ==
  [rel EXCEPT !.types   = [i \in DOMAIN @ |-> CanonicalType[@[i]]],
              !.maxHops = IF @ = Dynamic /\ call.defaultMaxHops # Absent
                            THEN call.defaultMaxHops ELSE @]

RepairedPattern(pattern) ==
  [head |-> RepairedNode(pattern.head),
   tail |-> [s \in DOMAIN pattern.tail |->
               [rel  |-> RepairedRel(pattern.tail[s].rel),
                node |-> RepairedNode(pattern.tail[s].node)]]]

RepairedClause(clause) ==
  [clause EXCEPT !.patterns = [p \in DOMAIN @ |-> RepairedPattern(@[p])],
                 !.limit    = IF clause.kind = "return" /\ @ = Absent
                                THEN call.defaultLimit ELSE @]

Repaired(q) == [i \in DOMAIN q |-> RepairedClause(q[i])]

\* An IR attempt is repaired, and repaired again by the plan; a raw one once.
Executed == IF kind = "ir" THEN Repaired(Repaired(query)) ELSE Repaired(query)

\* The plan is never told of an approval, so that a write needs one always.
\* "valid" is what validation and parameters say of the rest.
CompilerCanExecute(valid) ==
  valid /\ ~\E i \in DOMAIN query : query[i].kind \in WriteKinds

-----------------------------------------------------------------------------
StatusFor(summary) ==
  IF summary.errors > 0 THEN "blocked"
  ELSE IF summary.warnings > 0 \/ summary.infos > 0 THEN "warning"
  ELSE "passed"

PolicyResult(summary, executable) ==
  [kind |-> kind, status |-> StatusFor(summary), canEvaluate |-> TRUE,
   policyOk |-> summary.errors = 0, compilerCanExecute |-> executable,
   summary |-> summary]

TerminalResult(k) ==
  [kind |-> k, status |-> "not-evaluated", canEvaluate |-> FALSE,
   policyOk |-> FALSE, compilerCanExecute |-> FALSE, summary |-> NoFindings]

\* Mutant: the walk of the next query starts where this one ended.
NextTaskKeepsPlace(result) ==
  /\ results' = Append(results, result)
  /\ stage' = "draft" /\ kind' = "ir" /\ query' = <<>>
  /\ bindings' = NoBindings /\ findings' = {}
  /\ UNCHANGED <<call, at>>

NextTask(result) ==
  /\ results' = Append(results, result)
  /\ stage' = "draft" /\ kind' = "ir" /\ query' = <<>> /\ at' = 1
  /\ bindings' = NoBindings /\ findings' = {}
  /\ UNCHANGED call

Init ==
  /\ call \in Calls
  /\ stage = "draft" /\ kind = "ir" /\ query = <<>> /\ at = 1
  /\ bindings = NoBindings /\ findings = {} /\ results = <<>>

Drafting == stage = "draft" /\ Len(results) < Len(MaxClauses)

\* The task has no attempt, or one that holds no query at all.
NoQuery(k) ==
  /\ Drafting /\ query = <<>>
  /\ NextTask(TerminalResult(k))

\* The model writes another clause; nothing follows a RETURN.
Draft(c) ==
  /\ Drafting
  /\ Len(query) < MaxClauses[Len(results) + 1]
  /\ \A i \in DOMAIN query : query[i].kind # "return"
  /\ query' = Append(query, c)
  /\ UNCHANGED <<call, stage, kind, at, bindings, findings, results>>

Submit(k) ==
  /\ Drafting /\ query # <<>>
  /\ stage' = "bind" /\ kind' = k
  /\ UNCHANGED <<call, query, at, bindings, findings, results>>

\* A text of which some clause stays raw is not judged.
SubmitUnlifted ==
  /\ Drafting /\ query # <<>>
  /\ NextTask(TerminalResult("raw"))

BindClause ==
  /\ stage = "bind" /\ at \in DOMAIN query
  /\ bindings' = RegisterClause(bindings, query[at])
  /\ at' = at + 1
  /\ UNCHANGED <<call, stage, kind, query, findings, results>>

AllBound ==
  /\ stage = "bind" /\ at \notin DOMAIN query
  /\ stage' = "assess" /\ at' = 1
  /\ UNCHANGED <<call, kind, query, bindings, findings, results>>

AssessClause ==
  /\ stage = "assess" /\ at \in DOMAIN query
  /\ findings' = findings \cup
       ClauseFindings(query[at], at, EffectiveOptions(call.given),
                      call.evidence, bindings)
  /\ at' = at + 1
  /\ UNCHANGED <<call, stage, kind, query, bindings, results>>

AssessPlanner ==
  /\ stage = "assess" /\ at \notin DOMAIN query
  /\ findings' = findings \cup
       PlannerFindings(call.evidence.planner, EffectiveOptions(call.given))
  /\ stage' = "judge"
  /\ UNCHANGED <<call, kind, query, at, bindings, results>>

Judge(valid) ==
  /\ stage = "judge"
  /\ NextTask(PolicyResult(Summary(findings), CompilerCanExecute(valid)))

Summarize ==
  /\ stage = "draft" /\ Len(results) = Len(MaxClauses)
  /\ stage' = "done"
  /\ UNCHANGED <<call, kind, query, at, bindings, findings, results>>

Next ==
  \/ \E k \in {"missing", "timeout", "no-cypher"} : NoQuery(k)
  \/ \E c \in Clauses : Draft(c)
  \/ \E k \in {"ir", "raw"} : Submit(k)
  \/ SubmitUnlifted
  \/ BindClause
  \/ AllBound
  \/ AssessClause
  \/ AssessPlanner
  \/ \E valid \in BOOLEAN : Judge(valid)
  \/ Summarize

Spec == Init /\ [][Next]_vars

-----------------------------------------------------------------------------
(***************************************************************************)
(* Properties                                                              *)
(***************************************************************************)
Judged == stage = "judge"

Found(code, path, what) ==
  \E f \in findings : f.code = code /\ f.path = path /\ f.what = what

\* What has no predicate in it: comparisons, and what only the database knows.
Atoms == {e \in Expression : Parts(e) = {}}

\* A predicate under a choice of the atoms that are true.
Holds(expression, true) ==
  LET holds[e \in Expression] ==
        CASE e.kind = "junction" /\ e.op = "AND" -> holds[e.first] /\ holds[e.second]
          [] e.kind = "junction" /\ e.op = "OR"  -> holds[e.first] \/ holds[e.second]
          [] e.kind = "junction" /\ e.op = "XOR" -> ~(holds[e.first] <=> holds[e.second])
          [] e.kind = "negation"                 -> ~holds[e.first]
          [] OTHER                               -> e \in true
  IN  expression = NoExpression \/ holds[expression]

\* Every row that passes the predicates has the rule's property compared
\* with the rule's parameter, or any value where the rule names none.
Constrained(node, clause, rule) ==
  \/ /\ rule.property \in DOMAIN node.properties
     /\ ValueSatisfies(node.properties[rule.property], rule)
  \/ \A true \in SUBSET Atoms :
       Holds(node.where, true) /\ Holds(clause.where, true) =>
         \E e \in true : e.kind = "comparison" /\ ComparisonScopes(e, node.var, rule)

NodesOf(clause) ==
  UNION {{<<<<p, 0>>, clause.patterns[p].head>>}
           \cup {<<<<p, s>>, clause.patterns[p].tail[s].node>> :
                 s \in DOMAIN clause.patterns[p].tail} :
         p \in DOMAIN clause.patterns}

\* A node whose label a tenant rule is about, and that is not reported, is
\* held to the tenant in every row its predicates let through: a conjunct
\* counts, what is under OR, XOR or NOT does not (policy.ts:532-558).
TenantScopeIsSound ==
  Judged => \A i \in {j \in DOMAIN query : query[j].kind = "match"} :
    \A n \in NodesOf(query[i]) : \A l \in ToSet(n[2].labels) :
      \A r \in RulesForLabel(call.evidence.rules.tenantScopes, l) :
        \/ Found("policy-missing-tenant-scope", <<i>> \o n[1], l)
        \/ Constrained(n[2], query[i], r)

\* o asks for no more than p does, threshold by threshold.
LooserThan(o, p) ==
  /\ p.allowWrites => o.allowWrites
  /\ o.requireLimit => p.requireLimit
  /\ o.warnOnPlanOperators \subseteq p.warnOnPlanOperators
  /\ \A f \in {"maxReturnLimit", "maxRelationshipHops", "maxEstimatedRows",
               "maxDbHits", "maxLabelScanRows", "maxRelationshipFanout"} :
       o[f] >= p[f]

Completed(given) ==
  [f \in DOMAIN DefaultOptions |->
     IF f \in DOMAIN given THEN given[f] ELSE DefaultOptions[f]]

LesserEvidence(evidence) ==
  {[evidence EXCEPT !.rules = NoRules], [evidence EXCEPT !.planner = NoEstimate],
   [evidence EXCEPT !.statistics = NoStatistics], evidence}

\* A caller who asks for less, by looser thresholds (the exploration profile
\* instead of the strict one, say) or without a piece of evidence, is told
\* nothing that a stricter caller is not told (policy.ts:106-167).
AskingLessFindsLess ==
  Judged => \A c \in Calls : \A evidence \in LesserEvidence(call.evidence) :
    LooserThan(Completed(c.given), Completed(call.given)) =>
      AssessCypherPolicy(query, c.given, evidence) \subseteq findings

\* Two mentions of a name, in one clause or in two, differ in kind.
KindsClash(q) ==
  LET mentions == UNION {ToSet(ClauseMentions(q[i])) : i \in DOMAIN q}
  IN  \E m, n \in mentions : m.var = n.var /\ m.var # NoVar /\ m.kind # n.kind

Without(q, i) == SubSeq(q, 1, i - 1) \o SubSeq(q, i + 1, Len(q))

Unplaced(fs) == {<<f.code, f.severity, f.what>> : f \in fs}

\* No clause of a query hides what the policy finds in the others: a later
\* mention of a variable adds to what is known of it.  (Where a name is a
\* node here and a relationship there, it does: see ProjectedSecretsAreFound.)
NoClauseHidesAnother ==
  Judged /\ ~KindsClash(query) =>
    \A i \in DOMAIN query :
      Unplaced(AssessCypherPolicy(Without(query, i), call.given, call.evidence))
        \subseteq Unplaced(findings)

\* A query the policy passes is still passed in the form the compiler makes
\* of it, which is what may execute: repairs of names, bounds and limits
\* bring up no rule and no threshold, provided the caller's default limit is
\* within his own maximum and a canonical name stands for itself
\* (policy-eval.ts:124-143).
PassedStaysPassed ==
  /\ Judged /\ findings = {}
  /\ call.defaultLimit <= EffectiveOptions(call.given).maxReturnLimit
  /\ \A l \in Label : CanonicalLabel[CanonicalLabel[l]] = CanonicalLabel[l]
  /\ \A t \in Type : CanonicalType[CanonicalType[t]] = CanonicalType[t]
  => AssessCypherPolicy(Executed, call.given, call.evidence) = {}

Under(operators, a) == {b \in DOMAIN operators : IsPrefix(a, b)}

\* Without a finding about rows or hits, no operator of the plan is expected
\* to produce more rows than allowed, and no part of the plan costs more
\* hits: the estimate covers the whole tree (planner-estimate.ts:20-49).
QuietPlansAreCheap ==
  LET opts == EffectiveOptions(call.given)
      plan == call.evidence.planner.operators
  IN  Judged => \A a \in DOMAIN plan :
        /\ \/ Found("policy-high-estimated-rows", <<0>>, "")
           \/ plan[a].estimatedRows <= opts.maxEstimatedRows
        /\ \/ Found("policy-high-db-hits", <<0>>, "")
           \/ HitsOf(plan, Under(plan, a) \cap Counted(plan)) <= opts.maxDbHits
        /\ \/ \E f \in findings : f.code = "policy-expensive-plan-operator"
           \/ plan[a].name \notin opts.warnOnPlanOperators

-----------------------------------------------------------------------------
(***************************************************************************)
(* What names really stand for, as the text of a query has it: a WITH      *)
(* renames, a subquery sees no name of the query around it.                *)
(***************************************************************************)
Meanings(clause, env) ==
  IF clause.kind = "with"
    THEN [v \in Var |->
            UNION {env[clause.items[k].whole] :
                   k \in {j \in DOMAIN clause.items : clause.items[j].alias = v
                                                     /\ clause.items[j].whole # NoVar}}]
    ELSE [v \in Var |->
            env[v] \cup (IF clause.kind = "match"
                           THEN RegisterMatch(NoBindings, clause)[v].names ELSE {})]

Environment(q) ==
  FoldLeft(LAMBDA env, c : Meanings(c, env), [v \in Var |-> {}], q)

\* A RETURN that projects a sensitive property of an owner it is sensitive
\* for is reported, whatever name it reaches the owner by (docs/API.md:278:
\* "sensitive returned properties").
ProjectedSecretsAreFound ==
  Judged => \A i \in {j \in DOMAIN query : query[j].kind = "return"} :
    \A k \in DOMAIN query[i].items : \A read \in query[i].items[k].reads :
      \A r \in call.evidence.rules.sensitiveProperties :
        /\ r.property = read[2] /\ r.owner # "any"
        /\ r.owner \in Environment(SubSeq(query, 1, i - 1))[read[1]]
        => Found("policy-sensitive-property-return", <<i, k>>, read[2])

=============================================================================
