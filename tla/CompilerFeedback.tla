-------------------------- MODULE CompilerFeedback --------------------------
(***************************************************************************)
(* What the compiler tells an agent about a query: validation              *)
(* (validate.ts), the safe execution plan (safety.ts), the static policy   *)
(* (policy.ts), the proof (proof.ts), the repair plan (repair-plan.ts) and *)
(* the feedback packet (agent-feedback.ts) that combines them.             *)
(*                                                                         *)
(* Reports are sets of diagnostics: nothing below depends on their order   *)
(* or on where in the query each one was found.                            *)
(***************************************************************************)
EXTENDS CypherRepair

CONSTANTS
  MaxReturnLimit,      \* policy threshold: rows a RETURN may ask for
  MaxRelationshipHops  \* policy threshold: hops a traversal may take

\* What the caller passes along with a query.
Options ==
  [defaultLimit: Int, defaultMaxHops: Int, allowWrites: BOOLEAN,
   approved: BOOLEAN, includeParser: BOOLEAN, params: SUBSET RequiredParams]

\* "hint" is the kind of the repair the diagnostic names, or "none".
Diagnostic(code, severity, hint) ==
  [code |-> code, severity |-> severity, hint |-> hint]

Error(code)        == Diagnostic(code, "error", "none")
Warning(code)      == Diagnostic(code, "warning", "none")
Hinted(code, hint) == Diagnostic(code, "warning", hint)

When(condition, diagnostic) == {d \in {diagnostic} : condition}

HasErrors(diagnostics) == \E d \in diagnostics : d.severity = "error"
Codes(diagnostics)     == {d.code : d \in diagnostics}

-----------------------------------------------------------------------------
(***************************************************************************)
(* validateQuery: the write gate, schema names, direction and bounds, in   *)
(* every clause; CALL bodies are entered, under the same options.          *)
(***************************************************************************)
NodeDiagnostics(node) ==
  LET known == {i \in DOMAIN node.labels : IsKnownLabel(node.labels[i])}
  IN  When(known # DOMAIN node.labels, Error("unknown-label"))
        \cup When(/\ known # {}
                  /\ ~(node.properties \subseteq
                         NodeByName(LabelName(node.labels[Min(known)])).properties),
                  Warning("unknown-property"))

DirectionDiagnostics(rel, direction, left, right) ==
  IF \/ ~rel.directed \/ left = {} \/ right = {}
     \/ RelationshipAllows(rel, direction, left, right)
    THEN {}
    ELSE {Hinted("relationship-direction-mismatch",
            IF BestDirection(rel, direction, left, right) # direction
              THEN "fix-direction" ELSE "none")}

RelationshipDiagnostics(rel, left, right) ==
  When(rel.maxHops = Unbounded,
       Hinted("unbounded-variable-length-path", "bound-path"))
    \cup UNION {IF IsKnownType(t)
                  THEN DirectionDiagnostics(RelationshipByType(TypeName(t)),
                         rel.direction, KnownLabels(left), KnownLabels(right))
                  ELSE {Error("unknown-relationship-type")} : t \in Range(rel.types)}

PathDiagnostics(path) ==
  NodeDiagnostics(path.head)
    \cup UNION {NodeDiagnostics(path.tail[i].node)
                  \cup RelationshipDiagnostics(path.tail[i].rel,
                         NodeAt(path, i - 1), NodeAt(path, i)) :
                i \in DOMAIN path.tail}

ClauseDiagnostics(c, disallowWrites) ==
  When(IsWriteClause(c) /\ disallowWrites, Error("write-requires-approval"))
    \cup When(c.kind = "return" /\ c.limit = Unset,
              Hinted("missing-limit", "add-limit"))
    \cup When(c.kind = "raw", Warning("raw-cypher-escape-hatch"))
    \cup When(c.kind = "call" /\ ~\E i \in DOMAIN c.body :
                /\ i = Len(c.body)
                /\ c.body[i].kind = "return",
              Warning("subquery-missing-return"))
    \cup UNION {PathDiagnostics(p) : p \in Range(c.patterns)}

Validate(q, disallowWrites) ==
  UNION {ClauseDiagnostics(c, disallowWrites) : c \in AllClauses(q)}

\* repairQuery and buildCypherRepairPlan validate without options of their
\* own: whether writes are errors is the contract's default.
ValidateByDefault(q) == Validate(q, DisallowWritesByDefault)

\* External: the Cypher parser reads the rendered query, raw text included.
ParserDiagnostics(q) ==
  When(\E c \in AllClauses(q) : ~c.parses, Error("cypher-parser-error"))

-----------------------------------------------------------------------------
(***************************************************************************)
(* createSafeExecutionPlan: repair, validate twice, gate writes.           *)
(***************************************************************************)
MissingParameters(opts) ==
  When(~(RequiredParams \subseteq opts.params), Error("missing-required-parameter"))

\* Only the clauses at the top of the query are looked at.
Writes(q) == \E c \in Range(q) : IsWriteClause(c)

\* Mutant: either flag will do.
RequiresApprovalEither(q, opts) == Writes(q) /\ ~(opts.allowWrites \/ opts.approved)

\* Mutant: what was approved is not looked at.
RequiresApprovalAlways(q, opts) == Writes(q)

RequiresApproval(q, opts) == Writes(q) /\ ~(opts.allowWrites /\ opts.approved)

PlanDiagnostics(query, opts) ==
  ValidateByDefault(query)
    \cup Validate(query, ~opts.allowWrites)
    \cup MissingParameters(opts)
    \cup When(RequiresApproval(query, opts), Error("execution-approval-required"))

PlanFor(query, repairs, diagnostics, opts) ==
  [query            |-> query,
   repairs          |-> repairs,
   diagnostics      |-> diagnostics,
   requiresApproval |-> RequiresApproval(query, opts),
   canExecute       |-> ~HasErrors(diagnostics)]

SafePlan(q, opts) ==
  PlanFor(Repaired(q, opts), Applied(q, opts),
          PlanDiagnostics(Repaired(q, opts), opts), opts)

-----------------------------------------------------------------------------
(***************************************************************************)
(* assessCypherPolicy, with no planner estimate, statistics or rules: what *)
(* the clauses at the top of the query may cost.                           *)
(***************************************************************************)
\* Mutant: only numeric bounds are compared with the threshold.
HopFindingsNumeric(rel) ==
  When(rel.maxHops > MaxRelationshipHops, Warning("policy-high-hop-traversal"))

HopFindings(rel) ==
  When(rel.maxHops = Unbounded, Error("policy-unbounded-traversal"))
    \cup When(rel.maxHops > MaxRelationshipHops, Warning("policy-high-hop-traversal"))

HeadFindings(node) ==
  When(node.properties = {},
       Warning(IF node.labels = <<>> THEN "policy-unfiltered-node-scan"
                                     ELSE "policy-unfiltered-label-scan"))

PathFindings(path) ==
  HeadFindings(path.head)
    \cup UNION {HopFindings(path.tail[i].rel) : i \in DOMAIN path.tail}

MatchFindings(c) ==
  When(Len(c.patterns) > 1, Warning("policy-cartesian-pattern-risk"))
    \cup UNION {PathFindings(p) : p \in Range(c.patterns)}

ReturnFindings(c) ==
  When(c.limit = Unset, Warning("policy-missing-limit"))
    \cup When(c.limit > MaxReturnLimit, Warning("policy-high-return-limit"))

\* Mutant: allowWrites is not passed on to the policy.
PolicyFindingsReadOnly(q, opts) ==
  UNION {When(IsWriteClause(c), Error("policy-write-risk"))
           \cup (IF c.kind = "match"  THEN MatchFindings(c)  ELSE {})
           \cup (IF c.kind = "return" THEN ReturnFindings(c) ELSE {}) :
         c \in Range(q)}

PolicyFindings(q, opts) ==
  UNION {When(IsWriteClause(c) /\ ~opts.allowWrites, Error("policy-write-risk"))
           \cup (IF c.kind = "match"  THEN MatchFindings(c)  ELSE {})
           \cup (IF c.kind = "return" THEN ReturnFindings(c) ELSE {}) :
         c \in Range(q)}

-----------------------------------------------------------------------------
(***************************************************************************)
(* buildCypherProof: a claim per check, and the verdict over the claims.   *)
(***************************************************************************)
ClaimStatus(diagnostics) ==
  IF HasErrors(diagnostics) THEN "failed"
  ELSE IF diagnostics # {} THEN "warning"
  ELSE "passed"

Claims(plan, opts) ==
  {IF plan.repairs = {} THEN "passed" ELSE "warning",
   ClaimStatus(plan.diagnostics),
   IF plan.canExecute /\ ~plan.requiresApproval THEN "passed" ELSE "failed",
   ClaimStatus(PolicyFindings(plan.query, opts))}
    \cup (IF opts.includeParser THEN {ClaimStatus(ParserDiagnostics(plan.query))}
                                ELSE {})

ProofStatus(claims, repairs) ==
  IF "failed" \in claims THEN "blocked"
  ELSE IF repairs # {} THEN "repaired"
  ELSE IF "warning" \in claims THEN "accepted-with-warnings"
  ELSE "accepted"

\* The codes of every claim; the first claim repeats those of the second.
ProofCodes(plan, opts) ==
  Codes(plan.diagnostics \cup PolicyFindings(plan.query, opts)
          \cup (IF opts.includeParser THEN ParserDiagnostics(plan.query) ELSE {}))

ProofOf(plan, opts) ==
  [status           |-> ProofStatus(Claims(plan, opts), plan.repairs),
   query            |-> plan.query,
   canExecute       |-> plan.canExecute,
   requiresApproval |-> plan.requiresApproval,
   repairs          |-> plan.repairs,
   codes            |-> ProofCodes(plan, opts)]

Proof(q, opts) == ProofOf(SafePlan(q, opts), opts)

-----------------------------------------------------------------------------
(***************************************************************************)
(* buildCypherRepairPlan: what can be repaired, what needs the model, what *)
(* must not be repaired at all.  The query is repaired first; the safe     *)
(* plan then repairs the repaired query again.                             *)
(***************************************************************************)
ModelRequiredCodes ==
  {"unknown-label", "unknown-relationship-type", "unknown-property",
   "missing-required-parameter"}

UnsafeCodes ==
  {"write-requires-approval", "execution-approval-required",
   "policy-write-risk", "policy-unbounded-traversal",
   "policy-cartesian-pattern-risk"}

IsUnsafe(d) == d.severity = "error" /\ d.code \in UnsafeCodes

ShouldRequireModel(d, applied) ==
  /\ d.severity = "error" \/ d.code \in ModelRequiredCodes
  /\ d.code \notin UnsafeCodes
  /\ d.hint \notin applied

RepairPlanDiagnostics(q, repaired, plan, opts) ==
  ValidateByDefault(q)
    \cup ValidateByDefault(repaired)
    \cup plan.diagnostics
    \cup ParserDiagnostics(plan.query)
    \cup PolicyFindings(repaired, opts)

RepairPlanStatus(diagnostics, applied) ==
  IF \E d \in diagnostics : IsUnsafe(d) THEN "blocked"
  ELSE IF \E d \in diagnostics : ShouldRequireModel(d, applied) THEN "needs-model"
  ELSE "ready"

\* "repaired" is the query with the patches applied; "query" is the one the
\* plan carries, which cypherAfter renders.
RepairPlanFor(repaired, query, applied, diagnostics) ==
  [status        |-> RepairPlanStatus(diagnostics, applied),
   deterministic |-> applied,
   repaired      |-> repaired,
   query         |-> query,
   diagnostics   |-> diagnostics]

RepairPlanWith(q, repaired, plan, opts) ==
  RepairPlanFor(repaired, plan.query, Applied(q, opts),
                RepairPlanDiagnostics(q, repaired, plan, opts))

RepairPlan(q, opts) ==
  RepairPlanWith(q, Repaired(q, opts), SafePlan(Repaired(q, opts), opts), opts)

-----------------------------------------------------------------------------
(***************************************************************************)
(* buildCypherAgentFeedback: one packet, one next action.                  *)
(***************************************************************************)
ApprovalCodes ==
  {"execution-approval-required", "write-requires-approval", "policy-write-risk"}

\* Mutant: defaultLimit is left out of the options passed on.
RepairPlanOptionsNoLimit(opts) == [opts EXCEPT !.defaultLimit = Unset]

\* Every option but includeParser reaches the repair plan.
RepairPlanOptions(opts) == [opts EXCEPT !.includeParser = TRUE]

\* Mutant: a query without repairs is ready, whatever else was found.
FeedbackStatusRepairsFirst(proof, repairPlan) ==
  IF proof.repairs = {} /\ repairPlan.deterministic = {} THEN "ready"
  ELSE IF repairPlan.status = "blocked" \/ proof.status = "blocked" THEN "blocked"
  ELSE IF repairPlan.status = "needs-model" THEN "needs-model"
  ELSE "repaired"

FeedbackStatus(proof, repairPlan) ==
  IF repairPlan.status = "blocked" \/ proof.status = "blocked" THEN "blocked"
  ELSE IF repairPlan.status = "needs-model" THEN "needs-model"
  ELSE IF proof.repairs # {} \/ repairPlan.deterministic # {} THEN "repaired"
  ELSE "ready"

NextAction(status, codes) ==
  CASE status = "ready"       -> "execute"
    [] status = "repaired"    -> "apply-deterministic-repairs"
    [] status = "needs-model" -> "regenerate-query"
    [] status = "blocked"     -> IF codes \cap ApprovalCodes # {}
                                   THEN "request-approval" ELSE "blocked"

PacketWith(status, codes, proof, repairPlan) ==
  [status     |-> status,
   nextAction |-> NextAction(status, codes),
   canExecute |-> proof.canExecute,
   codes      |-> codes,
   proof      |-> proof,
   repairPlan |-> repairPlan]

PacketOf(proof, repairPlan) ==
  PacketWith(FeedbackStatus(proof, repairPlan),
             proof.codes \cup Codes(repairPlan.diagnostics), proof, repairPlan)

Feedback(q, opts) ==
  PacketOf(Proof(q, opts), RepairPlan(q, RepairPlanOptions(opts)))

=============================================================================
