# Verification of the Cypher LLM compiler

The repository compiles queries that a language model emits as IR: it checks
them against a schema contract, repairs what can be repaired without judgment,
decides whether the result may run, and tells an agent what to do next.  It also
reads Cypher as text, measures what models write, and serves these tools over
HTTP and as an MCP server.  This directory holds TLA+ modules translated from
`src/src/*.ts`, TLC configurations that check them on small instances, and
TLAPS proofs of the theorems that hold for every instance.

`PROJECT.json` maps every definition to the lines it translates and lists the
components, hazards, runs, findings and theorems.

## 1. The system

### Components and their state

| Component | Files | State | Operations | What makes it correct |
|---|---|---|---|---|
| Query IR | `ir.ts` | none, plain records | – | one shape for every pass |
| Schema contract | `schema.ts` | lookup maps built once per contract | `normalizeSchema`, `resolve*`, `canonical*` | a spelling has one canonical name, names resolve to themselves |
| Validator | `validate.ts` | scope maps mutated while clauses are walked | `validateQuery` | no error, no warning is missed in any nesting of clauses |
| Repair | `repair.ts` | the clone it edits | `repairQuery`, `repairRawCypher` | idempotent, never silent, keeps what it does not repair |
| Safe plan | `safety.ts` | none | `createSafeExecutionPlan` | a plan that can run has no error and the approval it needs |
| Policy | `policy*.ts`, `schema-statistics.ts`, `planner-estimate.ts` | bindings collected over a query | `assessCypherPolicy`, profiles, rule sets | unbounded and oversized reads, unapproved writes, rows of other tenants and secrets are found; asking for less finds less |
| Policy evals | `policy-eval.ts` | results by task | `evaluatePolicyAttempts` | what passes as written passes as executed |
| Proof | `proof.ts` | none | `buildCypherProof` | the claims cover what the plan and policy found |
| Repair plan | `repair-plan.ts` | none | `buildCypherRepairPlan` | every diagnostic is a patch, a question to the model or a refusal |
| Agent feedback | `agent-feedback.ts` | none | `buildCypherAgentFeedback` | one next action that agrees with both reports |
| Agent guide | `agent-guide.ts` | the agent's: query, options, packet, phase | the published workflows | the loop ends; what runs was cleared |
| HTTP service | `http-server.ts`, sink in `cli.ts` | handlers between two awaits, body length, audit log | routes, `readJsonBody`, `finish`, `emitAudit` | an answer per request, gates before tools |
| Service metrics | `service-metrics.ts` | counters of the process | record, signals, snapshot | counters are the tally of the answers |
| MCP server | `mcp-server.ts` | a line reader | one request per line | one answer per request with an id, in the order of the lines; no line ends the loop |
| Tools | `tools.ts` | none | schemas, argument checks, dispatch | what a schema allows is accepted, and what is stated arrives |
| Evals, retry evals, repair packets | `evals.ts`, `retry-eval.ts`, `repair-loop.ts` | results by task and round | score, transitions, summary | no pass and no diagnostic is lost between two rounds; a lost task counts as lost |
| Comparison, gate, scorecard | `eval-compare.ts`, `benchmark-gate.ts`, `scorecard.ts` | none | compare, gate, rank | a gate that passes stays passed when less is asked, and along a chain of baselines |
| Parser and raw lift | `lossless-parser.ts`, `raw-lift.ts` | position and brackets of three scanners | split a text, lift it, annotate it | terminators, comments and keywords count in code only; a span is of its text; an annotation names its clause |
| Neo4j | `neo4j-explain.ts`, `neo4j-introspect.ts` | a driver session | EXPLAIN, introspection | the session is closed on every path |
| Compatibility reports | `compatibility*.ts`, `contract-conformance.ts`, `dialect*.ts` | none, constant tables | report, diff | removals are breaking |
| Rendering, command line, datasets | `render.ts`, `cli.ts`, ... | none | formatting, dispatch | – |

### How they interact

The compiler passes are synchronous calls on records:

    agent --> buildCypherAgentFeedback
                |-- buildCypherProof
                |     |-- createSafeExecutionPlan --> repairQuery, validateQuery x2
                |     |-- assessCypherPolicy (on the repaired query)
                |     `-- parser preflight (external)
                `-- buildCypherRepairPlan (options derived from the caller's)
                      |-- repairQuery, validateQuery
                      `-- createSafeExecutionPlan (on the repaired query, once more)

Every call takes the query and *some* of the caller's options.  The agent holds
state between calls: it applies patches, asks the model for another draft, or
takes the query through an approval, and asks again.

The HTTP service shares one metrics object between all requests in flight; a
handler is interrupted at each chunk of its body, at its tool and at its audit
sink.  The command line provides the sink: a line appended to a file.

The MCP server awaits one line at a time and calls the same dispatcher,
`executeCypherCompilerTool`: it looks at the arguments a tool needs, one by one, and
hands them on.  The schemas a client validates against are a table of their own.

A text goes through `parseCypherLosslessly` (fragments, then clauses of each
statement), whose preview is the raw lift's reading of the same clauses, found
with a scanner of its own; or through `repairRawCypher`, which reads no structure
and edits names by offset.  A policy eval calls the policy on the query as
written and the compiler on it as repaired.

### Hard behaviours

* Three verdicts on one query, computed from separate repairs and separate
  validations under different options, and combined by precedence.
* Sequences of packets: repairs that call for repairs, approvals that change
  the options, drafts that replace the query.
* Traversal of nested clauses: some passes enter the body of a CALL subquery
  and some do not.
* Request interleavings at awaits, failures in the middle of a request, and a
  process that dies between an answer and its audit line.
* A loop over lines that must survive every one of them.
* Texts read by four scanners, each with its own idea of what is code, and
  offsets that are shifted from a clause to its statement to the source.
* Evidence from several places (thresholds, profile, statistics, plan, rules) and
  bindings collected over a whole query, whose mentions may hide one another.
* Long chains of derived numbers: what an attempt is worth feeds statuses,
  transitions, rankings and gates, each computed from the reports on its own.

The hazards, each at its line, are in `PROJECT.json`.

## 2. The modules

    SchemaContract --> CypherRepair --> CompilerFeedback --> AgentLoop --> MCAgentLoop,
                                                                           AgentLoopProofs

    ScopeValidation --> MCScopeValidation, ScopeValidationProofs

    ServiceMetrics --> HttpService --> MCHttpService
          |               |
    ServiceLedger <-------+  (INSTANCE, refinement) --> HttpServiceProofs

    Evals --> RetryEval --> EvalGate --> MCRetryEval, RetryEvalProofs

    PolicyRules --> PolicyReview --> MCPolicyReview, PolicyReviewProofs

    Folding --> RetryEvalProofs, PolicyReviewProofs, LosslessParserProofs
                (INSTANCE, one for each fold)

    ToolArguments --> McpServer --> MCMcpServer
                         |
      OrderedAnswers <---+  (INSTANCE, refinement) --> McpServerProofs

    CypherText --> RawLift --> LosslessParser --> LosslessInvariants --> LosslessParserProofs
        |                            |
        `--> RawRepair --------------+--> MCLosslessParser

**SchemaContract** (`schema.ts`, `ir.ts`).  Constants give the contract; a
spelling's lookup key is a constant function `KeyOf`, so that case folding and
trimming are what any function may do, and two spellings can share a key.
`registerLookup` overwrites, so the *owner* of a spelling is the last entry
that registers its key.  `properties` of a node are the spellings that resolve
to one of its properties.

**CypherRepair** (`ir.ts`, `repair.ts`).  `Query` and the pure function
`Repaired`, with `Applied`, the kinds of repair it reports.  Expressions,
variables and projections are left out: `repairQuery` does not touch them.

**CompilerFeedback** (`validate.ts`, `safety.ts`, `policy.ts`, `proof.ts`,
`repair-plan.ts`, `agent-feedback.ts`).  One operator per pass, from a query and
options to a set of diagnostics or a record; `Feedback(q, opts)` is the packet.
Which options reach which pass is translated exactly: that is where the
findings below come from.

**ScopeValidation** (`validate.ts`).  The other half of the validator: the scope
it mutates while it walks a query.  `frames` is the stack of the query and the
subqueries open in it, each with its clauses so far, its scope and the reports.
An action is one kind of clause (`Pattern`, `With`, `Return`, ...) and what
`validateClause` does with it; `EnterSubquery` and `LeaveSubquery` are the two
halves of `validateSubqueryCall`.  The query is drawn clause by clause from
`Clauses`, so that a behaviour is a query.  An expression is what a scope can
tell about it: variables, properties read, whether it aggregates.

**AgentLoop** (`agent-guide.ts`).  The guide is data: a workflow with steps,
tools and stop conditions.  The module is an agent that follows it.  `query`,
`opts` and `packet` are what it holds; `Compile` is one call of
`cypher_agent_feedback`; an action per value of `nextAction`; `Grant` and `Deny`
are the approval path outside the compiler; `executed` remembers what ran and
under which options.

**ServiceMetrics** (`service-metrics.ts`).  All counters as one bag, and
`Report`, the tally they must equal.  **HttpService** (`http-server.ts`).  An
action is the stretch of a handler between two awaits: `Arrive` (one disjunct
per route and refusal), `Read` (a chunk, the end, a failure), `RunTool`,
`Audit`; `Restart` ends a process.  **ServiceLedger** is what the service
promises in the abstract: an atomic answer that is counted, and reports that are
the tally of the answers before them.

**Evals** (`evals.ts`, `repair-loop.ts`).  Pure: a report is a function from the
tasks of a dataset to their results, and the metrics are counts over it.  What
the compiler makes of a query is an input (`Outcome`); what the evaluation makes
of an attempt (missing, empty, late, without a query, attempted twice) is not.
Rates are in ten-thousandths, rounded half up as `ratio` rounds.
**RetryEval** (`retry-eval.ts`).  The model hands in rounds (`AddRound`), then
the function runs: identifiers are completed and checked, each round is
evaluated, consecutive rounds compared, tasks and summary built.  Each step is an
action because each later one reads what earlier ones left, and the properties
relate them.  **EvalGate** (`eval-compare.ts`, `benchmark-gate.ts`,
`scorecard.ts`).  The reports of the rounds against one another: `RunGate` and
`BuildScorecard`, a baseline with any of the `Datasets`, any `Options`.

**PolicyRules** (`policy.ts`, `policy-profile.ts`, `policy-rules.ts`,
`schema-statistics.ts`, `planner-estimate.ts`).  The whole of `assessCypherPolicy`, where
`CompilerFeedback` has what the loop needs of it: options completed from a profile and
defaults, findings with their path, statistics, a planner estimate taken from an
operator tree, sensitive names, tenant scopes in an expression, and the bindings
that decide which owner a returned property is read from.  An expression is what
the rules look at: junctions (AND, OR, XOR), negations, comparisons of properties and
parameters, and whatever else an expression may be, which the rules do not enter.
Expressions are any set of finite trees: `Size` is a constant that is smaller for a
part than for the whole.  What a clause mentions (`ClauseMentions`) is apart from
what the pass makes of the mentions (`RegisterBinding`).
**PolicyReview** (`policy-eval.ts`).  A behaviour is one evaluation: a query is drawn
clause by clause, its bindings are collected in one pass (`BindClause`), its findings in a
second (`AssessClause`, `AssessPlanner`), because the second reads what the whole
first pass left; then the attempt is judged, and the next task begins with
nothing of it.

**ToolArguments** (`tools.ts`).  Two tables, as in the code: what each of the 25
tools publishes, and what its branch of the dispatcher checks and passes on.  Both are
put together with `++`, the object spread of the code in which the right side wins.
**McpServer** (`mcp-server.ts`).  The client writes and closes; the loop takes a
line (`Take`) and handles it (one action per way a line may go), or ends.
**OrderedAnswers** is what such a server promises: lines are dealt with once and
in their order, each with a proper reply, which may be empty.  The mapping takes for
`todo` the lines of the script that are not handled.

**CypherText**, **RawLift**, **LosslessParser**, **RawRepair** (`lossless-parser.ts`,
`raw-lift.ts`, `repair.ts`).  A text is a sequence of symbols; a word is one symbol,
since no scanner looks inside one.  `CypherText` has the functions both readers
share, each written as its loop (quotes with escapes and doubling, comments,
keywords, the binary search for a line).  `LosslessParser` is `parseCypherLosslessly`, one
action per branch of the two scanners, then the preview and its annotations;
`RawLift` splits and classifies clauses.  `RawRepair` is `repairRawCypher`: edits are
found name by name in the text as it came, claimed, and applied from the back.

## 3. The runs

| Run | Checks | Shows |
|---|---|---|
| `AgentReadonly` | `ExecuteIsCleared`, `ExecutedTraversalsAreBounded`, `ExecutedNamesAreDeclared`, `PacketAgrees`, `RepairsSettle` | the loop under the default, read-only contract |
| `AgentOpenContract` | `ExecutedWritesWereApproved`, `ApprovalSettles`, `ExecutedIsSettled`, `EveryDraftIsDecided` | a contract that leaves writes to the caller and in which an alias is another entry's name; what is compiled is executed, refused or replaced, however often an approval is granted |
| `HttpRoutes` | `ToolsRunCleared`, `AuditTellsTheAnswer`, `LedgerSpec`, `EveryRequestIsAnswered` | every call on every route, two at a time, with a restart, implements the ledger and is answered |
| `ScopeWalk` | `ScopeIsLexical`, `SilentMeansVisible`, `SubqueriesDoNotLeak` | every query of three clauses, with subqueries of two, against what the text makes visible |
| `RetryRounds` | `PassingOutranksFailing`, `LostTasksRegress`, `DiagnosticsConserved`, `StatusesAgreeWithMetrics`, `RoundIdsIdentify`, `GatesCompose`, `UnregressedBaselineIsNotAhead` | every sequence of up to three rounds over seven lists of attempts, each then gated or ranked |
| `PolicyReview` | `TypeOK`, `TenantScopeIsSound`, `AskingLessFindsLess`, `NoClauseHidesAnother`, `PassedStaysPassed`, `QuietPlansAreCheap` | every query of three clauses and one after it, by five callers: a scope that is found holds for every row, a looser caller is told nothing new, no clause hides what is found in another, and what passes as written passes as executed |
| `McpLines` | `PublishedCallsAreAccepted`, `StatedArgumentsArrive`, `AnswersInOrder`, `EveryLineIsSettled` | scripts of up to three lines, and every tool with arguments one or two away from its smallest call |
| `LosslessReport` | `TypeOK`, `FragmentsAreCutInCode`, `CommentsAndFaultsAreExact`, `ClausesStartInCode`, `EntriesNameTheirPlace`, `SupportedQueriesPointHome`, `RawRepairIsAPatch` | every short text over five alphabets, and texts of phrases, against an automaton that reads one symbol at a time; annotations are right in a query that is lifted throughout; every repair of a raw text is a patch an editor can apply |

Runs that TLC must find violated, each a disagreement between the code and what
the repository says of it (`findings` quotes the lines):

| Run | Property | What happens |
|---|---|---|
| `AgentApprovedWriteBlocked` | `ApprovalSettles` | `repairQuery` validates without the caller's options, so under a read-only contract an approved write is asked for approval again |
| `AgentNestedMutation` | `ExecutedMutationsWereApproved` | under a contract that leaves writes to the caller, a write inside a CALL subquery needs no approval |
| `PolicyHiddenSecret` | `ProjectedSecretsAreFound` | a relationship variable of a subquery that shares its name with a node outside makes the policy forget the node's label, and its secret is returned unreported |
| `LiftMisplacesPaths` | `AnnotationsPointHome` | in `OPTIONAL MATCH () MATCH ()-[]-(x)` the lift makes a raw OPTIONAL, and the second clause of the source gets the path of what was made from the first |

More disagreements were met on the way and have no run of their own.

* Loop: the proof is blocked by the very diagnostic the model should repair, so that
  the agent stops where `docs/REPAIR_LOOP.md` has the model asked again
  (`agent-feedback.ts:113`).  An alias in the body of a CALL subquery is valid and is
  not repaired (`repair.ts:71`).
* Validator: `RETURN count(a) AS c ORDER BY c` and `(a:Person WHERE a.name = ...)` are
  undefined variables (`validate.ts:426`, `:548`).  A variable matched again
  without its label loses the label (`validate.ts:552`).  `unknown-property` and
  `subquery-missing-return` are warnings there and errors in `diagnostic-catalog.ts`.
* HTTP: an invalid small body that says "too large" is answered 413, which
  `service-openapi.ts` reserves for large ones (`http-server.ts:228`).  A request whose
  target is no URL is answered 500 and counted nowhere (`http-server.ts:79`).
* MCP: a request without an id is answered with id null, one with id 0 that is
  called a notification is not answered.  The schemas do not say that a text must
  not be empty, that one of query and text is needed, that a profile and a profile's id
  exclude each other, and which ids there are; `PublishedCallsAreAccepted` names these
  reasons.  `cypher_repair` prefers the query where other tools prefer the text.
* Raw repair: where a name goes on where another one ends (`has hash` and `has hash
  value`), both edit the longer one's occurrence, and the text is spoiled: edits are
  claimed by exact span only (`repair.ts:347`).  The contract of the run has no such
  names.  A name in a string is quoted like any other.
* Lift: OPTIONAL MATCH is never lifted (`raw-lift.ts:381` against `docs/RAW_LIFT.md:17`);
  `STARTS WITH` is reported as a WITH clause.  What precedes the first keyword the lift
  knows is in no clause, raw or structured: `CREATE () RETURN x` is lifted to `RETURN x`
  (`raw-lift.ts:388` against `docs/RAW_LIFT.md:5`, "leave everything else as an explicit
  `raw` clause").  A `CALL { ... }` is cut up by the lift, and
  annotations after it name another clause of the kind, as after an OPTIONAL MATCH
  (`LiftMisplacesPaths`).  A raw clause covers every clause whose text it includes, one that
  stands in a string of it among them (`lossless-parser.ts:559`).
* Policy evals: `docs/API.md` describes `riskyExecutableAttempts` otherwise than
  `policy-eval.ts:250` counts them.

### Bounds

* Contract: two labels (one with an alias), three relationship types (one
  aliased, one reversed, one undirected), a property not declared, a label not
  declared.  These are all the relations two names can have to a contract;
  `ChainedNodes` adds the alias that another entry claims.
* `MCDrafts`: paths with no, one and two relationships; every direction; hop
  bounds absent, given and unbounded; limits absent, small and too large; every
  kind of write; raw text that parses and that does not; CALL bodies with reads
  and writes.  Deeper nesting is not in the model: an IR subquery inside a
  subquery is walked by the same code again.
* `MCOptions`: repair defaults present and absent; `allowWrites` and `approved`
  apart and together; with and without the parser claim; a missing parameter.
* `MaxRounds = 3` lets a count of repairs go two further than the one allowed, and stops
  nobody: the count stays there.  Drafts and approvals have no bound.
* HTTP: two requests, so that any two stretches meet; chunks of one and two units
  against a limit of two, so that the sum crosses the limit while no chunk does;
  one restart.  For more requests in flight there is the theorem.
* `ScopeWalk`: three variables, so that one can be kept, one hidden and one new;
  patterns in which a variable is used before, at and after the place that binds
  it; every kind of clause; `MCMaxClauses` is three clauses and two in a
  subquery: enough for something to be bound, hidden or shadowed and then used,
  inside and outside.  A subquery in a subquery is one more frame of the same
  kind, and what a clause does depends on the past through the scope alone.
* `RetryRounds`: three rounds, so that a task can converge and be lost again;
  three tasks, one with a fragment and a verdict to meet, one that must not
  execute, one without expectations, because the score treats them differently;
  lists with every kind of attempt, a task twice, a task unknown and tasks left
  out.  `"round-2"` is the one identifier stated: it is also the one the code
  makes up for a second round without.  One gate or scorecard per evaluation:
  they are independent calls that leave nothing behind.  With at most nine lanes
  the order of the lane identifiers is that of their numbers.

* `PolicyReview`: a query of three clauses can bind a name, hide it and return it; the
  task after it, of one clause, would meet what the first left behind.  Two variables,
  two labels and an alias of one; predicates with the tenant under AND, OR, XOR and
  NOT, on either side, for another variable, and beside text the rules cannot read; hop bounds, limits and counts on both sides
  of the thresholds of some caller; a plan whose root is cheap and whose leaves are
  not.  Five callers: the strict and the exploration profile, overrides with zero
  and `false`, looser and tighter ones, with and without each piece of evidence.
* `McpLines`: three lines, so that a line is handled after one that failed; all pairs of
  the lines the loop tells apart.  An argument is checked by itself, except for the
  pairs that exclude or replace each other: one argument with any value and any two
  with fitting ones meet every check.
* `LosslessReport`: five symbols hold a token, its end and what follows; the five
  alphabets combine comments, quotes and escapes, brackets and terminators, words and
  blanks.  Three phrases hold a clause between two others, in a subquery or after
  a comment.  Five pieces of names hold two occurrences of a name and the symbols
  that must end it.

Deadlock is checked in the loop of the agent, the HTTP service, the scopes and the
retry evals: `Finished`, `Ended` and `Terminated` are the only places they stop.  A policy
eval and a parse end when they are done, and a script does when the client is; these
runs say so with `CHECK_DEADLOCK FALSE`.

### Fairness

`AgentLoop` assumes that the agent, the compiler and the approver each take
their turn (`WF_phase(TakeTurn)`: every step short of the end changes `phase`).
The compiler is a set of terminating functions; the agent is told to follow the
guide.  Nobody has to grant an approval, an approver may grant all that is asked, and
the model may draft anything, as often as it is asked: a request may go on for
ever.  What must not is one draft, and `EveryDraftIsDecided` says so where the
contract leaves writes to the caller; under a read-only one an approver who grants
each time is asked each time (`AgentApprovedWriteBlocked`).

`HttpService` assumes weak fairness of reading a body and of running a tool,
per request: a body's stream ends, fails, or is cut off by the timeout of the
server; every tool is a function that returns.  Nothing is assumed of clients
that have not sent a request, of the audit sink, or of restarts.

`McpServer` assumes that the loop goes on while there is a line to take, to handle
or an end to notice (`WF_vars(Take \/ HandleLine \/ End)`): a handler awaits tools
that are functions.  The client owes nothing, neither a line nor the end.

## 4. The proofs

Assumptions: `ContractAssumption`, `LoopAssumption`, `ServiceAssumption`,
`ScopeAssumption`, `EvalsAssumption`, `RetryAssumption`, `GateAssumption`,
`PolicyRulesAssumption`, `ExpressionAssumption`, `PolicyReviewAssumption`,
`ScriptsAssumption`, `LinesAssumption`, `SourcesAssumption` (types of the constants) and
`NamesAssumption` (no character of a name is a blank, a quote, a bracket or another symbol
the scanners look for, as `isIdentifierChar` has it), evaluated by TLC in
every run of their module, and, in the theorems
that say so, `Unambiguous`: no spelling belongs to two entries of the contract.
`normalizeSchema` does not check that; `AgentOpenContract` shows what is left
without it.

**AgentLoopProofs**, first part.  `RepairIsIdempotent`, for every query, contract and
option.  Canonical names are fixed points of the lookup (this needs
`Unambiguous`); so nodes and types are settled after one pass; so the direction
is computed from the same labels and types the second time, and the chosen
direction is either allowed or one that no other direction improves on.
`NoRepairsIsSettled`, without the assumption: a query for which nothing is
reported is left as it is.

**AgentLoopProofs**, second part.  Type correctness, and the invariant behind the rest:
the packet is the one computed from the current query and options whenever the
agent decides on it, and every run in `executed` came from a packet that cleared
it under the same options (`RunsWereValid`).  The safety properties follow
from what it means for a packet to say "execute", which is a fact about the
passes alone: `ready` means no failed claim, no repair left and no approval
outstanding.  None of the invariants is inductive by itself: `executed` says
nothing about the packet that led to it.  `RepairsSettleOnce` needs idempotence: after a
round the query is `Repaired(q)`, and its packet finds nothing to apply.
`ApprovalSettlesOnce` assumes that the contract does not forbid writes of its own:
then no pass produces one of the three codes that ask for approval once both
flags are set, clause by clause and finding by finding.  `AgentApprovedWriteBlocked`
shows what the assumption is for.

**HttpServiceProofs.**  The inductive invariant `IInv` strengthens
`MetricsAreExact` with where the handler is: a request has an answer exactly
after `finish`, its entry carries its own name, and counters and entries grow
together.  `StepKinds` classifies every step of the service as an answer, a
failure, a restart or a stutter of the ledger; the four safety theorems and
`ImplementsLedger` follow case by case, for any number of requests, routes and
signals and any body limit.

**ScopeValidationProofs.**  `ScopesAreLexical` and `NoLeaks`, for any variables,
clauses, lengths and depths.  The invariant adds that every frame but the last ends with the
subquery that is open in it, with nothing returned yet: without it, leaving a
subquery could not be said to complete the last clause.  `VisibleAfter` is the
heart of it: one more clause makes visible what it introduces and hides
everything else exactly if it is a WITH that does not keep the existing names.
That a variable bound twice gets its last binding needs a greatest position,
which comes from the well-foundedness of the natural numbers.
`SilenceMeansVisible` is about the reports: a clause reports what its WHERE and its
order use and the new scope lacks, that scope is `Visible`, and no later clause
changes what is visible at an earlier place (`VisiblePrefix`).

**McpServerProofs.**  `TypeCorrect`, and `AnswersAreOrdered`: `AnswersInOrder` for any lines and
any scripts.  The invariant says that answers are of lines handled and that one
line at most is awaited.  Every way a line may go is shown to write a proper
reply; `Take`, `Send`, `Close` and `End` are stutters of the promise.
`CallsAccepted` and `ArgumentsArrive` compare the two tables for *any* arguments of
a call, where the run takes a few away from the smallest.  The invariant adds
`AnswersTold`: an answer to a call of a tool says what the dispatcher says of its
arguments.  What remains is about each tool: its reader is *sound* for its schema if
every entry it reads is published with a type that passes the check, or is left out
for a reason the property names (`Follows`, `Passes`).  Soundness of two tables
gives that of their `++` (`FollowsBoth`, `PassesBoth`), so that each
of the 25 tools is a chain of the groups of options it is written with.

**Folding.**  What a left fold, a sum and a recursion compute, with the
operator as a parameter of the *module*.  The library's induction theorems have an
operator as a parameter of the theorem, which the installed provers cannot instantiate;
here induction is over a set of numbers (`NaturalInduction`, from the
well-foundedness of `<`), and a module of proofs takes one INSTANCE of `Folding` for
each operator it folds.  `RankRecursion`: a function that is defined by recursion on
smaller elements exists, and so its `CHOOSE` satisfies its own equation.
`FoldLeftInvariant`, `FoldLeftAppend` and `FoldLeftAgrees` are what the proofs cite.

**PolicyReviewProofs.**  All that the run `PolicyReview` checks, for any schema, rules,
evidence, callers, clauses and lengths.  The variables of queries are finitely many
(`PolicyRulesAssumption`): a query is a finite text.  The invariant says how far
the two passes are: the bindings are the fold of the clauses bound so far, and the
findings are those of the clauses assessed, whose bindings are those of the whole query.

* `TenantScopes` is an induction over expressions.  Two functions descend into one, what
  the policy finds and what a row satisfies.  For every choice of truth values
  for the atoms, where the first says yes and the second holds, so does some comparison with the
  tenant.  It fails for a scope found under OR, NOT or XOR, which is why the code
  descends into AND alone.
* `NoClauseHides` needs what a fold over mentions computes.  Where no variable is used
  for both kinds, the binding of a variable is the union of all that its mentions
  say (`RegisterBinding` merges and never replaces), so that a query without one of
  its clauses has fewer names for every variable, and every finding needs a name that
  is there.  Bindings of different kinds *are* replaced; that is the finding of
  `PolicyHiddenSecret`.
* `AskingLess` goes finding by finding: each has a threshold or a piece of evidence as
  its reason, and the reason stays when it is tightened.
* `PassedStays`: repair rewrites labels, types, limits and hop bounds, and every rule
  looks at canonical names, which repair does not change where a canonical name
  stands for itself (the hypothesis of the property; under `Unambiguous` it is a lemma
  of `AgentLoopProofs`).  A repaired clause mentions what the clause mentions, and
  every reason to report it is one to report the clause.  It is shown for one repair
  of any query, and so for two.
* `QuietPlans`: a sum over a subtree is at most the sum over the tree (`SumMonotone`),
  which is at most the threshold when nothing is reported.

**RetryEvalProofs.**  For any finite dataset, attempts and options, and up to four
rounds (`DefaultIds` names four).  The invariant says what each phase has built and
from what: every result is `Scored`, every transition is that of two consecutive
reports, the task reports and the summary are those of the reports still there.
`PassingOutranksFailing` is arithmetic with a case split that the weights of
`qualityScore` make necessary: with an expectation, passing is worth at least
40000 and failing at most 32500; without, only a missing attempt fails, and it
has nothing to score.  `LostTasksRegress` rests on it.  The conservation
theorems are counting: sets split into what two rounds share and what they do
not.  `RoundIdsIdentify` needs that identifiers differ after they were completed,
and a least passing round.  For gates, the verdict is that of reports that no
later step changes (`GateInvariant`); monotony and chaining then follow metric by
metric, for which every metric must be a number (`MetricType`): without a
tolerance "no metric got worse" is transitive, with one it is not.
`BaselineNotAhead` goes from a sum to each of its summands, for any number of lanes
(`SumMonotone` of `Folding`): a scorecard that is not regressed counts no loss in any
lane, so no rate is below the baseline's, and a rank counts who is ahead.

**LosslessParserProofs.**  The invariants are in a module of their own,
`LosslessInvariants`; TLC checked each on short texts first.  `TypeCorrect`,
`PlacesNamed` and `AnnotationsOrdered` hold for any texts.  The functions that read a
text are recursive ones: `RankRecursion` says that each has a solution, with how much
of the text is left as the rank (for the binary search, how many lines are), and an
induction over the same number says where it ends: after the token, within the text
(`QuotedEnds`, `BlockCommentEnds`, `KeywordFound`).
The invariant then says that each list of the report lies in the part of the text read
so far, in order and without overlap (`InLine`), that fragments leave no gap
(`Tiles`), that a terminator is the semicolon between two statements, and that the
clauses of a statement are slices of it in the source's own offsets.
`PlacesNamed` needs that the k-th line starts after the (k-1)-th newline, and that the
search keeps the line it looks for between its bounds (`SearchFinds`, `PlaceFound`);
ids differ since starts of spans do.  `AnnotationsOrdered` is an invariant of the fold
over the lifted clauses (`KeepsOrder`): what is lifted lies before the cursor.

`FragmentsCut` and `CommentsExact` compare the scanner, which jumps from token to token,
with a reader that goes on one symbol at a time: `ModesOf` says whether it is in code, in
a quoted text or in a comment, `OpensOf` which brackets it has open.  For each kind of
token a lemma says in which modes the reader is on the way to its end and in which it
arrives: `QuotedModes` and the lemmas on comments are inductions along the token.  The
doubled quote is the hard case: the scanner skips both, where the reader leaves the quoted text and
enters it again (`Doubled`), so that a mode "code" is in code only if the next one is,
too.  The second inductive invariant, `ReadInv`, says what the scanner has so far when it
stands at `at` in statement mode:

* `ScanInv`: the reader is in code there (or past the end, in the token that never
  ends), and the scanner's stack holds exactly the brackets the reader has open;
* `CommentsInv`: before `at`, an offset lies in a listed comment exactly if the reader is in
  a comment there;
* `CutsInv`: the fragments so far tile the text before `from`, their terminators are
  the semicolons of the reader before it, and none stands between `from` and `at`;
* `FaultsInv`: the faults so far are those of the reader before `at`, each once, and at the
  end those of the brackets still open.

None of these is inductive alone: a semicolon is a cut only with the modes *and* the
brackets right, and the kind of a fragment is right only if its comments are.  The
other phases touch clauses and the preview and keep what the four speak of
(`ClausesKeepSpans`, `LaterRead`).

`ClausesExact` says the same of the second scanner, which reads only the slice of one
statement, against the reader of the whole source.  It has three parts:

* `SearchInv` holds the second scanner against a reader of that slice: it stands where that reader
  is in code, with the brackets that reader has open; the keywords it found are those that begin
  before `at` in no earlier keyword (`Heads`), and none of those reaches over `at`
  (`Cleared`).  A keyword of two words has another one in it (`OPTIONAL MATCH`): the
  scanner jumps over both, and `HeadsGrow` needs that a keyword inside one ends with it
  (`KeywordInside`).
* `ExactInv` keeps for every statement already scanned that its clauses begin at those
  keywords, each reaching to the next; the annotations of the preview leave their spans.
* `PartHead` carries keywords from the slice to the source.  A slice that begins in code, outside
  brackets, after a semicolon, and ends with the text or before one has the modes of the
  source (`SliceReads`, `OneReading`), its brackets up to their offsets (`PartOpens`), and
  its keywords: neither a word nor a run of blanks crosses its ends (`KeywordOfPart`,
  `KeywordBefore`).  That statements are such slices is `CutsInv`.

Some theorems have no run: the type invariants of these modules, `MetricsExact`,
`PassesCounted`, `LaxerPasses` and `AnnotationsOrdered` were model-checked before they were proved.

**Only model-checked.**

* Liveness (`EveryDraftIsDecided`, `EveryRequestIsAnswered`, `EveryLineIsSettled`): `ENABLED` and
  fairness are out of the prover's reach.
* `RawRepairIsAPatch`, whose edits are claimed by a fold over names and applied by
  another over sorted edits.  It also needs a contract in which no name goes on where
  another one ends, and nothing in the code makes sure of that.
* `SupportedQueriesPointHome`, which needs the offsets of every clause in the text that
  is lifted, joined by a fold from clauses without their comments.

No operator is declared `RECURSIVE`, so that every module can be proved about.

## 5. What is not modelled

* Wording, order and source positions of diagnostics, rendered Cypher, audit
  fields other than the status.
* Expression types, the arguments of procedures and functions, dialect features
  and the warning about a missing RETURN in the validator: no scope and no verdict
  that the loop acts on depends on them in the models.  Property aliases.
* The feedback loop runs with no statistics, estimate or rules; `PolicyReview` has
  them, without the loop.
* The fields of lifted patterns and expressions, named paths, YIELD, the conformance
  report of the parser; letters inside a word and their case; the line and column of
  an edit of `repairRawCypher`.
* The counts over all tasks, rates and markdown of a policy eval (`summarize`), and a policy
  finding reported twice: findings are sets; how an operator tree is read out of a driver's
  summary.
* What a tool does with its arguments once it has them, in `McpServer`: a result or a
  failure.
* The Cypher parser (an input of the model) and the model that drafts queries
  (any draft in `Drafts`).
* The socket below HTTP: the model stops at the answer written.
* Labels and dimensions that an importer observes in a dataset, with the metrics
  and breakdowns they lead to; the markdown of reports; ties between rates that
  floating point would break.
* Components listed as `not_modelled` in `PROJECT.json`, with the reason.

## 6. Plan

In the order of what a mistake would cost:

1. **done** `SchemaContract`, `CypherRepair`, `CompilerFeedback`, `AgentLoop` and
   proofs: the path on which a query reaches the database.
2. **done** `ServiceMetrics`, `ServiceLedger`, `HttpService` and proofs: the only
   concurrent part.
3. **done** `ScopeValidation` and proofs.  Its abstract specification is `Visible`,
   what a prefix of the text makes visible.
4. **done** `Evals`, `RetryEval`, `EvalGate` and proofs: the numbers by which a
   change to the compiler or a model is judged.
5. **done** `PolicyRules`, `PolicyReview` and proofs: rule sets, tenant scopes against
   what a predicate means, secrets through bindings, thresholds, estimates.
6. **done** `ToolArguments`, `McpServer`, `OrderedAnswers` and proofs.
7. **done** `CypherText`, `RawLift`, `LosslessParser`, `RawRepair`: texts, with
   proofs.  That both scanners agree with a reader of single symbols is proved.
8. Left: the expression types and callables of the validator (whether a type that
   is inferred is one the value can have), and the difference of two compatibility
   catalogues.  The Neo4j adapter awaits one call after another on a session that its
   caller closes, which leaves a model nothing to find.
