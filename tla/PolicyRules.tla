----------------------------- MODULE PolicyRules -----------------------------
(***************************************************************************)
(* The static policy in full (policy.ts) with the evidence it may be given *)
(* (policy-rules.ts, policy-profile.ts, schema-statistics.ts and           *)
(* planner-estimate.ts): what assessCypherPolicy finds in a query.         *)
(*                                                                         *)
(* A report is the set of its findings, each at its place in the query.    *)
(* Every expression that is not a WHERE is reduced to what the policy      *)
(* reads of it; names are compared as canonicalLabel(..) ?? .. leaves them.*)
(***************************************************************************)
EXTENDS Integers, Sequences, SequencesExt, FiniteSets, Functions

CONSTANTS
  Var,            \* names of variables
  NoVar,          \* an element without a variable
  Property,       \* property keys
  Label, Type,    \* spellings of labels and of relationship types
  CanonicalLabel, \* what canonicalLabel(schema, l) ?? l makes of a spelling
  CanonicalType,
  PropertyMaps,   \* what a node may say in braces: property |-> operand
  Param,          \* names of parameters
  Expression,     \* predicates a WHERE may hold, with all their parts
  Size,           \* of a predicate: more than that of each of its parts
  NoExpression

\* A number that is not given; a bound or a limit that is no number.
Absent == -1
Dynamic == -2

\* The parts of a predicate that are predicates themselves.
Parts(e) ==
  CASE e.kind = "junction" -> {e.first, e.second}
    [] e.kind = "negation" -> {e.first}
    [] OTHER               -> {}

ASSUME PolicyRulesAssumption ==
  /\ NoVar \notin Var
  /\ IsFiniteSet(Var)
  /\ NoExpression \notin Expression
  /\ CanonicalLabel \in [Label -> Label]
  /\ CanonicalType \in [Type -> Type]
  /\ \A map \in PropertyMaps : DOMAIN map \subseteq Property

\* Predicates are trees.
ASSUME ExpressionAssumption ==
  /\ Size \in [Expression -> Nat]
  /\ \A e \in Expression : \A part \in Parts(e) :
       part \in Expression /\ Size[part] < Size[e]

-----------------------------------------------------------------------------
(***************************************************************************)
(* Queries.  The clauses of a subquery's body have no body of their own.   *)
(***************************************************************************)
Predicate == Expression \cup {NoExpression}

NodePattern == [var: Var \cup {NoVar}, labels: Seq(Label),
                properties: PropertyMaps, where: Predicate]

RelPattern == [var: Var \cup {NoVar}, types: Seq(Type),
               maxHops: Nat \cup {Absent, Dynamic}]

Pattern == [head: NodePattern, tail: Seq([rel: RelPattern, node: NodePattern])]

Item == [reads: SUBSET ((Var \cup {NoVar}) \X Property),
         whole: Var \cup {NoVar}, alias: Var \cup {NoVar}]

ClauseOver(bodies) ==
  [kind: STRING, patterns: Seq(Pattern), where: Predicate, items: Seq(Item),
   limit: Nat \cup {Absent, Dynamic}, body: bodies]

Clause == ClauseOver(Seq(ClauseOver({<<>>})))

-----------------------------------------------------------------------------
(***************************************************************************)
(* Options.  A caller gives some of the thresholds; a profile gives others *)
(* and what the caller gives goes first.                                   *)
(***************************************************************************)
DefaultOptions ==
  [allowWrites          |-> FALSE,
   requireLimit         |-> TRUE,
   maxReturnLimit       |-> 100,
   maxRelationshipHops  |-> 5,
   maxEstimatedRows     |-> 10000,
   maxDbHits            |-> 50000,
   maxLabelScanRows     |-> 10000,
   maxRelationshipFanout |-> 100,
   warnOnPlanOperators  |->
     {"AllNodesScan", "NodeByLabelScan", "CartesianProduct", "Eager"}]

OptionType ==
  [f \in DOMAIN DefaultOptions |->
     CASE f \in {"allowWrites", "requireLimit"} -> BOOLEAN
       [] f = "warnOnPlanOperators"             -> SUBSET STRING
       [] OTHER                                 -> Nat]

IsGiven(given) ==
  /\ DOMAIN given \subseteq DOMAIN DefaultOptions
  /\ \A f \in DOMAIN given : given[f] \in OptionType[f]

\* "over" where it says something, else "under".
Overriding(over, under) ==
  [f \in DOMAIN over \cup DOMAIN under |->
     IF f \in DOMAIN over THEN over[f] ELSE under[f]]

\* Mutant: || instead of ??, so that a ceiling of zero is not a ceiling.
EffectiveOptionsTruthy(given) ==
  [f \in DOMAIN DefaultOptions |->
     IF f \in DOMAIN given /\ f \in {"maxReturnLimit", "maxRelationshipHops"}
       THEN (IF given[f] # 0 THEN given[f] ELSE DefaultOptions[f])
       ELSE Overriding(given, DefaultOptions)[f]]

EffectiveOptions(given) == Overriding(given, DefaultOptions)

BuiltinProfiles ==
  [strict      |-> [allowWrites |-> FALSE, requireLimit |-> TRUE,
                    maxReturnLimit |-> 100, maxRelationshipHops |-> 5],
   exploration |-> [allowWrites |-> FALSE, requireLimit |-> TRUE,
                    maxReturnLimit |-> 500, maxRelationshipHops |-> 8],
   maintenance |-> [allowWrites |-> TRUE, requireLimit |-> TRUE,
                    maxReturnLimit |-> 100, maxRelationshipHops |-> 5]]

PolicyOptionsFromProfile(profile, overrides) == Overriding(overrides, profile)

Severities == {"info", "warning", "error"}

RuleSets ==
  [sensitiveLabels: SUBSET [label: Label, severity: Severities \cup {"unset"}],
   sensitiveRelationships: SUBSET [type: Type, severity: Severities \cup {"unset"}],
   sensitiveProperties:
     SUBSET [ownerKind: {"any", "node", "relationship"},
             owner: Label \cup Type \cup {"any"}, property: Property,
             severity: Severities \cup {"unset"}],
   tenantScopes:
     SUBSET [label: Label, property: Property, parameter: Param \cup {"any"},
             severity: Severities \cup {"unset"}]]

NoRules ==
  [sensitiveLabels |-> {}, sensitiveRelationships |-> {},
   sensitiveProperties |-> {}, tenantScopes |-> {}]

\* Statistics are partial: not every label or type was counted.
IsStatistics(statistics) ==
  LET nodes == statistics.nodes
      fanout == statistics.relationships
  IN  /\ statistics = [nodes |-> nodes, relationships |-> fanout]
      /\ DOMAIN nodes \subseteq Label /\ DOMAIN fanout \subseteq Type
      /\ nodes \in [DOMAIN nodes -> [count: Nat, indexed: SUBSET Property]]
      /\ fanout \in [DOMAIN fanout -> Nat]

NoStatistics ==
  [nodes |-> [l \in {} |-> {}], relationships |-> [t \in {} |-> 0]]

-----------------------------------------------------------------------------
(***************************************************************************)
(* Planner estimates.  A plan is a tree: a function from the addresses of  *)
(* its operators, <<1>> the root, <<1, k>> its children, and so on.        *)
(***************************************************************************)
NoEstimate == [estimatedRows |-> Absent, dbHits |-> Absent,
               operators |-> [a \in {} |-> {}], warnings |-> 0]

Given(numbers) == numbers \ {Absent}

EstimatedRows(operators) ==
  LET rows == Given({operators[a].estimatedRows : a \in DOMAIN operators})
  IN  IF rows = {} THEN Absent ELSE Max(rows)

\* The operators that have a number of hits, and the hits of some of them.
Counted(operators) == {a \in DOMAIN operators : operators[a].dbHits # Absent}

HitsOf(operators, some) ==
  FoldFunctionOnSet(LAMBDA x, y : x + y, 0,
                    [a \in DOMAIN operators |-> operators[a].dbHits], some)

\* Mutant: only the root counts, the children's hits are left out.
SumOfDbHitsRoot(operators) == operators[<<1>>].dbHits

SumOfDbHits(operators) ==
  IF Counted(operators) = {} THEN Absent
  ELSE HitsOf(operators, Counted(operators))

BuildPlannerEstimate(plan) ==
  IF plan = NoEstimate.operators
    THEN [NoEstimate EXCEPT !.warnings = 1]
    ELSE [estimatedRows |-> EstimatedRows(plan), dbHits |-> SumOfDbHits(plan),
          operators |-> plan, warnings |-> 0]

IsPlan(plan) ==
  /\ IsFiniteSet(DOMAIN plan)
  /\ plan \in [DOMAIN plan -> [name: STRING, estimatedRows: Nat \cup {Absent},
                               dbHits: Nat \cup {Absent}]]

IsEvidence(evidence) ==
  /\ evidence = [rules |-> evidence.rules, statistics |-> evidence.statistics,
                 planner |-> evidence.planner]
  /\ evidence.rules \in RuleSets /\ IsStatistics(evidence.statistics)
  /\ IsPlan(evidence.planner.operators)
  /\ evidence.planner \in {NoEstimate,
                           BuildPlannerEstimate(evidence.planner.operators)}

-----------------------------------------------------------------------------
(***************************************************************************)
(* Findings                                                                *)
(***************************************************************************)
Finding(code, severity, path, what) ==
  [code |-> code, severity |-> severity, path |-> path, what |-> what]

Warn(condition, code, path, what) ==
  {f \in {Finding(code, "warning", path, what)} : condition}

RuleSeverity(rule, fallback) ==
  IF rule.severity = "unset" THEN fallback ELSE rule.severity

\* The label or type of a pattern element that names exactly one.
OnlyLabels(node) == {CanonicalLabel[l] : l \in {node.labels[i] :
                       i \in {j \in DOMAIN node.labels : Len(node.labels) = 1}}}
OnlyTypes(rel) == {CanonicalType[t] : t \in {rel.types[i] :
                       i \in {j \in DOMAIN rel.types : Len(rel.types) = 1}}}

HasPredicate(node, clause) ==
  \/ clause.where # NoExpression
  \/ node.where # NoExpression
  \/ DOMAIN node.properties # {}

HeadNodeFindings(node, clause, path, opts, statistics) ==
  LET crowded == {l \in OnlyLabels(node) \cap DOMAIN statistics.nodes :
                    statistics.nodes[l].count > opts.maxLabelScanRows}
  IN  IF HasPredicate(node, clause)
        THEN {Finding("policy-unindexed-high-cardinality-predicate", "warning",
                      path, p) :
              p \in {k \in DOMAIN node.properties :
                       \E l \in crowded : k \notin statistics.nodes[l].indexed}}
        ELSE Warn(TRUE, IF node.labels = <<>> THEN "policy-unfiltered-node-scan"
                                              ELSE "policy-unfiltered-label-scan",
                  path, "")
               \cup Warn(crowded # {}, "policy-high-cardinality-label-scan",
                         path, "")

RelationshipFindings(rel, path, opts, statistics, rules) ==
  {f \in {Finding("policy-unbounded-traversal", "error", path, "")} :
     rel.maxHops = Dynamic}
    \cup Warn(rel.maxHops > opts.maxRelationshipHops,
              "policy-high-hop-traversal", path, "")
    \cup {Finding("policy-sensitive-relationship-access",
                  RuleSeverity(r, "warning"), path, r.type) :
          r \in {s \in rules.sensitiveRelationships :
                   CanonicalType[s.type] \in OnlyTypes(rel)}}
    \cup Warn(\E t \in OnlyTypes(rel) \cap DOMAIN statistics.relationships :
                statistics.relationships[t] > opts.maxRelationshipFanout,
              "policy-high-fanout-relationship", path, "")

-----------------------------------------------------------------------------
(***************************************************************************)
(* Tenant scopes: a node with the rule's label is held to the rule's       *)
(* property by its own map or by a conjunct of one of the two predicates.  *)
(***************************************************************************)
\* A rule without a parameter is satisfied by any value.
ValueSatisfies(value, rule) ==
  \/ rule.parameter = "any"
  \/ value.kind = "param" /\ value.name = rule.parameter

PropertyMatches(operand, variable, rule) ==
  /\ operand.kind = "prop"
  /\ operand.key = rule.property
  /\ operand.name = variable

ComparisonScopes(e, variable, rule) ==
  /\ e.op \in {"=", "IN"}
  /\ \/ PropertyMatches(e.left, variable, rule) /\ ValueSatisfies(e.right, rule)
     \/ PropertyMatches(e.right, variable, rule) /\ ValueSatisfies(e.left, rule)

\* Mutant: a disjunction scopes like a conjunction.
ContainsTenantScopeEither(expression, variable, rule) ==
  LET scopes[e \in Expression] ==
        CASE e.kind = "junction"   -> scopes[e.first] \/ scopes[e.second]
          [] e.kind = "comparison" -> ComparisonScopes(e, variable, rule)
          [] OTHER                 -> FALSE
  IN  expression # NoExpression /\ scopes[expression]

\* expressionContainsTenantScope: OR, XOR and NOT are not entered.
ContainsTenantScope(expression, variable, rule) ==
  LET scopes[e \in Expression] ==
        CASE e.kind = "junction"   -> e.op = "AND" /\ (scopes[e.first] \/ scopes[e.second])
          [] e.kind = "comparison" -> ComparisonScopes(e, variable, rule)
          [] OTHER                 -> FALSE
  IN  expression # NoExpression /\ scopes[expression]

NodeSatisfiesTenantScope(node, clause, rule) ==
  \/ /\ rule.property \in DOMAIN node.properties
     /\ ValueSatisfies(node.properties[rule.property], rule)
  \/ /\ node.var # NoVar
     /\ \/ ContainsTenantScope(node.where, node.var, rule)
        \/ ContainsTenantScope(clause.where, node.var, rule)

\* Mutant: rules go by the spelling of a label.
RulesForLabelSpelled(ruleSet, label) == {r \in ruleSet : r.label = label}

RulesForLabel(ruleSet, label) ==
  {r \in ruleSet : CanonicalLabel[r.label] = CanonicalLabel[label]}

NodeRuleFindings(node, clause, path, rules) ==
  UNION {{Finding("policy-sensitive-label-access", RuleSeverity(r, "warning"),
                  path, l) : r \in RulesForLabel(rules.sensitiveLabels, l)}
           \cup {Finding("policy-missing-tenant-scope", RuleSeverity(r, "error"),
                         path, l) :
                 r \in {s \in RulesForLabel(rules.tenantScopes, l) :
                          ~NodeSatisfiesTenantScope(node, clause, s)}} :
         l \in ToSet(node.labels)}

\* Segment 0 is the head; a segment's relationship and node share its path.
PatternFindings(pattern, clause, path, opts, evidence) ==
  HeadNodeFindings(pattern.head, clause, path \o <<0>>, opts, evidence.statistics)
    \cup NodeRuleFindings(pattern.head, clause, path \o <<0>>, evidence.rules)
    \cup UNION {RelationshipFindings(pattern.tail[s].rel, path \o <<s>>, opts,
                                     evidence.statistics, evidence.rules)
                  \cup NodeRuleFindings(pattern.tail[s].node, clause,
                                        path \o <<s>>, evidence.rules) :
                s \in DOMAIN pattern.tail}

MatchFindings(clause, i, opts, evidence) ==
  Warn(Len(clause.patterns) > 1, "policy-cartesian-pattern-risk", <<i>>, "")
    \cup UNION {PatternFindings(clause.patterns[p], clause, <<i, p>>, opts, evidence) :
                p \in DOMAIN clause.patterns}

-----------------------------------------------------------------------------
(***************************************************************************)
(* Variable bindings: what a name was bound to anywhere in the query.      *)
(***************************************************************************)
Unbound == [kind |-> "none", names |-> {}]

NoBindings == [v \in Var |-> Unbound]

NodeMention(node) ==
  [var |-> node.var, kind |-> "node",
   names |-> {CanonicalLabel[l] : l \in ToSet(node.labels)}]

RelMention(rel) ==
  [var |-> rel.var, kind |-> "relationship",
   names |-> {CanonicalType[t] : t \in ToSet(rel.types)}]

PatternMentions(pattern) ==
  <<NodeMention(pattern.head)>>
    \o FlattenSeq([s \in DOMAIN pattern.tail |->
         <<RelMention(pattern.tail[s].rel), NodeMention(pattern.tail[s].node)>>])

\* Mutant: what was known of the name is forgotten.
RegisterBindingAnew(bindings, mention) ==
  IF mention.var = NoVar THEN bindings
  ELSE [bindings EXCEPT ![mention.var] =
          [kind |-> mention.kind, names |-> mention.names]]

\* Two kinds do not merge: the later one replaces the earlier one.
RegisterBinding(bindings, mention) ==
  IF mention.var = NoVar THEN bindings
  ELSE [bindings EXCEPT ![mention.var] =
          [kind  |-> mention.kind,
           names |-> mention.names \cup
             (IF bindings[mention.var].kind = mention.kind
                THEN bindings[mention.var].names ELSE {})]]

MatchMentions(clause) ==
  FlattenSeq([p \in DOMAIN clause.patterns |-> PatternMentions(clause.patterns[p])])

RegisterMatch(bindings, clause) ==
  FoldLeft(RegisterBinding, bindings, MatchMentions(clause))

\* A subquery's names, collected on their own, are registered once each.
\* (A body of a body is not modelled: the code repeats the same step.)
SubqueryMentions(body) ==
  LET inner == FoldLeft(RegisterMatch, NoBindings, body)
  IN  SetToSeq({[var |-> v, kind |-> inner[v].kind, names |-> inner[v].names] :
                 v \in {w \in Var : inner[w] # Unbound}})

ClauseMentions(clause) ==
  CASE clause.kind = "match" -> MatchMentions(clause)
    [] clause.kind = "call"  -> SubqueryMentions(clause.body)
    [] OTHER                 -> <<>>

RegisterClause(bindings, clause) ==
  FoldLeft(RegisterBinding, bindings, ClauseMentions(clause))

VariableBindings(query) == FoldLeft(RegisterClause, NoBindings, query)

-----------------------------------------------------------------------------
\* item.reads: the <<variable, property>> pairs anywhere in the expression;
\* raw text inside an expression is not walked and reads nothing.
SensitivePropertyRuleMatches(rule, property, binding) ==
  /\ rule.property = property
  /\ rule.ownerKind \in {"any", binding.kind}
  /\ \/ rule.owner = "any"
     \/ /\ binding.kind = "node" /\ rule.owner \in Label
        /\ CanonicalLabel[rule.owner] \in binding.names
     \/ /\ binding.kind = "relationship" /\ rule.owner \in Type
        /\ CanonicalType[rule.owner] \in binding.names

BindingOf(variable, bindings) ==
  IF variable = NoVar THEN Unbound ELSE bindings[variable]

ItemRuleFindings(item, path, rules, bindings) ==
  UNION {{Finding("policy-sensitive-property-return", RuleSeverity(r, "error"),
                  path, read[2]) :
          r \in {s \in rules.sensitiveProperties :
                   SensitivePropertyRuleMatches(s, read[2],
                                                BindingOf(read[1], bindings))}} :
         read \in item.reads}

ReturnRuleFindings(clause, i, rules, bindings) ==
  UNION {ItemRuleFindings(clause.items[k], <<i, k>>, rules, bindings) :
         k \in DOMAIN clause.items}

ReturnFindings(clause, i, opts, evidence, bindings) ==
  ReturnRuleFindings(clause, i, evidence.rules, bindings)
    \cup Warn(clause.limit = Absent /\ opts.requireLimit,
              "policy-missing-limit", <<i>>, "")
    \cup Warn(clause.limit > opts.maxReturnLimit,
              "policy-high-return-limit", <<i>>, "")

WriteKinds == {"create", "merge", "delete", "set"}

ClauseFindings(clause, i, opts, evidence, bindings) ==
  {f \in {Finding("policy-write-risk", "error", <<i>>, "")} :
     clause.kind \in WriteKinds /\ ~opts.allowWrites}
    \cup (CASE clause.kind = "match"  -> MatchFindings(clause, i, opts, evidence)
            [] clause.kind = "return" -> ReturnFindings(clause, i, opts, evidence, bindings)
            [] OTHER                  -> {})

PlannerFindings(estimate, opts) ==
  Warn(estimate.estimatedRows > opts.maxEstimatedRows,
       "policy-high-estimated-rows", <<0>>, "")
    \cup Warn(estimate.dbHits > opts.maxDbHits, "policy-high-db-hits", <<0>>, "")
    \cup {Finding("policy-expensive-plan-operator", "warning", <<0>> \o a, "") :
          a \in {b \in DOMAIN estimate.operators :
                   estimate.operators[b].name \in opts.warnOnPlanOperators}}
    \cup {Finding("policy-planner-estimate-warning", "info", <<0, w>>, "") :
          w \in 1..estimate.warnings}

\* assessCypherPolicy as a function of the query, the thresholds the caller
\* gives and the evidence.
AssessCypherPolicy(query, given, evidence) ==
  PlannerFindings(evidence.planner, EffectiveOptions(given))
    \cup UNION {ClauseFindings(query[i], i, EffectiveOptions(given), evidence,
                              VariableBindings(query)) : i \in DOMAIN query}

Count(findings, severity) ==
  Cardinality({f \in findings : f.severity = severity})

Summary(findings) ==
  [errors   |-> Count(findings, "error"),
   warnings |-> Count(findings, "warning"),
   infos    |-> Count(findings, "info")]

=============================================================================
