--------------------------- MODULE ToolArguments ---------------------------
(***************************************************************************)
(* The tools of the compiler as a client sees them (src/src/tools.ts): the *)
(* input schema each tool publishes, and the checks executeCypherCompiler- *)
(* Tool really makes of the arguments it is given.  The two are written    *)
(* apart in the code, schema by schema and option by option.  An argument  *)
(* is modelled by what the checks tell apart: the kind of its JSON value   *)
(* and, of strings, the words some check names.  An object stands for one  *)
(* that conforms to its own schema; a tool may still fail on it.           *)
(***************************************************************************)

ParserModes == {"lint", "syntax"}
Modes == {"explain", "readonly", "write-requires-approval"}
KnownProfiles == {"llm-readonly-strict"}
Strings == {"", "text"} \cup ParserModes \cup Modes \cup KnownProfiles
Arrays == {"array of objects", "array of strings", "empty array"}

\* "infinity" is a number too large for a double, which JSON can spell.
Values == Strings \cup Arrays \cup {"object", "number", "infinity", "boolean", "null"}

\* A table that says the same of every name, and one table before another.
All(names, what) == [a \in names |-> what]

f ++ g == [a \in DOMAIN f \cup DOMAIN g |-> IF a \in DOMAIN f THEN f[a] ELSE g[a]]

Nothing == All({}, "nothing")

-----------------------------------------------------------------------------
(***************************************************************************)
(* What is published: per tool, the type of each argument and which of     *)
(* them are required.  No schema allows other arguments.                   *)
(***************************************************************************)
ObjectSchema(required, properties) == [required |-> required, properties |-> properties]

RepairOptionProperties == All({"defaultLimit", "defaultMaxHops"}, "number")

PolicyEvidenceProperties ==
     All({"plannerEstimate", "schemaStatistics", "policyRules"}, "object")
  ++ All({"maxReturnLimit", "maxRelationshipHops", "maxEstimatedRows", "maxDbHits",
          "maxLabelScanRows", "maxRelationshipFanout"}, "number")
  ++ All({"requireLimit"}, "boolean")
  ++ All({"warnOnPlanOperators"}, "strings")

SchemaAndQuery == All({"schema", "query"}, "object")
Approval == All({"allowWrites", "approved"}, "boolean")

AuthoringTools ==
  [cypher_render |-> ObjectSchema({"schema", "query"},
     SchemaAndQuery ++ All({"params"}, "object") ++ RepairOptionProperties ++ Approval
     ++ All({"mode"}, "mode")),
   cypher_validate |-> ObjectSchema({"schema", "query"},
     SchemaAndQuery ++ All({"requireKnownParameters", "warnOnMissingLimit",
                            "warnOnRawCypher", "disallowWrites"}, "boolean")),
   cypher_repair |-> ObjectSchema({"schema"},
     SchemaAndQuery ++ All({"rawCypher"}, "string") ++ RepairOptionProperties),
   cypher_repair_plan |-> ObjectSchema({"schema", "query"},
     SchemaAndQuery ++ All({"params"}, "object") ++ RepairOptionProperties
     ++ PolicyEvidenceProperties ++ Approval ++ All({"parserMode"}, "parserMode"))]

ParsingTools ==
  [cypher_lossless_conformance |-> ObjectSchema({}, All({"cases"}, "objects")),
   cypher_parse_lossless |-> ObjectSchema({"rawCypher"},
     All({"rawCypher"}, "string") ++ All({"schema"}, "object")
     ++ All({"parserMode"}, "parserMode") ++ All({"includeIrPreview"}, "boolean")),
   cypher_parse_check |-> ObjectSchema({"schema"},
     SchemaAndQuery ++ All({"rawCypher"}, "string") ++ All({"mode"}, "parserMode")
     ++ RepairOptionProperties)]

PolicyTools ==
  [cypher_policy_check |-> ObjectSchema({"schema", "query"},
     SchemaAndQuery ++ All({"policyProfile"}, "object") ++ All({"policyProfileId"}, "string")
     ++ PolicyEvidenceProperties ++ All({"allowWrites"}, "boolean")),
   cypher_policy_eval |-> ObjectSchema({"dataset", "attempts"},
     All({"dataset", "attempts", "policyProfile"}, "object")
     ++ All({"policyProfileId"}, "string") ++ PolicyEvidenceProperties
     ++ All({"allowWrites"}, "boolean") ++ All({"parserMode"}, "parserMode")
     ++ RepairOptionProperties),
   cypher_policy_profiles |-> ObjectSchema({}, Nothing),
   cypher_lsp_diagnostics |-> ObjectSchema({"schema"},
     SchemaAndQuery ++ All({"rawCypher", "uri"}, "string")
     ++ All({"parserMode"}, "parserMode") ++ RepairOptionProperties)]

ProofProperties ==
  SchemaAndQuery ++ All({"params"}, "object") ++ RepairOptionProperties
  ++ PolicyEvidenceProperties ++ Approval ++ All({"mode"}, "mode")
  ++ All({"parserMode"}, "parserMode") ++ All({"includeParser"}, "boolean")

ProofTools ==
  [cypher_prove |-> ObjectSchema({"schema", "query"}, ProofProperties),
   cypher_agent_feedback |-> ObjectSchema({"schema", "query"}, ProofProperties),
   cypher_agent_workspace |-> ObjectSchema({"schema", "query"},
     ProofProperties ++ All({"uri"}, "string"))]

CatalogTools ==
  [cypher_agent_guide |-> ObjectSchema({}, Nothing),
   cypher_diagnostic_catalog |-> ObjectSchema({}, Nothing),
   cypher_compatibility_catalog |-> ObjectSchema({}, Nothing),
   cypher_compatibility_diff |-> ObjectSchema({"baseline"},
     All({"baseline", "candidate"}, "object")),
   cypher_contract_conformance |-> ObjectSchema({}, Nothing),
   cypher_service_openapi |-> ObjectSchema({},
     All({"serverUrl"}, "string") ++ All({"maxBodyBytes"}, "number")
     ++ All({"authRequired", "auditEnabled"}, "boolean"))]

EvalTools ==
  [cypher_eval |-> ObjectSchema({"dataset", "attempts"},
     All({"dataset", "attempts"}, "object") ++ RepairOptionProperties
     ++ All({"rawCypherCanExecute"}, "boolean")),
   cypher_scorecard |-> ObjectSchema({"reports"},
     All({"reports"}, "some objects") ++ All({"name"}, "string")
     ++ All({"baselineIndex"}, "number")),
   cypher_benchmark_gate |-> ObjectSchema({"baseline", "candidate"},
     All({"baseline", "candidate"}, "object")
     ++ All({"tolerance", "minPassRate", "minExecutableRate"}, "number")
     ++ All({"failOnDiagnosticRegression"}, "boolean")),
   cypher_retry_eval |-> ObjectSchema({"dataset", "rounds"},
     All({"dataset"}, "object") ++ All({"rounds"}, "some objects") ++ RepairOptionProperties
     ++ All({"rawCypherCanExecute"}, "boolean")),
   cypher_dataset_governance |-> ObjectSchema({"dataset"},
     All({"dataset"}, "object") ++ All({"defaultSplit"}, "string"))]

Published ==
  AuthoringTools ++ ParsingTools ++ PolicyTools ++ ProofTools ++ CatalogTools ++ EvalTools

ToolNames == DOMAIN Published

OfType(type, v) ==
  CASE type = "object"       -> v = "object"
    [] type = "objects"      -> v \in {"array of objects", "empty array"}
    [] type = "some objects" -> v = "array of objects"
    [] type = "strings"      -> v \in {"array of strings", "empty array"}
    [] type = "string"       -> v \in Strings
    [] type = "number"       -> v \in {"number", "infinity"}
    [] type = "boolean"      -> v = "boolean"
    [] type = "mode"         -> v \in Modes
    [] type = "parserMode"   -> v \in ParserModes

\* What a client that validates against the published schema may send.
Conforms(tool, args) ==
  LET s == Published[tool]
  IN  /\ s.required \subseteq DOMAIN args
      /\ DOMAIN args \subseteq DOMAIN s.properties
      /\ \A a \in DOMAIN args : OfType(s.properties[a], args[a])

-----------------------------------------------------------------------------
(***************************************************************************)
(* What is checked.  A reader of the code is a table: the check it makes   *)
(* of each argument it looks at.  The order only decides which complaint   *)
(* comes first.                                                            *)
(***************************************************************************)
Optional(v, fits) == v = "absent" \/ fits

Check(test, v) ==
  CASE test = "requiredObject"      -> v = "object"
    [] test = "optionalObject"      -> Optional(v, v = "object")
    [] test = "requiredString"      -> v \in Strings \ {""}
    [] test = "optionalString"      -> Optional(v, v \in Strings)
    [] test = "requiredArray"       -> v \in Arrays
    [] test = "optionalArray"       -> Optional(v, v \in Arrays)
    [] test = "optionalStringArray" -> Optional(v, v \in {"array of strings", "empty array"})
    [] test = "optionalBoolean"     -> Optional(v, v = "boolean")
    [] test = "optionalNumber"      -> Optional(v, v = "number")
    [] test = "mode"                -> Optional(v, v \in Modes)
    [] test = "parserMode"          -> Optional(v, v \in ParserModes)
    [] test = "profile"             -> Optional(v, v \in KnownProfiles)

RepairOptions == All({"defaultLimit", "defaultMaxHops"}, "optionalNumber")

SafeExecutionOptions ==
  RepairOptions ++ All({"allowWrites", "approved"}, "optionalBoolean") ++ All({"mode"}, "mode")

\* Mutant: one of the thresholds is not copied.
PolicyEvidenceOptionsShort ==
     All({"plannerEstimate", "schemaStatistics", "policyRules"}, "optionalObject")
  ++ All({"maxReturnLimit", "maxRelationshipHops", "maxEstimatedRows",
          "maxLabelScanRows", "maxRelationshipFanout"}, "optionalNumber")
  ++ All({"requireLimit"}, "optionalBoolean")
  ++ All({"warnOnPlanOperators"}, "optionalStringArray")

PolicyEvidenceOptions ==
     All({"plannerEstimate", "schemaStatistics", "policyRules"}, "optionalObject")
  ++ All({"maxReturnLimit", "maxRelationshipHops", "maxEstimatedRows", "maxDbHits",
          "maxLabelScanRows", "maxRelationshipFanout"}, "optionalNumber")
  ++ All({"requireLimit"}, "optionalBoolean")
  ++ All({"warnOnPlanOperators"}, "optionalStringArray")

ProofOptions ==
  SafeExecutionOptions ++ All({"parserMode"}, "parserMode")
  ++ All({"includeParser"}, "optionalBoolean") ++ PolicyEvidenceOptions

RepairPlanOptions ==
  RepairOptions ++ All({"params"}, "optionalObject")
  ++ All({"allowWrites", "approved"}, "optionalBoolean")
  ++ All({"parserMode"}, "parserMode") ++ PolicyEvidenceOptions

\* An id is looked up among the built-in profiles, and is refused next to
\* a profile: see Accepts.
PolicyOptions ==
  All({"policyProfile"}, "optionalObject") ++ All({"policyProfileId"}, "profile")
  ++ All({"allowWrites"}, "optionalBoolean") ++ PolicyEvidenceOptions

PolicyEvalOptions == PolicyOptions ++ RepairOptions ++ All({"parserMode"}, "parserMode")

ServiceOpenApiOptions ==
  All({"serverUrl"}, "optionalString") ++ All({"maxBodyBytes"}, "optionalNumber")
  ++ All({"authRequired", "auditEnabled"}, "optionalBoolean")

WorkspaceOptions == ProofOptions ++ All({"uri"}, "optionalString")

LspOptions == RepairOptions ++ All({"uri"}, "optionalString") ++ All({"parserMode"}, "parserMode")

\* Mutant: a contract is asked for, as by the other tools.
LosslessParseOptionsStrict ==
  All({"schema"}, "requiredObject") ++ All({"parserMode"}, "parserMode")
  ++ All({"includeIrPreview"}, "optionalBoolean")

LosslessParseOptions ==
  All({"schema"}, "optionalObject") ++ All({"parserMode"}, "parserMode")
  ++ All({"includeIrPreview"}, "optionalBoolean")

ValidationOptions ==
  All({"requireKnownParameters", "warnOnMissingLimit", "warnOnRawCypher", "disallowWrites"},
      "optionalBoolean")

EvalOptions == RepairOptions ++ All({"rawCypherCanExecute"}, "optionalBoolean")

ScorecardOptions == All({"name"}, "optionalString") ++ All({"baselineIndex"}, "optionalNumber")

BenchmarkGateOptions ==
  All({"tolerance", "minPassRate", "minExecutableRate"}, "optionalNumber")
  ++ All({"failOnDiagnosticRegression"}, "optionalBoolean")

DatasetGovernanceOptions == All({"defaultSplit"}, "optionalString")

Needs(names) == All(names, "requiredObject")

(***************************************************************************)
(* The arguments a call of a tool looks at.  Three tools take a query or a *)
(* text: cypher_repair prefers the query, the other two the text.          *)
(***************************************************************************)
Reads(tool, args) ==
  CASE tool = "cypher_render" ->
         Needs({"query", "schema"}) ++ All({"params"}, "optionalObject") ++ SafeExecutionOptions
    [] tool = "cypher_validate" -> Needs({"query", "schema"}) ++ ValidationOptions
    [] tool = "cypher_repair" ->
         IF "query" \in DOMAIN args THEN Needs({"query", "schema"}) ++ RepairOptions
         ELSE Needs({"schema"}) ++ All({"rawCypher"}, "optionalString")
    [] tool = "cypher_repair_plan" -> Needs({"query", "schema"}) ++ RepairPlanOptions
    [] tool = "cypher_lossless_conformance" -> All({"cases"}, "optionalArray")
    [] tool = "cypher_parse_check" ->
         Needs({"schema"}) ++ All({"mode"}, "parserMode") ++ All({"rawCypher"}, "optionalString")
         ++ (IF "rawCypher" \in DOMAIN args THEN Nothing ELSE Needs({"query"}) ++ RepairOptions)
    [] tool = "cypher_parse_lossless" ->
         All({"rawCypher"}, "requiredString") ++ LosslessParseOptions
    [] tool = "cypher_policy_check" -> Needs({"query", "schema"}) ++ PolicyOptions
    [] tool = "cypher_policy_eval" -> Needs({"dataset", "attempts"}) ++ PolicyEvalOptions
    [] tool = "cypher_lsp_diagnostics" ->
         Needs({"schema"}) ++ All({"rawCypher"}, "optionalString") ++ LspOptions
         ++ (IF "rawCypher" \in DOMAIN args THEN Nothing ELSE Needs({"query"}))
    [] tool \in {"cypher_prove", "cypher_agent_feedback"} ->
         Needs({"query", "schema"}) ++ All({"params"}, "optionalObject") ++ ProofOptions
    [] tool = "cypher_agent_workspace" ->
         Needs({"query", "schema"}) ++ All({"params"}, "optionalObject") ++ WorkspaceOptions
    [] tool = "cypher_compatibility_diff" ->
         Needs({"baseline"}) ++ All({"candidate"}, "optionalObject")
    [] tool = "cypher_service_openapi" -> ServiceOpenApiOptions
    [] tool = "cypher_eval" -> Needs({"dataset", "attempts"}) ++ EvalOptions
    [] tool = "cypher_scorecard" -> All({"reports"}, "requiredArray") ++ ScorecardOptions
    [] tool = "cypher_benchmark_gate" -> Needs({"baseline", "candidate"}) ++ BenchmarkGateOptions
    [] tool = "cypher_retry_eval" ->
         Needs({"dataset"}) ++ All({"rounds"}, "requiredArray") ++ EvalOptions
    [] tool = "cypher_dataset_governance" -> Needs({"dataset"}) ++ DatasetGovernanceOptions
    [] OTHER -> Nothing

Given(args, a) == IF a \in DOMAIN args THEN args[a] ELSE "absent"

\* Whether the call gets past the checks of its arguments.
Accepts(tool, args) ==
  LET reads == Reads(tool, args)
  IN  /\ \A a \in DOMAIN reads : Check(reads[a], Given(args, a))
      /\ tool = "cypher_repair" => {"query", "rawCypher"} \cap DOMAIN args # {}
      /\ {"policyProfile", "policyProfileId"} \subseteq DOMAIN reads
           => ~({"policyProfile", "policyProfileId"} \subseteq DOMAIN args)

\* The arguments the compiler gets to see.
Passed(tool, args) == DOMAIN Reads(tool, args) \cap DOMAIN args

=============================================================================
