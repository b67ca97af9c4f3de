SPECIFICATION FairSpec
CONSTANTS
  Requests = {r1, r2}
  Methods = {"GET", "POST"}
  Paths <- MCPaths
  Tools = {"cypher_agent_guide", "cypher_validate"}
  Signals = {"diagnostics"}
  Calls <- Call
  PublicRoutes <- MCPublicRoutes
  GatedRoutes <- MCGatedRoutes
  ToolAt <- MCToolAt
  AuthRequired = TRUE
  AuditEnabled = TRUE
  MaxBodyBytes = 2
  ChunkSizes = {1, 2}
  Results <- MCResults
  MaxRestarts = 1
INVARIANTS
  ToolsRunCleared
  AuditTellsTheAnswer
PROPERTIES
  LedgerSpec
  EveryRequestIsAnswered
