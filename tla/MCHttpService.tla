---------------------------- MODULE MCHttpService ----------------------------
(***************************************************************************)
(* A service with one route of every kind, for HttpService.                *)
(***************************************************************************)
EXTENDS HttpService, TLC

MCPublicRoutes == {"/healthz"}

\* GET /v1/roadmap is a report, POST /v1/roadmap does not exist; agent-guide
\* is both a report and a tool.
MCGatedRoutes == {MetricsPath, CertificationPath, "/v1/agent-guide"}

MCToolAt == "/v1/agent-guide" :> "cypher_agent_guide" @@
            "/v1/validate" :> "cypher_validate"

MCPaths == MCPublicRoutes \cup MCGatedRoutes \cup DOMAIN MCToolAt
             \cup {"/v1/nowhere", BrokenPath}

MCResults == {{}, {"diagnostics"}}

=============================================================================
