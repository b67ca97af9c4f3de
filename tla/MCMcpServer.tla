---------------------------- MODULE MCMcpServer ----------------------------
(***************************************************************************)
(* Scripts for the MCP server: every sequence of a few lines that differ   *)
(* in what the loop looks at, and every tool called with arguments one or  *)
(* two away from the smallest call its schema allows.                      *)
(***************************************************************************)
EXTENDS McpServer, TLC

CONSTANT MaxLines  \* bound: lines of a script that is not about a tool's arguments

Json(shape) ==
  [json |-> shape, id |-> "none", method |-> "none", params |-> "none",
   name |-> "none", kind |-> "absent", args |-> Nothing]

Message(id, method) == [Json("object") EXCEPT !.id = id, !.method = method]

Params(id, params, name, kind) ==
  [Message(id, "tools/call") EXCEPT !.params = params, !.name = name, !.kind = kind]

Call(tool, args) ==
  [Params("one", "object", tool, "object") EXCEPT !.args = args]

ProtocolLines ==
  {Json(shape) : shape \in {"blank", "broken", "falsy", "scalar"}}
  \cup {Message("none", "notifications/initialized"), Message("none", "number"),
        Message("none", "tools/list"), Message("two", "none"),
        Message("null", "ping"), Message("zero", "initialize"),
        Message("two", "notifications/initialized"), Message("three", "resources/list"),
        Params("three", "list", "none", "absent"), Params("two", "object", "number", "object"),
        Params("three", "object", "cypher_agent_guide", "null"),
        Params("two", "object", "cypher_validate", "list"),
        Params("one", "object", "cypher_unknown", "absent")}

-----------------------------------------------------------------------------
Typical == {"object", "array of objects", "array of strings", "text", "llm-readonly-strict",
            "number", "boolean", "explain", "lint"}

Properties(tool) == Published[tool].properties

Smallest(tool) ==
  [a \in Published[tool].required |-> CHOOSE v \in Typical : OfType(Properties(tool)[a], v)]

\* One argument given any value at all, left out, or one that is not published.
OneAway(tool) ==
  {(a :> v) @@ Smallest(tool) : a \in DOMAIN Properties(tool), v \in Values}
  \cup {[b \in Published[tool].required \ {a} |-> Smallest(tool)[b]] :
          a \in Published[tool].required}
  \cup {Smallest(tool), ("stranger" :> "text") @@ Smallest(tool)}

\* Two published arguments more, with values of their types.
TwoAway(tool) ==
  UNION {{(a :> v) @@ (b :> w) @@ Smallest(tool) :
            v \in {x \in Typical : OfType(Properties(tool)[a], x)},
            w \in {x \in Typical : OfType(Properties(tool)[b], x)}} :
          a \in DOMAIN Properties(tool), b \in DOMAIN Properties(tool)}

ToolCalls == UNION {{Call(tool, args) : args \in OneAway(tool) \cup TwoAway(tool)} : tool \in ToolNames}

\* One line for each way the loop may go, for the longer scripts.
Ways ==
  {Json("blank"), Json("broken"), Json("scalar"), Message("none", "notifications/initialized"),
   Message("null", "ping"), Message("three", "resources/list"),
   Params("three", "list", "none", "absent"), Params("one", "object", "cypher_unknown", "absent"),
   Params("three", "object", "cypher_agent_guide", "null")}

MCLines == ProtocolLines \cup ToolCalls

MCScripts ==
  UNION {[1..n -> Ways] : n \in 1..MaxLines}
  \cup {<<l, k>> : l \in ProtocolLines, k \in ProtocolLines}
  \cup {<<c>> : c \in ToolCalls}

=============================================================================
