----------------------------- MODULE McpServer -----------------------------
(***************************************************************************)
(* The MCP server (src/src/mcp-server.ts): a loop that takes one line of   *)
(* its input, awaits the handling of the request on it and writes at most  *)
(* one answer before it takes the next.  The client writes lines ahead of  *)
(* the loop and closes the input when it wants to.                         *)
(***************************************************************************)
EXTENDS Naturals, Sequences, FiniteSets, ToolArguments

CONSTANTS
  Lines,   \* what may be on a line
  Scripts  \* what a client may write: sequences of lines

ASSUME ScriptsAssumption == Scripts \subseteq Seq(Lines)

(***************************************************************************)
(* A line by what the loop tells apart: whether it is blank, no JSON, a    *)
(* falsy value (null, false, 0, ""), another value that is no object (a    *)
(* batch is one), or an object.  Of an object: its id ("zero" stands for 0 *)
(* and ""), its method, and of a call its tool and the tool's arguments.   *)
(***************************************************************************)
Ids     == {"none", "null", "zero", "one", "two", "three"}

\* Only an object has an id.
ASSUME LinesAssumption ==
  \A l \in Lines : l.id \in Ids /\ (l.json # "object" => l.id = "none")

Served  == {"initialize", "ping", "tools/list"}
Notices == {"notifications/initialized"}

Says == {"parse error", "internal error", "unknown method", "invalid params",
         "result", "refused", "failed"}
ProtocolErrors == {"parse error", "internal error", "unknown method", "invalid params"}

VARIABLES
  script,   \* the lines the client is going to write
  sent,     \* how many of them it has written
  closed,   \* whether it has closed the input
  taken,    \* how many of them the loop has taken
  handled,  \* how many of them the loop is done with
  answers,  \* the answers written: [line, id, says, passed]
  ended     \* whether the loop has ended

vars == <<script, sent, closed, taken, handled, answers, ended>>

TypeOK ==
  /\ script \in Scripts
  /\ sent \in 0..Len(script)
  /\ taken \in 0..sent
  /\ handled \in 0..taken /\ taken <= handled + 1
  /\ closed \in BOOLEAN /\ ended \in BOOLEAN
  /\ \A k \in DOMAIN answers :
       /\ answers[k].line \in 1..handled
       /\ answers[k].id \in Ids \ {"none"}
       /\ answers[k].says \in Says

Init ==
  /\ script \in Scripts
  /\ sent = 0
  /\ closed = FALSE
  /\ taken = 0
  /\ handled = 0
  /\ answers = <<>>
  /\ ended = FALSE

-----------------------------------------------------------------------------
\* The client.

Send ==
  /\ ~closed /\ sent < Len(script)
  /\ sent' = sent + 1
  /\ UNCHANGED <<script, closed, taken, handled, answers, ended>>

Close ==
  /\ ~closed
  /\ closed' = TRUE
  /\ UNCHANGED <<script, sent, taken, handled, answers, ended>>

-----------------------------------------------------------------------------
\* The loop.

Take ==
  /\ ~ended /\ taken = handled /\ taken < sent
  /\ taken' = taken + 1
  /\ UNCHANGED <<script, sent, closed, handled, answers, ended>>

\* Readline ends once the input is closed and all lines are taken.
End ==
  /\ ~ended /\ closed /\ taken = handled /\ taken = sent
  /\ ended' = TRUE
  /\ UNCHANGED <<script, sent, closed, taken, handled, answers>>

\* "request.id ?? null"
ResponseId(l) == IF l.id = "none" THEN "null" ELSE l.id

Falsy(id) == id \in {"none", "null", "zero"}

IsString(method) == method \notin {"none", "number"}

\* The line the loop awaits, and what it writes when it is done with it.
Handling(l) == ~ended /\ handled < taken /\ l = script[taken]

Writes(reply) ==
  /\ answers' = answers \o reply
  /\ handled' = taken
  /\ UNCHANGED <<script, sent, closed, taken, ended>>

Reply(id, says, passed) ==
  <<[line |-> taken, id |-> id, says |-> says, passed |-> passed]>>

\* Mutant: the response is declared outside of the loop.
SkipLineAnsweringAgain(l) ==
  /\ Handling(l) /\ l.json \in {"blank", "falsy"}
  /\ Writes(IF answers = <<>> THEN <<>> ELSE <<answers[Len(answers)]>>)

SkipLine(l) ==
  /\ Handling(l) /\ l.json \in {"blank", "falsy"}
  /\ Writes(<<>>)

\* Mutant: the line is parsed outside of the try, and the loop dies of it.
ParseFailsFatally(l) ==
  /\ Handling(l) /\ l.json = "broken"
  /\ ended' = TRUE
  /\ UNCHANGED <<script, sent, closed, taken, handled, answers>>

ParseFails(l) ==
  /\ Handling(l) /\ l.json = "broken"
  /\ Writes(Reply("null", "parse error", {}))

\* No request, or one whose method is no string and has no startsWith.
HandlerThrows(l) ==
  /\ Handling(l)
  /\ \/ l.json = "scalar"
     \/ l.json = "object" /\ Falsy(l.id) /\ ~IsString(l.method)
  /\ Writes(Reply(ResponseId(l), "internal error", {}))

Request(l) ==
  /\ Handling(l) /\ l.json = "object"
  /\ Falsy(l.id) => IsString(l.method)

Notify(l) ==
  /\ Request(l) /\ Falsy(l.id) /\ l.method \in Notices
  /\ Writes(<<>>)

Serve(l) ==
  /\ Request(l) /\ l.method \in Served
  /\ Writes(Reply(ResponseId(l), "result", {}))

UnknownMethod(l) ==
  /\ Request(l) /\ l.method \notin Served \cup {"tools/call"}
  /\ ~(Falsy(l.id) /\ l.method \in Notices)
  /\ Writes(Reply(ResponseId(l), "unknown method", {}))

InvalidParams(l) ==
  /\ Request(l) /\ l.method = "tools/call"
  /\ l.params # "object" \/ l.name \in {"none", "number"}
  /\ Writes(Reply(ResponseId(l), "invalid params", {}))

\* "params.arguments ?? {}"
ArgumentsOf(l) == IF l.kind = "object" THEN l.args ELSE Nothing

Refused(l) ==
  \/ l.kind = "list"
  \/ l.name \notin ToolNames
  \/ ~Accepts(l.name, ArgumentsOf(l))

\* A tool that gets its arguments may still throw: all it throws is a result.
CallTool(l) ==
  /\ Request(l) /\ l.method = "tools/call"
  /\ l.params = "object" /\ l.name \notin {"none", "number"}
  /\ IF Refused(l) THEN Writes(Reply(ResponseId(l), "refused", {}))
     ELSE \E says \in {"result", "failed"} :
            Writes(Reply(ResponseId(l), says, Passed(l.name, ArgumentsOf(l))))

HandleLine ==
  \E l \in {script[k] : k \in DOMAIN script} :
    \/ SkipLine(l)
    \/ ParseFails(l)
    \/ HandlerThrows(l)
    \/ Notify(l)
    \/ Serve(l)
    \/ UnknownMethod(l)
    \/ InvalidParams(l)
    \/ CallTool(l)

Next == Send \/ Close \/ Take \/ HandleLine \/ End

\* The loop runs whenever there is something to do: the handlers await
\* nothing but computations that end.  The client owes nothing.
Spec == Init /\ [][Next]_vars /\ WF_vars(Take \/ HandleLine \/ End)

-----------------------------------------------------------------------------
(***************************************************************************)
(* What the client may count on.  A request in the sense of the protocol:  *)
(* an object with a method that is a string.                               *)
(***************************************************************************)
IsRequest(l) == l.json = "object" /\ IsString(l.method)

WellFormed(l) ==
  /\ IsRequest(l)
  /\ l.method \in Served \cup Notices \cup {"tools/call"}
  /\ l.method = "tools/call" => l.params = "object" /\ l.name \notin {"none", "number"}

\* Whether a line is answered at all.
Answered(l) ==
  \/ l.json \in {"broken", "scalar"}
  \/ l.json = "object" /\ ~(Falsy(l.id) /\ l.method \in Notices)

AnswerId(l) == IF l.json = "object" /\ l.id # "none" THEN l.id ELSE "null"

Proper(l) ==
  IF ~Answered(l) THEN {<<>>}
  ELSE {<<[id |-> AnswerId(l), says |-> says]>> :
          says \in IF WellFormed(l) /\ l.method \notin Notices THEN Says \ ProtocolErrors
                   ELSE ProtocolErrors}

Ordered == INSTANCE OrderedAnswers WITH
  Lines    <- Lines,
  Proper   <- Proper,
  todo     <- SubSeq(script, handled + 1, Len(script)),
  answered <- [k \in DOMAIN answers |-> [id |-> answers[k].id, says |-> answers[k].says]]

(***************************************************************************)
(* Every line is answered in its turn, once or not at all, under its own   *)
(* id, and a protocol error is only ever answered to a line that is no     *)
(* proper request: whatever a tool throws is a result, and a line that     *)
(* breaks the parser or the handler neither stops the loop nor leaves      *)
(* anything behind for the next line.                                      *)
(***************************************************************************)
AnswersInOrder == Ordered!Spec

(***************************************************************************)
(* What is written is dealt with, whatever is on the lines before it and   *)
(* also when the input is closed right after it; and closing the input     *)
(* ends the server.                                                        *)
(***************************************************************************)
EveryLineIsSettled ==
  /\ \A n \in UNION {DOMAIN s : s \in Scripts} : sent >= n ~> handled >= n
  /\ closed ~> ended

-----------------------------------------------------------------------------
(***************************************************************************)
(* The schema does not say everything the checks ask for.                  *)
(***************************************************************************)
AskedForBesides(tool, args) ==
  \* one of two arguments that are both optional
  \/ tool \in {"cypher_repair", "cypher_parse_check", "cypher_lsp_diagnostics"}
       /\ {"query", "rawCypher"} \cap DOMAIN args = {}
  \* only one of two
  \/ {"policyProfile", "policyProfileId"} \subseteq DOMAIN args
  \* a profile that exists, a text that is not empty
  \/ Given(args, "policyProfileId") \in Strings \ KnownProfiles
  \/ tool = "cypher_parse_lossless" /\ args["rawCypher"] = ""
  \* numbers that are finite, where the number is looked at at all
  \/ "infinity" \in {args[a] : a \in DOMAIN args}

ToolAnswers(P(_, _, _)) ==
  \A k \in DOMAIN answers :
    LET l == script[answers[k].line]
    IN  l.json = "object" /\ l.method = "tools/call" /\ l.name \in ToolNames /\ l.kind = "object"
          => P(l.name, l.args, answers[k])

(***************************************************************************)
(* A client that validates its arguments against the published schema is   *)
(* refused for the reasons above only.  Schema and checks are two tables   *)
(* of 25 tools that nothing keeps in step.                                 *)
(***************************************************************************)
PublishedCallsAreAccepted ==
  LET Fine(tool, args, a) ==
        Conforms(tool, args) /\ ~AskedForBesides(tool, args) => a.says # "refused"
  IN  ToolAnswers(Fine)

(***************************************************************************)
(* What the client states reaches the compiler: an argument of a published *)
(* call is lost only if the call gives both a query and a text, or a text  *)
(* together with options of the repair that only queries get; and nothing  *)
(* that is not published gets through.                                     *)
(***************************************************************************)
StatedArgumentsArrive ==
  LET Fine(tool, args, a) ==
        /\ a.passed \subseteq DOMAIN Published[tool].properties
        /\ Conforms(tool, args) /\ a.says \in {"result", "failed"} =>
             LET lost == DOMAIN args \ a.passed
             IN  /\ lost \subseteq {"query", "rawCypher", "defaultLimit", "defaultMaxHops"}
                 /\ lost # {} => "rawCypher" \in DOMAIN args
                                   /\ tool \in {"cypher_repair", "cypher_parse_check",
                                                "cypher_lsp_diagnostics"}
  IN  ToolAnswers(Fine)

=============================================================================
