---------------------------- MODULE ServiceMetrics ----------------------------
(***************************************************************************)
(* The in-memory counters of the HTTP service (src/src/service-metrics.ts) *)
(* as a bag: a counter is a pair of what it counts for and what it counts, *)
(* and its value is the number of its copies.  A counter that was never    *)
(* incremented is not in the bag, as a route or a tool that was never      *)
(* asked for is not in the maps of the service.                            *)
(***************************************************************************)
EXTENDS Integers, Sequences, FiniteSets, Bags

CONSTANTS
  Requests,  \* the requests clients may send
  Methods,   \* HTTP methods
  Paths,     \* URL paths
  Tools,     \* compiler tools
  Signals    \* what a result may report: diagnostics, repairs, retry packets...

Statuses == {200, 400, 401, 404, 405, 413, 422}

\* One request the service has recorded.  "tools" holds the tool the route
\* belongs to, if the handler named one; "signals" what the result reported,
\* one of each at most.
Entry ==
  [request: Requests, method: Methods, path: Paths, tools: SUBSET Tools,
   status: Statuses, signals: SUBSET Signals]

Outcome(e) == IF e.status < 400 THEN <<"succeeded">> ELSE <<"failed">>

Unauthorized(e) == {m \in {<<"unauthorized">>} : e.status = 401}

SignalsOf(e) == {<<"signal", g>> : g \in e.signals}

\* The counters one entry increments: of the service, of the route, and of
\* the tool, which has no status codes of its own.
Touches(e) ==
  ({<<"service">>} \X ({<<"requests">>, Outcome(e), <<"code", e.status>>}
                         \cup Unauthorized(e) \cup SignalsOf(e)))
    \cup ({<<"route", e.method, e.path>>} \X
            {<<"requests">>, Outcome(e), <<"code", e.status>>})
    \cup ({<<"tool", t>> : t \in e.tools} \X
            ({<<"requests">>, Outcome(e)} \cup SignalsOf(e)))

\* recordCompilerServiceRequest and recordCompilerServiceSignals.
Recorded(metrics, e) == metrics (+) SetToBag(Touches(e))

\* What the counters of a service that recorded these entries must read.
Report(entries) ==
  [c \in UNION {Touches(e) : e \in entries} |->
     Cardinality({e \in entries : c \in Touches(e)})]

=============================================================================
