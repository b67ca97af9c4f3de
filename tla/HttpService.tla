----------------------------- MODULE HttpService -----------------------------
(***************************************************************************)
(* The HTTP service (src/src/http-server.ts): requests served at the same  *)
(* time by one event loop.  A handler runs without interruption from one   *)
(* await to the next; the actions of this module are these stretches, and  *)
(* other requests run between them.  A request awaits the chunks of its    *)
(* body, then its tool, then the audit sink.                               *)
(***************************************************************************)
EXTENDS ServiceMetrics

CONSTANTS
  Calls,          \* the calls clients make
  PublicRoutes,   \* paths that never need a token
  GatedRoutes,    \* the other paths GET serves, /v1/metrics among them
  ToolAt,         \* path |-> tool of the tool routes
  AuthRequired,   \* whether the service was started with bearer auth
  AuditEnabled,   \* whether the service was given an audit sink
  MaxBodyBytes,   \* the body limit, in units of the smallest chunk
  ChunkSizes,     \* sizes a chunk of a body may have
  Results,        \* what a tool's result may report
  MaxRestarts     \* bound: times the process is restarted

\* What a client asks for; "authorized" is whether it sent the token.
Call == [method: Methods, path: Paths, authorized: BOOLEAN]

MetricsPath       == "/v1/metrics"
CertificationPath == "/v1/dialect-certification"
BrokenPath        == "//"  \* no URL: new URL throws

ASSUME ServiceAssumption ==
  /\ IsFiniteSet(Requests) /\ IsFiniteSet(Signals)
  /\ Calls \subseteq Call
  /\ \A p \in DOMAIN ToolAt : ToolAt[p] \in Tools
  /\ MaxBodyBytes \in Nat /\ ChunkSizes \subseteq Nat \ {0}
  /\ Results \subseteq SUBSET Signals
  /\ AuthRequired \in BOOLEAN /\ AuditEnabled \in BOOLEAN
  /\ MaxRestarts \in Nat

VARIABLES
  pc,        \* request |-> where its handler is
  call,      \* request |-> what it asks for
  received,  \* request |-> body received so far
  metrics,   \* the counters of the process
  reply,     \* request |-> its answers: [entry, report]
  log,       \* request |-> the statuses of its lines in the audit log
  life,      \* request |-> the process that handles it
  restarts   \* how often the process was restarted

vars == <<pc, call, received, metrics, reply, log, life, restarts>>

NoCall == [method |-> "none", path |-> "none", authorized |-> FALSE]

Stages == {"idle", "reading", "running", "auditing", "done", "lost"}

TypeOK ==
  /\ pc \in [Requests -> Stages]
  /\ call \in [Requests -> Call \cup {NoCall}]
  /\ received \in [Requests -> Nat]
  /\ IsABag(metrics)
  /\ \A r \in Requests : \A p \in reply[r] : p.entry \subseteq Entry
  /\ log \in [Requests -> Seq(Statuses)]
  /\ life \in [Requests -> 0..MaxRestarts]
  /\ restarts \in 0..MaxRestarts

Init ==
  /\ pc = [r \in Requests |-> "idle"]
  /\ call = [r \in Requests |-> NoCall]
  /\ received = [r \in Requests |-> 0]
  /\ metrics = EmptyBag
  /\ reply = [r \in Requests |-> {}]
  /\ log = [r \in Requests |-> <<>>]
  /\ life = [r \in Requests |-> 0]
  /\ restarts = 0

-----------------------------------------------------------------------------
(***************************************************************************)
(* finish: count the request, write the answer, call the audit sink.  The  *)
(* first await is that of the sink.                                        *)
(***************************************************************************)
Finish(r, c, status, tools, signals, report) ==
  LET e == [request |-> r, method |-> c.method, path |-> c.path,
            tools |-> tools, status |-> status, signals |-> signals]
  IN  /\ metrics' = Recorded(metrics, e)
      /\ reply' = [reply EXCEPT ![r] = @ \cup {[entry |-> {e}, report |-> report]}]
      /\ pc' = [pc EXCEPT ![r] = IF AuditEnabled THEN "auditing" ELSE "done"]

-----------------------------------------------------------------------------
(***************************************************************************)
(* A request arrives: everything up to the first await.  The public routes *)
(* are served before the token is looked at.                               *)
(***************************************************************************)
Arrives(r, c) ==
  /\ pc[r] = "idle"
  /\ call' = [call EXCEPT ![r] = c]
  /\ life' = [life EXCEPT ![r] = restarts]
  /\ UNCHANGED <<received, log, restarts>>

Gets(c, paths) == c.method = "GET" /\ c.path \in paths

MustRefuse(c) == AuthRequired /\ c.path \notin PublicRoutes /\ ~c.authorized

\* No route has claimed the request before the tool routes are looked up.
Passes(c) ==
  /\ c.path # BrokenPath
  /\ ~MustRefuse(c)
  /\ ~Gets(c, PublicRoutes \cup GatedRoutes)

Breaks(r) ==
  \E c \in Calls :
    /\ c.path = BrokenPath
    /\ Arrives(r, c)
    /\ reply' = [reply EXCEPT ![r] = @ \cup {[entry |-> {}, report |-> {}]}]
    /\ pc' = [pc EXCEPT ![r] = "done"]
    /\ UNCHANGED metrics

ServePublic(r) ==
  \E c \in Calls :
    /\ Gets(c, PublicRoutes)
    /\ Arrives(r, c)
    /\ Finish(r, c, 200, {}, {}, {})

Refuse(r) ==
  \E c \in Calls :
    /\ c.path # BrokenPath
    /\ MustRefuse(c)
    /\ Arrives(r, c)
    /\ Finish(r, c, 401, {}, {}, {})

\* Mutant: the report is taken after finish has counted the request.
ServeMetricsLate(r) ==
  \E c \in Calls :
    /\ Gets(c, {MetricsPath})
    /\ ~MustRefuse(c)
    /\ Arrives(r, c)
    /\ Finish(r, c, 200, {}, {}, {metrics'})

\* The metrics report is taken before finish counts the request itself.
ServeMetrics(r) ==
  \E c \in Calls :
    /\ Gets(c, {MetricsPath})
    /\ ~MustRefuse(c)
    /\ Arrives(r, c)
    /\ Finish(r, c, 200, {}, {}, {metrics})

\* Of the other reports only the certification is searched for signals.
ServeReport(r) ==
  \E c \in Calls, signals \in Results :
    /\ Gets(c, GatedRoutes \ {MetricsPath})
    /\ ~MustRefuse(c)
    /\ c.path # CertificationPath => signals = {}
    /\ Arrives(r, c)
    /\ Finish(r, c, 200, {}, signals, {})

NotFound(r) ==
  \E c \in Calls :
    /\ Passes(c)
    /\ c.path \notin DOMAIN ToolAt
    /\ Arrives(r, c)
    /\ Finish(r, c, 404, {}, {}, {})

NotAllowed(r) ==
  \E c \in Calls :
    /\ Passes(c)
    /\ c.path \in DOMAIN ToolAt /\ c.method # "POST"
    /\ Arrives(r, c)
    /\ Finish(r, c, 405, {ToolAt[c.path]}, {}, {})

StartReading(r) ==
  \E c \in Calls :
    /\ Passes(c)
    /\ c.path \in DOMAIN ToolAt /\ c.method = "POST"
    /\ Arrives(r, c)
    /\ pc' = [pc EXCEPT ![r] = "reading"]
    /\ UNCHANGED <<metrics, reply>>

Arrive(r) ==
  \/ Breaks(r) \/ ServePublic(r) \/ Refuse(r) \/ ServeMetrics(r)
  \/ ServeReport(r) \/ NotFound(r) \/ NotAllowed(r) \/ StartReading(r)

-----------------------------------------------------------------------------
(***************************************************************************)
(* readJsonBody awaits chunk after chunk, then the tool is awaited.        *)
(***************************************************************************)
FinishTool(r, status, signals) ==
  Finish(r, call[r], status, {ToolAt[call[r].path]}, signals, {})

\* Mutant: the limit is compared with what had arrived before the chunk.
ChunkUncounted(r) ==
  /\ pc[r] = "reading"
  /\ received[r] <= MaxBodyBytes
  /\ \E n \in ChunkSizes : received' = [received EXCEPT ![r] = @ + n]
  /\ UNCHANGED <<pc, call, metrics, reply, log, life, restarts>>

\* Mutant: only the last chunk is remembered.
ChunkForgotten(r) ==
  /\ pc[r] = "reading"
  /\ \E n \in ChunkSizes :
       /\ n <= MaxBodyBytes
       /\ received' = [received EXCEPT ![r] = n]
  /\ UNCHANGED <<pc, call, metrics, reply, log, life, restarts>>

Chunk(r) ==
  /\ pc[r] = "reading"
  /\ \E n \in ChunkSizes :
       /\ received[r] + n <= MaxBodyBytes
       /\ received' = [received EXCEPT ![r] = @ + n]
  /\ UNCHANGED <<pc, call, metrics, reply, log, life, restarts>>

TooLarge(r) ==
  /\ pc[r] = "reading"
  /\ \E n \in ChunkSizes :
       /\ received[r] + n > MaxBodyBytes
       /\ received' = [received EXCEPT ![r] = @ + n]
  /\ FinishTool(r, 413, {})
  /\ UNCHANGED <<call, log, life, restarts>>

\* The body is no JSON.  The status is chosen by the text of the error, and
\* the error of JSON.parse quotes the body: it may say "too large" as well.
BadJson(r) ==
  /\ pc[r] = "reading"
  /\ received[r] > 0
  /\ \E status \in {400, 413} : FinishTool(r, status, {})
  /\ UNCHANGED <<call, received, log, life, restarts>>

\* The client goes away, or the server gives up waiting for it.
Aborted(r) ==
  /\ pc[r] = "reading"
  /\ FinishTool(r, 400, {})
  /\ UNCHANGED <<call, received, log, life, restarts>>

EndOfBody(r) ==
  /\ pc[r] = "reading"
  /\ pc' = [pc EXCEPT ![r] = "running"]
  /\ UNCHANGED <<call, received, metrics, reply, log, life, restarts>>

ToolReturns(r) ==
  /\ pc[r] = "running"
  /\ \E signals \in Results : FinishTool(r, 200, signals)
  /\ UNCHANGED <<call, received, log, life, restarts>>

ToolThrows(r) ==
  /\ pc[r] = "running"
  /\ FinishTool(r, 422, {})
  /\ UNCHANGED <<call, received, log, life, restarts>>

-----------------------------------------------------------------------------
(***************************************************************************)
(* emitAudit awaits the sink of the command line: a directory is made and  *)
(* a line appended.  What it throws is swallowed.                          *)
(***************************************************************************)
AuditWritten(r) ==
  /\ pc[r] = "auditing"
  /\ \E p \in reply[r] : \E e \in p.entry :
       log' = [log EXCEPT ![r] = Append(@, e.status)]
  /\ pc' = [pc EXCEPT ![r] = "done"]
  /\ UNCHANGED <<call, received, metrics, reply, life, restarts>>

\* Mutant: the error of the sink is caught where those of the tool are.
AuditFailsLoudly(r) ==
  /\ pc[r] = "auditing"
  /\ IF call[r].path \in DOMAIN ToolAt /\ call[r].method = "POST"
       THEN FinishTool(r, 422, {})
       ELSE pc' = [pc EXCEPT ![r] = "done"] /\ UNCHANGED <<metrics, reply>>
  /\ UNCHANGED <<call, received, log, life, restarts>>

AuditFails(r) ==
  /\ pc[r] = "auditing"
  /\ pc' = [pc EXCEPT ![r] = "done"]
  /\ UNCHANGED <<call, received, metrics, reply, log, life, restarts>>

\* The process is killed and started again: the counters and the requests
\* under way are gone; the audit log is a file.
Restart ==
  /\ restarts < MaxRestarts
  /\ restarts' = restarts + 1
  /\ metrics' = EmptyBag
  /\ pc' = [r \in Requests |-> IF pc[r] \in {"idle", "done"} THEN pc[r] ELSE "lost"]
  /\ UNCHANGED <<call, received, reply, log, life>>

Read(r) == Chunk(r) \/ TooLarge(r) \/ BadJson(r) \/ Aborted(r) \/ EndOfBody(r)
RunTool(r) == ToolReturns(r) \/ ToolThrows(r)
Audit(r) == AuditWritten(r) \/ AuditFails(r)

Ended == (\A r \in Requests : pc[r] \in {"done", "lost"}) /\ UNCHANGED vars

Next ==
  \/ \E r \in Requests : Arrive(r) \/ Read(r) \/ RunTool(r) \/ Audit(r)
  \/ Restart
  \/ Ended

Spec == Init /\ [][Next]_vars

\* A client sends, ends or gives up its body, or the server's own timeout
\* ends the wait; a tool is a function that returns.  Clients need not send
\* requests, a process need not die, and a sink may never settle.
Fairness == \A r \in Requests : WF_vars(Read(r)) /\ WF_vars(RunTool(r))

FairSpec == Spec /\ Fairness

-----------------------------------------------------------------------------
(***************************************************************************)
(* Properties.                                                             *)
(***************************************************************************)
\* The requests this process has answered and counted.
Answered ==
  UNION {UNION {p.entry : p \in reply[r]} :
           r \in {x \in Requests : life[x] = restarts}}

\* Whatever the order in which requests are answered, the counters of the
\* service, of every route and of every tool agree with the answers written:
\* none is counted twice, none before or without its answer.
MetricsAreExact == metrics = Report(Answered)

\* A tool is running only for a POST to its route, with the token where one
\* is required, and on a body within the limit, however it was cut in chunks.
ToolsRunCleared ==
  \A r \in Requests : pc[r] = "running" =>
    /\ call[r].method = "POST" /\ call[r].path \in DOMAIN ToolAt
    /\ AuthRequired => call[r].authorized \/ call[r].path \in PublicRoutes
    /\ received[r] <= MaxBodyBytes

\* The audit log has at most one line for a request, written after its
\* answer and with its status, whatever the sink does and the process
\* survives.
AuditTellsTheAnswer ==
  \A r \in Requests : log[r] # <<>> =>
    \E p \in reply[r] : /\ reply[r] = {p}
                        /\ \E e \in p.entry : log[r] = <<e.status>>

\* A request that reached the body of a tool route is answered, unless the
\* process dies under it; a failing tool or sink does not prevent it.
EveryRequestIsAnswered ==
  \A r \in Requests :
    pc[r] \in {"reading", "running"} ~> (reply[r] # {} \/ pc[r] = "lost")

\* The service keeps the promises of ServiceLedger: one answer per request,
\* and reports that are the exact tally of the answers before them.
Ledger == INSTANCE ServiceLedger WITH answered <- Answered

LedgerSpec == Ledger!Spec

=============================================================================
