----------------------------- MODULE AgentLoop -----------------------------
(***************************************************************************)
(* An agent that follows the guide the compiler publishes                  *)
(* (src/src/agent-guide.ts): draft a query, ask for a feedback packet, do  *)
(* what its next action says, and execute only what the packet clears.     *)
(* The compiler is CompilerFeedback; the agent, the person who grants or   *)
(* refuses approval and the database are the environment the guide speaks  *)
(* about.                                                                  *)
(***************************************************************************)
EXTENDS CompilerFeedback

CONSTANTS
  Drafts,          \* the queries the model may come up with
  CallerOptions,   \* the options the caller may start with
  MaxRounds        \* bound: rounds of repair counted for one draft

ASSUME LoopAssumption ==
  /\ Drafts \subseteq Query
  /\ CallerOptions \subseteq Options
  /\ MaxRounds \in Nat

VARIABLES
  phase,    \* what the agent does next
  query,    \* the IR it holds
  opts,     \* the options it compiles with
  packet,   \* the last feedback packet, as a set of at most one
  rounds,   \* times repairs were applied since the last draft, up to MaxRounds
  executed  \* what ran: the query and the options it was compiled with

vars == <<phase, query, opts, packet, rounds, executed>>

Final  == {"done", "stopped"}
Phases == {"draft", "compile", "decide", "approval"} \cup Final

TypeOK ==
  /\ phase \in Phases
  /\ query \in Query
  /\ opts \in Options
  /\ rounds \in 0..MaxRounds
  /\ executed \subseteq [query: Query, opts: Options]

Init ==
  /\ phase = "draft"
  /\ query = <<>>
  /\ opts \in CallerOptions
  /\ packet = {}
  /\ rounds = 0
  /\ executed = {}

-----------------------------------------------------------------------------
\* The model emits IR for the request (workflow author-read-query, emit-ir).
Draft ==
  /\ phase = "draft"
  /\ query' \in Drafts
  /\ rounds' = 0
  /\ phase' = "compile"
  /\ UNCHANGED <<opts, packet, executed>>

\* cypher_agent_feedback on what the agent holds.
Compile ==
  /\ phase = "compile"
  /\ packet' = {Feedback(query, opts)}
  /\ phase' = "decide"
  /\ UNCHANGED <<query, opts, rounds, executed>>

Decides(action) ==
  /\ phase = "decide"
  /\ \E p \in packet : p.nextAction = action

\* Apply the deterministic patches and have the result checked again.
ApplyRepairs ==
  /\ Decides("apply-deterministic-repairs")
  /\ \E p \in packet : query' = p.repairPlan.repaired
  /\ rounds' = IF rounds < MaxRounds THEN rounds + 1 ELSE rounds
  /\ phase' = "compile"
  /\ UNCHANGED <<opts, packet, executed>>

\* The model is asked again, as often as that takes; what it held is replaced
\* by its next draft.
Regenerate ==
  /\ Decides("regenerate-query")
  /\ query' = <<>>
  /\ packet' = {}
  /\ phase' = "draft"
  /\ UNCHANGED <<opts, rounds, executed>>

RequestApproval ==
  /\ Decides("request-approval")
  /\ phase' = "approval"
  /\ UNCHANGED <<query, opts, packet, rounds, executed>>

\* The external approval path sets allowWrites and approved, as often as it
\* is asked.
Grant ==
  /\ phase = "approval"
  /\ opts' = [opts EXCEPT !.allowWrites = TRUE, !.approved = TRUE]
  /\ phase' = "compile"
  /\ UNCHANGED <<query, packet, rounds, executed>>

Deny ==
  /\ phase = "approval"
  /\ phase' = "stopped"
  /\ UNCHANGED <<query, opts, packet, rounds, executed>>

Blocked ==
  /\ Decides("blocked")
  /\ phase' = "stopped"
  /\ UNCHANGED <<query, opts, packet, rounds, executed>>

\* The host runs the Cypher the proof carries.
Execute ==
  /\ Decides("execute")
  /\ \E p \in packet :
       executed' = executed \cup {[query |-> p.proof.query, opts |-> opts]}
  /\ phase' = "done"
  /\ UNCHANGED <<query, opts, packet, rounds>>

Finished == phase \in Final /\ UNCHANGED vars

Next ==
  \/ Draft \/ Compile \/ ApplyRepairs \/ Regenerate \/ RequestApproval
  \/ Grant \/ Deny \/ Blocked \/ Execute \/ Finished

\* Every step but Finished moves to another phase, so this is Next seen
\* through phase alone: short of the end, the agent, the compiler and the
\* approver each take their turn.  Nobody has to grant an approval.
TakeTurn == phase \notin Final /\ phase' \in Phases

Spec == Init /\ [][Next]_vars

FairSpec == Spec /\ WF_phase(TakeTurn)

-----------------------------------------------------------------------------
(***************************************************************************)
(* Properties.                                                             *)
(***************************************************************************)
IsClear(p) ==
  /\ p.canExecute
  /\ ~p.proof.requiresApproval
  /\ p.proof.status # "blocked"
  /\ ~HasErrors(PolicyFindings(p.proof.query, opts))

\* A packet says "execute" only where none of the guide's five reasons never
\* to execute applies (neverExecuteWhen, agent-guide.ts), and an agent is
\* never told to execute one query while the repair plan renders another.
ExecuteIsCleared ==
  \A p \in packet : p.nextAction = "execute" => IsClear(p)

\* Whatever path led there, a query that writes at its top level ran only
\* under options that both allow writes and record the approval.
ExecutedWritesWereApproved ==
  \A run \in executed :
    Writes(run.query) => run.opts.allowWrites /\ run.opts.approved

MatchedRelationships(q) ==
  UNION {{p.tail[i].rel : i \in DOMAIN p.tail} :
    p \in UNION {Range(c.patterns) : c \in {d \in Range(q) : d.kind = "match"}}}

PatternsOf(clauses) == UNION {Range(c.patterns) : c \in clauses}

NodesOf(path) == {NodeAt(path, i) : i \in {0} \cup DOMAIN path.tail}

LabelsOf(clauses) ==
  UNION {Range(n.labels) : n \in UNION {NodesOf(p) : p \in PatternsOf(clauses)}}

TypesOf(clauses) ==
  UNION {UNION {Range(p.tail[i].rel.types) : i \in DOMAIN p.tail} :
           p \in PatternsOf(clauses)}

IsCanonicalLabel(l) == DeclaredAs(l) # {}
IsCanonicalType(t)  == DeclaredTypes(t) # {}

\* No traversal a MATCH makes at the top of an executed query is unbounded:
\* it was repaired before, or the policy stopped it.
ExecutedTraversalsAreBounded ==
  \A run \in executed :
    \A rel \in MatchedRelationships(run.query) : rel.maxHops # Unbounded

\* The labels and types at the top of an executed query are names the
\* contract declares: aliases were replaced, unknown names stopped.
ExecutedNamesAreDeclared ==
  \A run \in executed :
    /\ \A l \in LabelsOf(Range(run.query)) : IsCanonicalLabel(l)
    /\ \A t \in TypesOf(Range(run.query)) : IsCanonicalType(t)

\* The proof and the repair plan of a packet that lets the agent go on speak
\* of one query, although each repairs the draft on its own and the plan
\* repairs it twice.
PacketAgrees ==
  \A p \in packet :
    p.status \in {"ready", "repaired"} =>
      /\ p.proof.query = p.repairPlan.query
      /\ p.proof.query = p.repairPlan.repaired

\* Applying the deterministic repairs settles them: the next packet never
\* asks for repairs again.
RepairsSettle == rounds <= 1

\* What runs is a fixed point of repair: the patches of the last packet left
\* nothing to do, so the text executed is the text validated.
ExecutedIsSettled ==
  \A run \in executed : Repaired(run.query, run.opts) = run.query

\* Once writes are allowed and approved, the packet does not ask for the
\* approval again.
ApprovalSettles ==
  Decides("request-approval") => ~(opts.allowWrites /\ opts.approved)

\* Whatever is compiled comes to a decision: it is executed, refused, or
\* replaced by another draft.  Neither do repairs go on for ever, each calling
\* for the next, nor does an approver who always grants what is asked meet the
\* same request again and again.
EveryDraftIsDecided == phase = "compile" ~> phase \in Final \cup {"draft"}

-----------------------------------------------------------------------------
(***************************************************************************)
(* What the documentation says of the program and the program does not do. *)
(***************************************************************************)

\* README.md: requiresApproval is "true for graph mutations without explicit
\* approval", and canExecute is "false if ... approval is required".  So no
\* mutation ran without approval, in the body of a CALL subquery neither.
ExecutedMutationsWereApproved ==
  \A run \in executed :
    (\E c \in AllClauses(run.query) : IsWriteClause(c))
      => run.opts.allowWrites /\ run.opts.approved

=============================================================================
