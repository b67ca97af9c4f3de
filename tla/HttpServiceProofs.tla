-------------------------- MODULE HttpServiceProofs --------------------------
(***************************************************************************)
(* Proofs about HttpService, for any number of requests and any routes:    *)
(* the counters are exact and the service implements ServiceLedger.        *)
(***************************************************************************)
EXTENDS HttpService, FiniteSetTheorems, TLAPS

-----------------------------------------------------------------------------
(***************************************************************************)
(* Counting.                                                               *)
(***************************************************************************)
LEMMA EmptyReport == Report({}) = EmptyBag
BY DEF Report, EmptyBag, SetToBag

\* Recording one more entry is what the report of one more entry reads.
LEMMA RecordedIsReported ==
  ASSUME NEW S, IsFiniteSet(S), NEW e, e \notin S
  PROVE  Recorded(Report(S), e) = Report(S \cup {e})
<1> DEFINE T(c) == {x \in S : c \in Touches(x)}
           U(c) == {x \in S \cup {e} : c \in Touches(x)}
           D == UNION {Touches(x) : x \in S}
<1>1. UNION {Touches(x) : x \in S \cup {e}} = D \cup Touches(e)
  OBVIOUS
<1>2. ASSUME NEW c
      PROVE  IsFiniteSet(T(c)) /\ Cardinality(T(c)) \in Nat
  BY FS_Subset, FS_CardinalityType
<1>3. ASSUME NEW c \in Touches(e)
      PROVE  Cardinality(U(c)) = Cardinality(T(c)) + 1
  <2>1. U(c) = T(c) \cup {e} /\ e \notin T(c)
    OBVIOUS
  <2>2. QED
    BY <1>2, <2>1, FS_AddElement
<1>4. ASSUME NEW c, c \notin Touches(e)
      PROVE  U(c) = T(c)
  BY <1>4
<1>5. ASSUME NEW c, c \notin D
      PROVE  Cardinality(T(c)) = 0
  <2>1. T(c) = {}
    BY <1>5
  <2>2. QED
    BY <2>1, FS_EmptySet
<1>6. Report(S \cup {e}) = [c \in D \cup Touches(e) |-> Cardinality(U(c))]
  BY <1>1 DEF Report
<1>7. Report(S) = [c \in D |-> Cardinality(T(c))]
  BY DEF Report
<1> HIDE DEF T, U, D
<1>8. Recorded(Report(S), e)
        = [c \in D \cup Touches(e) |->
             (IF c \in D THEN Cardinality(T(c)) ELSE 0)
               + (IF c \in Touches(e) THEN 1 ELSE 0)]
  BY <1>7 DEF Recorded, SetToBag, (+)
<1>9. ASSUME NEW c \in D \cup Touches(e)
      PROVE  Cardinality(U(c))
               = (IF c \in D THEN Cardinality(T(c)) ELSE 0)
                   + (IF c \in Touches(e) THEN 1 ELSE 0)
  <2>1. CASE c \in Touches(e)
    BY <1>2, <1>3, <1>5, <2>1
  <2>2. CASE c \notin Touches(e)
    BY <1>2, <1>4, <1>9, <2>2
  <2>3. QED
    BY <2>1, <2>2
<1>10. QED
  BY <1>6, <1>8, <1>9

\* What a report says is a bag.
LEMMA ReportIsABag ==
  ASSUME NEW S, IsFiniteSet(S)
  PROVE  IsABag(Report(S))
<1> DEFINE T(c) == {x \in S : c \in Touches(x)}
           D == UNION {Touches(x) : x \in S}
<1>1. ASSUME NEW c \in D
      PROVE  Cardinality(T(c)) \in Nat /\ Cardinality(T(c)) > 0
  <2>1. IsFiniteSet(T(c)) /\ T(c) # {}
    BY FS_Subset
  <2>2. QED
    BY <2>1, FS_CardinalityType, FS_EmptySet
<1>2. Report(S) = [c \in D |-> Cardinality(T(c))]
  BY DEF Report
<1> HIDE DEF T, D
<1>3. QED
  BY <1>1, <1>2 DEF IsABag

-----------------------------------------------------------------------------
(***************************************************************************)
(* The inductive invariant.                                                *)
(***************************************************************************)
Types ==
  /\ TypeOK
  /\ reply = [r \in Requests |-> reply[r]]
  /\ \A r \in Requests : life[r] <= restarts

\* A request has one answer, for one entry of its own or for none.
AnsweredOnce(r) ==
  reply[r] # {} =>
    \E p \in reply[r] :
      /\ reply[r] = {p}
      /\ p.entry = {} \/ \E e \in p.entry : p.entry = {e} /\ e.request = r

\* What is known of a request wherever its handler stands.
Handled(r) ==
  /\ pc[r] \in {"idle", "reading", "running"} => reply[r] = {}
  /\ pc[r] \in {"reading", "running", "auditing"} => life[r] = restarts
  /\ pc[r] \in {"reading", "running"} =>
       /\ call[r] \in Call /\ Passes(call[r])
       /\ call[r].path \in DOMAIN ToolAt /\ call[r].method = "POST"
       /\ received[r] <= MaxBodyBytes
  /\ pc[r] = "idle" => received[r] = 0
  /\ pc[r] = "auditing" => \E p \in reply[r] : p.entry # {}
  /\ log[r] # <<>> =>
       /\ pc[r] = "done"
       /\ \E p \in reply[r] : \E e \in p.entry : log[r] = <<e.status>>

\* The counters are what the answers of this process say.
Counted == IsFiniteSet(Answered) /\ metrics = Report(Answered)

IInv ==
  /\ Types
  /\ \A r \in Requests : AnsweredOnce(r) /\ Handled(r)
  /\ Counted

-----------------------------------------------------------------------------
(***************************************************************************)
(* What a step does.  Whatever the action, a step answers and counts a     *)
(* request, answers one it could not read, moves one on, or is a restart.  *)
(***************************************************************************)
Answers(r, e, report) ==
  /\ pc[r] \in {"idle", "reading", "running"}
  /\ e \in Entry /\ e.request = r /\ report \in {{}, {metrics}}
  /\ metrics' = Recorded(metrics, e)
  /\ reply' = [reply EXCEPT ![r] = @ \cup {[entry |-> {e}, report |-> report]}]
  /\ pc' = [pc EXCEPT ![r] = IF AuditEnabled THEN "auditing" ELSE "done"]
  /\ life' = [life EXCEPT ![r] = restarts]
  /\ call' \in [Requests -> Call \cup {NoCall}]
  /\ received' \in [Requests -> Nat]
  /\ \A x \in Requests \ {r} : call'[x] = call[x] /\ received'[x] = received[x]
  /\ UNCHANGED <<log, restarts>>

MovesOn(r) ==
  \/ StartReading(r) \/ Chunk(r) \/ EndOfBody(r) \/ AuditWritten(r) \/ AuditFails(r)

\* The arrivals that are answered at once.
LEMMA ArrivalAnswers ==
  ASSUME Types, NEW r \in Requests,
         ServePublic(r) \/ Refuse(r) \/ ServeMetrics(r) \/ ServeReport(r)
           \/ NotFound(r) \/ NotAllowed(r)
  PROVE  \E e \in Entry, report \in {{}, {metrics}} : Answers(r, e, report)
<1> USE ServiceAssumption
<1>1. PICK c \in Calls, status \in Statuses, tools \in SUBSET Tools,
            signals \in SUBSET Signals, report \in {{}, {metrics}} :
        Arrives(r, c) /\ Finish(r, c, status, tools, signals, report)
  <2>1. CASE ServePublic(r)
    BY <2>1 DEF ServePublic, Statuses
  <2>2. CASE Refuse(r)
    BY <2>2 DEF Refuse, Statuses
  <2>3. CASE ServeMetrics(r)
    BY <2>3 DEF ServeMetrics, Statuses
  <2>4. CASE ServeReport(r)
    BY <2>4 DEF ServeReport, Statuses
  <2>5. CASE NotFound(r)
    BY <2>5 DEF NotFound, Statuses
  <2>6. CASE NotAllowed(r)
    BY <2>6 DEF NotAllowed, Statuses
  <2>7. QED
    BY <2>1, <2>2, <2>3, <2>4, <2>5, <2>6
<1> DEFINE e == [request |-> r, method |-> c.method, path |-> c.path,
                 tools |-> tools, status |-> status, signals |-> signals]
<1>2. e \in Entry /\ e.request = r
  BY DEF Entry, Call
<1>3. call' \in [Requests -> Call \cup {NoCall}] /\ received' \in [Requests -> Nat]
  BY <1>1 DEF Arrives, Types, TypeOK
<1>4. Answers(r, e, report)
  BY <1>1, <1>2, <1>3 DEF Answers, Arrives, Finish, Types, TypeOK
<1>5. QED
  BY <1>2, <1>4

\* The answers of a tool route, from the body or from the tool.
LEMMA ToolRouteAnswers ==
  ASSUME Types, NEW r \in Requests, Handled(r),
         TooLarge(r) \/ BadJson(r) \/ Aborted(r) \/ ToolReturns(r) \/ ToolThrows(r)
  PROVE  \E e \in Entry, report \in {{}, {metrics}} : Answers(r, e, report)
<1> USE ServiceAssumption
<1>1. PICK status \in Statuses, signals \in SUBSET Signals : FinishTool(r, status, signals)
  <2>1. CASE TooLarge(r)
    BY <2>1 DEF TooLarge, Statuses
  <2>2. CASE BadJson(r)
    BY <2>2 DEF BadJson, Statuses
  <2>3. CASE Aborted(r)
    BY <2>3 DEF Aborted, Statuses
  <2>4. CASE ToolReturns(r)
    BY <2>4 DEF ToolReturns, Statuses
  <2>5. CASE ToolThrows(r)
    BY <2>5 DEF ToolThrows, Statuses
  <2>6. QED
    BY <2>1, <2>2, <2>3, <2>4, <2>5
<1> DEFINE tools == {ToolAt[call[r].path]}
           e == [request |-> r, method |-> call[r].method, path |-> call[r].path,
                 tools |-> tools, status |-> status, signals |-> signals]
<1>2. /\ pc[r] \in {"reading", "running"}
      /\ UNCHANGED <<call, log, life, restarts>>
      /\ received' \in [Requests -> Nat]
      /\ \A x \in Requests \ {r} : received'[x] = received[x]
  BY DEF TooLarge, BadJson, Aborted, ToolReturns, ToolThrows, Types, TypeOK
<1>3. e \in Entry /\ e.request = r
  BY <1>2 DEF Entry, Call, Handled
<1>4. life' = [life EXCEPT ![r] = restarts]
  BY <1>2 DEF Handled, Types, TypeOK
<1>5. Answers(r, e, {})
  BY <1>1, <1>2, <1>3, <1>4 DEF Answers, FinishTool, Finish, Types, TypeOK
<1>6. QED
  BY <1>3, <1>5

\* Every step is of one of these kinds.
LEMMA StepKinds ==
  ASSUME IInv, [Next]_vars
  PROVE  \/ \E r \in Requests, e \in Entry, report \in {{}, {metrics}} : Answers(r, e, report)
         \/ \E r \in Requests : Breaks(r) \/ MovesOn(r)
         \/ Restart
         \/ UNCHANGED vars
<1>1. CASE \E r \in Requests : Arrive(r)
  BY <1>1, ArrivalAnswers DEF Arrive, MovesOn, IInv
<1>2. CASE \E r \in Requests : Read(r) \/ RunTool(r)
  BY <1>2, ToolRouteAnswers DEF Read, RunTool, MovesOn, IInv
<1>3. CASE \E r \in Requests : Audit(r)
  BY <1>3 DEF Audit, MovesOn
<1>4. QED
  BY <1>1, <1>2, <1>3 DEF Next, Ended

-----------------------------------------------------------------------------
(***************************************************************************)
(* What the kinds of step do to the answers of this process.               *)
(***************************************************************************)
\* An answer is a new entry.
LEMMA AnswersAdd ==
  ASSUME IInv, NEW r \in Requests, NEW e \in Entry, NEW report, Answers(r, e, report)
  PROVE  /\ reply[r] = {}
         /\ reply' = [reply EXCEPT ![r] = {[entry |-> {e}, report |-> report]}]
         /\ e \notin Answered /\ Answered' = Answered \cup {e}
<1> DEFINE Mine(x) == UNION {p.entry : p \in reply[x]}
<1>1. reply[r] = {}
  BY DEF IInv, Handled, Answers
<1>2. reply' = [reply EXCEPT ![r] = {[entry |-> {e}, report |-> report]}]
  BY <1>1 DEF Answers, IInv, Types
<1>3. \A x \in Requests : \A p \in reply[x] : \A f \in p.entry : f.request = x
  BY DEF IInv, AnsweredOnce
<1>4. e \notin Answered
  BY <1>1, <1>3 DEF Answered, Answers
<1>5. /\ \A x \in Requests \ {r} : reply'[x] = reply[x] /\ life'[x] = life[x]
      /\ reply'[r] = {[entry |-> {e}, report |-> report]}
      /\ life'[r] = restarts /\ restarts' = restarts
  BY <1>2 DEF Answers, IInv, Types, TypeOK
<1>6. Answered' = Answered \cup {e}
  <2> DEFINE Of(x) == UNION {p.entry : p \in reply[x]}
  <2>1. \A x \in Requests \ {r} : Of(x)' = Of(x)
    BY <1>5
  <2>2. Of(r) = {} /\ Of(r)' = {e}
    BY <1>1, <1>5
  <2>3. Answered = UNION {Of(x) : x \in {y \in Requests : life[y] = restarts}}
    BY DEF Answered
  <2>4. Answered' = UNION {Of(x)' : x \in {y \in Requests : life'[y] = restarts'}}
    BY DEF Answered
  <2> HIDE DEF Of
  <2>5. ASSUME NEW f
        PROVE  f \in Answered' <=> f \in Answered \/ f = e
    BY <1>5, <2>1, <2>2, <2>3, <2>4
  <2>6. QED
    BY <2>5
<1>7. QED
  BY <1>1, <1>2, <1>4, <1>6

\* Neither an answer to a request that could not be read nor a step without
\* an answer adds one.
LEMMA OthersKeep ==
  ASSUME IInv, NEW r \in Requests, Breaks(r) \/ MovesOn(r)
  PROVE  Answered' = Answered
<1>1. \A x \in Requests \ {r} : reply'[x] = reply[x] /\ life'[x] = life[x]
  BY DEF Breaks, MovesOn, Arrives, StartReading, Chunk, EndOfBody, AuditWritten,
         AuditFails, IInv, Types, TypeOK
<1>2. restarts' = restarts
  BY DEF Breaks, MovesOn, Arrives, StartReading, Chunk, EndOfBody, AuditWritten, AuditFails
<1>3. CASE UNCHANGED <<reply, life>>
  BY <1>2, <1>3 DEF Answered
<1>4. CASE reply[r] = {} /\ \A p \in reply'[r] : p.entry = {}
  BY <1>1, <1>2, <1>4 DEF Answered
<1>5. CASE Breaks(r)
  <2>1. reply[r] = {}
    BY <1>5 DEF Breaks, Arrives, IInv, Handled
  <2>2. reply'[r] = {[entry |-> {}, report |-> {}]}
    BY <1>5, <2>1 DEF Breaks, IInv, Types
  <2>3. QED
    BY <1>4, <2>1, <2>2
<1>6. CASE StartReading(r)
  <2>1. reply[r] = {} /\ reply' = reply
    BY <1>6 DEF StartReading, Arrives, IInv, Handled
  <2>2. QED
    BY <1>4, <2>1
<1>7. QED
  BY <1>3, <1>5, <1>6 DEF MovesOn, Chunk, EndOfBody, AuditWritten, AuditFails

\* A new process has answered nothing.
LEMMA RestartForgets ==
  ASSUME IInv, Restart
  PROVE  Answered' = {}
<1>1. \A r \in Requests : life'[r] # restarts'
  BY DEF Restart, IInv, Types, TypeOK
<1>2. QED
  BY <1>1 DEF Answered

-----------------------------------------------------------------------------
(***************************************************************************)
(* The invariant is inductive.                                             *)
(***************************************************************************)
LEMMA InitInvariant == Init => IInv
<1> SUFFICES ASSUME Init PROVE IInv
  OBVIOUS
<1> USE ServiceAssumption
<1>1. IsABag(EmptyBag)
  BY DEF IsABag, EmptyBag, SetToBag
<1>2. Types
  BY <1>1 DEF Init, Types, TypeOK, Stages
<1>3. \A r \in Requests : AnsweredOnce(r) /\ Handled(r)
  BY DEF Init, AnsweredOnce, Handled
<1>4. Answered = {}
  BY DEF Init, Answered
<1>5. Counted
  BY <1>4, EmptyReport, FS_EmptySet DEF Init, Counted
<1>6. QED
  BY <1>2, <1>3, <1>5 DEF IInv

\* Counting: the bag grows by what the answer touches, and only then.
LEMMA CountedKept ==
  ASSUME IInv, [Next]_vars
  PROVE  Counted'
<1>1. ASSUME NEW r \in Requests, NEW e \in Entry, NEW report, Answers(r, e, report)
      PROVE  Counted'
  <2>1. e \notin Answered /\ Answered' = Answered \cup {e}
    BY <1>1, AnswersAdd
  <2>2. IsFiniteSet(Answered) /\ metrics = Report(Answered)
    BY DEF IInv, Counted
  <2>3. IsFiniteSet(Answered')
    BY <2>1, <2>2, FS_AddElement
  <2>4. metrics' = Report(Answered)'
    BY <1>1, <2>1, <2>2, RecordedIsReported DEF Answers, Report
  <2>5. QED
    BY <2>3, <2>4 DEF Counted
<1>2. ASSUME NEW r \in Requests, Breaks(r) \/ MovesOn(r)
      PROVE  Counted'
  <2>1. Answered' = Answered
    BY <1>2, OthersKeep
  <2>2. metrics' = metrics
    BY <1>2 DEF Breaks, MovesOn, StartReading, Chunk, EndOfBody, AuditWritten, AuditFails
  <2>3. QED
    BY <2>1, <2>2 DEF IInv, Counted, Report
<1>3. CASE Restart
  <2>1. Answered' = {}
    BY <1>3, RestartForgets
  <2>2. QED
    BY <1>3, <2>1, EmptyReport, FS_EmptySet DEF Counted, Restart, Report
<1>4. CASE UNCHANGED vars
  BY <1>4 DEF vars, IInv, Counted, Answered, Report
<1>5. QED
  BY <1>1, <1>2, <1>3, <1>4, StepKinds

\* One more answer keeps the type of the answers.
LEMMA ReplyType ==
  ASSUME Types, NEW r \in Requests, NEW E \in SUBSET Entry, NEW report,
         reply' = [reply EXCEPT ![r] = {[entry |-> E, report |-> report]}]
  PROVE  /\ reply' = [x \in Requests |-> reply'[x]]
         /\ \A x \in Requests : \A p \in reply'[x] : p.entry \subseteq Entry
<1>1. reply = [x \in Requests |-> reply[x]]
  BY DEF Types
<1>2. reply' = [x \in Requests |->
                  IF x = r THEN {[entry |-> E, report |-> report]} ELSE reply[x]]
  BY <1>1
<1>3. reply' = [x \in Requests |-> reply'[x]]
  BY <1>2
<1>4. ASSUME NEW x \in Requests, NEW p \in reply'[x]
      PROVE  p.entry \subseteq Entry
  <2>1. CASE x = r
    <3>1. p = [entry |-> E, report |-> report]
      BY <1>2, <1>4, <2>1
    <3>2. QED
      BY <3>1
  <2>2. CASE x # r
    <3>1. p \in reply[x]
      BY <1>2, <1>4, <2>2
    <3>2. QED
      BY <3>1 DEF Types, TypeOK
  <2>3. QED
    BY <2>1, <2>2
<1>5. QED
  BY <1>3, <1>4

\* Every field keeps its type.
LEMMA TypesKept ==
  ASSUME IInv, [Next]_vars
  PROVE  Types'
<1> USE ServiceAssumption
<1>1. IsABag(metrics')
  BY CountedKept, ReportIsABag DEF Counted, Report
<1>2. ASSUME NEW r \in Requests, NEW e \in Entry, NEW report, Answers(r, e, report)
      PROVE  Types'
  <2>1. reply' = [reply EXCEPT ![r] = {[entry |-> {e}, report |-> report]}]
    BY <1>2, AnswersAdd
  <2>2. pc' \in [Requests -> Stages]
    BY <1>2 DEF Answers, IInv, Types, TypeOK, Stages
  <2>3. restarts' \in 0..MaxRestarts /\ log' \in [Requests -> Seq(Statuses)]
    BY <1>2 DEF Answers, IInv, Types, TypeOK
  <2>4. /\ life' \in [Requests -> 0..MaxRestarts]
        /\ \A x \in Requests : life'[x] <= restarts'
    BY <1>2 DEF Answers, IInv, Types, TypeOK
  <2>5. /\ reply' = [x \in Requests |-> reply'[x]]
        /\ \A x \in Requests : \A p \in reply'[x] : p.entry \subseteq Entry
    <3>1. {e} \in SUBSET Entry
      OBVIOUS
    <3>2. QED
      BY <2>1, <3>1, ReplyType DEF IInv
  <2>6. QED
    BY <1>1, <1>2, <2>2, <2>3, <2>4, <2>5 DEF Answers, Types, TypeOK
<1>3. ASSUME NEW r \in Requests, Breaks(r)
      PROVE  Types'
  <2>1. pc' \in [Requests -> Stages]
    BY <1>3 DEF Breaks, IInv, Types, TypeOK, Stages
  <2>2. call' \in [Requests -> Call \cup {NoCall}]
    BY <1>3 DEF Breaks, Arrives, IInv, Types, TypeOK
  <2>3. reply[r] = {}
    BY <1>3 DEF Breaks, Arrives, IInv, Handled
  <2>4. reply' = [reply EXCEPT ![r] = {[entry |-> {}, report |-> {}]}]
    BY <1>3, <2>3 DEF Breaks
  <2>5. /\ reply' = [x \in Requests |-> reply'[x]]
        /\ \A x \in Requests : \A p \in reply'[x] : p.entry \subseteq Entry
    BY <2>4, ReplyType DEF IInv
  <2>6. /\ life' \in [Requests -> 0..MaxRestarts]
        /\ \A x \in Requests : life'[x] <= restarts'
    BY <1>3 DEF Breaks, Arrives, IInv, Types, TypeOK
  <2>7. /\ received' \in [Requests -> Nat] /\ log' \in [Requests -> Seq(Statuses)]
        /\ restarts' \in 0..MaxRestarts
    BY <1>3 DEF Breaks, Arrives, IInv, Types, TypeOK
  <2>8. QED
    BY <1>1, <2>1, <2>2, <2>5, <2>6, <2>7 DEF Types, TypeOK
<1>4. ASSUME NEW r \in Requests, StartReading(r) \/ Chunk(r) \/ EndOfBody(r)
      PROVE  Types'
  <2>1. pc' \in [Requests -> Stages]
    BY <1>4 DEF StartReading, Chunk, EndOfBody, IInv, Types, TypeOK, Stages
  <2>2. call' \in [Requests -> Call \cup {NoCall}]
    BY <1>4 DEF StartReading, Chunk, EndOfBody, Arrives, IInv, Types, TypeOK
  <2>3. received' \in [Requests -> Nat]
    <3>1. received \in [Requests -> Nat]
      BY DEF IInv, Types, TypeOK
    <3>2. CASE Chunk(r)
      BY <3>1, <3>2 DEF Chunk
    <3>3. CASE StartReading(r) \/ EndOfBody(r)
      BY <3>1, <3>3 DEF StartReading, EndOfBody, Arrives
    <3>4. QED
      BY <1>4, <3>2, <3>3
  <2>4. UNCHANGED <<reply, log, restarts>>
    BY <1>4 DEF StartReading, Chunk, EndOfBody, Arrives
  <2>5. life' = life \/ life' = [life EXCEPT ![r] = restarts]
    BY <1>4 DEF StartReading, Chunk, EndOfBody, Arrives
  <2>6. /\ life' \in [Requests -> 0..MaxRestarts]
        /\ \A x \in Requests : life'[x] <= restarts'
    <3>1. /\ life \in [Requests -> 0..MaxRestarts] /\ restarts \in 0..MaxRestarts
          /\ \A x \in Requests : life[x] <= restarts
      BY DEF IInv, Types, TypeOK
    <3>2. CASE life' = life
      BY <2>4, <3>1, <3>2
    <3>3. CASE life' = [life EXCEPT ![r] = restarts]
      <4>1. \A x \in Requests : life'[x] = IF x = r THEN restarts ELSE life[x]
        BY <3>1, <3>3
      <4>2. QED
        BY <2>4, <3>1, <3>3, <4>1
    <3>4. QED
      BY <2>5, <3>2, <3>3
  <2>7. QED
    BY <1>1, <2>1, <2>2, <2>3, <2>4, <2>6 DEF IInv, Types, TypeOK
<1>5. ASSUME NEW r \in Requests, AuditWritten(r) \/ AuditFails(r)
      PROVE  Types'
  <2>1. pc' \in [Requests -> Stages]
    BY <1>5 DEF AuditWritten, AuditFails, IInv, Types, TypeOK, Stages
  <2>2. \A p \in reply[r] : \A e \in p.entry : e.status \in Statuses
    BY DEF IInv, Types, TypeOK, Entry
  <2>3. log' \in [Requests -> Seq(Statuses)]
    <3>1. CASE AuditWritten(r)
      <4>1. PICK p \in reply[r] : \E e \in p.entry :
              log' = [log EXCEPT ![r] = Append(@, e.status)]
        BY <3>1 DEF AuditWritten
      <4>2. PICK status \in Statuses : log' = [log EXCEPT ![r] = Append(@, status)]
        BY <2>2, <4>1
      <4>3. log \in [Requests -> Seq(Statuses)]
        BY DEF IInv, Types, TypeOK
      <4>4. Append(log[r], status) \in Seq(Statuses)
        BY <4>3
      <4>5. QED
        BY <4>2, <4>3, <4>4
    <3>2. CASE AuditFails(r)
      BY <3>2 DEF AuditFails, IInv, Types, TypeOK
    <3>3. QED
      BY <1>5, <3>1, <3>2
  <2>4. QED
    BY <1>1, <1>5, <2>1, <2>3 DEF AuditWritten, AuditFails, IInv, Types, TypeOK
<1>6. CASE Restart
  BY <1>1, <1>6 DEF Restart, IInv, Types, TypeOK, Stages
<1>7. CASE UNCHANGED vars
  BY <1>7 DEF vars, IInv, Types, TypeOK
<1>8. QED
  BY <1>2, <1>3, <1>4, <1>5, <1>6, <1>7, StepKinds DEF MovesOn

\* A request other than the one a step is about keeps what is known of it.
LEMMA OtherRequests ==
  ASSUME NEW x \in Requests, AnsweredOnce(x), Handled(x),
         reply'[x] = reply[x], pc'[x] = pc[x], life'[x] = life[x],
         call'[x] = call[x], received'[x] = received[x], log'[x] = log[x],
         restarts' = restarts
  PROVE  (AnsweredOnce(x) /\ Handled(x))'
BY DEF AnsweredOnce, Handled, Passes, MustRefuse, Gets

\* What is known of a request stays true, whichever request a step is about.
LEMMA HandledKept ==
  ASSUME IInv, [Next]_vars, NEW x \in Requests
  PROVE  (AnsweredOnce(x) /\ Handled(x))'
<1> USE ServiceAssumption
<1>0. AnsweredOnce(x) /\ Handled(x) /\ Types
  BY DEF IInv
<1>1. ASSUME NEW r \in Requests, NEW e \in Entry, NEW report, Answers(r, e, report)
      PROVE  (AnsweredOnce(x) /\ Handled(x))'
  <2>1. reply' = [reply EXCEPT ![r] = {[entry |-> {e}, report |-> report]}]
    BY <1>1, AnswersAdd
  <2>2. CASE x = r
    <3>1. /\ reply'[x] = {[entry |-> {e}, report |-> report]}
          /\ pc'[x] \in {"auditing", "done"} /\ life'[x] = restarts
          /\ restarts' = restarts /\ e.request = x
      BY <1>0, <1>1, <2>1, <2>2 DEF Answers, Types, TypeOK
    <3>2. log'[x] = <<>>
      BY <1>0, <1>1, <2>2 DEF Answers, Handled
    <3>3. QED
      BY <3>1, <3>2 DEF AnsweredOnce, Handled
  <2>3. CASE x # r
    BY <1>0, <1>1, <2>1, <2>3, OtherRequests DEF Answers, Types, TypeOK
  <2>4. QED
    BY <2>2, <2>3
<1>2. ASSUME NEW r \in Requests, Breaks(r) \/ MovesOn(r), x # r
      PROVE  (AnsweredOnce(x) /\ Handled(x))'
  BY <1>0, <1>2, OtherRequests
     DEF Breaks, MovesOn, Arrives, StartReading, Chunk, EndOfBody, AuditWritten,
         AuditFails, Types, TypeOK
<1>3. CASE Breaks(x)
  <2>1. reply[x] = {} /\ log[x] = <<>>
    BY <1>0, <1>3 DEF Breaks, Arrives, Handled
  <2>2. /\ reply'[x] = {[entry |-> {}, report |-> {}]}
        /\ pc'[x] = "done" /\ log'[x] = <<>>
    BY <1>0, <1>3, <2>1 DEF Breaks, Arrives, Types, TypeOK
  <2>3. QED
    BY <2>2 DEF AnsweredOnce, Handled
<1>4. CASE StartReading(x)
  <2>1. PICK c \in Calls : /\ Passes(c) /\ c.path \in DOMAIN ToolAt /\ c.method = "POST"
                           /\ Arrives(x, c) /\ pc' = [pc EXCEPT ![x] = "reading"]
                           /\ UNCHANGED <<metrics, reply>>
    BY <1>4 DEF StartReading
  <2>2. /\ pc'[x] = "reading" /\ call'[x] = c /\ life'[x] = restarts
        /\ received'[x] = received[x] /\ restarts' = restarts
        /\ reply'[x] = {} /\ log'[x] = <<>>
        /\ received[x] = 0
    BY <1>0, <2>1 DEF Arrives, Handled, Types, TypeOK
  <2>3. Passes(call[x])'
    BY <2>1, <2>2 DEF Passes, MustRefuse, Gets
  <2>4. QED
    BY <2>1, <2>2, <2>3 DEF AnsweredOnce, Handled
<1>5. CASE Chunk(x) \/ EndOfBody(x)
  <2>1. /\ pc[x] = "reading" /\ pc'[x] \in {"reading", "running"}
        /\ call' = call /\ reply' = reply /\ log' = log /\ life' = life
        /\ restarts' = restarts
    BY <1>0, <1>5 DEF Chunk, EndOfBody, Types, TypeOK
  <2>2. received'[x] <= MaxBodyBytes
    BY <1>0, <1>5, <2>1 DEF Chunk, EndOfBody, Handled, Types, TypeOK
  <2>3. Passes(call[x])'
    BY <1>0, <2>1 DEF Handled, Passes, MustRefuse, Gets
  <2>4. QED
    BY <1>0, <2>1, <2>2, <2>3 DEF AnsweredOnce, Handled
<1>6. CASE AuditWritten(x) \/ AuditFails(x)
  <2>1. /\ pc[x] = "auditing" /\ pc'[x] = "done" /\ reply' = reply
        /\ restarts' = restarts
    BY <1>0, <1>6 DEF AuditWritten, AuditFails, Types, TypeOK
  <2>2. log[x] = <<>>
    BY <1>0, <2>1 DEF Handled
  <2>3. log'[x] # <<>> => \E p \in reply[x] : \E e \in p.entry : log'[x] = <<e.status>>
    <3>1. CASE AuditWritten(x)
      <4>1. PICK p \in reply[x] : \E e \in p.entry :
              log' = [log EXCEPT ![x] = Append(@, e.status)]
        BY <3>1 DEF AuditWritten
      <4>2. PICK e \in p.entry : log' = [log EXCEPT ![x] = Append(@, e.status)]
        BY <4>1
      <4>3. log'[x] = Append(<<>>, e.status)
        BY <1>0, <2>2, <4>2 DEF Types, TypeOK
      <4>4. Append(<<>>, e.status) = <<e.status>>
        OBVIOUS
      <4>5. QED
        BY <4>3, <4>4
    <3>2. CASE AuditFails(x)
      BY <2>2, <3>2 DEF AuditFails
    <3>3. QED
      BY <1>6, <3>1, <3>2
  <2>4. QED
    BY <1>0, <2>1, <2>3 DEF AnsweredOnce, Handled
<1>7. CASE Restart
  <2>1. /\ reply' = reply /\ log' = log /\ received' = received
        /\ pc'[x] = IF pc[x] \in {"idle", "done"} THEN pc[x] ELSE "lost"
    BY <1>7 DEF Restart
  <2>2. QED
    BY <1>0, <2>1 DEF AnsweredOnce, Handled
<1>8. CASE UNCHANGED vars
  BY <1>0, <1>8, OtherRequests DEF vars
<1>9. QED
  BY <1>1, <1>2, <1>3, <1>4, <1>5, <1>6, <1>7, <1>8, StepKinds DEF MovesOn

\* In every reachable state.
LEMMA Invariant == Spec => []IInv
<1>1. IInv /\ [Next]_vars => IInv'
  BY TypesKept, HandledKept, CountedKept DEF IInv
<1>2. QED
  BY <1>1, InitInvariant, PTL DEF Spec

-----------------------------------------------------------------------------
(***************************************************************************)
(* The results.                                                            *)
(***************************************************************************)
\* Every field has its type; no handler answers with a status the service
\* does not document.
THEOREM TypeCorrect == Spec => []TypeOK
<1>1. IInv => TypeOK
  BY DEF IInv, Types
<1>2. QED
  BY <1>1, Invariant, PTL

\* recordCompilerServiceRequest is called once for every answer, whatever
\* runs between the awaits of the handlers.
THEOREM MetricsExact == Spec => []MetricsAreExact
<1>1. IInv => MetricsAreExact
  BY DEF IInv, Counted, MetricsAreExact
<1>2. QED
  BY <1>1, Invariant, PTL

\* executeCypherCompilerTool is reached past the token, the method and the
\* limit of readJsonBody only.
THEOREM ToolsCleared == Spec => []ToolsRunCleared
<1>1. IInv => ToolsRunCleared
  BY DEF IInv, Handled, Passes, MustRefuse, ToolsRunCleared
<1>2. QED
  BY <1>1, Invariant, PTL

\* emitAudit logs the status that was answered, at most once.
THEOREM AuditExact == Spec => []AuditTellsTheAnswer
<1>1. IInv => AuditTellsTheAnswer
  <2> SUFFICES ASSUME IInv, NEW r \in Requests, log[r] # <<>>
               PROVE  \E p \in reply[r] : /\ reply[r] = {p}
                                           /\ \E e \in p.entry : log[r] = <<e.status>>
    BY DEF AuditTellsTheAnswer
  <2>1. PICK p \in reply[r] : \E e \in p.entry : log[r] = <<e.status>>
    BY DEF IInv, Handled
  <2>2. reply[r] = {p}
    BY <2>1 DEF IInv, AnsweredOnce
  <2>3. QED
    BY <2>1, <2>2
<1>2. QED
  BY <1>1, Invariant, PTL

\* The ledger and the service count alike, and report alike.
LEMMA SameCount ==
  ASSUME NEW S
  PROVE  Ledger!Cardinality(S) = Cardinality(S)
BY DEF Cardinality, Ledger!Cardinality

\* ... and report alike.
LEMMA SameReport ==
  ASSUME NEW S
  PROVE  Ledger!Report(S) = Report(S)
<1>1. ASSUME NEW e
      PROVE  Ledger!Touches(e) = Touches(e)
  BY DEF Touches, Ledger!Touches, Outcome, Ledger!Outcome,
         Unauthorized, Ledger!Unauthorized, SignalsOf, Ledger!SignalsOf
<1> HIDE DEF Touches, Ledger!Touches
<1>2. UNION {Ledger!Touches(e) : e \in S} = UNION {Touches(e) : e \in S}
  BY <1>1
<1>3. ASSUME NEW c
      PROVE  Ledger!Cardinality({e \in S : c \in Ledger!Touches(e)})
               = Cardinality({e \in S : c \in Touches(e)})
  <2>1. {e \in S : c \in Ledger!Touches(e)} = {e \in S : c \in Touches(e)}
    BY <1>1
  <2>2. QED
    BY <2>1, SameCount
<1>4. QED
  BY <1>2, <1>3 DEF Report, Ledger!Report

\* Every step of the service is a step of the ledger.
LEMMA StepRefines ==
  ASSUME IInv, [Next]_vars
  PROVE  [Ledger!Next]_(Ledger!vars)
<1>1. ASSUME NEW r \in Requests, NEW e \in Entry, NEW report \in {{}, {metrics}},
             Answers(r, e, report)
      PROVE  Ledger!Answer(r)
  <2>1. /\ reply[r] = {}
        /\ reply' = [reply EXCEPT ![r] = {[entry |-> {e}, report |-> report]}]
        /\ Answered' = Answered \cup {e}
    BY <1>1, AnswersAdd
  <2>2. e \in Ledger!EntriesOf(r)
    BY <1>1 DEF Answers, Entry, Statuses, Ledger!EntriesOf, Ledger!Statuses
  <2>3. report \in {{}, {Ledger!Report(Answered)}}
    BY SameReport DEF IInv, Counted
  <2>4. QED
    BY <2>1, <2>2, <2>3 DEF Ledger!Answer
<1>2. ASSUME NEW r \in Requests, Breaks(r)
      PROVE  Ledger!Fail(r)
  <2>1. reply[r] = {} /\ Answered' = Answered
    BY <1>2, OthersKeep DEF Breaks, Arrives, IInv, Handled
  <2>2. reply' = [reply EXCEPT ![r] = {[entry |-> {}, report |-> {}]}]
    BY <1>2, <2>1 DEF Breaks
  <2>3. QED
    BY <2>1, <2>2 DEF Ledger!Fail
<1>3. ASSUME NEW r \in Requests, MovesOn(r)
      PROVE  UNCHANGED Ledger!vars
  <2>1. Answered' = Answered
    BY <1>3, OthersKeep
  <2>2. reply' = reply
    BY <1>3 DEF MovesOn, StartReading, Chunk, EndOfBody, AuditWritten, AuditFails
  <2>3. QED
    BY <2>1, <2>2 DEF Ledger!vars
<1>4. CASE Restart
  BY <1>4, RestartForgets DEF Restart, Ledger!Restart, Ledger!Next
<1>5. CASE UNCHANGED vars
  BY <1>5 DEF vars, Answered, Ledger!vars
<1>6. QED
  BY <1>1, <1>2, <1>3, <1>4, <1>5, StepKinds DEF Ledger!Next

\* The HTTP service implements the ledger: one answer per request, counted
\* once, and exact metrics reports, for any number of requests in flight.
THEOREM ImplementsLedger == Spec => LedgerSpec
<1>1. Init => Ledger!Init
  <2> SUFFICES ASSUME Init PROVE Ledger!Init
    OBVIOUS
  <2>1. reply = [r \in Requests |-> {}]
    BY DEF Init
  <2>2. Answered = {}
    BY <2>1 DEF Answered
  <2>3. QED
    BY <2>1, <2>2 DEF Ledger!Init
<1>2. QED
  BY <1>1, StepRefines, Invariant, PTL DEF Spec, LedgerSpec, Ledger!Spec

=============================================================================
