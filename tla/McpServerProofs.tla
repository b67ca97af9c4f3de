-------------------------- MODULE McpServerProofs ---------------------------
(***************************************************************************)
(* Proofs about McpServer, for any lines and any scripts of a client: its  *)
(* type invariant, that it implements OrderedAnswers, and that each tool's  *)
(* checks keep to the schema the tool publishes.                           *)
(***************************************************************************)
EXTENDS McpServer, SequenceTheorems, TLAPS

-----------------------------------------------------------------------------
(***************************************************************************)
(* Sequences of answers.                                                   *)
(***************************************************************************)
IsSeq(s) == s \in Seq({s[k] : k \in DOMAIN s})

LEMMA ExtendedBy ==
  ASSUME NEW s, IsSeq(s), NEW e
  PROVE  /\ IsSeq(s \o <<e>>)
         /\ Len(s \o <<e>>) = Len(s) + 1
         /\ DOMAIN (s \o <<e>>) = 1..(Len(s) + 1)
         /\ \A k \in 1..Len(s) : (s \o <<e>>)[k] = s[k]
         /\ (s \o <<e>>)[Len(s) + 1] = e
<1> DEFINE S == {s[k] : k \in DOMAIN s} \cup {e}
           t == s \o <<e>>
<1>1. s \in Seq(S) /\ <<e>> \in Seq(S) /\ Len(<<e>>) = 1 /\ <<e>>[1] = e
  BY DEF IsSeq
<1> HIDE DEF S
<1>2. /\ t \in Seq(S) /\ Len(t) = Len(s) + Len(<<e>>)
      /\ \A k \in 1..(Len(s) + Len(<<e>>)) :
           t[k] = IF k <= Len(s) THEN s[k] ELSE <<e>>[k - Len(s)]
  BY <1>1, ConcatProperties
<1>3. Len(s) \in Nat /\ DOMAIN t = 1..Len(t)
  BY <1>1, <1>2
<1>4. Len(t) = Len(s) + 1
  BY <1>1, <1>2
<1>5. t \in Seq({t[k] : k \in DOMAIN t})
  BY <1>2, <1>3
<1>6. /\ \A k \in 1..Len(s) : t[k] = s[k]
      /\ t[Len(s) + 1] = e
  BY <1>1, <1>2, <1>3
<1>7. QED
  BY <1>3, <1>4, <1>5, <1>6 DEF IsSeq

LEMMA EmptyIsSeq == IsSeq(<<>>)
BY DEF IsSeq

\* What OrderedAnswers sees of a sequence of answers.
Shown(s) == [k \in DOMAIN s |-> [id |-> s[k].id, says |-> s[k].says]]

LEMMA ShownExtended ==
  ASSUME NEW s, IsSeq(s), NEW e
  PROVE  Shown(s \o <<e>>) = Shown(s) \o <<[id |-> e.id, says |-> e.says]>>
<1>1. /\ DOMAIN (s \o <<e>>) = 1..(Len(s) + 1)
      /\ \A k \in 1..Len(s) : (s \o <<e>>)[k] = s[k]
      /\ (s \o <<e>>)[Len(s) + 1] = e
  BY ExtendedBy
<1>2. Len(s) \in Nat /\ DOMAIN s = 1..Len(s)
  BY DEF IsSeq
<1> DEFINE V == {[id |-> s[k].id, says |-> s[k].says] : k \in DOMAIN s}
                  \cup {[id |-> e.id, says |-> e.says]}
           shown == [id |-> e.id, says |-> e.says]
<1>3. Shown(s) \in Seq(V) /\ Len(Shown(s)) = Len(s) /\ <<shown>> \in Seq(V)
  BY <1>2 DEF Shown
<1> HIDE DEF V
<1>4. /\ Shown(s) \o <<shown>> \in Seq(V)
      /\ Len(Shown(s) \o <<shown>>) = Len(s) + 1
      /\ \A k \in 1..(Len(s) + 1) :
           (Shown(s) \o <<shown>>)[k] = IF k <= Len(s) THEN Shown(s)[k] ELSE shown
  BY <1>2, <1>3, ConcatProperties
<1>5. DOMAIN (Shown(s) \o <<shown>>) = 1..(Len(s) + 1)
  BY <1>4
<1>6. \A k \in 1..(Len(s) + 1) :
        [id |-> (s \o <<e>>)[k].id, says |-> (s \o <<e>>)[k].says]
          = (Shown(s) \o <<shown>>)[k]
  BY <1>1, <1>2, <1>4 DEF Shown
<1>7. QED
  BY <1>1, <1>4, <1>5, <1>6 DEF Shown

-----------------------------------------------------------------------------
(***************************************************************************)
(* The invariant.                                                          *)
(***************************************************************************)
\* What is told of a line that calls a tool with arguments: only a call that
\* was accepted comes to the tool, with what the tool reads of them.
IsToolCall(l) ==
  l.json = "object" /\ l.method = "tools/call" /\ l.name \in ToolNames /\ l.kind = "object"

Told(l, says, passed) ==
  IsToolCall(l) =>
    IF says \in {"result", "failed"}
    THEN Accepts(l.name, l.args) /\ passed = Passed(l.name, l.args)
    ELSE passed = {} /\ (says = "refused" => ~Accepts(l.name, l.args))

AnswersTold ==
  \A k \in DOMAIN answers : Told(script[answers[k].line], answers[k].says, answers[k].passed)

IInv == TypeOK /\ IsSeq(answers) /\ AnswersTold

LEMMA ScriptsAreSequences ==
  ASSUME TypeOK
  PROVE  /\ script \in Seq(Lines) /\ Len(script) \in Nat
         /\ sent \in Nat /\ taken \in Nat /\ handled \in Nat
         /\ handled <= taken /\ taken <= handled + 1
         /\ taken <= sent /\ sent <= Len(script)
BY ScriptsAssumption DEF TypeOK

\* The line the loop awaits is a line of the script, with an id.
LEMMA HandledLine ==
  ASSUME TypeOK, NEW l, Handling(l)
  PROVE  /\ l \in Lines /\ l.id \in Ids
         /\ ResponseId(l) = AnswerId(l) /\ AnswerId(l) \in Ids \ {"none"}
         /\ l.json # "object" => AnswerId(l) = "null"
         /\ taken = handled + 1 /\ taken \in 1..Len(script)
         /\ l = script[handled + 1]
<1>1. taken = handled + 1 /\ taken \in 1..Len(script) /\ l = script[taken]
  BY ScriptsAreSequences DEF Handling
<1>2. l \in Lines
  BY <1>1, ScriptsAreSequences
<1>3. l.id \in Ids /\ (l.json # "object" => l.id = "none")
  BY <1>2, LinesAssumption
<1>4. QED
  BY <1>1, <1>2, <1>3 DEF ResponseId, AnswerId, Ids

\* What is written of a line: nothing or one answer under its id.
IsProper(l) ==
  \/ Writes(<<>>) /\ <<>> \in Proper(l)
  \/ \E says \in Says : \E passed :
       /\ Writes(Reply(AnswerId(l), says, passed))
       /\ <<[id |-> AnswerId(l), says |-> says]>> \in Proper(l)
       /\ Told(l, says, passed)

\* A protocol error is proper for what is no request, and any other answer
\* for a request.
LEMMA ErrorIsProper ==
  ASSUME NEW l, NEW says \in ProtocolErrors, Answered(l),
         ~WellFormed(l) \/ l.method \in Notices,
         Writes(Reply(AnswerId(l), says, {}))
  PROVE  IsProper(l)
<1>1. says \in Says
  BY DEF Says, ProtocolErrors
<1>2. <<[id |-> AnswerId(l), says |-> says]>> \in Proper(l)
  BY DEF Proper
<1>3. Told(l, says, {})
  BY DEF Told, ProtocolErrors
<1>4. QED
  BY <1>1, <1>2, <1>3 DEF IsProper

LEMMA ResultIsProper ==
  ASSUME NEW l, NEW says \in Says \ ProtocolErrors, Answered(l),
         WellFormed(l), l.method \notin Notices,
         NEW passed, Writes(Reply(AnswerId(l), says, passed)), Told(l, says, passed)
  PROVE  IsProper(l)
<1>1. <<[id |-> AnswerId(l), says |-> says]>> \in Proper(l)
  BY DEF Proper
<1>2. QED
  BY <1>1 DEF IsProper

\* Whatever a line is, what is written of it is proper.
LEMMA LinesAreHandledProperly ==
  ASSUME TypeOK, NEW l,
         \/ SkipLine(l) \/ ParseFails(l) \/ HandlerThrows(l) \/ Notify(l)
         \/ Serve(l) \/ UnknownMethod(l) \/ InvalidParams(l) \/ CallTool(l)
  PROVE  Handling(l) /\ IsProper(l)
<1>1. Handling(l)
  BY DEF SkipLine, ParseFails, HandlerThrows, Notify, Serve, UnknownMethod,
         InvalidParams, CallTool, Request
<1>2. /\ ResponseId(l) = AnswerId(l)
      /\ l.json # "object" => AnswerId(l) = "null"
  BY <1>1, HandledLine
<1>3. CASE SkipLine(l)
  <2>1. ~Answered(l)
    BY <1>3 DEF SkipLine, Answered
  <2>2. QED
    BY <1>1, <1>3, <2>1 DEF SkipLine, Proper, IsProper
<1>4. CASE ParseFails(l)
  <2>1. Answered(l) /\ ~WellFormed(l)
    BY <1>4 DEF ParseFails, Answered, WellFormed, IsRequest
  <2>2. Writes(Reply(AnswerId(l), "parse error", {}))
    BY <1>2, <1>4 DEF ParseFails
  <2>3. QED
    BY <1>1, <2>1, <2>2, ErrorIsProper DEF ProtocolErrors
<1>5. CASE HandlerThrows(l)
  <2>1. Answered(l) /\ ~WellFormed(l)
    BY <1>5 DEF HandlerThrows, Answered, WellFormed, IsRequest, IsString, Notices
  <2>2. Writes(Reply(AnswerId(l), "internal error", {}))
    BY <1>2, <1>5 DEF HandlerThrows
  <2>3. QED
    BY <1>1, <2>1, <2>2, ErrorIsProper DEF ProtocolErrors
<1>6. CASE Notify(l)
  <2>1. ~Answered(l)
    BY <1>6 DEF Notify, Request, Answered
  <2>2. QED
    BY <1>1, <1>6, <2>1 DEF Notify, Proper, IsProper
<1>7. CASE Serve(l)
  <2>1. Answered(l) /\ WellFormed(l) /\ l.method \notin Notices
    BY <1>7 DEF Serve, Request, Answered, WellFormed, IsRequest, IsString, Served, Notices
  <2>2. Writes(Reply(AnswerId(l), "result", {}))
    BY <1>2, <1>7 DEF Serve
  <2>3. Told(l, "result", {})
    BY <1>7 DEF Serve, Served, Told, IsToolCall
  <2>4. QED
    BY <1>1, <2>1, <2>2, <2>3, ResultIsProper DEF ProtocolErrors, Says
<1>8. CASE UnknownMethod(l)
  <2>1. Answered(l) /\ (~WellFormed(l) \/ l.method \in Notices)
    BY <1>8 DEF UnknownMethod, Request, Answered, WellFormed
  <2>2. Writes(Reply(AnswerId(l), "unknown method", {}))
    BY <1>2, <1>8 DEF UnknownMethod
  <2>3. QED
    BY <1>1, <2>1, <2>2, ErrorIsProper DEF ProtocolErrors
<1>9. CASE InvalidParams(l)
  <2>1. Answered(l) /\ ~WellFormed(l)
    BY <1>9 DEF InvalidParams, Request, Answered, WellFormed, Notices
  <2>2. Writes(Reply(AnswerId(l), "invalid params", {}))
    BY <1>2, <1>9 DEF InvalidParams
  <2>3. QED
    BY <1>1, <2>1, <2>2, ErrorIsProper DEF ProtocolErrors
<1>10. CASE CallTool(l)
  <2>1. Answered(l) /\ WellFormed(l) /\ l.method \notin Notices
    BY <1>10 DEF CallTool, Request, Answered, WellFormed, IsRequest, IsString, Notices
  <2>2. CASE Refused(l)
    <3>1. Writes(Reply(AnswerId(l), "refused", {}))
      BY <1>2, <1>10, <2>2 DEF CallTool
    <3>2. IsToolCall(l) => ~Accepts(l.name, l.args)
      BY <2>2 DEF IsToolCall, Refused, ArgumentsOf
    <3>3. Told(l, "refused", {})
      BY <3>2 DEF Told
    <3>4. QED
      BY <1>1, <2>1, <3>1, <3>3, ResultIsProper DEF Says, ProtocolErrors
  <2>3. CASE ~Refused(l)
    <3> DEFINE passed == Passed(l.name, ArgumentsOf(l))
    <3>1. PICK says \in {"result", "failed"} : Writes(Reply(AnswerId(l), says, passed))
      BY <1>2, <1>10, <2>3 DEF CallTool
    <3>2. IsToolCall(l) => Accepts(l.name, l.args) /\ passed = Passed(l.name, l.args)
      BY <2>3 DEF IsToolCall, Refused, ArgumentsOf
    <3> HIDE DEF passed
    <3>3. Told(l, says, passed)
      BY <3>2 DEF Told
    <3>4. QED
      BY <1>1, <2>1, <3>1, <3>3, ResultIsProper DEF Says, ProtocolErrors
  <2>4. QED
    BY <2>2, <2>3
<1>11. QED
  BY <1>3, <1>4, <1>5, <1>6, <1>7, <1>8, <1>9, <1>10

\* Handling a line gets it done and adds nothing, or one answer, to the answers.
LEMMA HandlingALine ==
  ASSUME IInv, HandleLine
  PROVE  \E l \in Lines :
           /\ l = script[handled + 1] /\ handled + 1 \in 1..Len(script)
           /\ taken = handled + 1
           /\ AnswerId(l) \in Ids \ {"none"}
           /\ IsProper(l)
<1>1. PICK l \in {script[k] : k \in DOMAIN script} :
        \/ SkipLine(l) \/ ParseFails(l) \/ HandlerThrows(l) \/ Notify(l)
        \/ Serve(l) \/ UnknownMethod(l) \/ InvalidParams(l) \/ CallTool(l)
  BY DEF HandleLine
<1>2. Handling(l) /\ IsProper(l)
  BY <1>1, LinesAreHandledProperly DEF IInv
<1>3. QED
  BY <1>2, HandledLine DEF IInv

\* What is written keeps the answers a sequence, of answers to lines done.
LEMMA WritingKeepsIInv ==
  ASSUME IInv, NEW l, AnswerId(l) \in Ids \ {"none"}, IsProper(l),
         l = script[handled + 1],
         taken = handled + 1, handled + 1 \in 1..Len(script)
  PROVE  IInv'
<1>1. /\ handled' = handled + 1
      /\ UNCHANGED <<script, sent, closed, taken, ended>>
  BY DEF IsProper, Writes
<1>2. handled \in Nat
  BY ScriptsAreSequences DEF IInv
<1>3. CASE Writes(<<>>)
  <2>1. answers' = answers
    <3>1. answers' = answers \o <<>>
      BY <1>3 DEF Writes
    <3>2. QED
      BY <3>1, ConcatEmptySeq DEF IInv, IsSeq
  <2>2. QED
    BY <1>1, <1>2, <2>1 DEF IInv, TypeOK, IsSeq, AnswersTold
<1>4. ASSUME NEW says \in Says, NEW passed, Writes(Reply(AnswerId(l), says, passed)),
             Told(l, says, passed)
      PROVE  IInv'
  <2> DEFINE e == [line |-> taken, id |-> AnswerId(l), says |-> says, passed |-> passed]
  <2>1. answers' = answers \o <<e>>
    BY <1>4 DEF Writes, Reply
  <2>2. /\ e.line = handled + 1 /\ e.id \in Ids \ {"none"} /\ e.says \in Says
        /\ Told(script[e.line], e.says, e.passed)
    BY <1>4
  <2> HIDE DEF e
  <2>3. /\ IsSeq(answers') /\ Len(answers) \in Nat /\ DOMAIN answers = 1..Len(answers)
        /\ DOMAIN answers' = 1..(Len(answers) + 1)
        /\ \A k \in 1..Len(answers) : answers'[k] = answers[k]
        /\ answers'[Len(answers) + 1] = e
    <3>1. IsSeq(answers)
      BY DEF IInv
    <3>2. Len(answers) \in Nat /\ DOMAIN answers = 1..Len(answers)
      BY <3>1 DEF IsSeq
    <3>3. /\ IsSeq(answers \o <<e>>)
          /\ DOMAIN (answers \o <<e>>) = 1..(Len(answers) + 1)
          /\ \A k \in 1..Len(answers) : (answers \o <<e>>)[k] = answers[k]
          /\ (answers \o <<e>>)[Len(answers) + 1] = e
      BY <3>1, ExtendedBy
    <3>4. QED
      BY <2>1, <3>2, <3>3
  <2>4. \A k \in DOMAIN answers' :
          /\ answers'[k].line \in 1..handled'
          /\ answers'[k].id \in Ids \ {"none"}
          /\ answers'[k].says \in Says
    <3> SUFFICES ASSUME NEW k \in 1..(Len(answers) + 1)
                 PROVE  /\ answers'[k].line \in 1..handled'
                        /\ answers'[k].id \in Ids \ {"none"}
                        /\ answers'[k].says \in Says
      BY <2>3
    <3>1. CASE k = Len(answers) + 1
      BY <1>1, <1>2, <2>2, <2>3, <3>1
    <3>2. CASE k \in 1..Len(answers)
      BY <1>1, <1>2, <2>3, <3>2 DEF IInv, TypeOK
    <3>3. QED
      BY <2>3, <3>1, <3>2
  <2>5. AnswersTold'
    <3> SUFFICES ASSUME NEW k \in 1..(Len(answers) + 1)
                 PROVE  Told(script[answers'[k].line], answers'[k].says, answers'[k].passed)
      BY <1>1, <2>3 DEF AnswersTold
    <3>1. CASE k = Len(answers) + 1
      BY <2>2, <2>3, <3>1
    <3>2. CASE k \in 1..Len(answers)
      BY <2>3, <3>2 DEF IInv, AnswersTold
    <3>3. QED
      BY <2>3, <3>1, <3>2
  <2>6. QED
    BY <1>1, <1>2, <2>3, <2>4, <2>5 DEF IInv, TypeOK, IsSeq
<1>5. QED
  BY <1>3, <1>4 DEF IsProper

LEMMA InitIInv == Init => IInv
<1> SUFFICES ASSUME Init PROVE IInv
  OBVIOUS
<1>1. Len(script) \in Nat
  BY ScriptsAssumption DEF Init
<1>2. IsSeq(answers) /\ DOMAIN answers = {}
  BY EmptyIsSeq DEF Init
<1>3. /\ script \in Scripts /\ sent = 0 /\ taken = 0 /\ handled = 0
      /\ closed = FALSE /\ ended = FALSE
  BY DEF Init
<1>4. /\ sent \in 0..Len(script) /\ taken \in 0..sent
      /\ handled \in 0..taken /\ taken <= handled + 1
  BY <1>1, <1>3
<1>5. closed \in BOOLEAN /\ ended \in BOOLEAN
  BY <1>3
<1>6. \A k \in DOMAIN answers :
        /\ answers[k].line \in 1..handled
        /\ answers[k].id \in Ids \ {"none"}
        /\ answers[k].says \in Says
  BY <1>2
<1>7. AnswersTold
  BY <1>2 DEF AnswersTold
<1>8. QED
  BY <1>2, <1>3, <1>4, <1>5, <1>6, <1>7 DEF IInv, TypeOK

LEMMA NextIInv == IInv /\ [Next]_vars => IInv'
<1> SUFFICES ASSUME IInv, [Next]_vars PROVE IInv'
  OBVIOUS
<1>1. /\ Len(script) \in Nat /\ sent \in Nat /\ taken \in Nat /\ handled \in Nat
      /\ handled <= taken /\ taken <= handled + 1 /\ taken <= sent /\ sent <= Len(script)
  BY ScriptsAreSequences DEF IInv
<1>2. CASE Send
  BY <1>1, <1>2 DEF Send, IInv, TypeOK, IsSeq, AnswersTold
<1>3. CASE Close
  BY <1>1, <1>3 DEF Close, IInv, TypeOK, IsSeq, AnswersTold
<1>4. CASE Take
  BY <1>1, <1>4 DEF Take, IInv, TypeOK, IsSeq, AnswersTold
<1>5. CASE HandleLine
  BY <1>5, HandlingALine, WritingKeepsIInv
<1>6. CASE End
  BY <1>1, <1>6 DEF End, IInv, TypeOK, IsSeq, AnswersTold
<1>7. CASE UNCHANGED vars
  BY <1>7 DEF vars, IInv, TypeOK, IsSeq, AnswersTold
<1>8. QED
  BY <1>2, <1>3, <1>4, <1>5, <1>6, <1>7 DEF Next

LEMMA Invariance == Spec => []IInv
BY InitIInv, NextIInv, PTL DEF Spec

(***************************************************************************)
(* The loop never takes a line it was not sent and never runs ahead of     *)
(* what it has handled by more than the line it awaits; every answer is to *)
(* a line handled, under an id JSON can carry (mcp-server.ts:60-100).      *)
(***************************************************************************)
THEOREM TypeCorrect == Spec => []TypeOK
BY Invariance, PTL DEF IInv

-----------------------------------------------------------------------------
(***************************************************************************)
(* The refinement.                                                         *)
(***************************************************************************)
Todo == SubSeq(script, handled + 1, Len(script))

\* Handling a line takes it off what is to do and adds a proper reply.
LEMMA HandlingAnswers ==
  ASSUME IInv, HandleLine
  PROVE  /\ Todo # <<>> /\ Todo' = Tail(Todo)
         /\ \E reply \in Proper(Head(Todo)) : Shown(answers)' = Shown(answers) \o reply
<1>1. PICK l \in Lines :
        /\ l = script[handled + 1] /\ handled + 1 \in 1..Len(script)
        /\ taken = handled + 1
        /\ AnswerId(l) \in Ids \ {"none"}
        /\ IsProper(l)
  BY HandlingALine
<1>2. script \in Seq(Lines) /\ Len(script) \in Nat /\ handled \in Nat
  BY ScriptsAreSequences DEF IInv
<1>3. handled' = handled + 1 /\ script' = script
  BY <1>1 DEF IsProper, Writes
<1>4. Head(Todo) = l /\ Tail(Todo) = SubSeq(script, handled + 2, Len(script))
  BY <1>1, <1>2, HeadTailOfSubSeq DEF Todo
<1>5. Todo # <<>>
  <2>1. Len(Todo) = Len(script) - handled
    BY <1>1, <1>2, SubSeqProperties DEF Todo
  <2>2. QED
    BY <1>1, <1>2, <2>1
<1>6. Todo' = Tail(Todo)
  BY <1>2, <1>3, <1>4 DEF Todo
<1>7. IsSeq(answers)
  BY DEF IInv
<1>8. \E reply \in Proper(l) : Shown(answers)' = Shown(answers) \o reply
  <2>1. CASE Writes(<<>>) /\ <<>> \in Proper(l)
    <3>1. answers' = answers \o <<>>
      BY <2>1 DEF Writes
    <3>2. answers' = answers
      BY <1>7, <3>1, ConcatEmptySeq DEF IsSeq
    <3>3. Shown(answers) \in Seq({Shown(answers)[k] : k \in DOMAIN answers})
      BY <1>7 DEF IsSeq, Shown
    <3>4. Shown(answers)' = Shown(answers) \o <<>>
      BY <3>2, <3>3, ConcatEmptySeq DEF Shown
    <3>5. QED
      BY <2>1, <3>4
  <2>2. ASSUME NEW says \in Says, NEW passed,
               Writes(Reply(AnswerId(l), says, passed)),
               <<[id |-> AnswerId(l), says |-> says]>> \in Proper(l)
        PROVE  \E reply \in Proper(l) : Shown(answers)' = Shown(answers) \o reply
    <3> DEFINE e == [line |-> taken, id |-> AnswerId(l), says |-> says, passed |-> passed]
    <3>1. answers' = answers \o <<e>>
      BY <2>2 DEF Writes, Reply
    <3>2. e.id = AnswerId(l) /\ e.says = says
      OBVIOUS
    <3> HIDE DEF e
    <3>3. Shown(answers \o <<e>>) = Shown(answers) \o <<[id |-> e.id, says |-> e.says]>>
      BY <1>7, ShownExtended
    <3>4. Shown(answers)' = Shown(answers \o <<e>>)
      BY <3>1 DEF Shown
    <3>5. QED
      BY <2>2, <3>2, <3>3, <3>4
  <2>3. QED
    BY <1>1, <2>1, <2>2 DEF IsProper
<1>9. QED
  BY <1>4, <1>5, <1>6, <1>8

\* What is to do and what is shown of the answers change with a line only.
LEMMA OthersStutter ==
  ASSUME Send \/ Close \/ Take \/ End \/ UNCHANGED vars
  PROVE  Todo' = Todo /\ Shown(answers)' = Shown(answers)
BY DEF Send, Close, Take, End, vars, Todo, Shown

LEMMA InitRefines == Init => Ordered!Init
<1> SUFFICES ASSUME Init PROVE Ordered!Init
  OBVIOUS
<1>1. script \in Seq(Lines) /\ handled = 0 /\ answers = <<>>
  BY ScriptsAssumption DEF Init
<1>2. SubSeq(script, handled + 1, Len(script)) = script
  BY <1>1, SubSeqFull
<1>3. [k \in DOMAIN answers |-> [id |-> answers[k].id, says |-> answers[k].says]] = <<>>
  BY <1>1
<1>4. QED
  BY <1>1, <1>2, <1>3 DEF Ordered!Init

LEMMA StepRefines ==
  IInv /\ [Next]_vars
    => [Ordered!Answer]_<<SubSeq(script, handled + 1, Len(script)),
          [k \in DOMAIN answers |-> [id |-> answers[k].id, says |-> answers[k].says]]>>
<1> SUFFICES ASSUME IInv, [Next]_vars
             PROVE  [Ordered!Answer]_<<SubSeq(script, handled + 1, Len(script)),
                       [k \in DOMAIN answers |->
                          [id |-> answers[k].id, says |-> answers[k].says]]>>
  OBVIOUS
<1>1. CASE HandleLine
  BY <1>1, HandlingAnswers DEF Ordered!Answer, Todo, Shown
<1>2. CASE Send \/ Close \/ Take \/ End \/ UNCHANGED vars
  BY <1>2, OthersStutter DEF Todo, Shown
<1>3. QED
  BY <1>1, <1>2 DEF Next

(***************************************************************************)
(* Every behaviour of the loop is one of OrderedAnswers: for any lines and *)
(* any scripts, each line is answered in its turn, once or not at all,     *)
(* under its own id, and with a protocol error only if it is no proper     *)
(* request.                                                                *)
(***************************************************************************)
THEOREM AnswersAreOrdered == Spec => AnswersInOrder
BY Invariance, InitRefines, StepRefines, PTL DEF Spec, AnswersInOrder, Ordered!Spec

-----------------------------------------------------------------------------
(***************************************************************************)
(* Tables of arguments.  A table put before another says what it said, and *)
(* what the other says of the names it has not.                            *)
(***************************************************************************)
LEMMA JoinedNames ==
  ASSUME NEW f, NEW g
  PROVE  DOMAIN (f ++ g) = DOMAIN f \cup DOMAIN g
BY DEF ++

LEMMA AllTheSame ==
  ASSUME NEW N, NEW what
  PROVE  DOMAIN All(N, what) = N /\ \A a \in N : All(N, what)[a] = what
BY DEF All

LEMMA NamesOfAll == \A N, what : DOMAIN All(N, what) = N
BY DEF All

Apart(f, g) == DOMAIN f \cap DOMAIN g = {}

\* Arguments of the types a table states, and arguments that pass the checks
\* of a table.
Follows(args, t) ==
  \A a \in DOMAIN t : a \in DOMAIN args => OfType(t[a], args[a]) /\ args[a] # "infinity"

Passes(args, reads) == \A a \in DOMAIN reads : Check(reads[a], Given(args, a))

\* What is of a type passes a check.
Fits(type, test) == \A v : OfType(type, v) /\ v # "infinity" => Check(test, v)

MayLack(test) == Check(test, "absent")

LEMMA FollowsBoth ==
  ASSUME NEW args, NEW f, NEW g, Follows(args, f ++ g), Apart(f, g)
  PROVE  Follows(args, f) /\ Follows(args, g)
<1>1. ASSUME NEW a \in DOMAIN f, a \in DOMAIN args
      PROVE  OfType(f[a], args[a]) /\ args[a] # "infinity"
  BY <1>1 DEF Follows, ++
<1>2. ASSUME NEW a \in DOMAIN g, a \in DOMAIN args
      PROVE  OfType(g[a], args[a]) /\ args[a] # "infinity"
  <2>1. a \in DOMAIN (f ++ g) /\ (f ++ g)[a] = g[a]
    BY DEF Apart, ++
  <2>2. QED
    BY <1>2, <2>1 DEF Follows
<1>3. QED
  BY <1>1, <1>2 DEF Follows

LEMMA PassesBoth ==
  ASSUME NEW args, NEW r, NEW q, Passes(args, r), Passes(args, q)
  PROVE  Passes(args, r ++ q)
<1>1. SUFFICES ASSUME NEW a \in DOMAIN (r ++ q)
               PROVE  Check((r ++ q)[a], Given(args, a))
  BY DEF Passes
<1>2. CASE a \in DOMAIN r
  BY <1>2 DEF Passes, ++
<1>3. CASE a \in DOMAIN q \ DOMAIN r
  BY <1>3 DEF Passes, ++
<1>4. QED
  BY <1>2, <1>3, JoinedNames

LEMMA PassesAll ==
  ASSUME NEW args, NEW N, NEW type, Follows(args, All(N, type)),
         NEW M \in SUBSET N, NEW test, Fits(type, test),
         M \subseteq DOMAIN args \/ MayLack(test)
  PROVE  Passes(args, All(M, test))
<1>1. SUFFICES ASSUME NEW a \in M
               PROVE  Check(test, Given(args, a))
  BY AllTheSame DEF Passes
<1>2. CASE a \in DOMAIN args
  <2>1. OfType(type, args[a]) /\ args[a] # "infinity"
    BY <1>2, AllTheSame DEF Follows
  <2>2. QED
    BY <1>2, <2>1 DEF Fits, Given
<1>3. CASE a \notin DOMAIN args
  BY <1>3 DEF Given, MayLack
<1>4. QED
  BY <1>2, <1>3

LEMMA PassesNothing == ASSUME NEW args PROVE Passes(args, Nothing)
BY AllTheSame DEF Passes, Nothing

\* The types of the schemas and the checks of the code.
LEMMA TypesFit ==
  /\ Fits("object", "requiredObject")    /\ Fits("object", "optionalObject")
  /\ Fits("boolean", "optionalBoolean")  /\ Fits("number", "optionalNumber")
  /\ Fits("string", "optionalString")    /\ Fits("strings", "optionalStringArray")
  /\ Fits("mode", "mode")                /\ Fits("parserMode", "parserMode")
  /\ Fits("objects", "optionalArray")    /\ Fits("some objects", "requiredArray")
<1> USE DEF Fits, OfType, Check, Optional
<1>1. Fits("object", "requiredObject") /\ Fits("object", "optionalObject")
  OBVIOUS
<1>2. Fits("boolean", "optionalBoolean") /\ Fits("number", "optionalNumber")
  OBVIOUS
<1>3. Fits("string", "optionalString") /\ Fits("strings", "optionalStringArray")
  OBVIOUS
<1>4. Fits("mode", "mode") /\ Fits("parserMode", "parserMode")
  OBVIOUS
<1>5. Fits("objects", "optionalArray") /\ Fits("some objects", "requiredArray")
  BY DEF Arrays
<1>6. QED
  <2> HIDE DEF Fits
  <2>1. QED
    BY <1>1, <1>2, <1>3, <1>4, <1>5

LEMMA MostMayLack ==
  \A test \in {"optionalObject", "optionalBoolean", "optionalNumber", "optionalString",
               "optionalStringArray", "optionalArray", "mode", "parserMode", "profile"} :
    MayLack(test)
BY DEF MayLack, Check, Optional

\* The options several tools share.
LEMMA SharedOptions ==
  ASSUME NEW args
  PROVE  /\ Follows(args, RepairOptionProperties) => Passes(args, RepairOptions)
         /\ Follows(args, Approval) => Passes(args, All({"allowWrites", "approved"}, "optionalBoolean"))
         /\ Follows(args, PolicyEvidenceProperties) => Passes(args, PolicyEvidenceOptions)
         /\ Follows(args, SchemaAndQuery) /\ {"schema", "query"} \subseteq DOMAIN args
              => Passes(args, Needs({"query", "schema"}))
<1>1. Follows(args, RepairOptionProperties) => Passes(args, RepairOptions)
  BY PassesAll, TypesFit, MostMayLack DEF RepairOptionProperties, RepairOptions
<1>2. Follows(args, Approval) => Passes(args, All({"allowWrites", "approved"}, "optionalBoolean"))
  BY PassesAll, TypesFit, MostMayLack DEF Approval
<1>3. ASSUME Follows(args, PolicyEvidenceProperties)
      PROVE  Passes(args, PolicyEvidenceOptions)
  <2> DEFINE objects == {"plannerEstimate", "schemaStatistics", "policyRules"}
             numbers == {"maxReturnLimit", "maxRelationshipHops", "maxEstimatedRows",
                         "maxDbHits", "maxLabelScanRows", "maxRelationshipFanout"}
             first   == All(objects, "object") ++ All(numbers, "number")
             second  == first ++ All({"requireLimit"}, "boolean")
  <2>1. /\ Apart(All(objects, "object"), All(numbers, "number"))
        /\ Apart(first, All({"requireLimit"}, "boolean"))
        /\ Apart(second, All({"warnOnPlanOperators"}, "strings"))
    BY DEF Apart, ++, All
  <2>2. Follows(args, second ++ All({"warnOnPlanOperators"}, "strings"))
    BY <1>3 DEF PolicyEvidenceProperties
  <2>3. Follows(args, second) /\ Follows(args, All({"warnOnPlanOperators"}, "strings"))
    BY <2>1, <2>2, FollowsBoth
  <2>4. Follows(args, first) /\ Follows(args, All({"requireLimit"}, "boolean"))
    BY <2>1, <2>3, FollowsBoth
  <2>5. Follows(args, All(objects, "object")) /\ Follows(args, All(numbers, "number"))
    BY <2>1, <2>4, FollowsBoth
  <2>6. /\ Passes(args, All(objects, "optionalObject"))
        /\ Passes(args, All(numbers, "optionalNumber"))
    BY <2>5, PassesAll, TypesFit, MostMayLack
  <2>7. /\ Passes(args, All({"requireLimit"}, "optionalBoolean"))
        /\ Passes(args, All({"warnOnPlanOperators"}, "optionalStringArray"))
    BY <2>3, <2>4, PassesAll, TypesFit, MostMayLack
  <2>8. QED
    BY <2>6, <2>7, PassesBoth DEF PolicyEvidenceOptions
<1>4. Follows(args, SchemaAndQuery) /\ {"schema", "query"} \subseteq DOMAIN args
        => Passes(args, Needs({"query", "schema"}))
  BY PassesAll, TypesFit DEF SchemaAndQuery, Needs
<1>5. QED
  BY <1>1, <1>2, <1>3, <1>4

\* What the shared tables are about.
LEMMA SharedNames ==
  /\ DOMAIN PolicyEvidenceOptions = DOMAIN PolicyEvidenceProperties
  /\ DOMAIN RepairOptions = DOMAIN RepairOptionProperties
  /\ DOMAIN Needs({"query", "schema"}) = DOMAIN SchemaAndQuery
  /\ DOMAIN Approval = {"allowWrites", "approved"}
  /\ DOMAIN RepairOptionProperties = {"defaultLimit", "defaultMaxHops"}
  /\ DOMAIN SchemaAndQuery = {"schema", "query"}
  /\ DOMAIN PolicyEvidenceProperties =
       {"plannerEstimate", "schemaStatistics", "policyRules", "maxReturnLimit",
        "maxRelationshipHops", "maxEstimatedRows", "maxDbHits", "maxLabelScanRows",
        "maxRelationshipFanout", "requireLimit", "warnOnPlanOperators"}
<1>1. DOMAIN PolicyEvidenceOptions = DOMAIN PolicyEvidenceProperties
  BY DEF ++, All, PolicyEvidenceOptions, PolicyEvidenceProperties
<1>2. DOMAIN PolicyEvidenceProperties =
        {"plannerEstimate", "schemaStatistics", "policyRules", "maxReturnLimit",
         "maxRelationshipHops", "maxEstimatedRows", "maxDbHits", "maxLabelScanRows",
         "maxRelationshipFanout", "requireLimit", "warnOnPlanOperators"}
  BY DEF ++, All, PolicyEvidenceProperties
<1>3. DOMAIN RepairOptions = DOMAIN RepairOptionProperties
  BY DEF All, RepairOptions, RepairOptionProperties
<1>4. DOMAIN RepairOptionProperties = {"defaultLimit", "defaultMaxHops"}
  BY DEF All, RepairOptionProperties
<1>5. /\ DOMAIN Needs({"query", "schema"}) = DOMAIN SchemaAndQuery
      /\ DOMAIN SchemaAndQuery = {"schema", "query"}
  BY DEF All, Needs, SchemaAndQuery
<1>6. DOMAIN Approval = {"allowWrites", "approved"}
  BY DEF All, Approval
<1>7. QED
  BY <1>1, <1>2, <1>3, <1>4, <1>5, <1>6

-----------------------------------------------------------------------------
(***************************************************************************)
(* The tools.                                                              *)
(***************************************************************************)
LEMMA GroupNames ==
  /\ DOMAIN AuthoringTools = {"cypher_render", "cypher_validate", "cypher_repair",
                              "cypher_repair_plan"}
  /\ DOMAIN ParsingTools = {"cypher_lossless_conformance", "cypher_parse_lossless",
                            "cypher_parse_check"}
  /\ DOMAIN PolicyTools = {"cypher_policy_check", "cypher_policy_eval",
                           "cypher_policy_profiles", "cypher_lsp_diagnostics"}
  /\ DOMAIN ProofTools = {"cypher_prove", "cypher_agent_feedback", "cypher_agent_workspace"}
  /\ DOMAIN CatalogTools = {"cypher_agent_guide", "cypher_diagnostic_catalog",
                            "cypher_compatibility_catalog", "cypher_compatibility_diff",
                            "cypher_contract_conformance", "cypher_service_openapi"}
  /\ DOMAIN EvalTools = {"cypher_eval", "cypher_scorecard", "cypher_benchmark_gate",
                         "cypher_retry_eval", "cypher_dataset_governance"}
<1>1. DOMAIN AuthoringTools = {"cypher_render", "cypher_validate", "cypher_repair",
                               "cypher_repair_plan"}
  BY DEF AuthoringTools
<1>2. DOMAIN ParsingTools = {"cypher_lossless_conformance", "cypher_parse_lossless",
                             "cypher_parse_check"}
  BY DEF ParsingTools
<1>3. DOMAIN PolicyTools = {"cypher_policy_check", "cypher_policy_eval",
                            "cypher_policy_profiles", "cypher_lsp_diagnostics"}
  BY DEF PolicyTools
<1>4. DOMAIN ProofTools = {"cypher_prove", "cypher_agent_feedback", "cypher_agent_workspace"}
  BY DEF ProofTools
<1>5. DOMAIN CatalogTools = {"cypher_agent_guide", "cypher_diagnostic_catalog",
                             "cypher_compatibility_catalog", "cypher_compatibility_diff",
                             "cypher_contract_conformance", "cypher_service_openapi"}
  BY DEF CatalogTools
<1>6. DOMAIN EvalTools = {"cypher_eval", "cypher_scorecard", "cypher_benchmark_gate",
                          "cypher_retry_eval", "cypher_dataset_governance"}
  BY DEF EvalTools
<1>7. QED
  BY <1>1, <1>2, <1>3, <1>4, <1>5, <1>6

LEMMA NamesOfTools ==
  ToolNames = DOMAIN AuthoringTools \cup DOMAIN ParsingTools \cup DOMAIN PolicyTools
                \cup DOMAIN ProofTools \cup DOMAIN CatalogTools \cup DOMAIN EvalTools
BY DEF ToolNames, Published, ++

LEMMA ToolsOfGroups ==
  /\ \A t \in DOMAIN AuthoringTools : Published[t] = AuthoringTools[t]
  /\ \A t \in DOMAIN ParsingTools   : Published[t] = ParsingTools[t]
  /\ \A t \in DOMAIN PolicyTools    : Published[t] = PolicyTools[t]
  /\ \A t \in DOMAIN ProofTools     : Published[t] = ProofTools[t]
  /\ \A t \in DOMAIN CatalogTools   : Published[t] = CatalogTools[t]
  /\ \A t \in DOMAIN EvalTools      : Published[t] = EvalTools[t]
<1> USE GroupNames DEF Published, ++
<1>1. \A t \in DOMAIN AuthoringTools : Published[t] = AuthoringTools[t]
  OBVIOUS
<1>2. \A t \in DOMAIN ParsingTools   : Published[t] = ParsingTools[t]
  OBVIOUS
<1>3. \A t \in DOMAIN PolicyTools    : Published[t] = PolicyTools[t]
  OBVIOUS
<1>4. \A t \in DOMAIN ProofTools     : Published[t] = ProofTools[t]
  OBVIOUS
<1>5. \A t \in DOMAIN CatalogTools   : Published[t] = CatalogTools[t]
  OBVIOUS
<1>6. \A t \in DOMAIN EvalTools      : Published[t] = EvalTools[t]
  OBVIOUS
<1>7. QED
  BY <1>1, <1>2, <1>3, <1>4, <1>5, <1>6

\* What a call may lose of its arguments, and what is right about a tool.
Excused(tool, args, lost) ==
  /\ lost \subseteq {"query", "rawCypher", "defaultLimit", "defaultMaxHops"}
  /\ lost # {} => "rawCypher" \in DOMAIN args
                    /\ tool \in {"cypher_repair", "cypher_parse_check", "cypher_lsp_diagnostics"}

Sound(tool, args) ==
  /\ DOMAIN Reads(tool, args) \subseteq DOMAIN Published[tool].properties
  /\ Conforms(tool, args) /\ ~AskedForBesides(tool, args) => Accepts(tool, args)
  /\ Conforms(tool, args) /\ Accepts(tool, args)
       => Excused(tool, args, DOMAIN args \ DOMAIN Reads(tool, args))

\* Arguments a client may send that ask for nothing besides.
Good(args, schema) ==
  schema.required \subseteq DOMAIN args /\ Follows(args, schema.properties)

LEMMA ConformingIsGood ==
  ASSUME NEW tool, NEW args, Conforms(tool, args), ~AskedForBesides(tool, args)
  PROVE  Good(args, Published[tool])
<1>1. "infinity" \notin {args[a] : a \in DOMAIN args}
  BY DEF AskedForBesides
<1>2. \A a \in DOMAIN args : args[a] # "infinity"
  BY <1>1
<1>3. Follows(args, Published[tool].properties)
  BY <1>2 DEF Conforms, Follows
<1>4. QED
  BY <1>3 DEF Conforms, Good

\* A tool that reads no more than it publishes, whose checks hold of all its
\* schema allows, and that loses nothing without excuse.
LEMMA ToolIsSound ==
  ASSUME NEW tool, NEW args,
         DOMAIN Reads(tool, args) \subseteq DOMAIN Published[tool].properties,
         Good(args, Published[tool]) /\ ~AskedForBesides(tool, args)
           => Passes(args, Reads(tool, args)),
         DOMAIN args \subseteq DOMAIN Published[tool].properties /\ Accepts(tool, args)
           => Excused(tool, args, DOMAIN args \ DOMAIN Reads(tool, args))
  PROVE  Sound(tool, args)
<1>1. ASSUME Conforms(tool, args), ~AskedForBesides(tool, args)
      PROVE  Accepts(tool, args)
  <2>1. Passes(args, Reads(tool, args))
    BY <1>1, ConformingIsGood
  <2>2. tool = "cypher_repair" => {"query", "rawCypher"} \cap DOMAIN args # {}
    BY <1>1 DEF AskedForBesides
  <2>3. ~({"policyProfile", "policyProfileId"} \subseteq DOMAIN args)
    BY <1>1 DEF AskedForBesides
  <2>4. QED
    BY <2>1, <2>2, <2>3 DEF Accepts, Passes
<1>2. Conforms(tool, args) => DOMAIN args \subseteq DOMAIN Published[tool].properties
  BY DEF Conforms
<1>3. QED
  BY <1>1, <1>2 DEF Sound

\* Most tools read exactly what they publish.
LEMMA FaithfulTool ==
  ASSUME NEW tool, NEW args, NEW required, NEW properties, NEW reads,
         Published[tool] = ObjectSchema(required, properties),
         Reads(tool, args) = reads,
         DOMAIN reads = DOMAIN properties,
         required \subseteq DOMAIN args /\ Follows(args, properties)
           /\ ~AskedForBesides(tool, args) => Passes(args, reads)
  PROVE  Sound(tool, args)
<1>1. /\ Published[tool].required = required
      /\ Published[tool].properties = properties
  BY DEF ObjectSchema
<1>2. Good(args, Published[tool]) /\ ~AskedForBesides(tool, args)
        => Passes(args, Reads(tool, args))
  BY <1>1 DEF Good
<1>3. DOMAIN args \subseteq DOMAIN Published[tool].properties /\ Accepts(tool, args)
        => Excused(tool, args, DOMAIN args \ DOMAIN Reads(tool, args))
  BY <1>1 DEF Excused
<1>4. QED
  BY <1>1, <1>2, <1>3, ToolIsSound

\* A tool without arguments.
LEMMA PlainTool ==
  ASSUME NEW args,
         NEW tool \in {"cypher_policy_profiles", "cypher_agent_guide",
                       "cypher_diagnostic_catalog", "cypher_compatibility_catalog",
                       "cypher_contract_conformance"}
  PROVE  Sound(tool, args)
<1>1. Published[tool] = ObjectSchema({}, Nothing)
  BY ToolsOfGroups, GroupNames DEF PolicyTools, CatalogTools
<1>2. Reads(tool, args) = Nothing
  BY DEF Reads
<1>3. QED
  BY <1>1, <1>2, PassesNothing, FaithfulTool

LEMMA RenderIsSound == ASSUME NEW args PROVE Sound("cypher_render", args)
<1> DEFINE properties == SchemaAndQuery ++ All({"params"}, "object") ++ RepairOptionProperties
                         ++ Approval ++ All({"mode"}, "mode")
           reads == Needs({"query", "schema"}) ++ All({"params"}, "optionalObject")
                    ++ SafeExecutionOptions
<1>1. Published["cypher_render"] = ObjectSchema({"schema", "query"}, properties)
  BY ToolsOfGroups, GroupNames DEF AuthoringTools
<1>2. Reads("cypher_render", args) = reads
  BY DEF Reads
<1>3. DOMAIN reads = DOMAIN properties
  BY SharedNames DEF ++, All, SafeExecutionOptions
<1>4. ASSUME {"schema", "query"} \subseteq DOMAIN args, Follows(args, properties)
      PROVE  Passes(args, reads)
  <2> DEFINE first  == SchemaAndQuery ++ All({"params"}, "object")
             second == first ++ RepairOptionProperties
             third  == second ++ Approval
  <2>1. /\ Apart(SchemaAndQuery, All({"params"}, "object"))
        /\ Apart(first, RepairOptionProperties)
        /\ Apart(second, Approval)
        /\ Apart(third, All({"mode"}, "mode"))
    BY SharedNames DEF Apart, ++, All
  <2>2. Follows(args, third) /\ Follows(args, All({"mode"}, "mode"))
    BY <1>4, <2>1, FollowsBoth
  <2>3. Follows(args, second) /\ Follows(args, Approval)
    BY <2>1, <2>2, FollowsBoth
  <2>4. Follows(args, first) /\ Follows(args, RepairOptionProperties)
    BY <2>1, <2>3, FollowsBoth
  <2>5. Follows(args, SchemaAndQuery) /\ Follows(args, All({"params"}, "object"))
    BY <2>1, <2>4, FollowsBoth
  <2>6. /\ Passes(args, All({"params"}, "optionalObject"))
        /\ Passes(args, All({"mode"}, "mode"))
    BY <2>2, <2>5, PassesAll, TypesFit, MostMayLack
  <2>7. /\ Passes(args, RepairOptions)
        /\ Passes(args, All({"allowWrites", "approved"}, "optionalBoolean"))
        /\ Passes(args, Needs({"query", "schema"}))
    BY <1>4, <2>3, <2>4, <2>5, SharedOptions
  <2>8. QED
    BY <2>6, <2>7, PassesBoth DEF SafeExecutionOptions
<1>5. QED
  BY <1>1, <1>2, <1>3, <1>4, FaithfulTool

LEMMA ValidateIsSound == ASSUME NEW args PROVE Sound("cypher_validate", args)
<1> DEFINE flags == {"requireKnownParameters", "warnOnMissingLimit", "warnOnRawCypher",
                     "disallowWrites"}
<1> DEFINE properties == SchemaAndQuery ++ All(flags, "boolean")
           reads == Needs({"query", "schema"}) ++ ValidationOptions
<1>1. Published["cypher_validate"] = ObjectSchema({"schema", "query"}, properties)
  BY ToolsOfGroups, GroupNames DEF AuthoringTools
<1>2. Reads("cypher_validate", args) = reads
  BY DEF Reads
<1>3. DOMAIN reads = DOMAIN properties
  BY SharedNames DEF ++, All, ValidationOptions
<1>4. ASSUME {"schema", "query"} \subseteq DOMAIN args, Follows(args, properties)
      PROVE  Passes(args, reads)
  <2>1. Apart(SchemaAndQuery, All(flags, "boolean"))
    BY SharedNames DEF Apart, ++, All
  <2>2. Follows(args, SchemaAndQuery) /\ Follows(args, All(flags, "boolean"))
    BY <1>4, <2>1, FollowsBoth
  <2>3. Passes(args, All(flags, "optionalBoolean"))
    BY <2>2, PassesAll, TypesFit, MostMayLack
  <2>4. Passes(args, Needs({"query", "schema"}))
    BY <1>4, <2>2, SharedOptions
  <2>5. QED
    BY <2>3, <2>4, PassesBoth DEF ValidationOptions
<1>5. QED
  BY <1>1, <1>2, <1>3, <1>4, FaithfulTool

LEMMA RepairPlanIsSound == ASSUME NEW args PROVE Sound("cypher_repair_plan", args)
<1> DEFINE properties == SchemaAndQuery ++ All({"params"}, "object") ++ RepairOptionProperties
                         ++ PolicyEvidenceProperties ++ Approval
                         ++ All({"parserMode"}, "parserMode")
           reads == Needs({"query", "schema"}) ++ RepairPlanOptions
<1>1. Published["cypher_repair_plan"] = ObjectSchema({"schema", "query"}, properties)
  BY ToolsOfGroups, GroupNames DEF AuthoringTools
<1>2. Reads("cypher_repair_plan", args) = reads
  BY DEF Reads
<1>3. DOMAIN reads = DOMAIN properties
  BY SharedNames DEF ++, All, RepairPlanOptions
<1>4. ASSUME {"schema", "query"} \subseteq DOMAIN args, Follows(args, properties)
      PROVE  Passes(args, reads)
  <2> DEFINE first  == SchemaAndQuery ++ All({"params"}, "object")
             second == first ++ RepairOptionProperties
             third  == second ++ PolicyEvidenceProperties
             fourth == third ++ Approval
  <2>1. /\ Apart(SchemaAndQuery, All({"params"}, "object"))
        /\ Apart(first, RepairOptionProperties)
        /\ Apart(second, PolicyEvidenceProperties)
        /\ Apart(third, Approval)
        /\ Apart(fourth, All({"parserMode"}, "parserMode"))
    BY SharedNames DEF Apart, ++, All
  <2>2. Follows(args, fourth) /\ Follows(args, All({"parserMode"}, "parserMode"))
    BY <1>4, <2>1, FollowsBoth
  <2>3. Follows(args, third) /\ Follows(args, Approval)
    BY <2>1, <2>2, FollowsBoth
  <2>4. Follows(args, second) /\ Follows(args, PolicyEvidenceProperties)
    BY <2>1, <2>3, FollowsBoth
  <2>5. Follows(args, first) /\ Follows(args, RepairOptionProperties)
    BY <2>1, <2>4, FollowsBoth
  <2>6. Follows(args, SchemaAndQuery) /\ Follows(args, All({"params"}, "object"))
    BY <2>1, <2>5, FollowsBoth
  <2>7. /\ Passes(args, All({"params"}, "optionalObject"))
        /\ Passes(args, All({"parserMode"}, "parserMode"))
    BY <2>2, <2>6, PassesAll, TypesFit, MostMayLack
  <2>8. /\ Passes(args, Needs({"query", "schema"}))
        /\ Passes(args, RepairOptions)
        /\ Passes(args, PolicyEvidenceOptions)
        /\ Passes(args, All({"allowWrites", "approved"}, "optionalBoolean"))
    BY <1>4, <2>3, <2>4, <2>5, <2>6, SharedOptions
  <2>9. QED
    BY <2>7, <2>8, PassesBoth DEF RepairPlanOptions
<1>5. QED
  BY <1>1, <1>2, <1>3, <1>4, FaithfulTool

LEMMA OpenApiIsSound == ASSUME NEW args PROVE Sound("cypher_service_openapi", args)
<1> DEFINE properties == All({"serverUrl"}, "string") ++ All({"maxBodyBytes"}, "number")
                         ++ All({"authRequired", "auditEnabled"}, "boolean")
           reads == ServiceOpenApiOptions
<1>1. Published["cypher_service_openapi"] = ObjectSchema({}, properties)
  BY ToolsOfGroups, GroupNames DEF CatalogTools
<1>2. Reads("cypher_service_openapi", args) = reads
  BY DEF Reads
<1>3. DOMAIN reads = DOMAIN properties
  BY DEF ++, All, ServiceOpenApiOptions
<1>4. ASSUME {} \subseteq DOMAIN args, Follows(args, properties)
      PROVE  Passes(args, reads)
  <2> DEFINE first == All({"serverUrl"}, "string") ++ All({"maxBodyBytes"}, "number")
  <2>1. /\ Apart(All({"serverUrl"}, "string"), All({"maxBodyBytes"}, "number"))
        /\ Apart(first, All({"authRequired", "auditEnabled"}, "boolean"))
    BY DEF Apart, ++, All
  <2>2. Follows(args, first) /\ Follows(args, All({"authRequired", "auditEnabled"}, "boolean"))
    BY <1>4, <2>1, FollowsBoth
  <2>3. /\ Follows(args, All({"serverUrl"}, "string"))
        /\ Follows(args, All({"maxBodyBytes"}, "number"))
    BY <2>1, <2>2, FollowsBoth
  <2>4. /\ Passes(args, All({"serverUrl"}, "optionalString"))
        /\ Passes(args, All({"maxBodyBytes"}, "optionalNumber"))
        /\ Passes(args, All({"authRequired", "auditEnabled"}, "optionalBoolean"))
    BY <2>2, <2>3, PassesAll, TypesFit, MostMayLack
  <2>5. QED
    BY <2>4, PassesBoth DEF ServiceOpenApiOptions
<1>5. QED
  BY <1>1, <1>2, <1>3, <1>4, FaithfulTool

LEMMA EvalIsSound == ASSUME NEW args PROVE Sound("cypher_eval", args)
<1> DEFINE properties == All({"dataset", "attempts"}, "object") ++ RepairOptionProperties
                         ++ All({"rawCypherCanExecute"}, "boolean")
           reads == Needs({"dataset", "attempts"}) ++ EvalOptions
<1>1. Published["cypher_eval"] = ObjectSchema({"dataset", "attempts"}, properties)
  BY ToolsOfGroups, GroupNames DEF EvalTools
<1>2. Reads("cypher_eval", args) = reads
  BY DEF Reads
<1>3. DOMAIN reads = DOMAIN properties
  BY SharedNames DEF ++, All, Needs, EvalOptions
<1>4. ASSUME {"dataset", "attempts"} \subseteq DOMAIN args, Follows(args, properties)
      PROVE  Passes(args, reads)
  <2> DEFINE first == All({"dataset", "attempts"}, "object") ++ RepairOptionProperties
  <2>1. /\ Apart(All({"dataset", "attempts"}, "object"), RepairOptionProperties)
        /\ Apart(first, All({"rawCypherCanExecute"}, "boolean"))
    BY SharedNames DEF Apart, ++, All
  <2>2. Follows(args, first) /\ Follows(args, All({"rawCypherCanExecute"}, "boolean"))
    BY <1>4, <2>1, FollowsBoth
  <2>3. /\ Follows(args, All({"dataset", "attempts"}, "object"))
        /\ Follows(args, RepairOptionProperties)
    BY <2>1, <2>2, FollowsBoth
  <2>4. /\ Passes(args, Needs({"dataset", "attempts"}))
        /\ Passes(args, All({"rawCypherCanExecute"}, "optionalBoolean"))
    BY <1>4, <2>2, <2>3, PassesAll, TypesFit, MostMayLack DEF Needs
  <2>5. Passes(args, RepairOptions)
    BY <2>3, SharedOptions
  <2>6. QED
    BY <2>4, <2>5, PassesBoth DEF EvalOptions
<1>5. QED
  BY <1>1, <1>2, <1>3, <1>4, FaithfulTool

LEMMA ScorecardIsSound == ASSUME NEW args PROVE Sound("cypher_scorecard", args)
<1> DEFINE properties == All({"reports"}, "some objects") ++ All({"name"}, "string")
                         ++ All({"baselineIndex"}, "number")
           reads == All({"reports"}, "requiredArray") ++ ScorecardOptions
<1>1. Published["cypher_scorecard"] = ObjectSchema({"reports"}, properties)
  BY ToolsOfGroups, GroupNames DEF EvalTools
<1>2. Reads("cypher_scorecard", args) = reads
  BY DEF Reads
<1>3. DOMAIN reads = DOMAIN properties
  BY DEF ++, All, ScorecardOptions
<1>4. ASSUME {"reports"} \subseteq DOMAIN args, Follows(args, properties)
      PROVE  Passes(args, reads)
  <2> DEFINE first == All({"reports"}, "some objects") ++ All({"name"}, "string")
  <2>1. /\ Apart(All({"reports"}, "some objects"), All({"name"}, "string"))
        /\ Apart(first, All({"baselineIndex"}, "number"))
    BY DEF Apart, ++, All
  <2>2. Follows(args, first) /\ Follows(args, All({"baselineIndex"}, "number"))
    BY <1>4, <2>1, FollowsBoth
  <2>3. /\ Follows(args, All({"reports"}, "some objects"))
        /\ Follows(args, All({"name"}, "string"))
    BY <2>1, <2>2, FollowsBoth
  <2>4. /\ Passes(args, All({"reports"}, "requiredArray"))
        /\ Passes(args, All({"name"}, "optionalString"))
        /\ Passes(args, All({"baselineIndex"}, "optionalNumber"))
    BY <1>4, <2>2, <2>3, PassesAll, TypesFit, MostMayLack
  <2>5. QED
    BY <2>4, PassesBoth DEF ScorecardOptions
<1>5. QED
  BY <1>1, <1>2, <1>3, <1>4, FaithfulTool

LEMMA GateIsSound == ASSUME NEW args PROVE Sound("cypher_benchmark_gate", args)
<1> DEFINE rates == {"tolerance", "minPassRate", "minExecutableRate"}
<1> DEFINE properties == All({"baseline", "candidate"}, "object") ++ All(rates, "number")
                         ++ All({"failOnDiagnosticRegression"}, "boolean")
           reads == Needs({"baseline", "candidate"}) ++ BenchmarkGateOptions
<1>1. Published["cypher_benchmark_gate"] = ObjectSchema({"baseline", "candidate"}, properties)
  BY ToolsOfGroups, GroupNames DEF EvalTools
<1>2. Reads("cypher_benchmark_gate", args) = reads
  BY DEF Reads
<1>3. DOMAIN reads = DOMAIN properties
  BY DEF ++, All, Needs, BenchmarkGateOptions
<1>4. ASSUME {"baseline", "candidate"} \subseteq DOMAIN args, Follows(args, properties)
      PROVE  Passes(args, reads)
  <2> DEFINE first == All({"baseline", "candidate"}, "object") ++ All(rates, "number")
  <2>1. /\ Apart(All({"baseline", "candidate"}, "object"), All(rates, "number"))
        /\ Apart(first, All({"failOnDiagnosticRegression"}, "boolean"))
    BY DEF Apart, ++, All
  <2>2. Follows(args, first) /\ Follows(args, All({"failOnDiagnosticRegression"}, "boolean"))
    BY <1>4, <2>1, FollowsBoth
  <2>3. /\ Follows(args, All({"baseline", "candidate"}, "object"))
        /\ Follows(args, All(rates, "number"))
    BY <2>1, <2>2, FollowsBoth
  <2>4. /\ Passes(args, Needs({"baseline", "candidate"}))
        /\ Passes(args, All(rates, "optionalNumber"))
        /\ Passes(args, All({"failOnDiagnosticRegression"}, "optionalBoolean"))
    BY <1>4, <2>2, <2>3, PassesAll, TypesFit, MostMayLack DEF Needs
  <2>5. QED
    BY <2>4, PassesBoth DEF BenchmarkGateOptions
<1>5. QED
  BY <1>1, <1>2, <1>3, <1>4, FaithfulTool

LEMMA RetryIsSound == ASSUME NEW args PROVE Sound("cypher_retry_eval", args)
<1> DEFINE properties == All({"dataset"}, "object") ++ All({"rounds"}, "some objects")
                         ++ RepairOptionProperties ++ All({"rawCypherCanExecute"}, "boolean")
           reads == Needs({"dataset"}) ++ All({"rounds"}, "requiredArray") ++ EvalOptions
<1>1. Published["cypher_retry_eval"] = ObjectSchema({"dataset", "rounds"}, properties)
  BY ToolsOfGroups, GroupNames DEF EvalTools
<1>2. Reads("cypher_retry_eval", args) = reads
  BY DEF Reads
<1>3. DOMAIN reads = DOMAIN properties
  BY SharedNames DEF ++, All, Needs, EvalOptions
<1>4. ASSUME {"dataset", "rounds"} \subseteq DOMAIN args, Follows(args, properties)
      PROVE  Passes(args, reads)
  <2> DEFINE first  == All({"dataset"}, "object") ++ All({"rounds"}, "some objects")
             second == first ++ RepairOptionProperties
  <2>1. /\ Apart(All({"dataset"}, "object"), All({"rounds"}, "some objects"))
        /\ Apart(first, RepairOptionProperties)
        /\ Apart(second, All({"rawCypherCanExecute"}, "boolean"))
    BY SharedNames DEF Apart, ++, All
  <2>2. Follows(args, second) /\ Follows(args, All({"rawCypherCanExecute"}, "boolean"))
    BY <1>4, <2>1, FollowsBoth
  <2>3. Follows(args, first) /\ Follows(args, RepairOptionProperties)
    BY <2>1, <2>2, FollowsBoth
  <2>4. /\ Follows(args, All({"dataset"}, "object"))
        /\ Follows(args, All({"rounds"}, "some objects"))
    BY <2>1, <2>3, FollowsBoth
  <2>5. /\ Passes(args, Needs({"dataset"}))
        /\ Passes(args, All({"rounds"}, "requiredArray"))
        /\ Passes(args, All({"rawCypherCanExecute"}, "optionalBoolean"))
    BY <1>4, <2>2, <2>4, PassesAll, TypesFit, MostMayLack DEF Needs
  <2>6. Passes(args, RepairOptions)
    BY <2>3, SharedOptions
  <2>7. QED
    BY <2>5, <2>6, PassesBoth DEF EvalOptions
<1>5. QED
  BY <1>1, <1>2, <1>3, <1>4, FaithfulTool

LEMMA GovernanceIsSound == ASSUME NEW args PROVE Sound("cypher_dataset_governance", args)
<1> DEFINE properties == All({"dataset"}, "object") ++ All({"defaultSplit"}, "string")
           reads == Needs({"dataset"}) ++ DatasetGovernanceOptions
<1>1. Published["cypher_dataset_governance"] = ObjectSchema({"dataset"}, properties)
  BY ToolsOfGroups, GroupNames DEF EvalTools
<1>2. Reads("cypher_dataset_governance", args) = reads
  BY DEF Reads
<1>3. DOMAIN reads = DOMAIN properties
  BY DEF ++, All, Needs, DatasetGovernanceOptions
<1>4. ASSUME {"dataset"} \subseteq DOMAIN args, Follows(args, properties)
      PROVE  Passes(args, reads)
  <2>1. Apart(All({"dataset"}, "object"), All({"defaultSplit"}, "string"))
    BY DEF Apart, ++, All
  <2>2. /\ Follows(args, All({"dataset"}, "object"))
        /\ Follows(args, All({"defaultSplit"}, "string"))
    BY <1>4, <2>1, FollowsBoth
  <2>3. /\ Passes(args, Needs({"dataset"}))
        /\ Passes(args, All({"defaultSplit"}, "optionalString"))
    BY <1>4, <2>2, PassesAll, TypesFit, MostMayLack DEF Needs
  <2>4. QED
    BY <2>3, PassesBoth DEF DatasetGovernanceOptions
<1>5. QED
  BY <1>1, <1>2, <1>3, <1>4, FaithfulTool

\* A profile the schema allows is known, or asked for besides.
LEMMA PassesProfile ==
  ASSUME NEW args, NEW tool, Follows(args, All({"policyProfileId"}, "string")),
         ~AskedForBesides(tool, args)
  PROVE  Passes(args, All({"policyProfileId"}, "profile"))
<1> DEFINE id == Given(args, "policyProfileId")
<1>1. id \notin Strings \ KnownProfiles
  BY DEF AskedForBesides
<1>2. id = "absent" \/ id \in Strings
  BY DEF Follows, All, OfType, Given
<1>3. Check("profile", id)
  BY <1>1, <1>2 DEF Check, Optional
<1>4. QED
  BY <1>3 DEF Passes, All

LEMMA PolicyCheckIsSound == ASSUME NEW args PROVE Sound("cypher_policy_check", args)
<1> DEFINE properties == SchemaAndQuery ++ All({"policyProfile"}, "object")
                         ++ All({"policyProfileId"}, "string") ++ PolicyEvidenceProperties
                         ++ All({"allowWrites"}, "boolean")
           reads == Needs({"query", "schema"}) ++ PolicyOptions
<1>1. Published["cypher_policy_check"] = ObjectSchema({"schema", "query"}, properties)
  BY ToolsOfGroups, GroupNames DEF PolicyTools
<1>2. Reads("cypher_policy_check", args) = reads
  BY DEF Reads
<1>3. DOMAIN reads = DOMAIN properties
  BY SharedNames DEF ++, All, PolicyOptions
<1>4. ASSUME {"schema", "query"} \subseteq DOMAIN args, Follows(args, properties),
             ~AskedForBesides("cypher_policy_check", args)
      PROVE  Passes(args, reads)
  <2> DEFINE first  == SchemaAndQuery ++ All({"policyProfile"}, "object")
             second == first ++ All({"policyProfileId"}, "string")
             third  == second ++ PolicyEvidenceProperties
  <2>1. /\ Apart(SchemaAndQuery, All({"policyProfile"}, "object"))
        /\ Apart(first, All({"policyProfileId"}, "string"))
        /\ Apart(second, PolicyEvidenceProperties)
        /\ Apart(third, All({"allowWrites"}, "boolean"))
    BY SharedNames DEF Apart, ++, All
  <2>2. Follows(args, third) /\ Follows(args, All({"allowWrites"}, "boolean"))
    BY <1>4, <2>1, FollowsBoth
  <2>3. Follows(args, second) /\ Follows(args, PolicyEvidenceProperties)
    BY <2>1, <2>2, FollowsBoth
  <2>4. Follows(args, first) /\ Follows(args, All({"policyProfileId"}, "string"))
    BY <2>1, <2>3, FollowsBoth
  <2>5. Follows(args, SchemaAndQuery) /\ Follows(args, All({"policyProfile"}, "object"))
    BY <2>1, <2>4, FollowsBoth
  <2>6. /\ Passes(args, All({"policyProfile"}, "optionalObject"))
        /\ Passes(args, All({"allowWrites"}, "optionalBoolean"))
    BY <2>2, <2>5, PassesAll, TypesFit, MostMayLack
  <2>7. /\ Passes(args, Needs({"query", "schema"}))
        /\ Passes(args, PolicyEvidenceOptions)
    BY <1>4, <2>3, <2>5, SharedOptions
  <2>8. Passes(args, All({"policyProfileId"}, "profile"))
    BY <1>4, <2>4, PassesProfile
  <2>9. QED
    BY <2>6, <2>7, <2>8, PassesBoth DEF PolicyOptions
<1>5. QED
  BY <1>1, <1>2, <1>3, <1>4, FaithfulTool

LEMMA PolicyEvalIsSound == ASSUME NEW args PROVE Sound("cypher_policy_eval", args)
<1> DEFINE objects == {"dataset", "attempts", "policyProfile"}
           properties == All(objects, "object")
                         ++ All({"policyProfileId"}, "string") ++ PolicyEvidenceProperties
                         ++ All({"allowWrites"}, "boolean") ++ All({"parserMode"}, "parserMode")
                         ++ RepairOptionProperties
           reads == Needs({"dataset", "attempts"}) ++ PolicyEvalOptions
<1>1. Published["cypher_policy_eval"] = ObjectSchema({"dataset", "attempts"}, properties)
  BY ToolsOfGroups, GroupNames DEF PolicyTools
<1>2. Reads("cypher_policy_eval", args) = reads
  BY DEF Reads
<1>3. DOMAIN reads = DOMAIN properties
  BY SharedNames DEF ++, All, Needs, PolicyEvalOptions, PolicyOptions
<1>4. ASSUME {"dataset", "attempts"} \subseteq DOMAIN args, Follows(args, properties),
             ~AskedForBesides("cypher_policy_eval", args)
      PROVE  Passes(args, reads)
  <2> DEFINE first  == All(objects, "object") ++ All({"policyProfileId"}, "string")
             second == first ++ PolicyEvidenceProperties
             third  == second ++ All({"allowWrites"}, "boolean")
             fourth == third ++ All({"parserMode"}, "parserMode")
  <2>1. /\ Apart(All(objects, "object"), All({"policyProfileId"}, "string"))
        /\ Apart(first, PolicyEvidenceProperties)
        /\ Apart(second, All({"allowWrites"}, "boolean"))
        /\ Apart(third, All({"parserMode"}, "parserMode"))
        /\ Apart(fourth, RepairOptionProperties)
    BY SharedNames DEF Apart, ++, All
  <2>2. Follows(args, fourth) /\ Follows(args, RepairOptionProperties)
    BY <1>4, <2>1, FollowsBoth
  <2>3. Follows(args, third) /\ Follows(args, All({"parserMode"}, "parserMode"))
    BY <2>1, <2>2, FollowsBoth
  <2>4. Follows(args, second) /\ Follows(args, All({"allowWrites"}, "boolean"))
    BY <2>1, <2>3, FollowsBoth
  <2>5. Follows(args, first) /\ Follows(args, PolicyEvidenceProperties)
    BY <2>1, <2>4, FollowsBoth
  <2>6. /\ Follows(args, All(objects, "object"))
        /\ Follows(args, All({"policyProfileId"}, "string"))
    BY <2>1, <2>5, FollowsBoth
  <2>7. /\ Passes(args, All({"dataset", "attempts"}, "requiredObject"))
        /\ Passes(args, All({"policyProfile"}, "optionalObject"))
        /\ Passes(args, All({"allowWrites"}, "optionalBoolean"))
        /\ Passes(args, All({"parserMode"}, "parserMode"))
    BY <1>4, <2>3, <2>4, <2>6, PassesAll, TypesFit, MostMayLack
  <2>8. /\ Passes(args, PolicyEvidenceOptions)
        /\ Passes(args, RepairOptions)
    BY <2>2, <2>5, SharedOptions
  <2>9. Passes(args, All({"policyProfileId"}, "profile"))
    BY <1>4, <2>6, PassesProfile
  <2>10. QED
    BY <2>7, <2>8, <2>9, PassesBoth DEF Needs, PolicyEvalOptions, PolicyOptions
<1>5. QED
  BY <1>1, <1>2, <1>3, <1>4, FaithfulTool

\* The three tools that prove a query share most of what they publish.
LEMMA ProofArguments ==
  ASSUME NEW args, {"schema", "query"} \subseteq DOMAIN args, Follows(args, ProofProperties)
  PROVE  Passes(args, Needs({"query", "schema"}) ++ All({"params"}, "optionalObject"))
         /\ Passes(args, ProofOptions)
<1> DEFINE first  == SchemaAndQuery ++ All({"params"}, "object")
           second == first ++ RepairOptionProperties
           third  == second ++ PolicyEvidenceProperties
           fourth == third ++ Approval
           fifth  == fourth ++ All({"mode"}, "mode")
           sixth  == fifth ++ All({"parserMode"}, "parserMode")
<1>1. /\ Apart(SchemaAndQuery, All({"params"}, "object"))
      /\ Apart(first, RepairOptionProperties)
      /\ Apart(second, PolicyEvidenceProperties)
      /\ Apart(third, Approval)
      /\ Apart(fourth, All({"mode"}, "mode"))
      /\ Apart(fifth, All({"parserMode"}, "parserMode"))
      /\ Apart(sixth, All({"includeParser"}, "boolean"))
  BY SharedNames DEF Apart, ++, All
<1>2. Follows(args, sixth) /\ Follows(args, All({"includeParser"}, "boolean"))
  BY <1>1, FollowsBoth DEF ProofProperties
<1>3. Follows(args, fifth) /\ Follows(args, All({"parserMode"}, "parserMode"))
  BY <1>1, <1>2, FollowsBoth
<1>4. Follows(args, fourth) /\ Follows(args, All({"mode"}, "mode"))
  BY <1>1, <1>3, FollowsBoth
<1>5. Follows(args, third) /\ Follows(args, Approval)
  BY <1>1, <1>4, FollowsBoth
<1>6. Follows(args, second) /\ Follows(args, PolicyEvidenceProperties)
  BY <1>1, <1>5, FollowsBoth
<1>7. Follows(args, first) /\ Follows(args, RepairOptionProperties)
  BY <1>1, <1>6, FollowsBoth
<1>8. Follows(args, SchemaAndQuery) /\ Follows(args, All({"params"}, "object"))
  BY <1>1, <1>7, FollowsBoth
<1>9. /\ Passes(args, All({"params"}, "optionalObject"))
      /\ Passes(args, All({"mode"}, "mode"))
      /\ Passes(args, All({"parserMode"}, "parserMode"))
      /\ Passes(args, All({"includeParser"}, "optionalBoolean"))
  BY <1>2, <1>3, <1>4, <1>8, PassesAll, TypesFit, MostMayLack
<1>10. /\ Passes(args, Needs({"query", "schema"}))
       /\ Passes(args, RepairOptions)
       /\ Passes(args, PolicyEvidenceOptions)
       /\ Passes(args, All({"allowWrites", "approved"}, "optionalBoolean"))
  BY <1>5, <1>6, <1>7, <1>8, SharedOptions
<1>11. QED
  BY <1>9, <1>10, PassesBoth DEF ProofOptions, SafeExecutionOptions

LEMMA ProofNames ==
  DOMAIN ProofProperties = DOMAIN (Needs({"query", "schema"}) ++ All({"params"}, "optionalObject")
                                     ++ ProofOptions)
<1>1. DOMAIN ProofOptions = DOMAIN RepairOptions \cup DOMAIN PolicyEvidenceOptions
        \cup {"allowWrites", "approved", "mode", "parserMode", "includeParser"}
  BY DEF ++, All, ProofOptions, SafeExecutionOptions
<1>2. DOMAIN ProofProperties = DOMAIN SchemaAndQuery \cup DOMAIN RepairOptionProperties
        \cup DOMAIN PolicyEvidenceProperties \cup DOMAIN Approval
        \cup {"params", "mode", "parserMode", "includeParser"}
  BY DEF ++, All, ProofProperties
<1>3. DOMAIN (Needs({"query", "schema"}) ++ All({"params"}, "optionalObject") ++ ProofOptions)
        = DOMAIN Needs({"query", "schema"}) \cup {"params"} \cup DOMAIN ProofOptions
  BY DEF ++, All
<1>4. QED
  BY <1>1, <1>2, <1>3, SharedNames

LEMMA ProveIsSound ==
  ASSUME NEW args, NEW tool \in {"cypher_prove", "cypher_agent_feedback"}
  PROVE  Sound(tool, args)
<1> DEFINE reads == Needs({"query", "schema"}) ++ All({"params"}, "optionalObject")
                    ++ ProofOptions
<1>1. Published[tool] = ObjectSchema({"schema", "query"}, ProofProperties)
  BY ToolsOfGroups, GroupNames DEF ProofTools
<1>2. Reads(tool, args) = reads
  BY DEF Reads
<1>3. {"schema", "query"} \subseteq DOMAIN args /\ Follows(args, ProofProperties)
        => Passes(args, reads)
  BY ProofArguments, PassesBoth
<1>4. QED
  BY <1>1, <1>2, <1>3, ProofNames, FaithfulTool

LEMMA WorkspaceIsSound == ASSUME NEW args PROVE Sound("cypher_agent_workspace", args)
<1> DEFINE properties == ProofProperties ++ All({"uri"}, "string")
           reads == Needs({"query", "schema"}) ++ All({"params"}, "optionalObject")
                    ++ WorkspaceOptions
<1>1. Published["cypher_agent_workspace"] = ObjectSchema({"schema", "query"}, properties)
  BY ToolsOfGroups, GroupNames DEF ProofTools
<1>2. Reads("cypher_agent_workspace", args) = reads
  BY DEF Reads
<1>3. DOMAIN reads = DOMAIN properties
  BY ProofNames DEF ++, All, WorkspaceOptions, Needs
<1>4. ASSUME {"schema", "query"} \subseteq DOMAIN args, Follows(args, properties)
      PROVE  Passes(args, reads)
  <2>1. Apart(ProofProperties, All({"uri"}, "string"))
    BY SharedNames DEF Apart, ++, All, ProofProperties
  <2>2. Follows(args, ProofProperties) /\ Follows(args, All({"uri"}, "string"))
    BY <1>4, <2>1, FollowsBoth
  <2>3. Passes(args, All({"uri"}, "optionalString"))
    BY <2>2, PassesAll, TypesFit, MostMayLack
  <2>4. QED
    BY <1>4, <2>2, <2>3, ProofArguments, PassesBoth DEF WorkspaceOptions
<1>5. QED
  BY <1>1, <1>2, <1>3, <1>4, FaithfulTool

LEMMA ConformanceIsSound ==
  ASSUME NEW args PROVE Sound("cypher_lossless_conformance", args)
<1>1. Published["cypher_lossless_conformance"] = ObjectSchema({}, All({"cases"}, "objects"))
  BY ToolsOfGroups, GroupNames DEF ParsingTools
<1>2. Reads("cypher_lossless_conformance", args) = All({"cases"}, "optionalArray")
  BY DEF Reads
<1>3. DOMAIN All({"cases"}, "optionalArray") = DOMAIN All({"cases"}, "objects")
  BY DEF All
<1>4. Follows(args, All({"cases"}, "objects")) => Passes(args, All({"cases"}, "optionalArray"))
  BY PassesAll, TypesFit, MostMayLack
<1>5. QED
  BY <1>1, <1>2, <1>3, <1>4, FaithfulTool

LEMMA DiffIsSound == ASSUME NEW args PROVE Sound("cypher_compatibility_diff", args)
<1> DEFINE properties == All({"baseline", "candidate"}, "object")
           reads == Needs({"baseline"}) ++ All({"candidate"}, "optionalObject")
<1>1. Published["cypher_compatibility_diff"] = ObjectSchema({"baseline"}, properties)
  BY ToolsOfGroups, GroupNames DEF CatalogTools
<1>2. Reads("cypher_compatibility_diff", args) = reads
  BY DEF Reads
<1>3. DOMAIN reads = DOMAIN properties
  BY DEF ++, All, Needs
<1>4. ASSUME {"baseline"} \subseteq DOMAIN args, Follows(args, properties)
      PROVE  Passes(args, reads)
  <2>1. /\ Passes(args, All({"baseline"}, "requiredObject"))
        /\ Passes(args, All({"candidate"}, "optionalObject"))
    BY <1>4, PassesAll, TypesFit, MostMayLack
  <2>2. QED
    BY <2>1, PassesBoth DEF Needs
<1>5. QED
  BY <1>1, <1>2, <1>3, <1>4, FaithfulTool

\* The text must not be empty, which its schema does not say.
LEMMA ParseIsSound == ASSUME NEW args PROVE Sound("cypher_parse_lossless", args)
<1> DEFINE properties == All({"rawCypher"}, "string") ++ All({"schema"}, "object")
                         ++ All({"parserMode"}, "parserMode")
                         ++ All({"includeIrPreview"}, "boolean")
           reads == All({"rawCypher"}, "requiredString") ++ LosslessParseOptions
<1>1. Published["cypher_parse_lossless"] = ObjectSchema({"rawCypher"}, properties)
  BY ToolsOfGroups, GroupNames DEF ParsingTools
<1>2. Reads("cypher_parse_lossless", args) = reads
  BY DEF Reads
<1>3. DOMAIN reads = DOMAIN properties
  BY DEF ++, All, LosslessParseOptions
<1>4. ASSUME {"rawCypher"} \subseteq DOMAIN args, Follows(args, properties),
             ~AskedForBesides("cypher_parse_lossless", args)
      PROVE  Passes(args, reads)
  <2> DEFINE first  == All({"rawCypher"}, "string") ++ All({"schema"}, "object")
             second == first ++ All({"parserMode"}, "parserMode")
  <2>1. /\ Apart(All({"rawCypher"}, "string"), All({"schema"}, "object"))
        /\ Apart(first, All({"parserMode"}, "parserMode"))
        /\ Apart(second, All({"includeIrPreview"}, "boolean"))
    BY DEF Apart, ++, All
  <2>2. Follows(args, second) /\ Follows(args, All({"includeIrPreview"}, "boolean"))
    BY <1>4, <2>1, FollowsBoth
  <2>3. Follows(args, first) /\ Follows(args, All({"parserMode"}, "parserMode"))
    BY <2>1, <2>2, FollowsBoth
  <2>4. Follows(args, All({"rawCypher"}, "string")) /\ Follows(args, All({"schema"}, "object"))
    BY <2>1, <2>3, FollowsBoth
  <2>5. /\ Passes(args, All({"schema"}, "optionalObject"))
        /\ Passes(args, All({"parserMode"}, "parserMode"))
        /\ Passes(args, All({"includeIrPreview"}, "optionalBoolean"))
    BY <2>2, <2>3, <2>4, PassesAll, TypesFit, MostMayLack
  <2>6. Passes(args, All({"rawCypher"}, "requiredString"))
    <3>1. args["rawCypher"] \in Strings
      BY <1>4, <2>4 DEF Follows, All, OfType
    <3>2. args["rawCypher"] # ""
      BY <1>4 DEF AskedForBesides
    <3>3. Check("requiredString", Given(args, "rawCypher"))
      BY <1>4, <3>1, <3>2 DEF Check, Given
    <3>4. QED
      BY <3>3 DEF Passes, All
  <2>7. QED
    BY <2>5, <2>6, PassesBoth DEF LosslessParseOptions
<1>5. QED
  BY <1>1, <1>2, <1>3, <1>4, FaithfulTool

(***************************************************************************)
(* The three tools that take a query or a text.  What they do not read of  *)
(* one of the two is what a call may lose.                                 *)
(***************************************************************************)
LEMMA RepairIsSound == ASSUME NEW args PROVE Sound("cypher_repair", args)
<1> DEFINE properties == SchemaAndQuery ++ All({"rawCypher"}, "string") ++ RepairOptionProperties
           first == SchemaAndQuery ++ All({"rawCypher"}, "string")
           reads == Reads("cypher_repair", args)
<1>1. Published["cypher_repair"] = ObjectSchema({"schema"}, properties)
  BY ToolsOfGroups, GroupNames DEF AuthoringTools
<1>2. /\ Published["cypher_repair"].required = {"schema"}
      /\ Published["cypher_repair"].properties = properties
  BY <1>1 DEF ObjectSchema
<1>3. DOMAIN properties = {"schema", "query", "rawCypher", "defaultLimit", "defaultMaxHops"}
  BY SharedNames DEF ++, All
<1>4. CASE "query" \in DOMAIN args
  <2>1. reads = Needs({"query", "schema"}) ++ RepairOptions
    BY <1>4 DEF Reads
  <2>2. DOMAIN reads = {"schema", "query", "defaultLimit", "defaultMaxHops"}
    BY <2>1, SharedNames DEF ++
  <2>3. ASSUME Good(args, Published["cypher_repair"])
        PROVE  Passes(args, reads)
    <3>1. "schema" \in DOMAIN args /\ Follows(args, properties)
      BY <1>2, <2>3 DEF Good
    <3>2. /\ Apart(SchemaAndQuery, All({"rawCypher"}, "string"))
          /\ Apart(first, RepairOptionProperties)
      BY SharedNames DEF Apart, ++, All
    <3>3. Follows(args, first) /\ Follows(args, RepairOptionProperties)
      BY <3>1, <3>2, FollowsBoth
    <3>4. Follows(args, SchemaAndQuery)
      BY <3>2, <3>3, FollowsBoth
    <3>5. QED
      BY <1>4, <2>1, <3>1, <3>3, <3>4, SharedOptions, PassesBoth
  <2>4. DOMAIN args \subseteq DOMAIN properties
          => Excused("cypher_repair", args, DOMAIN args \ DOMAIN reads)
    BY <1>3, <2>2 DEF Excused
  <2>5. QED
    BY <1>2, <1>3, <2>2, <2>3, <2>4, ToolIsSound
<1>5. CASE "query" \notin DOMAIN args
  <2>1. reads = Needs({"schema"}) ++ All({"rawCypher"}, "optionalString")
    BY <1>5 DEF Reads
  <2>2. DOMAIN reads = {"schema", "rawCypher"}
    BY <2>1 DEF ++, All, Needs
  <2>3. ASSUME Good(args, Published["cypher_repair"])
        PROVE  Passes(args, reads)
    <3>1. "schema" \in DOMAIN args /\ Follows(args, properties)
      BY <1>2, <2>3 DEF Good
    <3>2. /\ Apart(SchemaAndQuery, All({"rawCypher"}, "string"))
          /\ Apart(first, RepairOptionProperties)
      BY SharedNames DEF Apart, ++, All
    <3>3. Follows(args, first)
      BY <3>1, <3>2, FollowsBoth
    <3>4. Follows(args, SchemaAndQuery) /\ Follows(args, All({"rawCypher"}, "string"))
      BY <3>2, <3>3, FollowsBoth
    <3>5. Passes(args, Needs({"schema"}))
      BY <3>1, <3>4, PassesAll, TypesFit DEF SchemaAndQuery, Needs
    <3>6. Passes(args, All({"rawCypher"}, "optionalString"))
      BY <3>4, PassesAll, TypesFit, MostMayLack
    <3>7. QED
      BY <2>1, <3>5, <3>6, PassesBoth
  <2>4. ASSUME DOMAIN args \subseteq DOMAIN properties, Accepts("cypher_repair", args)
        PROVE  Excused("cypher_repair", args, DOMAIN args \ DOMAIN reads)
    <3>1. "rawCypher" \in DOMAIN args
      BY <1>5, <2>4 DEF Accepts
    <3>2. QED
      BY <1>3, <1>5, <2>2, <2>4, <3>1 DEF Excused
  <2>5. QED
    BY <1>2, <1>3, <2>2, <2>3, <2>4, ToolIsSound
<1>6. QED
  BY <1>4, <1>5

LEMMA ParseCheckIsSound == ASSUME NEW args PROVE Sound("cypher_parse_check", args)
<1> DEFINE first == SchemaAndQuery ++ All({"rawCypher"}, "string")
           second == first ++ All({"mode"}, "parserMode")
           properties == second ++ RepairOptionProperties
           always == Needs({"schema"}) ++ All({"mode"}, "parserMode")
                     ++ All({"rawCypher"}, "optionalString")
           reads == Reads("cypher_parse_check", args)
<1>1. Published["cypher_parse_check"] = ObjectSchema({"schema"}, properties)
  BY ToolsOfGroups, GroupNames DEF ParsingTools
<1>2. /\ Published["cypher_parse_check"].required = {"schema"}
      /\ Published["cypher_parse_check"].properties = properties
  BY <1>1 DEF ObjectSchema
<1>3. DOMAIN properties = {"schema", "query", "rawCypher", "mode", "defaultLimit", "defaultMaxHops"}
  BY SharedNames DEF ++, All
<1>4. ASSUME Good(args, Published["cypher_parse_check"])
      PROVE  /\ Passes(args, always) /\ Passes(args, RepairOptions)
             /\ "query" \in DOMAIN args => Passes(args, Needs({"query"}))
  <2>1. "schema" \in DOMAIN args /\ Follows(args, properties)
    BY <1>2, <1>4 DEF Good
  <2>2. /\ Apart(SchemaAndQuery, All({"rawCypher"}, "string"))
        /\ Apart(first, All({"mode"}, "parserMode"))
        /\ Apart(second, RepairOptionProperties)
    BY SharedNames DEF Apart, ++, All
  <2>3. Follows(args, second) /\ Follows(args, RepairOptionProperties)
    BY <2>1, <2>2, FollowsBoth
  <2>4. Follows(args, first) /\ Follows(args, All({"mode"}, "parserMode"))
    BY <2>2, <2>3, FollowsBoth
  <2>5. Follows(args, SchemaAndQuery) /\ Follows(args, All({"rawCypher"}, "string"))
    BY <2>2, <2>4, FollowsBoth
  <2>6. /\ Passes(args, Needs({"schema"}))
        /\ "query" \in DOMAIN args => Passes(args, Needs({"query"}))
    BY <2>1, <2>5, PassesAll, TypesFit DEF SchemaAndQuery, Needs
  <2>7. /\ Passes(args, All({"mode"}, "parserMode"))
        /\ Passes(args, All({"rawCypher"}, "optionalString"))
    BY <2>4, <2>5, PassesAll, TypesFit, MostMayLack
  <2>8. QED
    BY <2>3, <2>6, <2>7, SharedOptions, PassesBoth
<1>5. CASE "rawCypher" \in DOMAIN args
  <2>1. reads = always ++ Nothing
    BY <1>5 DEF Reads
  <2>2. DOMAIN reads = {"schema", "mode", "rawCypher"}
    BY <2>1 DEF ++, All, Needs, Nothing
  <2>3. Good(args, Published["cypher_parse_check"]) => Passes(args, reads)
    BY <1>4, <2>1, PassesNothing, PassesBoth
  <2>4. DOMAIN args \subseteq DOMAIN properties
          => Excused("cypher_parse_check", args, DOMAIN args \ DOMAIN reads)
    BY <1>3, <1>5, <2>2 DEF Excused
  <2>5. QED
    BY <1>2, <1>3, <2>2, <2>3, <2>4, ToolIsSound
<1>6. CASE "rawCypher" \notin DOMAIN args
  <2>1. reads = always ++ (Needs({"query"}) ++ RepairOptions)
    BY <1>6 DEF Reads
  <2>2. DOMAIN reads = DOMAIN properties
    BY <1>3, <2>1, SharedNames DEF ++, All, Needs
  <2>3. Good(args, Published["cypher_parse_check"])
          /\ ~AskedForBesides("cypher_parse_check", args) => Passes(args, reads)
    <3>1. ~AskedForBesides("cypher_parse_check", args) => "query" \in DOMAIN args
      BY <1>6 DEF AskedForBesides
    <3>2. QED
      BY <1>4, <2>1, <3>1, PassesBoth
  <2>4. DOMAIN args \subseteq DOMAIN properties
          => Excused("cypher_parse_check", args, DOMAIN args \ DOMAIN reads)
    BY <2>2 DEF Excused
  <2>5. QED
    BY <1>2, <2>2, <2>3, <2>4, ToolIsSound
<1>7. QED
  BY <1>5, <1>6

LEMMA DiagnosticsIsSound == ASSUME NEW args PROVE Sound("cypher_lsp_diagnostics", args)
<1> DEFINE first == SchemaAndQuery ++ All({"rawCypher", "uri"}, "string")
           second == first ++ All({"parserMode"}, "parserMode")
           properties == second ++ RepairOptionProperties
           always == Needs({"schema"}) ++ All({"rawCypher"}, "optionalString") ++ LspOptions
           reads == Reads("cypher_lsp_diagnostics", args)
<1>1. Published["cypher_lsp_diagnostics"] = ObjectSchema({"schema"}, properties)
  BY ToolsOfGroups, GroupNames DEF PolicyTools
<1>2. /\ Published["cypher_lsp_diagnostics"].required = {"schema"}
      /\ Published["cypher_lsp_diagnostics"].properties = properties
  BY <1>1 DEF ObjectSchema
<1>3. DOMAIN properties = {"schema", "query", "rawCypher", "uri", "parserMode",
                           "defaultLimit", "defaultMaxHops"}
  BY SharedNames DEF ++, All
<1>4. ASSUME Good(args, Published["cypher_lsp_diagnostics"])
      PROVE  /\ Passes(args, always)
             /\ "query" \in DOMAIN args => Passes(args, Needs({"query"}))
  <2>1. "schema" \in DOMAIN args /\ Follows(args, properties)
    BY <1>2, <1>4 DEF Good
  <2>2. /\ Apart(SchemaAndQuery, All({"rawCypher", "uri"}, "string"))
        /\ Apart(first, All({"parserMode"}, "parserMode"))
        /\ Apart(second, RepairOptionProperties)
    BY SharedNames DEF Apart, ++, All
  <2>3. Follows(args, second) /\ Follows(args, RepairOptionProperties)
    BY <2>1, <2>2, FollowsBoth
  <2>4. Follows(args, first) /\ Follows(args, All({"parserMode"}, "parserMode"))
    BY <2>2, <2>3, FollowsBoth
  <2>5. Follows(args, SchemaAndQuery) /\ Follows(args, All({"rawCypher", "uri"}, "string"))
    BY <2>2, <2>4, FollowsBoth
  <2>6. /\ Passes(args, Needs({"schema"}))
        /\ "query" \in DOMAIN args => Passes(args, Needs({"query"}))
    BY <2>1, <2>5, PassesAll, TypesFit DEF SchemaAndQuery, Needs
  <2>7. /\ Passes(args, All({"parserMode"}, "parserMode"))
        /\ Passes(args, All({"rawCypher"}, "optionalString"))
        /\ Passes(args, All({"uri"}, "optionalString"))
    BY <2>4, <2>5, PassesAll, TypesFit, MostMayLack
  <2>8. Passes(args, RepairOptions)
    BY <2>3, SharedOptions
  <2>9. QED
    BY <2>6, <2>7, <2>8, PassesBoth DEF LspOptions
<1>5. CASE "rawCypher" \in DOMAIN args
  <2>1. reads = always ++ Nothing
    BY <1>5 DEF Reads
  <2>2. DOMAIN reads = {"schema", "rawCypher", "uri", "parserMode", "defaultLimit",
                        "defaultMaxHops"}
    BY <2>1, SharedNames DEF ++, All, Needs, Nothing, LspOptions
  <2>3. Good(args, Published["cypher_lsp_diagnostics"]) => Passes(args, reads)
    BY <1>4, <2>1, PassesNothing, PassesBoth
  <2>4. DOMAIN args \subseteq DOMAIN properties
          => Excused("cypher_lsp_diagnostics", args, DOMAIN args \ DOMAIN reads)
    BY <1>3, <1>5, <2>2 DEF Excused
  <2>5. QED
    BY <1>2, <1>3, <2>2, <2>3, <2>4, ToolIsSound
<1>6. CASE "rawCypher" \notin DOMAIN args
  <2>1. reads = always ++ Needs({"query"})
    BY <1>6 DEF Reads
  <2>2. DOMAIN reads = DOMAIN properties
    BY <1>3, <2>1, SharedNames DEF ++, All, Needs, LspOptions
  <2>3. Good(args, Published["cypher_lsp_diagnostics"])
          /\ ~AskedForBesides("cypher_lsp_diagnostics", args) => Passes(args, reads)
    <3>1. ~AskedForBesides("cypher_lsp_diagnostics", args) => "query" \in DOMAIN args
      BY <1>6 DEF AskedForBesides
    <3>2. QED
      BY <1>4, <2>1, <3>1, PassesBoth
  <2>4. DOMAIN args \subseteq DOMAIN properties
          => Excused("cypher_lsp_diagnostics", args, DOMAIN args \ DOMAIN reads)
    BY <2>2 DEF Excused
  <2>5. QED
    BY <1>2, <2>2, <2>3, <2>4, ToolIsSound
<1>7. QED
  BY <1>5, <1>6

LEMMA ToolsAreSound == ASSUME NEW args, NEW tool \in ToolNames PROVE Sound(tool, args)
<1>1. CASE tool \in DOMAIN AuthoringTools
  BY <1>1, GroupNames, RenderIsSound, ValidateIsSound, RepairIsSound, RepairPlanIsSound
<1>2. CASE tool \in DOMAIN ParsingTools
  BY <1>2, GroupNames, ConformanceIsSound, ParseIsSound, ParseCheckIsSound
<1>3. CASE tool \in DOMAIN PolicyTools
  BY <1>3, GroupNames, PolicyCheckIsSound, PolicyEvalIsSound, PlainTool, DiagnosticsIsSound
<1>4. CASE tool \in DOMAIN ProofTools
  BY <1>4, GroupNames, ProveIsSound, WorkspaceIsSound
<1>5. CASE tool \in DOMAIN CatalogTools
  BY <1>5, GroupNames, PlainTool, DiffIsSound, OpenApiIsSound
<1>6. CASE tool \in DOMAIN EvalTools
  BY <1>6, GroupNames, EvalIsSound, ScorecardIsSound, GateIsSound, RetryIsSound,
     GovernanceIsSound
<1>7. QED
  BY <1>1, <1>2, <1>3, <1>4, <1>5, <1>6, NamesOfTools

LEMMA IInvAccepts == IInv => PublishedCallsAreAccepted
<1> SUFFICES ASSUME IInv, NEW k \in DOMAIN answers, IsToolCall(script[answers[k].line]),
                    Conforms(script[answers[k].line].name, script[answers[k].line].args),
                    ~AskedForBesides(script[answers[k].line].name,
                                     script[answers[k].line].args)
             PROVE  answers[k].says # "refused"
  BY DEF PublishedCallsAreAccepted, ToolAnswers, IsToolCall
<1> DEFINE l == script[answers[k].line]
<1>1. Told(l, answers[k].says, answers[k].passed)
  BY DEF IInv, AnswersTold
<1>2. Sound(l.name, l.args)
  BY ToolsAreSound DEF IsToolCall
<1>3. Accepts(l.name, l.args)
  BY <1>2 DEF Sound
<1>4. QED
  BY <1>1, <1>3 DEF Told

LEMMA IInvArrives == IInv => StatedArgumentsArrive
<1> SUFFICES ASSUME IInv, NEW k \in DOMAIN answers, IsToolCall(script[answers[k].line])
             PROVE  LET l == script[answers[k].line]
                        a == answers[k]
                    IN  /\ a.passed \subseteq DOMAIN Published[l.name].properties
                        /\ Conforms(l.name, l.args) /\ a.says \in {"result", "failed"} =>
                             Excused(l.name, l.args, DOMAIN l.args \ a.passed)
  BY DEF StatedArgumentsArrive, ToolAnswers, IsToolCall, Excused
<1> DEFINE l == script[answers[k].line]
           a == answers[k]
<1>1. Told(l, a.says, a.passed)
  BY DEF IInv, AnswersTold
<1>2. Sound(l.name, l.args)
  BY ToolsAreSound DEF IsToolCall
<1>3. CASE a.says \in {"result", "failed"}
  <2>1. Accepts(l.name, l.args) /\ a.passed = DOMAIN Reads(l.name, l.args) \cap DOMAIN l.args
    BY <1>1, <1>3 DEF Told, Passed
  <2>2. DOMAIN l.args \ a.passed = DOMAIN l.args \ DOMAIN Reads(l.name, l.args)
    BY <2>1
  <2>3. QED
    BY <1>2, <2>1, <2>2 DEF Sound
<1>4. CASE a.says \notin {"result", "failed"}
  BY <1>1, <1>4 DEF Told
<1>5. QED
  BY <1>3, <1>4

(***************************************************************************)
(* Whatever arguments a client gives a tool, in whatever script: if they   *)
(* keep to the schema the tool publishes, the call is refused for the      *)
(* reasons of AskedForBesides only (tools.ts: the schemas against the      *)
(* readers of the 25 tools).                                               *)
(***************************************************************************)
THEOREM CallsAccepted == Spec => []PublishedCallsAreAccepted
BY Invariance, IInvAccepts, PTL

(***************************************************************************)
(* No tool passes on an argument it does not publish, and of a call that   *)
(* keeps to the schema nothing is lost but what a text makes superfluous   *)
(* (tools.ts: the options each tool copies).                               *)
(***************************************************************************)
THEOREM ArgumentsArrive == Spec => []StatedArgumentsArrive
BY Invariance, IInvArrives, PTL

=============================================================================
