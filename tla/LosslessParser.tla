--------------------------- MODULE LosslessParser ---------------------------
(***************************************************************************)
(* parseCypherLosslessly of src/src/lossless-parser.ts.  One scanner cuts  *)
(* the source into fragments at its terminators, a second one looks for    *)
(* the clauses of each statement, and a third one, that of the raw lift,   *)
(* makes a preview of the IR whose clauses are then matched with those of  *)
(* the second.  A span is two offsets; its text is the source between.     *)
(***************************************************************************)
EXTENDS RawLift

CONSTANT Sources   \* the texts parsed

ASSUME SourcesAssumption == Sources \subseteq Seq(STRING)

VARIABLES
  source,       \* the text
  phase,        \* "fragments", "clauses", "preview" or "done"
  at,           \* the offset the scanner in its phase looks at
  stack,        \* brackets that scanner has open: their symbol and offset
  from,         \* where the fragment begun last starts
  fragments,    \* cut so far: their kind and span
  trivia,       \* comments: their kind and span
  faults,       \* diagnostics: their code and offset
  statements,   \* spans, offsets of their terminators, the clauses found in them
  current,      \* the statement the second scanner is in
  matches,      \* keywords found so far in the statement scanned
  preview       \* clauses of the IR preview, one per lifted clause, or <<>>

vars == <<source, phase, at, stack, from, fragments, trivia, faults, statements,
          current, matches, preview>>

Init ==
  /\ source \in Sources
  /\ phase = "fragments"
  /\ at = 0 /\ from = 0
  /\ stack = <<>> /\ fragments = <<>> /\ trivia = <<>> /\ faults = <<>>
  /\ statements = <<>> /\ current = 1 /\ matches = <<>> /\ preview = <<>>

Char == CharAt(source, at)
TextOf(span) == Slice(source, span.start, span.end)

-----------------------------------------------------------------------------
(* scanFragments.                                                          *)

Fault(code, offset) == [code |-> code, offset |-> offset]

\* Mutant: comments count as code.
NewFragmentOfInk(start, end) ==
  [kind |-> IF Trim(Slice(source, start, end)) # <<>> THEN "statement" ELSE "trivia",
   start |-> start, end |-> end]

\* A fragment with code in it is a statement, one without is trivia.
NewFragment(start, end) ==
  [kind |-> IF HasCypherCode(Slice(source, start, end)) THEN "statement" ELSE "trivia",
   start |-> start, end |-> end]

\* Statements with the fragment among them, if it is one.
WithStatement(new) ==
  IF new.kind = "statement"
  THEN Append(statements, [start |-> new.start, end |-> new.end,
                           terminator |-> None, clauses |-> <<>>])
  ELSE statements

\* A terminator is also that of the statement before it, if that has none.
Terminated(listed) ==
  IF listed = <<>> \/ Last(listed).terminator # None THEN listed
  ELSE [listed EXCEPT ![Len(listed)].terminator = at]

Scanning == phase = "fragments" /\ at < Len(source)
InComment == StartsLineComment(source, at) \/ StartsBlockComment(source, at)

LineComment ==
  /\ Scanning /\ StartsLineComment(source, at)
  /\ trivia' = Append(trivia, [kind |-> "line-comment", start |-> at,
                               end |-> LineCommentEnd(source, at)])
  /\ at' = LineCommentEnd(source, at)
  /\ UNCHANGED <<source, phase, stack, from, fragments, faults, statements, current,
                 matches, preview>>

BlockComment ==
  /\ Scanning /\ StartsBlockComment(source, at)
  /\ trivia' = Append(trivia, [kind |-> "block-comment", start |-> at,
                               end |-> BlockCommentEnd(source, at)])
  /\ faults' = IF IndexOfBlockEnd(source, at + 2) # None THEN faults
               ELSE Append(faults, Fault("lossless-unterminated-token", at))
  /\ at' = BlockCommentEnd(source, at)
  /\ UNCHANGED <<source, phase, stack, from, fragments, statements, current,
                 matches, preview>>

Quoted ==
  /\ Scanning /\ Char \in Quotes
  /\ LET token == SkipQuoted(source, at, Char)
     IN  /\ at' = token.end
         /\ faults' = IF token.closed THEN faults
                      ELSE Append(faults, Fault("lossless-unterminated-token", at))
  /\ UNCHANGED <<source, phase, stack, from, fragments, trivia, statements, current,
                 matches, preview>>

Open ==
  /\ Scanning /\ Char \in Openers
  /\ stack' = Append(stack, [char |-> Char, offset |-> at])
  /\ at' = at + 1
  /\ UNCHANGED <<source, phase, from, fragments, trivia, faults, statements, current,
                 matches, preview>>

Closes(char) == stack # <<>> /\ Last(stack).char = OpenerOf(char)

Close ==
  /\ Scanning /\ Char \in Closers
  /\ IF Closes(Char)
     THEN stack' = Front(stack) /\ UNCHANGED faults
     ELSE UNCHANGED stack /\ faults' = Append(faults, Fault("lossless-unmatched-delimiter", at))
  /\ at' = at + 1
  /\ UNCHANGED <<source, phase, from, fragments, trivia, statements, current,
                 matches, preview>>

\* The fragments with the one that ends at an offset, if it is not empty.
FragmentsUpTo(end) ==
  IF end <= from THEN <<>> ELSE <<NewFragment(from, end)>>

StatementsUpTo(end) ==
  IF end <= from THEN statements ELSE WithStatement(NewFragment(from, end))

Terminator ==
  /\ Scanning /\ Char = ";" /\ stack = <<>>
  /\ fragments' = fragments \o FragmentsUpTo(at)
                            \o <<[kind |-> "terminator", start |-> at, end |-> at + 1]>>
  /\ statements' = Terminated(StatementsUpTo(at))
  /\ from' = at + 1
  /\ at' = at + 1
  /\ UNCHANGED <<source, phase, stack, trivia, faults, current, matches, preview>>

OtherSymbol ==
  /\ Scanning
  /\ ~InComment
  /\ Char \notin Quotes \cup Openers \cup Closers
  /\ Char = ";" => stack # <<>>
  /\ at' = at + 1
  /\ UNCHANGED <<source, phase, stack, from, fragments, trivia, faults, statements, current,
                 matches, preview>>

\* The rest is a fragment too, and every bracket left open is reported.
EndOfSource ==
  /\ phase = "fragments" /\ at = Len(source)
  /\ fragments' = fragments \o FragmentsUpTo(at)
  /\ statements' = StatementsUpTo(at)
  /\ faults' = faults \o [k \in DOMAIN stack |->
                            Fault("lossless-unmatched-delimiter", stack[k].offset)]
  /\ phase' = IF statements' = <<>> THEN "preview" ELSE "clauses"
  /\ at' = 0 /\ stack' = <<>>
  /\ UNCHANGED <<source, from, trivia, current, matches, preview>>

-----------------------------------------------------------------------------
(* parseClauses, statement by statement; offsets are those in its text.    *)

Raw       == TextOf(statements[current])
InRaw     == CharAt(Raw, at)
Searching == phase = "clauses" /\ at < Len(Raw)

\* A line comment takes its newline along here, and nothing is reported.
PassToken ==
  /\ Searching
  /\ \/ /\ StartsLineComment(Raw, at)
        /\ at' = IF IndexOfNewline(Raw, at + 2) = None THEN Len(Raw)
                 ELSE IndexOfNewline(Raw, at + 2) + 1
     \/ /\ StartsBlockComment(Raw, at)
        /\ at' = BlockCommentEnd(Raw, at)
     \/ /\ InRaw \in Quotes
        /\ at' = SkipQuoted(Raw, at, InRaw).end
  /\ UNCHANGED <<source, phase, stack, from, fragments, trivia, faults, statements,
                 current, matches, preview>>

PassBracket ==
  /\ Searching
  /\ \/ /\ InRaw \in Openers
        /\ stack' = Append(stack, [char |-> InRaw, offset |-> at])
     \/ /\ InRaw \in Closers
        /\ stack' = IF Closes(InRaw) THEN Front(stack) ELSE stack
  /\ at' = at + 1
  /\ UNCHANGED <<source, phase, from, fragments, trivia, faults, statements,
                 current, matches, preview>>

AtToken == \/ StartsLineComment(Raw, at) \/ StartsBlockComment(Raw, at)
           \/ InRaw \in Quotes \cup Openers \cup Closers

FindClause ==
  /\ Searching /\ ~AtToken
  /\ stack = <<>>
  /\ KeywordAt(Raw, at) # <<>>
  /\ matches' = matches \o KeywordAt(Raw, at)
  /\ at' = KeywordAt(Raw, at)[1].end
  /\ UNCHANGED <<source, phase, stack, from, fragments, trivia, faults, statements,
                 current, preview>>

PassSymbol ==
  /\ Searching /\ ~AtToken
  /\ stack # <<>> \/ KeywordAt(Raw, at) = <<>>
  /\ at' = at + 1
  /\ UNCHANGED <<source, phase, stack, from, fragments, trivia, faults, statements,
                 current, matches, preview>>

\* Mutant: spans of clauses are those in the statement's text.
ClausesUnshifted(statement, found) ==
  LET End(k) == IF k < Len(found) THEN found[k + 1].start ELSE statement.end - statement.start
  IN  IF found = <<>>
      THEN <<[keyword |-> <<"RAW">>, raw |-> TextOf(statement),
              start |-> statement.start, end |-> statement.end, support |-> "raw", irPath |-> None]>>
      ELSE [k \in DOMAIN found |->
              [keyword |-> found[k].keyword,
               raw |-> Slice(TextOf(statement), found[k].start, End(k)), start |-> found[k].start,
               end |-> End(k), support |-> "unknown", irPath |-> None]]

\* A clause reaches to the next keyword or the end of its statement; a
\* statement without keywords is one raw clause.  Spans are in the source.
Clauses(statement, found) ==
  LET End(k) == IF k < Len(found) THEN found[k + 1].start ELSE statement.end - statement.start
  IN  IF found = <<>>
      THEN <<[keyword |-> <<"RAW">>, raw |-> TextOf(statement),
              start |-> statement.start, end |-> statement.end, support |-> "raw", irPath |-> None]>>
      ELSE [k \in DOMAIN found |->
              [keyword |-> found[k].keyword,
               raw |-> Slice(TextOf(statement), found[k].start, End(k)), start |-> statement.start + found[k].start,
               end |-> statement.start + End(k), support |-> "unknown", irPath |-> None]]

EndOfStatement ==
  /\ phase = "clauses" /\ at = Len(Raw)
  /\ statements' = [statements EXCEPT ![current].clauses =
                                        Clauses(statements[current], matches)]
  /\ current' = current + 1
  /\ phase' = IF current = Len(statements) THEN "preview" ELSE "clauses"
  /\ at' = 0 /\ stack' = <<>> /\ matches' = <<>>
  /\ UNCHANGED <<source, from, fragments, trivia, faults, preview>>

-----------------------------------------------------------------------------
(* buildIrPreview.                                                         *)

Stripped(clause) == Trim(StripCypherComments(clause.raw))

Joined(text, clause) ==
  CASE Stripped(clause) = <<>> -> text
    [] Stripped(clause) # <<>> /\ text = <<>> -> Stripped(clause)
    [] OTHER -> text \o <<" ">> \o Stripped(clause)

\* The clauses of the only statement without their comments, one blank apart.
LiftSource(clauses) == FoldLeft(Joined, <<>>, clauses)

KindOf(keyword) ==
  CASE keyword = <<"MATCH">> \/ keyword = <<"OPTIONAL", "MATCH">> -> "match"
    [] keyword = <<"WITH">>   -> "with"
    [] keyword = <<"RETURN">> -> "return"
    [] keyword = <<"CALL">>   -> "call"
    [] OTHER -> "other"

Kinds == {"match", "with", "return", "call", "other"}

\* The first clause of some kinds from a cursor on that nothing stands for yet,
\* or 0.
FirstUnknown(clauses, cursor, kinds) ==
  LET fitting == {k \in cursor..Len(clauses) :
                    clauses[k].support = "unknown" /\ KindOf(clauses[k].keyword) \in kinds}
  IN  IF fitting = {} THEN 0 ELSE Min(fitting)

\* A raw clause stands for the first run of clauses whose text it includes, or
\* for the next one if it includes none.
MarkRawCovered(clauses, cursor, raw) ==
  LET text == NormalizeClauseText(raw)
      Covered(k) ==
        LET own == NormalizeClauseText(clauses[k].raw) IN own # <<>> /\ Includes(text, own)
      first == {k \in cursor..Len(clauses) : Covered(k) /\ \A j \in cursor..(k - 1) : ~Covered(j)}
      run   == {k \in cursor..Len(clauses) :
                  \E f \in first : f <= k /\ \A j \in f..k : Covered(j)}
      next  == FirstUnknown(clauses, cursor, Kinds)
      marked == IF run # {} THEN run ELSE {next} \ {0}
  IN  [clauses |-> [k \in DOMAIN clauses |->
                      IF k \in marked
                      THEN [clauses[k] EXCEPT !.support = "raw", !.irPath = None]
                      ELSE clauses[k]],
       cursor |-> IF marked = {} THEN cursor ELSE Max(marked) + 1]

\* Mutant: the cursor stays, and a clause already stood for is found again.
MarkLiftedAgain(clauses, cursor, kind, path) ==
  LET fitting == {k \in DOMAIN clauses : KindOf(clauses[k].keyword) = kind}
  IN  IF fitting = {} THEN [clauses |-> clauses, cursor |-> cursor]
      ELSE [clauses |-> [clauses EXCEPT ![Min(fitting)].support = "lifted",
                                        ![Min(fitting)].irPath = path],
            cursor  |-> cursor]

\* A structured clause stands for the next clause of its kind.
MarkLifted(clauses, cursor, kind, path) ==
  LET k == FirstUnknown(clauses, cursor, {kind})
  IN  IF k = 0 THEN [clauses |-> clauses, cursor |-> cursor]
      ELSE [clauses |-> [clauses EXCEPT ![k].support = "lifted", ![k].irPath = path],
            cursor  |-> k + 1]

\* An entry is a lifted clause and its place in the preview.
Annotate(done, entry) ==
  IF entry.clause.kind = "raw"
  THEN MarkRawCovered(done.clauses, done.cursor, entry.clause.cypher)
  ELSE MarkLifted(done.clauses, done.cursor, entry.clause.kind, entry.path)

Unannotated(clauses) ==
  [k \in DOMAIN clauses |-> [clauses[k] EXCEPT !.support = "unknown", !.irPath = None]]

AnnotateIrPreviewSupport(clauses, lifted) ==
  FoldLeft(Annotate, [clauses |-> Unannotated(clauses), cursor |-> 1],
           [i \in DOMAIN lifted |-> [path |-> i, clause |-> lifted[i]]]).clauses

Previewed == /\ Len(statements) = 1 /\ statements[1].clauses # <<>>
             /\ LiftSource(statements[1].clauses) # <<>>

BuildIrPreview ==
  /\ phase = "preview" /\ Previewed
  /\ preview' = LiftRawCypherToIr(LiftSource(statements[1].clauses))
  /\ statements' = [statements EXCEPT ![1].clauses =
                      AnnotateIrPreviewSupport(statements[1].clauses, preview')]
  /\ phase' = "done"
  /\ UNCHANGED <<source, at, stack, from, fragments, trivia, faults, current, matches>>

NoPreview ==
  /\ phase = "preview" /\ ~Previewed
  /\ phase' = "done"
  /\ UNCHANGED <<source, at, stack, from, fragments, trivia, faults, statements,
                 current, matches, preview>>

Next ==
  \/ LineComment \/ BlockComment \/ Quoted \/ Open \/ Close \/ Terminator
  \/ OtherSymbol \/ EndOfSource
  \/ PassToken \/ PassBracket \/ FindClause \/ PassSymbol \/ EndOfStatement
  \/ BuildIrPreview \/ NoPreview

Spec == Init /\ [][Next]_vars

-----------------------------------------------------------------------------
(* buildSourceMap: what an entry is of, where in the report, its span and  *)
(* its text.  The id of an entry is its kind and its span.                 *)

Entry(kind, path, span, text) ==
  [kind |-> kind, path |-> path, id |-> <<kind, span.start, span.end>>, text |-> text]

SourceMap ==
  LET Listed(kind, list) ==
        {Entry(kind, <<k, 0>>, list[k], TextOf(list[k])) : k \in DOMAIN list}
      Ended == {k \in DOMAIN statements : statements[k].terminator # None}
      End(k) == [start |-> statements[k].terminator, end |-> statements[k].terminator + 1]
  IN  Listed("fragment", fragments) \cup Listed("trivia", trivia)
      \cup Listed("statement", statements)
      \cup {Entry("terminator", <<k, 0>>, End(k), <<";">>) : k \in Ended}
      \cup UNION {{Entry("clause", <<k, c>>, statements[k].clauses[c], statements[k].clauses[c].raw) :
                     c \in DOMAIN statements[k].clauses} : k \in DOMAIN statements}

-----------------------------------------------------------------------------
(* The reference: an automaton that reads the source one symbol at a time. *)
(* Its mode is "code", a part of a comment, the quote it is inside of, or  *)
(* that quote with the next symbol escaped.  A doubled quote is a quote    *)
(* that ends and one that begins.                                          *)

CommentModes == {"line", "opening", "block", "closing"}

InModeCode(c, next) ==
  CASE c = "/" /\ next = "/" -> "line"
    [] c = "/" /\ next = "*" -> "opening"
    [] c \in Quotes -> c
    [] OTHER -> "code"

InModeQuote(quote, c) ==
  CASE c = "\\" /\ quote = "'"  -> "escaped single"
    [] c = "\\" /\ quote = "\"" -> "escaped double"
    [] c = quote -> "code"
    [] OTHER -> quote

NextMode(mode, c, next) ==
  CASE mode = "code"    -> InModeCode(c, next)
    [] mode = "line"    -> IF c = "\n" THEN "code" ELSE "line"
    [] mode = "opening" -> "block"
    [] mode = "block"   -> IF c = "*" /\ next = "/" THEN "closing" ELSE "block"
    [] mode = "closing" -> "code"
    [] mode = "escaped single" -> "'"
    [] mode = "escaped double" -> "\""
    [] mode \in Quotes  -> InModeQuote(mode, c)

Offsets == 0..(Len(source) - 1)

\* ModesOf(text)[i + 1] is the mode before the symbol at offset i, and
\* ModesOf(text)[i + 2] the mode after it.
ModesOf(text) ==
  LET mode[k \in 1..(Len(text) + 1)] ==
        IF k = 1 THEN "code"
        ELSE NextMode(mode[k - 1], CharAt(text, k - 2), CharAt(text, k - 1))
  IN  mode

IsCode(modes, i)    == modes[i + 1] = "code" /\ modes[i + 2] = "code"
IsComment(modes, i) == modes[i + 2] \in CommentModes \/ modes[i + 1] = "closing"

Symbol(text, modes, i) ==
  [char |-> CharAt(text, i), offset |-> i, code |-> IsCode(modes, i)]

\* What is open after a symbol, from what is open before it.
Opened(open, symbol) ==
  CASE symbol.code /\ symbol.char \in Openers ->
         Append(open, [char |-> symbol.char, offset |-> symbol.offset])
    [] symbol.code /\ symbol.char \in Closers
         /\ open # <<>> /\ Last(open).char = OpenerOf(symbol.char) -> Front(open)
    [] OTHER -> open

\* The brackets open before each offset, those in code.
OpensOf(text, modes) ==
  LET open[k \in 1..(Len(text) + 1)] ==
        IF k = 1 THEN <<>> ELSE Opened(open[k - 1], Symbol(text, modes, k - 2))
  IN  open

\* There is more to read between two offsets than blanks and comments.
Inked(modes, start, end) ==
  \E i \in start..(end - 1) : CharAt(source, i) \notin Blank /\ ~IsComment(modes, i)

\* A statement ends where a semicolon stands in code outside brackets.
Cuts(modes, opens) ==
  {i \in Offsets : CharAt(source, i) = ";" /\ IsCode(modes, i) /\ opens[i + 1] = <<>>}

\* The quote that begins here is the second one of two.
Doubled(modes) ==
  {i \in Offsets : i > 0 /\ modes[i] \in Quotes /\ CharAt(source, i - 1) = CharAt(source, i)}

\* A quoted token or a comment begins with the symbol.
Begins(modes) ==
  {i \in Offsets \ Doubled(modes) : modes[i + 1] = "code" /\ modes[i + 2] # "code"}

\* A closing bracket closes nothing.
Unmatched(modes, opens) ==
  {i \in Offsets : /\ CharAt(source, i) \in Closers /\ IsCode(modes, i)
                   /\ opens[i + 2] = opens[i + 1]}

\* A keyword stands in code, outside brackets and words.
Starts(modes, opens, i) ==
  /\ IsCode(modes, i) /\ opens[i + 1] = <<>>
  /\ CharAt(source, i - 1) \notin Words /\ CharAt(source, i + 1) \notin Words
  /\ KeywordAt(source, i) # <<>>

\* It is a part of a keyword that begins before.
Second(modes, opens, i) ==
  \E j \in 0..(i - 1) : Starts(modes, opens, j) /\ i < KeywordAt(source, j)[1].end

Done == phase = "done"
Spans(list) == {<<list[k].start, list[k].end>> : k \in DOMAIN list}
SpansOf(list, kind) ==
  {<<list[k].start, list[k].end>> : k \in {j \in DOMAIN list : list[j].kind = kind}}

-----------------------------------------------------------------------------
(* Properties.                                                             *)

Supports == {"lifted", "raw", "unknown"}

\* Offsets lie in the source, fragments and comments have their kinds, and
\* statements their clauses; the second scanner stays in the statements.
TypeOK ==
  /\ source \in Seq(STRING)
  /\ phase \in {"fragments", "clauses", "preview", "done"}
  /\ at \in 0..Len(source) /\ from \in 0..Len(source)
  /\ \A k \in DOMAIN stack : stack[k].char \in Openers /\ stack[k].offset \in Offsets
  /\ \A k \in DOMAIN fragments : fragments[k].kind \in {"statement", "terminator", "trivia"}
  /\ \A k \in DOMAIN trivia : trivia[k].kind \in {"line-comment", "block-comment"}
  /\ current \in 1..(Len(statements) + 1)
  /\ phase = "clauses" => current <= Len(statements) /\ at <= Len(Raw)
  /\ \A k \in DOMAIN statements : \A c \in DOMAIN statements[k].clauses :
       statements[k].clauses[c].support \in Supports

\* The fragments tile the source, and they are cut exactly at the semicolons a
\* reader finds in code outside brackets; a fragment with more than blanks and
\* comments is a statement, and nothing else is (scanFragments,
\* addStatementOrTrivia and the strip of hasCypherCode).
FragmentsAreCutInCode ==
  Done =>
    LET modes == ModesOf(source)
        opens == OpensOf(source, modes)
    IN  /\ \A k \in DOMAIN fragments :
             /\ fragments[k].start = IF k = 1 THEN 0 ELSE fragments[k - 1].end
             /\ fragments[k].start < fragments[k].end
             /\ fragments[k].kind # "terminator" =>
                  (fragments[k].kind = "statement"
                     <=> Inked(modes, fragments[k].start, fragments[k].end))
        /\ source # <<>> => Last(fragments).end = Len(source)
        /\ SpansOf(fragments, "terminator") = {<<i, i + 1>> : i \in Cuts(modes, opens)}
        /\ Spans(statements) = SpansOf(fragments, "statement")

\* A symbol is in a comment listed exactly where a reader is in a comment, and
\* the diagnostics name exactly the token that never ends, the closing
\* brackets that close nothing and the opening ones nothing closes, each once.
CommentsAndFaultsAreExact ==
  Done =>
    LET modes == ModesOf(source)
        opens == OpensOf(source, modes)
        unterminated == IF Last(modes) \in {"code", "line", "closing"} THEN {}
                        ELSE {Max(Begins(modes))}
        unclosed == {b.offset : b \in ToSet(Last(opens))}
    IN  /\ \A i \in Offsets :
             IsComment(modes, i) <=> \E k \in DOMAIN trivia : i \in trivia[k].start..(trivia[k].end - 1)
        /\ ToSet(faults) =
             {Fault("lossless-unterminated-token", i) : i \in unterminated}
             \cup {Fault("lossless-unmatched-delimiter", i) : i \in Unmatched(modes, opens) \cup unclosed}
        /\ IsInjective(faults)

\* The two scanners agree: clauses begin at the keywords a reader of the whole
\* source finds in code, outside brackets and words, and each reaches to the
\* next or to the end of its statement (findClauseStarts, parseClauses).
ClausesStartInCode ==
  Done =>
    LET modes == ModesOf(source)
        opens == OpensOf(source, modes)
    IN  \A k \in DOMAIN statements :
          LET s == statements[k]
              cs == s.clauses
              keywords == {i \in s.start..(s.end - 1) :
                             Starts(modes, opens, i) /\ ~Second(modes, opens, i)}
          IN  /\ cs # <<>>
              /\ \A c \in DOMAIN cs : cs[c].end = IF c < Len(cs) THEN cs[c + 1].start ELSE s.end
              /\ IF keywords = {} THEN Spans(cs) = {<<s.start, s.end>>}
                 ELSE {cs[c].start : c \in DOMAIN cs} = keywords

\* The place of an offset as a reader counts it.
PlaceOf(offset) ==
  LET newlines == {i \in 1..offset : source[i] = "\n"}
  IN  [line |-> Cardinality(newlines), character |-> offset - Max(newlines \cup {0})]

\* The three ways an entry of the source map says where it is agree: its text
\* is the source between its offsets, which are shifted from those of the
\* statement (parseClauses), and its lines and characters, which a binary
\* search over line starts finds, are those of counting newlines, also at the
\* end of the text.  No two entries have one id.
EntriesNameTheirPlace ==
  Done =>
    LET starts == LineStarts(source)
    IN  \A e \in SourceMap :
          /\ e.text = Slice(source, e.id[2], e.id[3])
          /\ \A k \in {2, 3} : PositionAt(starts, e.id[k]) = PlaceOf(e.id[k])
          /\ \A d \in SourceMap : d.id = e.id => d.path = e.path

\* A clause said to be lifted names a structured clause of the preview of its
\* own kind, and the order of the source is that of the preview, so no two
\* clauses name the same one (annotateIrPreviewSupport).
AnnotationsKeepOrder ==
  Done /\ preview # <<>> =>
    LET cs == statements[1].clauses
        lifted == {k \in DOMAIN cs : cs[k].support = "lifted"}
    IN  /\ \A k \in DOMAIN cs : k \in lifted <=> cs[k].irPath # None
        /\ \A k \in lifted : preview[cs[k].irPath].kind = KindOf(cs[k].keyword)
        /\ \A j, k \in lifted : j < k => cs[j].irPath < cs[k].irPath

\* Where the text of a clause begins in the text that is lifted.
LiftOffset(clauses, k) ==
  LET before == LiftSource(SubSeq(clauses, 1, k - 1))
  IN  IF before = <<>> THEN 0 ELSE Len(before) + 1

\* Both scanners cut the text alike, and each of its clauses became structured.
FullySupported(clauses) ==
  /\ ClauseOffsets(LiftSource(clauses)) = [k \in DOMAIN clauses |-> LiftOffset(clauses, k)]
  /\ \A i \in DOMAIN preview : preview[i].kind # "raw"

\* In a query the lift supports throughout, every clause of the source is
\* lifted, and its path is that of the clause made from its own text
\* (annotateIrPreviewSupport, after two scanners that know nothing of each other).
SupportedQueriesPointHome ==
  Done /\ preview # <<>> =>
    LET cs == statements[1].clauses
    IN  FullySupported(cs) =>
          \A k \in DOMAIN cs : cs[k].support = "lifted" /\ cs[k].irPath = k

\* A clause said to be lifted names the clause made from its own text, one that
\* begins in it: docs/API.md:116 has "source clauses mapped to
\* `/clauses/{index}` paths where lifting succeeds".
AnnotationsPointHome ==
  Done /\ preview # <<>> =>
    LET cs == statements[1].clauses
        Span(k) == LiftOffset(cs, k)..(LiftOffset(cs, k) + Len(Stripped(cs[k])) - 1)
    IN  \A k \in DOMAIN cs : cs[k].support = "lifted" =>
          ClauseOffsets(LiftSource(cs))[cs[k].irPath] \in Span(k)

=============================================================================
