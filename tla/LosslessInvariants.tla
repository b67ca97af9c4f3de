------------------------- MODULE LosslessInvariants -------------------------
(***************************************************************************)
(* The inductive invariants of LosslessParser, on which the proofs of      *)
(* LosslessParserProofs rest.  The first one keeps what the report lists   *)
(* in the text and in its order.  The second one holds what the first      *)
(* scanner has read so far against the modes and the open brackets of a    *)
(* reader of single symbols, and the third one what the second scanner has *)
(* found against a reader of its statement.                                *)
(***************************************************************************)
EXTENDS LosslessParser

-----------------------------------------------------------------------------
(***************************************************************************)
(* Texts.                                                                  *)
(***************************************************************************)
\* The symbols of a text, and of one without its comments: the provers do not
\* know that a literal is a string.
Symbols == STRING \cup Blank \cup {EndOfText}

Texts == Seq(Symbols)

KeywordPhrases == {ClauseKeywords[k] : k \in DOMAIN ClauseKeywords} \cup {<<"RAW">>}

Clause == [keyword : KeywordPhrases, raw : Texts, start : Nat, end : Nat,
           support : Supports, irPath : Int]

-----------------------------------------------------------------------------
(***************************************************************************)
(* The lists of the report lie in the text read so far, in its order: the  *)
(* first inductive invariant.                                              *)
(***************************************************************************)
Fragment  == [kind : {"statement", "terminator", "trivia"}, start : Nat, end : Nat]
Comment   == [kind : {"line-comment", "block-comment"}, start : Nat, end : Nat]
Statement == [start : Nat, end : Nat, terminator : Int, clauses : Seq(Clause)]
Match     == [keyword : KeywordPhrases, start : Nat, end : Nat]
Bracket   == [char : Openers, offset : Offsets]

\* Spans that are not empty, one after the other, up to a limit.
InLine(list, limit) ==
  /\ \A k \in DOMAIN list : list[k].start < list[k].end /\ list[k].end <= limit
  /\ \A j, k \in DOMAIN list : j < k => list[j].end <= list[k].start

\* Spans without a gap from 0 to a limit.
Tiles(list, limit) ==
  /\ list = <<>> => limit = 0
  /\ list # <<>> => Last(list).end = limit
  /\ \A k \in DOMAIN list : list[k].start = IF k = 1 THEN 0 ELSE list[k - 1].end

\* Where the statement read so far ends: the text, once it is cut.
CutTo  == IF phase = "fragments" THEN from ELSE Len(source)
ReadTo == IF phase = "fragments" THEN at ELSE Len(source)

StackInv == stack \in Seq(Bracket)

FragmentsInv ==
  /\ fragments \in Seq(Fragment)
  /\ InLine(fragments, CutTo) /\ Tiles(fragments, CutTo)

TriviaInv == trivia \in Seq(Comment) /\ InLine(trivia, ReadTo)

IsTerminator(offset) == source[offset + 1] = ";"

\* A terminator is the semicolon after its statement, before the next one.
Terminators(list, limit) ==
  \A k \in DOMAIN list :
    list[k].terminator # None =>
      /\ list[k].end <= list[k].terminator /\ list[k].terminator < limit
      /\ IsTerminator(list[k].terminator)
      /\ \A j \in DOMAIN list : k < j => list[k].terminator < list[j].start

StatementsInv ==
  statements \in Seq(Statement) /\ InLine(statements, CutTo) /\ Terminators(statements, CutTo)

\* Clauses are parts of their statement.
ClausesInv(statement) ==
  /\ InLine(statement.clauses, statement.end)
  /\ \A c \in DOMAIN statement.clauses :
       /\ statement.start <= statement.clauses[c].start
       /\ statement.clauses[c].raw =
            Slice(source, statement.clauses[c].start, statement.clauses[c].end)

PhaseInv ==
  /\ phase \in {"fragments", "clauses", "preview", "done"}
  /\ at \in Nat /\ from \in Nat /\ from <= ReadTo /\ at <= Len(source)
  /\ current \in Nat \ {0} /\ current <= Len(statements) + 1
  /\ phase = "fragments" => current = 1
  /\ phase = "clauses" => current <= Len(statements) /\ at <= Len(Raw)
  /\ matches \in Seq(Match) /\ InLine(matches, at)
  /\ phase # "clauses" => matches = <<>>
  /\ phase # "done" => preview = <<>>

Inv ==
  /\ source \in Seq(STRING)
  /\ PhaseInv /\ StackInv /\ FragmentsInv /\ TriviaInv /\ StatementsInv
  /\ \A k \in DOMAIN statements : ClausesInv(statements[k])
  /\ AnnotationsKeepOrder

-----------------------------------------------------------------------------
(***************************************************************************)
(* What a reader of a text finds, and where a scanner may stand.           *)
(***************************************************************************)
EscapeModes == {"escaped single", "escaped double"}
ModeSet     == {"code"} \cup CommentModes \cup Quotes \cup EscapeModes

\* The modes of a text that is read from any mode on.
Reads(m, text) ==
  /\ m \in Seq(ModeSet) /\ Len(m) = Len(text) + 1
  /\ \A i \in 0..(Len(text) - 1) :
       m[i + 2] = NextMode(m[i + 1], CharAt(text, i), CharAt(text, i + 1))

OpenBracket == [char : Openers, offset : Nat]
Opens       == Seq(OpenBracket)

\* The brackets open before each symbol of a text and at its end.
OpensRead(o, m, text) ==
  /\ o \in Seq(Opens) /\ Len(o) = Len(text) + 1 /\ o[1] = <<>>
  /\ \A i \in 0..(Len(text) - 1) : o[i + 2] = Opened(o[i + 1], Symbol(text, m, i))

\* A scanner may stand here: a reader is in code and no doubled quote is split,
\* or a line comment is over but for its newline.
Ready(m, text, i) ==
  i < Len(text) =>
    /\ ~(i > 0 /\ m[i] \in Quotes /\ CharAt(text, i - 1) = CharAt(text, i))
    /\ m[i + 1] = "code" \/ (m[i + 1] = "line" /\ CharAt(text, i) = "\n")

\* From one offset to another there is no code; it is a comment, or none of it is.
Passed(m, text, i, end, comment) ==
  /\ end \in Nat /\ i < end /\ end <= Len(text)
  /\ \A j \in i..(end - 1) : ~IsCode(m, j) /\ (IsComment(m, j) <=> comment)
  /\ Ready(m, text, end)

\* What a reader is in when nothing is missing.
Complete == {"code", "line", "closing"}

\* A token begins here, and the text ends in it.
Endless(m, text, i) ==
  /\ m[i + 1] = "code" /\ m[i + 2] # "code"
  /\ m[Len(text) + 1] \notin Complete
  /\ \A j \in (i + 1)..(Len(text) - 1) :
       m[j + 1] = "code" => m[j] \in Quotes /\ CharAt(text, j - 1) = CharAt(text, j)

-----------------------------------------------------------------------------
(***************************************************************************)
(* The report is what a reader of the reference finds: the second          *)
(* inductive invariant.                                                    *)
(***************************************************************************)
Modes   == ModesOf(source)
Nesting == OpensOf(source, Modes)

\* The scanner stands where it may, with the brackets of the reader; what it
\* cut last it cut in code, outside brackets, after a semicolon.
ScanInv ==
  phase = "fragments" =>
    /\ Ready(Modes, source, at)
    /\ stack = Nesting[at + 1]
    /\ Modes[from + 1] = "code" /\ Nesting[from + 1] = <<>>
    /\ from = 0 \/ CharAt(source, from - 1) = ";"

\* The reader is in a comment where a comment is listed.
CommentsInv ==
  \A i \in Offsets : i < ReadTo =>
    (IsComment(Modes, i) <=> \E k \in DOMAIN trivia : i \in trivia[k].start..(trivia[k].end - 1))

\* A statement begins in code, outside brackets, after a semicolon, and ends
\* with the text or before one.
IsCut(s) ==
  /\ Modes[s.start + 1] = "code" /\ Nesting[s.start + 1] = <<>>
  /\ s.start = 0 \/ CharAt(source, s.start - 1) = ";"
  /\ s.end = Len(source) \/ CharAt(source, s.end) = ";"

\* The terminators are where the reader cuts, up to a limit, and the statements
\* are the fragments with something in them.
CutsExact(listed, cut, limit) ==
  /\ SpansOf(cut, "terminator") = {<<i, i + 1>> : i \in {j \in Cuts(Modes, Nesting) : j < limit}}
  /\ \A k \in DOMAIN cut :
       cut[k].kind # "terminator" =>
         (cut[k].kind = "statement" <=> Inked(Modes, cut[k].start, cut[k].end))
  /\ Spans(listed) = SpansOf(cut, "statement")
  /\ \A k \in DOMAIN listed : IsCut(listed[k])

CutsInv == CutsExact(statements, fragments, ReadTo)

FaultCodes == {"lossless-unterminated-token", "lossless-unmatched-delimiter"}
Faults     == [code : FaultCodes, offset : Nat]

\* What a reader finds missing up to an offset: the end of the token it is in,
\* and what closing brackets would close.
Unterminated(n) == IF Modes[n + 1] \in Complete THEN {} ELSE {Max(Begins(Modes))}

Missing(ends, brackets) ==
  {Fault("lossless-unterminated-token", i) : i \in ends}
  \cup {Fault("lossless-unmatched-delimiter", i) : i \in brackets}

UnmatchedTo(n) == {j \in Unmatched(Modes, Nesting) : j < n}
Expected(n)    == Missing(Unterminated(n), UnmatchedTo(n))

\* What nothing closes up to the end.
Unclosed == {b.offset : b \in ToSet(Last(Nesting))}

FaultsInv ==
  IF phase = "fragments"
  THEN /\ faults \in Seq(Faults)
       /\ \A k \in DOMAIN faults : faults[k].offset < at
       /\ \A j, k \in DOMAIN faults : j < k => faults[j].offset < faults[k].offset
       /\ ToSet(faults) = Expected(at)
  ELSE /\ ToSet(faults) = Missing(Unterminated(Len(source)),
                                  Unmatched(Modes, Nesting) \cup Unclosed)
       /\ IsInjective(faults)

ReadInv == ScanInv /\ CommentsInv /\ CutsInv /\ FaultsInv

-----------------------------------------------------------------------------
(***************************************************************************)
(* The clauses of a statement are those a reader of its text alone finds:  *)
(* the third inductive invariant.                                          *)
(***************************************************************************)
\* A keyword stands in code outside brackets.
KeywordIn(m, o, text, i) == IsCode(m, i) /\ o[i + 1] = <<>> /\ KeywordAt(text, i) # <<>>
EndAt(text, i) == KeywordAt(text, i)[1].end

\* It is in no keyword that begins before.
IsHead(m, o, text, i) ==
  /\ KeywordIn(m, o, text, i)
  /\ \A j \in 0..(i - 1) : KeywordIn(m, o, text, j) => EndAt(text, j) <= i

\* Those before an offset, and that no keyword before it reaches over it.
Heads(m, o, text, n)   == {i \in 0..(n - 1) : IsHead(m, o, text, i)}
Cleared(m, o, text, n) == \A j \in 0..(n - 1) : KeywordIn(m, o, text, j) => EndAt(text, j) <= n

RawModes   == ModesOf(Raw)
RawNesting == OpensOf(Raw, RawModes)
StartsOf(found) == {found[k].start : k \in DOMAIN found}

\* In a text it reads from its beginning: where it is and what it has open,
\* and that it found every keyword it has passed.
SearchInv ==
  phase = "clauses" =>
    /\ Ready(RawModes, Raw, at)
    /\ stack = RawNesting[at + 1]
    /\ StartsOf(matches) = Heads(RawModes, RawNesting, Raw, at)
    /\ Cleared(RawModes, RawNesting, Raw, at)

HeadsOf(text) == LET m == ModesOf(text) IN Heads(m, OpensOf(text, m), text, Len(text))

\* Clauses begin at the keywords, and each reaches to the next.
ExactIn(text, s) ==
  LET heads == HeadsOf(Slice(text, s.start, s.end))
      cs    == s.clauses
  IN  /\ cs # <<>>
      /\ \A c \in DOMAIN cs : cs[c].end = IF c < Len(cs) THEN cs[c + 1].start ELSE s.end
      /\ heads = {} => Spans(cs) = {<<s.start, s.end>>}
      /\ heads # {} => StartsOf(cs) = {s.start + i : i \in heads}

\* The second scanner is done with the statement.
Scanned(k) == (phase = "clauses" /\ k < current) \/ phase \in {"preview", "done"}

ExactInv == \A k \in DOMAIN statements : Scanned(k) => ExactIn(source, statements[k])

=============================================================================
