----------------------------- MODULE CypherText -----------------------------
(***************************************************************************)
(* Reading Cypher as text: what src/src/lossless-parser.ts knows of        *)
(* comments, quotes, keywords and lines.  A text is a sequence of symbols. *)
(* A symbol is one character, or a whole word (a keyword or a name), since *)
(* no function here looks inside a word or tells its letters' case.        *)
(* Offsets start at 0, as in the code.                                     *)
(***************************************************************************)
EXTENDS Integers, Sequences, FiniteSets, SequencesExt

CONSTANT Names   \* words that are no keyword

Keywords ==
  {"OPTIONAL", "MATCH", "DETACH", "DELETE", "LOAD", "CSV", "UNION", "ALL",
   "FILTER", "RETURN", "WITH", "LET", "CALL", "UNWIND", "CREATE", "MERGE",
   "SET", "REMOVE", "FOREACH", "USE"}

\* Keywords of one clause, the longer phrase before its beginning.
ClauseKeywords ==
  << <<"OPTIONAL", "MATCH">>, <<"DETACH", "DELETE">>, <<"LOAD", "CSV">>,
     <<"UNION", "ALL">>, <<"MATCH">>, <<"FILTER">>, <<"RETURN">>, <<"WITH">>,
     <<"LET">>, <<"CALL">>, <<"UNWIND">>, <<"CREATE">>, <<"MERGE">>,
     <<"SET">>, <<"DELETE">>, <<"REMOVE">>, <<"FOREACH">>, <<"USE">>,
     <<"UNION">> >>

Words  == Keywords \cup Names
Blank  == {" ", "\n"}
Backtick == "backtick"
Quotes == {"'", "\"", Backtick}
CloserOf == [o \in {"(", "[", "{"} |->
               CASE o = "(" -> ")" [] o = "[" -> "]" [] o = "{" -> "}"]
Openers == DOMAIN CloserOf
Closers == {CloserOf[o] : o \in Openers}
OpenerOf(c) == CHOOSE o \in Openers : CloserOf[o] = c

None == -1

\* What stands before and after a text, where the code reads no character.
EndOfText == ""

\* Names are made of characters of identifiers (isIdentifierChar).
ASSUME NamesAssumption ==
  Names \cap (Blank \cup Quotes \cup Openers \cup Closers \cup {";", "/", "*", "\\", EndOfText}) = {}

CharAt(text, i)   == IF i \in 0..(Len(text) - 1) THEN text[i + 1] ELSE EndOfText
Slice(text, a, b) == SubSeq(text, a + 1, Min({b, Len(text)}))

\* The first of some offsets, or None.
First(offsets) == IF offsets = {} THEN None ELSE Min(offsets)

\* Some numbers in their order.
InOrder(numbers) ==
  [k \in 1..Cardinality(numbers) |->
     CHOOSE n \in numbers : Cardinality({m \in numbers : m < n}) = k - 1]

\* The offsets from i on.
From(text, i) == i..(Len(text) - 1)

IndexOfNewline(text, i)  == First({j \in From(text, i) : CharAt(text, j) = "\n"})
IndexOfBlockEnd(text, i) ==
  First({j \in From(text, i) : CharAt(text, j) = "*" /\ CharAt(text, j + 1) = "/"})
AfterBlanks(text, i) ==
  LET next == First({j \in From(text, i) : CharAt(text, j) \notin Blank})
  IN  IF next = None THEN Len(text) ELSE next

Trim(text) ==
  LET inked == {i \in 1..Len(text) : text[i] \notin Blank}
  IN  IF inked = {} THEN <<>> ELSE SubSeq(text, Min(inked), Max(inked))

-----------------------------------------------------------------------------
(* Comments and quotes.                                                    *)

StartsLineComment(text, i)  == CharAt(text, i) = "/" /\ CharAt(text, i + 1) = "/"
StartsBlockComment(text, i) == CharAt(text, i) = "/" /\ CharAt(text, i + 1) = "*"

\* Mutant: the end of a block comment is looked for from its slash on.
BlockCommentEndEarly(text, i) ==
  LET end == IndexOfBlockEnd(text, i + 1) IN IF end = None THEN Len(text) ELSE end + 2

\* A line comment ends before its newline, a block comment after its "*/".
LineCommentEnd(text, i) ==
  LET end == IndexOfNewline(text, i + 2) IN IF end = None THEN Len(text) ELSE end
BlockCommentEnd(text, i) ==
  LET end == IndexOfBlockEnd(text, i + 2) IN IF end = None THEN Len(text) ELSE end + 2

\* Mutant: a token that never ends is said to end where the search gave up.
SkipQuotedPast(text, start, quote) ==
  LET skip[i \in 0..(Len(text) + 1)] ==
        LET char == CharAt(text, i)
            kept == \/ char = "\\" /\ quote # Backtick
                    \/ char = quote /\ CharAt(text, i + 1) = quote
        IN  CASE i >= Len(text) -> [end |-> i, closed |-> FALSE]
              [] i < Len(text) /\ kept -> skip[i + 2]
              [] i < Len(text) /\ ~kept /\ char = quote -> [end |-> i + 1, closed |-> TRUE]
              [] OTHER -> skip[i + 1]
  IN  skip[start + 1]

\* Where the quoted token that starts at an offset ends: a doubled quote stays
\* inside, and so does what follows a backslash, except between backticks.
SkipQuoted(text, start, quote) ==
  LET skip[i \in 0..(Len(text) + 1)] ==
        LET char == CharAt(text, i)
            kept == \/ char = "\\" /\ quote # Backtick
                    \/ char = quote /\ CharAt(text, i + 1) = quote
        IN  CASE i >= Len(text) -> [end |-> Len(text), closed |-> FALSE]
              [] i < Len(text) /\ kept -> skip[i + 2]
              [] i < Len(text) /\ ~kept /\ char = quote -> [end |-> i + 1, closed |-> TRUE]
              [] OTHER -> skip[i + 1]
  IN  skip[start + 1]

\* A text without its comments: a blank stands for a block comment, a newline
\* for a line comment, and a line comment that ends the text leaves nothing.
StripCypherComments(text) ==
  LET strip[i \in 0..Len(text)] ==
        LET quoted == SkipQuoted(text, i, CharAt(text, i))
        IN  CASE i = Len(text) -> <<>>
              [] StartsLineComment(text, i) ->
                   IF IndexOfNewline(text, i + 2) = None THEN <<>>
                   ELSE <<"\n">> \o strip[IndexOfNewline(text, i + 2) + 1]
              [] StartsBlockComment(text, i) -> <<" ">> \o strip[BlockCommentEnd(text, i)]
              [] CharAt(text, i) \in Quotes -> Slice(text, i, quoted.end) \o strip[quoted.end]
              [] OTHER -> <<CharAt(text, i)>> \o strip[i + 1]
  IN  strip[0]

HasCypherCode(text) == Trim(StripCypherComments(text)) # <<>>

\* Stripped, with every run of blanks as one.
NormalizeClauseText(text) ==
  LET Squeeze(kept, c) ==
        CASE c \notin Blank -> Append(kept, c)
          [] c \in Blank /\ (kept = <<>> \/ Last(kept) # " ") -> Append(kept, " ")
          [] OTHER -> kept
  IN  Trim(FoldLeft(Squeeze, <<>>, StripCypherComments(text)))

Includes(text, part) ==
  \E i \in 0..(Len(text) - Len(part)) : Slice(text, i, i + Len(part)) = part

-----------------------------------------------------------------------------
(* Keywords.                                                               *)

IsIdentifierChar(c) == c \in Words
WordEnd(text, i, word) ==
  IF CharAt(text, i) = word /\ ~IsIdentifierChar(CharAt(text, i + 1)) THEN i + 1 ELSE None

\* The offset after a phrase whose words blanks separate, or None.
PhraseEnd(text, i, phrase) ==
  LET first == WordEnd(text, i, phrase[1])
  IN  IF Len(phrase) = 1 \/ first = None THEN first
      ELSE IF CharAt(text, first) \notin Blank THEN None
      ELSE WordEnd(text, AfterBlanks(text, first), phrase[2])

\* Mutant: a keyword is found at the end of a longer word.
KeywordAtInWord(text, i) ==
  LET found == First({k \in DOMAIN ClauseKeywords : PhraseEnd(text, i, ClauseKeywords[k]) # None})
  IN  IF found = None THEN <<>>
      ELSE <<[keyword |-> ClauseKeywords[found], start |-> i,
              end |-> PhraseEnd(text, i, ClauseKeywords[found])]>>

\* The clause keyword at an offset: a sequence of at most one match.
KeywordAt(text, i) ==
  LET found == First({k \in DOMAIN ClauseKeywords : PhraseEnd(text, i, ClauseKeywords[k]) # None})
  IN  IF IsIdentifierChar(CharAt(text, i - 1)) \/ found = None THEN <<>>
      ELSE <<[keyword |-> ClauseKeywords[found], start |-> i,
              end |-> PhraseEnd(text, i, ClauseKeywords[found])]>>

-----------------------------------------------------------------------------
(* Lines: positions are found by binary search over the starts of lines.   *)

LineStarts(text) == <<0>> \o InOrder({i \in 1..Len(text) : text[i] = "\n"})

PositionAt(starts, offset) ==
  LET lines == Len(starts)
      Next(line) == IF line + 1 < lines THEN starts[line + 2] ELSE offset + 1
      search[r \in (0..lines) \X (-1..(lines - 1))] ==
        LET mid == (r[1] + r[2]) \div 2
        IN  IF r[1] > r[2] THEN lines - 1
            ELSE IF offset < starts[mid + 1] THEN search[<<r[1], mid - 1>>]
            ELSE IF offset >= Next(mid) THEN search[<<mid + 1, r[2]>>]
            ELSE mid
      line == search[<<0, lines - 1>>]
  IN  [line |-> line, character |-> offset - starts[line + 1]]
=============================================================================
