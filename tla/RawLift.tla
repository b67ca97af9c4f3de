------------------------------- MODULE RawLift -------------------------------
(***************************************************************************)
(* The bridge from Cypher text to the query IR (src/src/raw-lift.ts): how  *)
(* the text is split into clauses, and which of them become structured     *)
(* clauses.  Its scanner is its own: it knows neither comments, escapes    *)
(* nor brackets where it looks for clauses.  Left out: the fields of a     *)
(* lifted clause, and named paths and YIELD, whose symbols no text has.    *)
(* The symbol "-[]-" stands for a relationship and its two dashes.         *)
(***************************************************************************)
EXTENDS CypherText

Relationship == "-[]-"

LiftKeywords ==
  {<<"OPTIONAL", " ", "MATCH">>, <<"MATCH">>, <<"WITH">>, <<"RETURN">>, <<"CALL">>}

\* A keyword counts between blanks or the ends of the text.
MatchesKeywordAt(text, keyword, i) ==
  /\ CharAt(text, i - 1) \in Blank \cup {EndOfText}
  /\ Slice(text, i, i + Len(keyword)) = keyword
  /\ CharAt(text, i + Len(keyword)) \in Blank \cup {EndOfText}

NoQuote == "none"

\* The quote a text is inside of before an offset, or none: the next such
\* quote ends it.
OpenQuote(text, i) ==
  LET Read(open, c) ==
        IF open = NoQuote THEN (IF c \in Quotes THEN c ELSE NoQuote)
        ELSE (IF c = open THEN NoQuote ELSE open)
  IN  FoldLeft(Read, NoQuote, Slice(text, 0, i))

\* Brackets opened and not closed before an offset, those in quotes aside.
DepthAt(text, i) ==
  LET Count(S) ==
        Cardinality({j \in 0..(i - 1) : CharAt(text, j) \in S /\ OpenQuote(text, j) = NoQuote})
  IN  Count(Openers) - Count(Closers)

ClauseOffsets(text) ==
  InOrder({i \in From(text, 0) : /\ OpenQuote(text, i) = NoQuote
                                 /\ \E keyword \in LiftKeywords : MatchesKeywordAt(text, keyword, i)})

\* The scanner goes on symbol by symbol after a keyword, so MATCH begins a
\* clause of its own also where OPTIONAL stands before it.  What precedes the
\* first keyword is in no clause.
SplitClauses(text) ==
  LET starts == ClauseOffsets(text)
      End(k) == IF k < Len(starts) THEN starts[k + 1] ELSE Len(text)
  IN  [k \in 1..Len(starts) |-> Trim(Slice(text, starts[k], End(k)))]

\* The parts of a text between separators outside quotes and brackets.
SplitTopLevel(text, separator) ==
  LET cuts == InOrder({i \in From(text, 0) : /\ CharAt(text, i) = separator
                                             /\ OpenQuote(text, i) = NoQuote
                                             /\ DepthAt(text, i) = 0})
      Start(k) == IF k = 1 THEN 0 ELSE cuts[k - 1] + 1
      End(k)   == IF k <= Len(cuts) THEN cuts[k] ELSE Len(text)
  IN  [k \in 1..(Len(cuts) + 1) |-> Trim(Slice(text, Start(k), End(k)))]

\* What stands before the first keyword between blanks, wherever that is.
BeforeKeyword(text, keyword) ==
  LET at == First({i \in From(text, 1) : /\ CharAt(text, i) = keyword
                                         /\ CharAt(text, i - 1) \in Blank
                                         /\ CharAt(text, i + 1) \in Blank})
  IN  Trim(IF at = None THEN text ELSE Slice(text, 0, at))

-----------------------------------------------------------------------------
(* Which clauses become structured ones.                                   *)

IsNodeText(text) ==
  LET node == Trim(text)
  IN  /\ Len(node) >= 2
      /\ node[1] = "(" /\ Last(node) = ")"
      /\ \A i \in 2..(Len(node) - 1) : node[i] # ")"

\* A node, or two with one relationship between them; all else throws.
IsPathText(text) ==
  \/ IsNodeText(text)
  \/ \E i \in 1..Len(text) :
       /\ text[i] = Relationship
       /\ IsNodeText(SubSeq(text, 1, i - 1))
       /\ IsNodeText(SubSeq(text, i + 1, Len(text)))

\* A procedure's name, and its arguments on one line to the last bracket.
IsCallText(text) ==
  LET name  == AfterBlanks(text, 1)
      after == First({i \in From(text, name) : CharAt(text, i) \notin Words})
      open  == AfterBlanks(text, after)
  IN  /\ name > 1 /\ CharAt(text, name) \in Words /\ after # None
      /\ CharAt(text, open) = "("
      /\ Last(text) = ")" /\ Len(text) > open + 1
      /\ \A i \in (open + 2)..Len(text) : text[i] # "\n"

\* The text after a clause's keyword.
BodyOf(clause, keyword) == Trim(Slice(clause, Len(keyword), Len(clause)))

\* Every path of the pattern parses.  OPTIONAL MATCH begins no clause here.
LiftsAsMatch(clause) ==
  /\ clause[1] = "MATCH"
  /\ LET paths == SplitTopLevel(BeforeKeyword(BodyOf(clause, <<"MATCH">>), "WHERE"), ",")
     IN  \A k \in DOMAIN paths : IsPathText(paths[k])

\* Projections always lift: what is no known expression is kept as raw text in
\* them.  A match or a call of another shape throws, and becomes raw.
LiftClause(clause) ==
  [kind |-> CASE LiftsAsMatch(clause)    -> "match"
              [] clause[1] = "WITH"      -> "with"
              [] clause[1] = "RETURN"    -> "return"
              [] clause[1] = "CALL" /\ IsCallText(clause) -> "call"
              [] OTHER -> "raw",
   cypher |-> clause]

LiftRawCypherToIr(text) ==
  LET clauses == SplitClauses(text) IN [k \in DOMAIN clauses |-> LiftClause(clauses[k])]
=============================================================================
