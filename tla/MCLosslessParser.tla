-------------------------- MODULE MCLosslessParser --------------------------
(***************************************************************************)
(* Texts for LosslessParser.  All texts of up to five symbols over small   *)
(* alphabets meet every combination of comments, quotes, escapes, brackets *)
(* and terminators; texts of whole phrases meet the clauses.  Each text is *)
(* also one that RawRepair may be given.                                   *)
(***************************************************************************)
EXTENDS LosslessParser, RawRepair

CONSTANTS Length,    \* of texts over an alphabet
          Phrases    \* in a text of phrases

x == "x"
MCNames == {x, "STARTS", "WHERE"}

CommentSymbols == {"/", "*", "\n", ";", " ", "MATCH"}
QuoteSymbols   == {"'", Backtick, "\\", ";", " ", "MATCH"}
MixedSymbols   == {"'", "/", "*", "\n", ";", "\\"}
BracketSymbols == {"(", ")", "{", "}", ";", "RETURN"}
WordSymbols    == {"OPTIONAL", "MATCH", " ", x, "\n", "("}

ClausePhrases ==
  {<<"MATCH", " ", "(", ")", " ">>, <<"RETURN", " ", x, " ">>, <<"OPTIONAL", " ">>,
   <<"CREATE", " ", "(", ")", "\n">>, <<"CALL", " ", "{", " ">>, <<"}", " ">>,
   <<"WITH", " ", x, ",", x>>, <<"STARTS", " ">>, <<"WHERE", " ", x, " ">>,
   <<"CALL", " ", x, "(", ")", " ">>, <<"MATCH", " ", "(", ")", Relationship, "(", x, ")", "\n">>,
   <<"/", "*", x, "*", "/">>, <<"/", "/", x, "\n">>, <<"\"", "RETURN", "\\", "\"">>, <<";">>}

\* A name that is a type and a label, one with a backtick, a plain one.
TwoWords == <<x, " ", "WHERE">>
Ticked   == <<x, Backtick>>
MCRelationshipTypes == <<TwoWords, <<x>> >>
MCNodeNames         == <<TwoWords, Ticked>>

NamePhrases == {<<":">>, <<".">>, TwoWords, Ticked, <<")">>, <<" ">>}

MCSources ==
  UNION {SeqOf(symbols, Length) :
           symbols \in {CommentSymbols, QuoteSymbols, MixedSymbols, BracketSymbols, WordSymbols}}
  \cup {FlattenSeq(phrases) : phrases \in SeqOf(ClausePhrases, Phrases)}
  \cup {FlattenSeq(phrases) : phrases \in SeqOf(NamePhrases, Length)}

\* Two matches, the first perhaps optional, for the run on where annotations point.
MCMatches ==
  {FlattenSeq(<<start, <<" ", "(", ")", " ">>,
                <<"MATCH", " ", "(", ")", Relationship, "(", x, ")">> >>) :
     start \in {<<"MATCH">>, <<"OPTIONAL", " ", "MATCH">>}}

\* Under a contract in which no name goes on where another one ends, what
\* repairRawCypher does to a text is a patch of it: applied back to front by
\* the compiler or front to back by an editor, complete, and announced
\* (docs/API.md:92, "so an editor or agent can patch the original Cypher").
RawRepairIsAPatch ==
  phase = "fragments" /\ at = 0 => IsRepairedByPatch(source)
=============================================================================
