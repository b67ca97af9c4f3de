------------------------------ MODULE RawRepair ------------------------------
(***************************************************************************)
(* repairRawCypher (src/src/repair.ts): names of the contract that are no  *)
(* plain identifiers are put between backticks in a text nobody parsed.    *)
(* The edits are also handed out one by one, for an editor to apply.       *)
(***************************************************************************)
EXTENDS CypherText

CONSTANTS
  RelationshipTypes,  \* the names of the contract, in its order; a name is
  NodeNames           \* itself a text

\* What may follow a name that is quoted; the text may also end there.
NameEnds == Blank \cup {"]", ")", "}", "|", ",", EndOfText}

IsPlain(name) == Len(name) = 1 /\ name[1] \in Words

\* A backtick in the name is doubled.
CypherIdentifier(name) ==
  <<Backtick>>
    \o FlattenSeq([i \in DOMAIN name |->
         IF name[i] = Backtick THEN <<Backtick, Backtick>> ELSE <<name[i]>>])
    \o <<Backtick>>

Edit(start, name) ==
  [start |-> start, end |-> start + Len(name),
   before |-> name, after |-> CypherIdentifier(name)]

\* The name stands after a colon or a dot that is at offset i.
IsNamed(text, i, name) ==
  /\ CharAt(text, i) \in {":", "."}
  /\ Slice(text, i + 1, i + 1 + Len(name)) = name
  /\ CharAt(text, i + 1 + Len(name)) \in NameEnds

\* The occurrences of a name, from the left, none inside another.
IdentifierTextEdits(text, name) ==
  LET find[i \in 0..Len(text)] ==
        CASE i = Len(text)          -> <<>>
          [] i < Len(text) /\ IsNamed(text, i, name)  ->
               <<Edit(i + 1, name)>> \o find[i + 1 + Len(name)]
          [] i < Len(text) /\ ~IsNamed(text, i, name) -> find[i + 1]
  IN  IF IsPlain(name) THEN <<>> ELSE find[0]

\* Mutant: a type and a label of one name both edit it.
ClaimTextEditsTwice(edits, claimed) == edits

\* An edit is dropped if its very span is claimed already.
ClaimTextEdits(edits, claimed) ==
  SelectSeq(edits, LAMBDA e : <<e.start, e.end>> \notin claimed)

\* The last edit in the text goes first, so that offsets before it stay.
ApplyTextEdits(text, edits) ==
  FoldLeft(LAMBDA output, e :
             Slice(output, 0, e.start) \o e.after \o Slice(output, e.end, Len(output)),
           text, SortSeq(edits, LAMBDA left, right : left.start > right.start))

ContainsWord(text, words) ==
  \E i \in 0..(Len(text) - 1) :
    /\ CharAt(text, i) \in words
    /\ ~IsIdentifierChar(CharAt(text, i - 1))
    /\ ~IsIdentifierChar(CharAt(text, i + 1))

OutputWords == {"MATCH", "RETURN", "WITH", "CALL", "CREATE", "MERGE", "UNWIND"}

RawDiagnostics(text, applied) ==
  {d \in {"no-cypher-output"}      : ~ContainsWord(text, OutputWords)}
    \cup {d \in {"sqlism-between"}        : ContainsWord(text, {"BETWEEN"})}
    \cup {d \in {"raw-identifier-quoted"} : applied # <<>>}

\* Every list of edits is looked for in the text as it came.
RepairRawCypher(text) ==
  LET QuoteName(done, name) ==
        LET edits == ClaimTextEdits(IdentifierTextEdits(text, name), done.claimed)
        IN  IF edits = <<>> THEN done
            ELSE [claimed |-> done.claimed
                                \cup {<<edits[k].start, edits[k].end>> : k \in DOMAIN edits},
                  applied |-> Append(done.applied, [name |-> name, textEdits |-> edits])]
      done  == FoldLeft(QuoteName, [claimed |-> {}, applied |-> <<>>],
                        RelationshipTypes \o NodeNames)
      edits == FlattenSeq([k \in DOMAIN done.applied |-> done.applied[k].textEdits])
  IN  [cypher      |-> ApplyTextEdits(text, edits),
       edits       |-> edits,
       applied     |-> done.applied,
       diagnostics |-> RawDiagnostics(text, done.applied)]

-----------------------------------------------------------------------------
(***************************************************************************)
(* What an editor makes of the edits: it reads the text once, from the     *)
(* front, and puts each new text where an edit begins.                     *)
(***************************************************************************)
Patched(text, edits) ==
  LET Put(read, e) == [out  |-> read.out \o Slice(text, read.from, e.start) \o e.after,
                       from |-> e.end]
      read == FoldLeft(Put, [out |-> <<>>, from |-> 0],
                       SortSeq(edits, LAMBDA left, right : left.start < right.start))
  IN  read.out \o Slice(text, read.from, Len(text))

\* The edits replace names of the contract by what they are quoted as, no two
\* of them meet, an editor that applies them gets the text the compiler gets,
\* none is left for a second repair, and a text is changed in silence never.
IsRepairedByPatch(text) ==
  LET r == RepairRawCypher(text)
  IN  /\ \A k \in DOMAIN r.edits :
           Slice(text, r.edits[k].start, r.edits[k].end) = r.edits[k].before
      /\ \A j, k \in DOMAIN r.edits :
           j # k => \/ r.edits[j].end <= r.edits[k].start
                    \/ r.edits[k].end <= r.edits[j].start
      /\ r.cypher = Patched(text, r.edits)
      /\ RepairRawCypher(r.cypher).edits = <<>>
      /\ r.cypher = text \/ "raw-identifier-quoted" \in r.diagnostics

=============================================================================
