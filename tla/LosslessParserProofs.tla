------------------------ MODULE LosslessParserProofs ------------------------
(***************************************************************************)
(* Proofs about LosslessParser, for any texts: its type invariant, that    *)
(* every entry of the source map names its place in the text, that the     *)
(* annotations keep the order of the preview, and that the fragments,      *)
(* the comments, the faults and the clauses are those that a reader of the *)
(* whole text finds.  They rest on the invariants of LosslessInvariants.   *)
(***************************************************************************)
EXTENDS LosslessInvariants, FiniteSetTheorems, SequenceTheorems, TLAPS

Joining == INSTANCE Folding WITH Op <- Joined

\* A text is a sequence of symbols.
LEMMA TextParts ==
  ASSUME NEW text \in Texts
  PROVE  /\ Len(text) \in Nat /\ DOMAIN text = 1..Len(text)
         /\ \A i \in 1..Len(text) : text[i] \in Symbols
BY DEF Texts

\* The length of a text is a number.
LEMMA LenType ==
  ASSUME NEW text \in Texts
  PROVE  Len(text) \in Nat
BY DEF Texts

\* Only offsets in a text have a symbol of it.
LEMMA CharWithin ==
  ASSUME NEW text \in Texts, NEW i, CharAt(text, i) # EndOfText
  PROVE  i \in 0..(Len(text) - 1) /\ CharAt(text, i) = text[i + 1]
BY DEF CharAt

\* No symbol that begins or ends a token is the end of the text.
LEMMA Literals ==
  /\ EndOfText # "/" /\ EndOfText # "*" /\ EndOfText # ";"
  /\ EndOfText \notin Quotes \cup Openers \cup Closers
  /\ None \notin Nat
<1>1. EndOfText # "/" /\ EndOfText # "*" /\ EndOfText # ";"
  BY Zenon DEF EndOfText
<1>2. EndOfText \notin Quotes \cup Openers
  BY Zenon DEF EndOfText, Quotes, Backtick, Openers, CloserOf
<1>3. EndOfText \notin Closers
  BY Zenon DEF EndOfText, Closers, Openers, CloserOf
<1>4. None \notin Nat
  BY DEF None
<1>5. QED
  BY <1>1, <1>2, <1>3, <1>4

\* A symbol that has a next one is not the last.
LEMMA PairWithin ==
  ASSUME NEW text \in Texts, NEW i \in Nat, CharAt(text, i + 1) # EndOfText
  PROVE  i + 2 \in Nat /\ i + 2 <= Len(text) /\ Len(text) \in Nat
<1>1. i + 1 \in 0..(Len(text) - 1)
  BY CharWithin
<1>2. QED
  BY <1>1, LenType

\* What stands at an offset is a symbol or the end of the text.
LEMMA CharType ==
  ASSUME NEW text \in Texts, NEW i
  PROVE  CharAt(text, i) \in Symbols
<1>1. CASE i \in 0..(Len(text) - 1)
  <2>1. i + 1 \in 1..Len(text)
    BY <1>1, LenType
  <2>2. QED
    BY <1>1, <2>1, TextParts DEF CharAt
<1>2. CASE i \notin 0..(Len(text) - 1)
  BY <1>2 DEF CharAt, Symbols
<1>3. QED
  BY <1>1, <1>2

\* The first of some offsets is the least, and None if there are none.
LEMMA FirstIsLeast ==
  ASSUME NEW S \in SUBSET Nat
  PROVE  /\ S = {} => First(S) = None
         /\ S # {} => /\ First(S) \in S /\ First(S) \in Nat
                      /\ \A n \in S : First(S) <= n
         /\ First(S) = None <=> S = {}
<1> DEFINE Without == {n \in Nat : \A m \in 0..n : m \notin S}
<1>1. ASSUME S # {}
      PROVE  \E x \in S : \A y \in S : x <= y
  <2>1. SUFFICES ASSUME \A x \in S : \E y \in S : ~(x <= y)
                 PROVE  S = {}
    BY <1>1
  <2>2. 0 \in Without
    <3>1. \A m \in 0..0 : m = 0
      OBVIOUS
    <3>2. 0 \notin S
      BY <2>1
    <3>3. QED
      BY <3>1, <3>2
  <2>3. ASSUME NEW n \in Nat, n \in Without
        PROVE  n + 1 \in Without
    <3>1. n + 1 \notin S
      <4>1. ASSUME n + 1 \in S
            PROVE  FALSE
        <5>1. PICK y \in S : ~(n + 1 <= y)
          BY <2>1, <4>1
        <5>2. y \in Nat /\ y \in 0..n
          BY <5>1
        <5>3. QED
          BY <2>3, <5>2
      <4>2. QED
        BY <4>1
    <3>2. \A m \in 0..(n + 1) : m \in 0..n \/ m = n + 1
      OBVIOUS
    <3>3. QED
      BY <2>3, <3>1, <3>2
  <2>4. Nat \subseteq Without
    <3> HIDE DEF Without
    <3>1. QED
      BY <2>2, <2>3, Joining!NaturalInduction
  <2>5. QED
    BY <2>4
<1>2. S # {} => First(S) = Min(S)
  BY DEF First
<1>3. S # {} => Min(S) \in S /\ \A y \in S : Min(S) <= y
  BY <1>1 DEF Min
<1>4. S = {} => First(S) = None
  BY DEF First
<1>5. None \notin Nat
  BY DEF None
<1>6. QED
  BY <1>2, <1>3, <1>4, <1>5

\* The offsets of a text from one on.
LEMMA FromParts ==
  ASSUME NEW text \in Texts, NEW i \in Nat, NEW j
  PROVE  /\ j \in From(text, i) <=> j \in Nat /\ i <= j /\ j < Len(text)
         /\ From(text, i) \in SUBSET Nat
BY LenType DEF From

\* A line comment ends at the first newline after its two slashes, or with the
\* text.
LEMMA LineCommentEnds ==
  ASSUME NEW text \in Texts, NEW i \in 0..(Len(text) - 1), StartsLineComment(text, i)
  PROVE  /\ LineCommentEnd(text, i) \in Nat
         /\ i + 2 <= LineCommentEnd(text, i) /\ LineCommentEnd(text, i) <= Len(text)
         /\ \A j \in (i + 2)..(LineCommentEnd(text, i) - 1) : CharAt(text, j) # "\n"
         /\ LineCommentEnd(text, i) < Len(text) => CharAt(text, LineCommentEnd(text, i)) = "\n"
<1> DEFINE S == {j \in From(text, i + 2) : CharAt(text, j) = "\n"}
           end == IndexOfNewline(text, i + 2)
<1>a. i \in Nat
  BY LenType
<1>b. CharAt(text, i + 1) # EndOfText
  BY Literals, Zenon DEF StartsLineComment
<1>1. i + 2 \in Nat /\ i + 2 <= Len(text) /\ Len(text) \in Nat
  BY <1>a, <1>b, PairWithin
<1>2. S \in SUBSET Nat /\ end = First(S)
  BY <1>1, FromParts DEF IndexOfNewline
<1>3. CASE S = {}
  <2>1. LineCommentEnd(text, i) = Len(text)
    BY <1>2, <1>3, FirstIsLeast DEF LineCommentEnd
  <2>2. \A j \in (i + 2)..(Len(text) - 1) : CharAt(text, j) # "\n"
    BY <1>1, <1>3, FromParts
  <2>3. QED
    BY <1>1, <2>1, <2>2
<1>4. CASE S # {}
  <2>1. end \in S /\ end \in Nat /\ \A n \in S : end <= n
    BY <1>2, <1>4, FirstIsLeast
  <2>2. LineCommentEnd(text, i) = end
    BY <2>1 DEF LineCommentEnd, None
  <2>3. i + 2 <= end /\ end < Len(text) /\ CharAt(text, end) = "\n"
    BY <1>1, <2>1, FromParts
  <2>4. \A j \in (i + 2)..(end - 1) : CharAt(text, j) # "\n"
    BY <1>1, <2>1, <2>3, FromParts
  <2>5. QED
    BY <1>1, <2>1, <2>2, <2>3, <2>4
<1>5. QED
  BY <1>3, <1>4

\* A block comment ends after the first star and slash in it, or with the text.
LEMMA BlockCommentEnds ==
  ASSUME NEW text \in Texts, NEW i \in 0..(Len(text) - 1), StartsBlockComment(text, i)
  PROVE  LET end == BlockCommentEnd(text, i)
             found == IndexOfBlockEnd(text, i + 2)
         IN  /\ end \in Nat /\ i + 2 <= end /\ end <= Len(text)
             /\ found # None =>
                  /\ found \in Nat /\ i + 2 <= found /\ end = found + 2
                  /\ CharAt(text, found) = "*" /\ CharAt(text, found + 1) = "/"
             /\ found = None => end = Len(text)
             /\ \A j \in (i + 2)..((IF found = None THEN Len(text) ELSE found) - 1) :
                  ~(CharAt(text, j) = "*" /\ CharAt(text, j + 1) = "/")
<1> DEFINE S == {j \in From(text, i + 2) : CharAt(text, j) = "*" /\ CharAt(text, j + 1) = "/"}
           found == IndexOfBlockEnd(text, i + 2)
<1>a. i \in Nat
  BY LenType
<1>b. CharAt(text, i + 1) # EndOfText
  BY Literals, Zenon DEF StartsBlockComment
<1>1. i + 2 \in Nat /\ i + 2 <= Len(text) /\ Len(text) \in Nat
  BY <1>a, <1>b, PairWithin
<1>2. S \in SUBSET Nat /\ found = First(S)
  BY <1>1, FromParts DEF IndexOfBlockEnd
<1>3. CASE S = {}
  <2>1. found = None /\ BlockCommentEnd(text, i) = Len(text)
    BY <1>2, <1>3, FirstIsLeast DEF BlockCommentEnd
  <2>2. \A j \in (i + 2)..(Len(text) - 1) : ~(CharAt(text, j) = "*" /\ CharAt(text, j + 1) = "/")
    <3>1. ASSUME NEW j \in (i + 2)..(Len(text) - 1)
          PROVE  ~(CharAt(text, j) = "*" /\ CharAt(text, j + 1) = "/")
      <4>1. j \in From(text, i + 2)
        BY <1>1, FromParts
      <4>2. j \notin S
        BY <1>3
      <4>3. QED
        BY <4>1, <4>2
    <3>2. QED
      BY <3>1
  <2>3. QED
    BY <1>1, <2>1, <2>2
<1>4. CASE S # {}
  <2>1. found \in S /\ found \in Nat /\ \A n \in S : found <= n
    <3> HIDE DEF S, found
    <3>1. First(S) \in S /\ First(S) \in Nat /\ \A n \in S : First(S) <= n
      BY <1>2, <1>4, FirstIsLeast
    <3>2. QED
      BY <1>2, <3>1
  <2>2. found # None /\ BlockCommentEnd(text, i) = found + 2
    BY <2>1 DEF BlockCommentEnd, None
  <2>3. /\ i + 2 <= found /\ found < Len(text)
        /\ CharAt(text, found) = "*" /\ CharAt(text, found + 1) = "/"
    BY <1>1, <2>1, FromParts
  <2>4. found + 2 <= Len(text)
    <3>1. CharAt(text, found + 1) # EndOfText
      BY <2>3, Literals
    <3>2. QED
      BY <2>1, <3>1, PairWithin
  <2>5. \A j \in (i + 2)..(found - 1) : ~(CharAt(text, j) = "*" /\ CharAt(text, j + 1) = "/")
    <3>1. \A j \in (i + 2)..(found - 1) : j \in From(text, i + 2) /\ ~(found <= j)
      BY <1>1, <2>1, <2>3, FromParts
    <3>2. QED
      BY <2>1, <3>1
  <2>6. QED
    BY <1>1, <2>1, <2>2, <2>3, <2>4, <2>5
<1>5. QED
  BY <1>3, <1>4

-----------------------------------------------------------------------------
(***************************************************************************)
(* Quoted tokens: the recursion goes forward in the text.                  *)
(***************************************************************************)
\* The symbol at an offset in a token does not end it.
Kept(text, i, quote) ==
  \/ CharAt(text, i) = "\\" /\ quote # Backtick
  \/ CharAt(text, i) = quote /\ CharAt(text, i + 1) = quote

SkipStep(f, i, text, quote) ==
  CASE i >= Len(text) -> [end |-> Len(text), closed |-> FALSE]
    [] i < Len(text) /\ Kept(text, i, quote) -> f[i + 2]
    [] i < Len(text) /\ ~Kept(text, i, quote) /\ CharAt(text, i) = quote ->
         [end |-> i + 1, closed |-> TRUE]
    [] OTHER -> f[i + 1]

SkipCases(f, i, text, quote) ==
  /\ i >= Len(text) => f[i] = [end |-> Len(text), closed |-> FALSE]
  /\ i < Len(text) /\ Kept(text, i, quote) => f[i] = f[i + 2]
  /\ i < Len(text) /\ ~Kept(text, i, quote) /\ CharAt(text, i) = quote =>
       f[i] = [end |-> i + 1, closed |-> TRUE]
  /\ i < Len(text) /\ ~Kept(text, i, quote) /\ CharAt(text, i) # quote => f[i] = f[i + 1]

Token(end, closed) == [end |-> end, closed |-> closed]

\* The recursion has a solution, the one SkipQuoted reads.
LEMMA SkipSolved ==
  ASSUME NEW text \in Texts, NEW start \in 0..(Len(text) - 1), NEW quote
  PROVE  \E f :
           /\ \A i \in 0..(Len(text) + 1) : SkipCases(f, i, text, quote)
           /\ SkipQuoted(text, start, quote) = f[start + 1]
<1> DEFINE D == 0..(Len(text) + 1)
           V == [end : Nat, closed : BOOLEAN]
           Step(f, i) == SkipStep(f, i, text, quote)
           G == [f \in [D -> V] |-> [i \in D |-> Step(f, i)]]
           rank == [i \in D |-> Len(text) + 1 - i]
           skip == CHOOSE f : f = [i \in D |-> Step(f, i)]
<1>0. Len(text) \in Nat
  BY LenType
<1>1. ASSUME NEW f \in [D -> V], NEW i \in D
      PROVE  Step(f, i) \in V
  <2> HIDE DEF Kept
  <2>1. CASE i >= Len(text)
    BY <1>0, <2>1 DEF SkipStep
  <2>2. CASE i < Len(text)
    <3>1. i + 2 \in D /\ i + 1 \in D /\ i + 1 \in Nat
      BY <1>0, <2>2
    <3>2. f[i + 2] \in V /\ f[i + 1] \in V /\ Token(i + 1, TRUE) \in V
      BY <3>1 DEF Token
    <3>3. QED
      BY <1>0, <2>2, <3>2 DEF SkipStep, Token
  <2>3. QED
    BY <1>0, <2>1, <2>2
<1>2. Joining!Unfolds(G, D, V)
  <2> HIDE DEF Step, D, V
  <2>1. QED
    BY <1>1 DEF Joining!Unfolds
<1>3. ASSUME NEW g \in [D -> V], NEW h \in [D -> V], NEW i \in D,
             \A j \in D : rank[j] < rank[i] => g[j] = h[j]
      PROVE  Step(g, i) = Step(h, i)
  <2>1. CASE i >= Len(text)
    BY <1>0, <2>1 DEF SkipStep
  <2>2. CASE i < Len(text)
    <3>1. i + 2 \in D /\ i + 1 \in D
      BY <1>0, <2>2
    <3>2. rank[i + 2] < rank[i] /\ rank[i + 1] < rank[i]
      BY <1>0, <3>1
    <3>3. g[i + 2] = h[i + 2] /\ g[i + 1] = h[i + 1]
      BY <1>3, <3>1, <3>2
    <3>4. QED
      BY <1>0, <2>2, <3>3 DEF SkipStep
  <2>3. QED
    BY <1>0, <2>1, <2>2
<1>4. Joining!RestsOnLower(G, D, V, rank)
  <2> HIDE DEF Step, D, V, rank
  <2>1. QED
    BY <1>3 DEF Joining!RestsOnLower
<1>5. \E f \in [D -> V] : f = G[f]
  <2> DEFINE default == Token(0, FALSE)
  <2>1. rank \in [D -> Nat]
    BY <1>0
  <2>2. default \in V
    BY DEF Token
  <2> HIDE DEF G, D, V, rank, default
  <2>3. QED
    BY <1>2, <1>4, <2>1, <2>2, Joining!RankRecursion
<1>6. skip = [i \in D |-> Step(skip, i)]
  <2> HIDE DEF Step, D, V
  <2>1. QED
    BY <1>5
<1>7. SkipQuoted(text, start, quote) = skip[start + 1]
  BY DEF SkipQuoted, SkipStep, Kept
<1>8. \A i \in D : skip[i] = Step(skip, i)
  <2> HIDE DEF Step, D, skip
  <2>1. QED
    BY <1>6
<1> HIDE DEF skip
<1>9. ASSUME NEW i \in D
      PROVE  SkipCases(skip, i, text, quote)
  <2>1. skip[i] = SkipStep(skip, i, text, quote)
    BY <1>8
  <2>2. QED
    BY <1>0, <2>1 DEF SkipStep, SkipCases
<1>10. QED
  BY <1>7, <1>9

\* A quoted token ends after it began, and in the text.
LEMMA QuotedEnds ==
  ASSUME NEW text \in Texts, NEW start \in 0..(Len(text) - 1), NEW quote
  PROVE  LET token == SkipQuoted(text, start, quote)
         IN  /\ token = Token(token.end, token.closed)
             /\ token.end \in Nat /\ start < token.end /\ token.end <= Len(text)
             /\ token.closed \in BOOLEAN
             /\ ~token.closed => token.end = Len(text)
<1>0. Len(text) \in Nat
  BY LenType
<1>1. PICK f :
        /\ \A i \in 0..(Len(text) + 1) : SkipCases(f, i, text, quote)
        /\ SkipQuoted(text, start, quote) = f[start + 1]
  BY SkipSolved
<1> DEFINE Good(i, t) == /\ t \in [end : Nat, closed : BOOLEAN]
                         /\ t.end <= Len(text) /\ (i < Len(text) => i < t.end)
                         /\ i >= Len(text) => t.end = Len(text)
                         /\ ~t.closed => t.end = Len(text)
           Fine(i) == Good(i, f[i])
           Ended == {n \in Nat : \A i \in 0..(Len(text) + 1) : Len(text) + 1 - i <= n => Fine(i)}
<1>2. ASSUME NEW i \in 0..(Len(text) + 1), i >= Len(text)
      PROVE  Fine(i)
  <2>1. f[i] = Token(Len(text), FALSE)
    BY <1>1, <1>2 DEF SkipCases, Token
  <2>2. Good(i, Token(Len(text), FALSE))
    BY <1>0, <1>2 DEF Token
  <2>3. QED
    BY <2>1, <2>2
<1>3. 0 \in Ended
  <2>1. \A i \in 0..(Len(text) + 1) : Len(text) + 1 - i <= 0 => i >= Len(text)
    BY <1>0
  <2> HIDE DEF Fine
  <2>2. QED
    BY <1>2, <2>1
<1>4. ASSUME NEW n \in Nat, n \in Ended
      PROVE  n + 1 \in Ended
  <2>1. SUFFICES ASSUME NEW i \in 0..(Len(text) + 1), Len(text) + 1 - i <= n + 1, i < Len(text)
                 PROVE  Fine(i)
    <3> HIDE DEF Fine
    <3>1. QED
      BY <1>0, <1>2
  <2>2. i + 1 \in 0..(Len(text) + 1) /\ i + 2 \in 0..(Len(text) + 1)
    BY <1>0, <2>1
  <2>3. Fine(i + 1) /\ Fine(i + 2)
    <3>1. Len(text) + 1 - (i + 1) <= n /\ Len(text) + 1 - (i + 2) <= n
      BY <1>0, <2>1
    <3> HIDE DEF Fine
    <3>2. QED
      BY <1>4, <2>2, <3>1
  <2>4. CASE Kept(text, i, quote)
    <3>1. f[i] = f[i + 2]
      BY <1>1, <2>1, <2>4 DEF SkipCases
    <3>2. Good(i + 2, f[i + 2]) => Good(i, f[i + 2])
      BY <1>0, <2>1
    <3>3. QED
      BY <2>3, <3>1, <3>2
  <2>5. CASE ~Kept(text, i, quote) /\ CharAt(text, i) = quote
    <3>1. f[i] = Token(i + 1, TRUE)
      BY <1>1, <2>1, <2>5 DEF SkipCases, Token
    <3>2. Good(i, Token(i + 1, TRUE))
      BY <1>0, <2>1 DEF Token
    <3>3. QED
      BY <3>1, <3>2
  <2>6. CASE ~Kept(text, i, quote) /\ CharAt(text, i) # quote
    <3>1. f[i] = f[i + 1]
      BY <1>1, <2>1, <2>6 DEF SkipCases
    <3>2. Good(i + 1, f[i + 1]) => Good(i, f[i + 1])
      BY <1>0, <2>1
    <3>3. QED
      BY <2>3, <3>1, <3>2
  <2>7. QED
    BY <2>4, <2>5, <2>6
<1>5. Nat \subseteq Ended
  <2> HIDE DEF Ended
  <2>1. QED
    BY <1>3, <1>4, Joining!NaturalInduction
<1>6. Fine(start + 1)
  <2>1. start + 1 \in 0..(Len(text) + 1) /\ Len(text) + 1 \in Nat
    BY <1>0
  <2>2. Len(text) + 1 - (start + 1) <= Len(text) + 1
    BY <1>0
  <2> HIDE DEF Fine
  <2>3. QED
    BY <1>5, <2>1, <2>2
<1>7. f[start + 1] = Token(f[start + 1].end, f[start + 1].closed)
  BY <1>6 DEF Token
<1>8. start < f[start + 1].end
  BY <1>0, <1>6
<1>9. QED
  BY <1>1, <1>6, <1>7, <1>8

-----------------------------------------------------------------------------
(***************************************************************************)
(* Parts of a text.                                                        *)
(***************************************************************************)
LEMMA MinOfTwo ==
  ASSUME NEW a \in Int, NEW b \in Int
  PROVE  Min({a, b}) = IF a <= b THEN a ELSE b
<1>1. CASE a <= b
  <2>1. \A y \in {a, b} : a <= y
    BY <1>1
  <2>2. \A x \in {a, b} : (\A y \in {a, b} : x <= y) => x = a
    BY <1>1
  <2>3. QED
    BY <1>1, <2>1, <2>2 DEF Min
<1>2. CASE b < a
  <2>1. \A y \in {a, b} : b <= y
    BY <1>2
  <2>2. \A x \in {a, b} : (\A y \in {a, b} : x <= y) => x = b
    BY <1>2
  <2>3. QED
    BY <1>2, <2>1, <2>2 DEF Min
<1>3. QED
  BY <1>1, <1>2

\* A part of a text is a text, with the symbols at its offsets.
LEMMA SliceParts ==
  ASSUME NEW text \in Texts, NEW a \in Nat, NEW b \in Nat, a <= b, b <= Len(text)
  PROVE  /\ Slice(text, a, b) \in Texts
         /\ Len(Slice(text, a, b)) = b - a
         /\ \A i \in 0..(b - a - 1) : CharAt(Slice(text, a, b), i) = CharAt(text, a + i)
         /\ \A i \in 1..(b - a) : Slice(text, a, b)[i] = text[a + i]
<1>0. Len(text) \in Nat
  BY LenType
<1> DEFINE low == a + 1
           part == SubSeq(text, low, b)
<1>1. Slice(text, a, b) = part
  BY <1>0, MinOfTwo DEF Slice
<1>2. \A i \in low..b : text[i] \in Symbols
  BY <1>0, TextParts
<1>3. /\ part \in Texts
      /\ Len(part) = b - a
      /\ \A i \in 1..(b - a) : part[i] = text[a + i]
  <2>1. low \in Int /\ b \in Int /\ low = a + 1
    OBVIOUS
  <2> HIDE DEF low
  <2>2. /\ part \in Seq(Symbols) /\ Len(part) = IF low <= b THEN b - low + 1 ELSE 0
        /\ \A i \in 1..(b - low + 1) : part[i] = text[low + i - 1]
    BY <1>2, <2>1, SubSeqProperties
  <2> HIDE DEF part
  <2>3. b - low + 1 = b - a /\ \A i \in 1..(b - a) : low + i - 1 = a + i
    BY <2>1
  <2>4. QED
    BY <2>1, <2>2, <2>3 DEF Texts
<1> HIDE DEF part
<1>4. ASSUME NEW i \in 0..(b - a - 1)
      PROVE  CharAt(part, i) = CharAt(text, a + i)
  <2>1. i \in 0..(Len(part) - 1) /\ a + i \in 0..(Len(text) - 1) /\ i + 1 \in 1..(b - a)
    BY <1>0, <1>3
  <2>2. part[i + 1] = text[a + (i + 1)]
    BY <1>3, <2>1
  <2>3. a + (i + 1) = (a + i) + 1
    OBVIOUS
  <2>4. QED
    BY <2>1, <2>2, <2>3 DEF CharAt
<1>5. QED
  BY <1>1, <1>3, <1>4

\* A part of a part is a part.
LEMMA SliceOfSlice ==
  ASSUME NEW text \in Texts, NEW a \in Nat, NEW b \in Nat, a <= b, b <= Len(text),
         NEW c \in Nat, NEW d \in Nat, c <= d, d <= b - a
  PROVE  Slice(Slice(text, a, b), c, d) = Slice(text, a + c, a + d)
<1> DEFINE whole == Slice(text, a, b)
           inner == Slice(whole, c, d)
           outer == Slice(text, a + c, a + d)
<1>0. Len(text) \in Nat
  BY LenType
<1>1. whole \in Texts /\ Len(whole) = b - a /\ \A i \in 1..(b - a) : whole[i] = text[a + i]
  BY SliceParts
<1>2. inner \in Texts /\ Len(inner) = d - c /\ \A i \in 1..(d - c) : inner[i] = whole[c + i]
  <2> HIDE DEF whole
  <2>1. QED
    BY <1>1, SliceParts
<1>3. outer \in Texts /\ Len(outer) = d - c /\ \A i \in 1..(d - c) : outer[i] = text[(a + c) + i]
  <2>1. a + c \in Nat /\ a + d \in Nat /\ a + c <= a + d /\ a + d <= Len(text)
        /\ (a + d) - (a + c) = d - c
    BY <1>0
  <2> DEFINE m == a + c
             n == a + d
  <2>2. /\ Slice(text, m, n) \in Texts /\ Len(Slice(text, m, n)) = n - m
        /\ \A i \in 1..(n - m) : Slice(text, m, n)[i] = text[m + i]
    <3> HIDE DEF m, n
    <3>1. m \in Nat /\ n \in Nat /\ m <= n /\ n <= Len(text)
      BY <2>1 DEF m, n
    <3>2. QED
      BY <3>1, SliceParts
  <2>3. QED
    BY <2>1, <2>2
<1> HIDE DEF whole, inner, outer
<1>4. ASSUME NEW i \in 1..(d - c)
      PROVE  inner[i] = outer[i]
  <2>1. c + i \in 1..(b - a) /\ a + (c + i) = (a + c) + i
    OBVIOUS
  <2>2. QED
    BY <1>1, <1>2, <1>3, <2>1
<1>5. inner = outer
  BY <1>2, <1>3, <1>4, SeqEqual DEF Texts
<1>6. QED
  BY <1>5 DEF inner, outer, whole

\* What is left between the outer blanks of a text is a text.
LEMMA TrimType ==
  ASSUME NEW text \in Texts
  PROVE  Trim(text) \in Texts
<1> DEFINE inked == {i \in 1..Len(text) : text[i] \notin Blank}
<1>0. Len(text) \in Nat /\ inked \in SUBSET (1..Len(text)) /\ inked \in SUBSET Nat
  BY LenType
<1>1. CASE inked = {}
  <2>1. Trim(text) = <<>>
    BY <1>1 DEF Trim
  <2>2. QED
    BY <2>1 DEF Texts
<1>2. CASE inked # {}
  <2>1. Trim(text) = SubSeq(text, Min(inked), Max(inked))
    BY <1>2 DEF Trim
  <2>2. Min(inked) \in inked
    <3>1. First(inked) = Min(inked)
      BY <1>2 DEF First
    <3> HIDE DEF inked
    <3>2. QED
      BY <1>0, <1>2, <3>1, FirstIsLeast
  <2>3. Max(inked) \in inked
    <3> HIDE DEF inked
    <3>1. QED
      BY <1>0, <1>2, Joining!GreatestPosition DEF Max, Joining!Max
  <2>4. \A i \in Min(inked)..Max(inked) : text[i] \in Symbols
    <3>1. \A i \in Min(inked)..Max(inked) : i \in 1..Len(text)
      BY <1>0, <2>2, <2>3
    <3>2. QED
      BY <3>1, TextParts
  <2> HIDE DEF inked
  <2>5. Min(inked) \in Int /\ Max(inked) \in Int
    <3>1. Min(inked) \in Nat /\ Max(inked) \in Nat
      BY <1>0, <2>2, <2>3, Zenon
    <3>2. QED
      BY <3>1
  <2>6. SubSeq(text, Min(inked), Max(inked)) \in Texts
    BY <2>4, <2>5, SubSeqProperties DEF Texts
  <2>7. QED
    BY <2>1, <2>6
<1>3. QED
  BY <1>1, <1>2

-----------------------------------------------------------------------------
(***************************************************************************)
(* Texts without comments.                                                 *)
(***************************************************************************)
\* Where a line comment ends is where its newline is, if it has one.
LEMMA NewlineFound ==
  ASSUME NEW text \in Texts, NEW i \in 0..(Len(text) - 1), StartsLineComment(text, i)
  PROVE  LET found == IndexOfNewline(text, i + 2)
         IN  /\ found = None => LineCommentEnd(text, i) = Len(text)
             /\ found # None => /\ found \in Nat /\ i + 2 <= found /\ found < Len(text)
                                /\ LineCommentEnd(text, i) = found
                                /\ CharAt(text, found) = "\n"
<1> DEFINE S == {j \in From(text, i + 2) : CharAt(text, j) = "\n"}
           found == IndexOfNewline(text, i + 2)
<1>a. i \in Nat
  BY LenType
<1>b. CharAt(text, i + 1) # EndOfText
  BY Literals, Zenon DEF StartsLineComment
<1>1. i + 2 \in Nat /\ i + 2 <= Len(text) /\ Len(text) \in Nat
  BY <1>a, <1>b, PairWithin
<1>2. S \in SUBSET Nat /\ found = First(S)
  BY <1>1, FromParts DEF IndexOfNewline
<1>3. found = None => LineCommentEnd(text, i) = Len(text)
  BY DEF LineCommentEnd
<1>4. ASSUME found # None
      PROVE  /\ found \in Nat /\ i + 2 <= found /\ found < Len(text)
             /\ LineCommentEnd(text, i) = found
             /\ CharAt(text, found) = "\n"
  <2>1. found \in S
    <3> HIDE DEF S
    <3>1. QED
      BY <1>2, <1>4, FirstIsLeast
  <2>2. LineCommentEnd(text, i) = found
    BY <1>4 DEF LineCommentEnd
  <2>3. CharAt(text, found) = "\n" /\ found \in From(text, i + 2)
    BY <2>1
  <2>4. found \in Nat /\ i + 2 <= found /\ found < Len(text)
    BY <1>1, <2>3, FromParts
  <2>5. QED
    BY <2>2, <2>3, <2>4
<1>5. QED
  BY <1>3, <1>4

StripStep(f, i, text) ==
  LET quoted == SkipQuoted(text, i, CharAt(text, i))
  IN  CASE i = Len(text) -> <<>>
        [] StartsLineComment(text, i) ->
             IF IndexOfNewline(text, i + 2) = None THEN <<>>
             ELSE <<"\n">> \o f[IndexOfNewline(text, i + 2) + 1]
        [] StartsBlockComment(text, i) -> <<" ">> \o f[BlockCommentEnd(text, i)]
        [] CharAt(text, i) \in Quotes -> Slice(text, i, quoted.end) \o f[quoted.end]
        [] OTHER -> <<CharAt(text, i)>> \o f[i + 1]

\* The one of the cases of a scanner that an offset is in.
AtLineComment(text, i)  == i < Len(text) /\ StartsLineComment(text, i)
AtBlockComment(text, i) == i < Len(text) /\ StartsBlockComment(text, i)
AtQuote(text, i)        == i < Len(text) /\ CharAt(text, i) \in Quotes
AtSymbol(text, i)       == /\ i < Len(text) /\ CharAt(text, i) \notin Quotes
                           /\ ~StartsLineComment(text, i) /\ ~StartsBlockComment(text, i)

\* A symbol starts one kind of comment, and then it is no quote, no bracket and
\* no terminator.
LEMMA OneCase ==
  ASSUME NEW text, NEW i
  PROVE  /\ ~(StartsLineComment(text, i) /\ StartsBlockComment(text, i))
         /\ StartsLineComment(text, i) \/ StartsBlockComment(text, i) =>
              CharAt(text, i) \notin Quotes \cup Openers \cup Closers \cup {";"} \cup Blank
<1>1. ~(StartsLineComment(text, i) /\ StartsBlockComment(text, i))
  BY Zenon DEF StartsLineComment, StartsBlockComment
<1>2. "/" \notin Quotes \cup Openers \cup {";"} \cup Blank
  BY Zenon DEF Quotes, Backtick, Openers, CloserOf, Blank
<1>3. "/" \notin Closers
  BY Zenon DEF Closers, Openers, CloserOf
<1>4. StartsLineComment(text, i) \/ StartsBlockComment(text, i) => CharAt(text, i) = "/"
  BY Zenon DEF StartsLineComment, StartsBlockComment
<1>5. QED
  BY <1>1, <1>2, <1>3, <1>4

StripCases(v, f, i, text) ==
  /\ i = Len(text) => v = <<>>
  /\ AtLineComment(text, i) =>
       v = IF IndexOfNewline(text, i + 2) = None THEN <<>>
              ELSE <<"\n">> \o f[IndexOfNewline(text, i + 2) + 1]
  /\ AtBlockComment(text, i) => v = <<" ">> \o f[BlockCommentEnd(text, i)]
  /\ AtQuote(text, i) =>
       v = Slice(text, i, SkipQuoted(text, i, CharAt(text, i)).end)
                \o f[SkipQuoted(text, i, CharAt(text, i)).end]
  /\ AtSymbol(text, i) => v = <<CharAt(text, i)>> \o f[i + 1]

\* Where the strip goes on from an offset.
StripNext(text, i) ==
  CASE AtLineComment(text, i)  -> IF IndexOfNewline(text, i + 2) = None THEN Len(text)
                                  ELSE IndexOfNewline(text, i + 2) + 1
    [] AtBlockComment(text, i) -> BlockCommentEnd(text, i)
    [] AtQuote(text, i)        -> SkipQuoted(text, i, CharAt(text, i)).end
    [] OTHER                   -> i + 1

\* The strip always goes on, and never beyond its text.
LEMMA StripGoesOn ==
  ASSUME NEW text \in Texts, NEW i \in 0..(Len(text) - 1)
  PROVE  StripNext(text, i) \in Nat /\ i < StripNext(text, i) /\ StripNext(text, i) <= Len(text)
<1>0. Len(text) \in Nat /\ i \in Nat /\ i < Len(text)
  BY LenType
<1>1. CASE AtLineComment(text, i)
  <2>a. ~AtBlockComment(text, i) /\ ~AtQuote(text, i)
    BY <1>1, OneCase DEF AtLineComment, AtBlockComment, AtQuote
  <2>1. CASE IndexOfNewline(text, i + 2) = None
    BY <1>0, <1>1, <2>a, <2>1 DEF StripNext
  <2>2. CASE IndexOfNewline(text, i + 2) # None
    <3>1. /\ IndexOfNewline(text, i + 2) \in Nat /\ i + 2 <= IndexOfNewline(text, i + 2)
          /\ IndexOfNewline(text, i + 2) < Len(text)
      BY <1>1, <2>2, NewlineFound DEF AtLineComment
    <3>2. StripNext(text, i) = IndexOfNewline(text, i + 2) + 1
      BY <1>1, <2>a, <2>2 DEF StripNext
    <3>3. QED
      BY <1>0, <3>1, <3>2
  <2>3. QED
    BY <2>1, <2>2
<1>2. CASE AtBlockComment(text, i)
  <2>1. ~AtLineComment(text, i) /\ ~AtQuote(text, i)
    BY <1>2, OneCase DEF AtLineComment, AtBlockComment, AtQuote
  <2>2. StripNext(text, i) = BlockCommentEnd(text, i)
    BY <1>2, <2>1 DEF StripNext
  <2>3. /\ BlockCommentEnd(text, i) \in Nat /\ i + 2 <= BlockCommentEnd(text, i)
        /\ BlockCommentEnd(text, i) <= Len(text)
    BY <1>2, BlockCommentEnds DEF AtBlockComment
  <2>4. QED
    BY <1>0, <2>2, <2>3
<1>3. CASE AtQuote(text, i)
  <2>1. ~AtLineComment(text, i) /\ ~AtBlockComment(text, i)
    BY <1>3, OneCase DEF AtLineComment, AtBlockComment, AtQuote
  <2>2. StripNext(text, i) = SkipQuoted(text, i, CharAt(text, i)).end
    BY <1>3, <2>1 DEF StripNext
  <2>3. QED
    BY <2>2, QuotedEnds
<1>4. CASE ~AtLineComment(text, i) /\ ~AtBlockComment(text, i) /\ ~AtQuote(text, i)
  BY <1>0, <1>4 DEF StripNext
<1>5. QED
  BY <1>1, <1>2, <1>3, <1>4

\* Two texts are one.
LEMMA JoinType ==
  ASSUME NEW s \in Texts, NEW t \in Texts
  PROVE  s \o t \in Texts /\ Len(s \o t) = Len(s) + Len(t)
BY DEF Texts

\* What the strip puts into a text.
LEMMA Joins ==
  /\ \A c \in Symbols : <<c>> \in Texts /\ Len(<<c>>) = 1 /\ <<c>>[1] = c
  /\ <<>> \in Texts /\ Len(<<>>) = 0
  /\ \A c \in Blank : c \in Symbols
  /\ " " \in Blank /\ "\n" \in Blank
<1>2. \A c \in Symbols : <<c>> \in Texts /\ Len(<<c>>) = 1 /\ <<c>>[1] = c
  BY DEF Texts
<1>3. <<>> \in Texts /\ Len(<<>>) = 0
  BY DEF Texts
<1>4. \A c \in Blank : c \in Symbols
  BY DEF Symbols
<1>5. " " \in Blank /\ "\n" \in Blank
  BY Zenon DEF Blank
<1>6. QED
  BY <1>2, <1>3, <1>4, <1>5

\* One step of the strip, from what it makes of the rest.
LEMMA StripStepCases ==
  ASSUME NEW text \in Texts, NEW i \in 0..Len(text), NEW f
  PROVE  StripCases(StripStep(f, i, text), f, i, text)
<1>0. Len(text) \in Nat
  BY LenType
<1>1. i = Len(text) => /\ ~AtLineComment(text, i) /\ ~AtBlockComment(text, i)
                       /\ ~AtQuote(text, i) /\ ~AtSymbol(text, i)
  BY <1>0 DEF AtLineComment, AtBlockComment, AtQuote, AtSymbol
<1>2. i = Len(text) => /\ ~StartsLineComment(text, i) /\ ~StartsBlockComment(text, i)
                       /\ CharAt(text, i) \notin Quotes
  <2>1. SUFFICES ASSUME i = Len(text)
                 PROVE  /\ ~StartsLineComment(text, i) /\ ~StartsBlockComment(text, i)
                        /\ CharAt(text, i) \notin Quotes
    OBVIOUS
  <2>2. CharAt(text, i) = EndOfText
    BY <1>0, <2>1 DEF CharAt
  <2>3. QED
    BY <2>2, Literals, Zenon DEF StartsLineComment, StartsBlockComment
<1>3. i # Len(text) => i < Len(text)
  BY <1>0
<1>4. CASE i = Len(text)
  <2>1. StripStep(f, i, text) = <<>>
    BY <1>2, <1>4 DEF StripStep
  <2>2. QED
    BY <1>1, <1>4, <2>1 DEF StripCases
<1>5. CASE i # Len(text) /\ AtLineComment(text, i)
  <2>1. ~AtBlockComment(text, i) /\ ~AtQuote(text, i) /\ ~AtSymbol(text, i)
        /\ StartsLineComment(text, i) /\ ~StartsBlockComment(text, i) /\ CharAt(text, i) \notin Quotes
    BY <1>5, OneCase DEF AtLineComment, AtBlockComment, AtQuote, AtSymbol
  <2>2. QED
    BY <1>5, <2>1 DEF StripStep, StripCases
<1>6. CASE i # Len(text) /\ AtBlockComment(text, i)
  <2>1. ~AtLineComment(text, i) /\ ~AtQuote(text, i) /\ ~AtSymbol(text, i)
        /\ StartsBlockComment(text, i) /\ ~StartsLineComment(text, i) /\ CharAt(text, i) \notin Quotes
    BY <1>6, OneCase DEF AtLineComment, AtBlockComment, AtQuote, AtSymbol
  <2>2. QED
    BY <1>6, <2>1 DEF StripStep, StripCases
<1>7. CASE i # Len(text) /\ AtQuote(text, i)
  <2>1. ~AtLineComment(text, i) /\ ~AtBlockComment(text, i) /\ ~AtSymbol(text, i)
        /\ ~StartsBlockComment(text, i) /\ ~StartsLineComment(text, i) /\ CharAt(text, i) \in Quotes
    BY <1>7, OneCase DEF AtLineComment, AtBlockComment, AtQuote, AtSymbol
  <2>2. QED
    BY <1>7, <2>1 DEF StripStep, StripCases
<1>8. CASE i # Len(text) /\ ~AtLineComment(text, i) /\ ~AtBlockComment(text, i) /\ ~AtQuote(text, i)
  <2>1. ~StartsBlockComment(text, i) /\ ~StartsLineComment(text, i) /\ CharAt(text, i) \notin Quotes
    BY <1>3, <1>8 DEF AtLineComment, AtBlockComment, AtQuote
  <2>2. StripStep(f, i, text) = <<CharAt(text, i)>> \o f[i + 1]
    BY <1>8, <2>1 DEF StripStep
  <2>3. QED
    BY <1>8, <2>2 DEF StripCases
<1>9. QED
  BY <1>4, <1>5, <1>6, <1>7, <1>8

\* Where the strip goes on in each of its cases.
LEMMA StripStepNext ==
  ASSUME NEW text \in Texts, NEW i \in 0..(Len(text) - 1)
  PROVE  /\ i \in 0..Len(text) /\ i # Len(text) /\ i < Len(text)
         /\ StripNext(text, i) \in 0..Len(text) /\ Len(text) - StripNext(text, i) < Len(text) - i
         /\ AtLineComment(text, i) /\ IndexOfNewline(text, i + 2) # None =>
              StripNext(text, i) = IndexOfNewline(text, i + 2) + 1
         /\ AtBlockComment(text, i) => StripNext(text, i) = BlockCommentEnd(text, i)
         /\ AtQuote(text, i) =>
              StripNext(text, i) = SkipQuoted(text, i, CharAt(text, i)).end
         /\ AtSymbol(text, i) => StripNext(text, i) = i + 1
         /\ AtLineComment(text, i) \/ AtBlockComment(text, i) \/ AtQuote(text, i) \/ AtSymbol(text, i)
<1>0. Len(text) \in Nat
  BY LenType
<1>1. i \in 0..Len(text) /\ i # Len(text) /\ i < Len(text)
  BY <1>0
<1>2. StripNext(text, i) \in 0..Len(text) /\ Len(text) - StripNext(text, i) < Len(text) - i
  BY <1>0, StripGoesOn
<1>3. AtLineComment(text, i) =>
        ~AtBlockComment(text, i) /\ ~AtQuote(text, i) /\ ~AtSymbol(text, i)
  BY OneCase DEF AtLineComment, AtBlockComment, AtQuote, AtSymbol
<1>4. AtBlockComment(text, i) =>
        ~AtLineComment(text, i) /\ ~AtQuote(text, i) /\ ~AtSymbol(text, i)
  BY OneCase DEF AtLineComment, AtBlockComment, AtQuote, AtSymbol
<1>5. AtQuote(text, i) =>
        ~AtLineComment(text, i) /\ ~AtBlockComment(text, i) /\ ~AtSymbol(text, i)
  BY OneCase DEF AtLineComment, AtBlockComment, AtQuote, AtSymbol
<1>6. AtLineComment(text, i) /\ IndexOfNewline(text, i + 2) # None =>
        StripNext(text, i) = IndexOfNewline(text, i + 2) + 1
  BY <1>3 DEF StripNext
<1>7. AtBlockComment(text, i) => StripNext(text, i) = BlockCommentEnd(text, i)
  BY <1>4 DEF StripNext
<1>8. AtQuote(text, i) => StripNext(text, i) = SkipQuoted(text, i, CharAt(text, i)).end
  BY <1>5 DEF StripNext
<1>9. AtSymbol(text, i) => StripNext(text, i) = i + 1
  BY <1>3, <1>4, <1>5 DEF StripNext
<1>10. AtLineComment(text, i) \/ AtBlockComment(text, i) \/ AtQuote(text, i) \/ AtSymbol(text, i)
  BY <1>1 DEF AtLineComment, AtBlockComment, AtQuote, AtSymbol
<1>11. QED
  BY <1>1, <1>2, <1>6, <1>7, <1>8, <1>9, <1>10

\* The strip has a solution, a text, and StripCypherComments reads it.
LEMMA StripSolved ==
  ASSUME NEW text \in Texts
  PROVE  \E f \in [0..Len(text) -> Texts] :
           /\ \A i \in 0..Len(text) : StripCases(f[i], f, i, text)
           /\ StripCypherComments(text) = f[0]
<1> DEFINE D == 0..Len(text)
           Step(f, i) == StripStep(f, i, text)
           G == [f \in [D -> Texts] |-> [i \in D |-> Step(f, i)]]
           rank == [i \in D |-> Len(text) - i]
           strip == CHOOSE f : f = [i \in D |-> Step(f, i)]
<1>0. Len(text) \in Nat
  BY LenType
<1>1. ASSUME NEW i \in D
      PROVE  \/ \A f, h : Step(f, i) = <<>> /\ Step(h, i) = <<>>
             \/ /\ StripNext(text, i) \in D /\ rank[StripNext(text, i)] < rank[i]
                /\ \E head \in Texts : \A f : Step(f, i) = head \o f[StripNext(text, i)]
  <2> DEFINE next == StripNext(text, i)
  <2>1. \A f : StripCases(Step(f, i), f, i, text)
    BY StripStepCases
  <2> HIDE DEF Step
  <2>2. CASE i = Len(text)
    BY <2>1, <2>2 DEF StripCases
  <2>3. ASSUME i # Len(text)
        PROVE  i \in 0..(Len(text) - 1) /\ next \in D /\ rank[next] < rank[i]
    <3>1. i \in 0..(Len(text) - 1)
      BY <1>0, <2>3
    <3>2. next \in D /\ Len(text) - next < Len(text) - i
      BY <3>1, StripStepNext
    <3>3. rank[next] = Len(text) - next /\ rank[i] = Len(text) - i
      BY <3>2
    <3>4. QED
      BY <3>1, <3>2, <3>3
  <2>4. CASE i # Len(text) /\ AtLineComment(text, i)
    <3>1. CASE IndexOfNewline(text, i + 2) = None
      BY <2>1, <2>4, <3>1 DEF StripCases
    <3>2. CASE IndexOfNewline(text, i + 2) # None
      <4>1. next = IndexOfNewline(text, i + 2) + 1
        BY <2>3, <2>4, <3>2, StripStepNext
      <4>2. \A f : Step(f, i) = <<"\n">> \o f[next]
        BY <2>1, <2>4, <3>2, <4>1 DEF StripCases
      <4>3. <<"\n">> \in Texts
        BY Joins
      <4>4. QED
        BY <2>3, <2>4, <4>2, <4>3
    <3>3. QED
      BY <3>1, <3>2
  <2>5. CASE i # Len(text) /\ AtBlockComment(text, i)
    <3>1. next = BlockCommentEnd(text, i)
      BY <2>3, <2>5, StripStepNext
    <3>2. \A f : Step(f, i) = <<" ">> \o f[next]
      BY <2>1, <2>5, <3>1 DEF StripCases
    <3>3. <<" ">> \in Texts
      BY Joins
    <3>4. QED
      BY <2>3, <2>5, <3>2, <3>3
  <2>6. CASE i # Len(text) /\ AtQuote(text, i)
    <3>1. next = SkipQuoted(text, i, CharAt(text, i)).end
      BY <2>3, <2>6, StripStepNext
    <3>2. \A f : Step(f, i) = Slice(text, i, next) \o f[next]
      BY <2>1, <2>6, <3>1 DEF StripCases
    <3>3. Slice(text, i, next) \in Texts
      <4>1. i \in Nat /\ next \in Nat /\ i <= next /\ next <= Len(text)
        BY <1>0, <2>3, <2>6, StripGoesOn
      <4> HIDE DEF next
      <4>2. QED
        BY <4>1, SliceParts
    <3>4. QED
      BY <2>3, <2>6, <3>2, <3>3
  <2>7. CASE i # Len(text) /\ AtSymbol(text, i)
    <3>1. next = i + 1
      BY <2>3, <2>7, StripStepNext
    <3>2. \A f : Step(f, i) = <<CharAt(text, i)>> \o f[next]
      BY <2>1, <2>7, <3>1 DEF StripCases
    <3>3. <<CharAt(text, i)>> \in Texts
      BY CharType, Joins
    <3>4. QED
      BY <2>3, <2>7, <3>2, <3>3
  <2>8. i # Len(text) =>
          AtLineComment(text, i) \/ AtBlockComment(text, i) \/ AtQuote(text, i) \/ AtSymbol(text, i)
    BY <2>3, StripStepNext
  <2>9. QED
    BY <2>2, <2>4, <2>5, <2>6, <2>7, <2>8
<1>2. ASSUME NEW f \in [D -> Texts], NEW i \in D
      PROVE  Step(f, i) \in Texts
  <2> HIDE DEF Step, D, rank
  <2>1. CASE \A h, k : Step(h, i) = <<>> /\ Step(k, i) = <<>>
    BY <2>1, Joins
  <2>2. CASE StripNext(text, i) \in D
             /\ \E head \in Texts : \A h : Step(h, i) = head \o h[StripNext(text, i)]
    <3>1. f[StripNext(text, i)] \in Texts
      BY <2>2
    <3>2. PICK head \in Texts : \A h : Step(h, i) = head \o h[StripNext(text, i)]
      BY <2>2
    <3>3. Step(f, i) = head \o f[StripNext(text, i)]
      BY <3>2, Zenon
    <3>4. QED
      BY <3>1, <3>3, JoinType
  <2>3. QED
    BY <1>1, <2>1, <2>2
<1>3. Joining!Unfolds(G, D, Texts)
  <2> HIDE DEF Step, D
  <2>1. QED
    BY <1>2 DEF Joining!Unfolds
<1>4. ASSUME NEW g \in [D -> Texts], NEW h \in [D -> Texts], NEW i \in D,
             \A j \in D : rank[j] < rank[i] => g[j] = h[j]
      PROVE  Step(g, i) = Step(h, i)
  <2> HIDE DEF Step, D, rank
  <2>1. CASE \A f, k : Step(f, i) = <<>> /\ Step(k, i) = <<>>
    BY <2>1
  <2>2. CASE /\ StripNext(text, i) \in D /\ rank[StripNext(text, i)] < rank[i]
             /\ \E head \in Texts : \A f : Step(f, i) = head \o f[StripNext(text, i)]
    BY <1>4, <2>2
  <2>3. QED
    BY <1>1, <2>1, <2>2
<1>5. Joining!RestsOnLower(G, D, Texts, rank)
  <2> HIDE DEF Step, D, rank
  <2>1. QED
    BY <1>4 DEF Joining!RestsOnLower
<1>6. \E f \in [D -> Texts] : f = G[f]
  <2> DEFINE default == <<>>
  <2>1. rank \in [D -> Nat]
    BY <1>0
  <2>2. default \in Texts
    BY Joins
  <2> HIDE DEF G, D, rank, default
  <2>3. QED
    BY <1>3, <1>5, <2>1, <2>2, Joining!RankRecursion
<1>7. strip = [i \in D |-> Step(strip, i)]
  <2> HIDE DEF Step, D
  <2>1. QED
    BY <1>6
<1>8. StripCypherComments(text) = strip[0]
  BY DEF StripCypherComments, StripStep
<1> HIDE DEF strip
<1>9. \A i \in D : strip[i] = Step(strip, i)
  <2> HIDE DEF Step, D
  <2>1. QED
    BY <1>7
<1>10. \A i \in D : StripCases(strip[i], strip, i, text)
  BY <1>9, StripStepCases
<1> DEFINE Typed == {n \in Nat : \A i \in D : rank[i] < n => strip[i] \in Texts}
<1>11. 0 \in Typed
  <2>1. \A i \in D : ~(rank[i] < 0)
    BY <1>0
  <2> HIDE DEF D, rank
  <2>2. QED
    BY <2>1
<1>12. ASSUME NEW n \in Nat, n \in Typed
       PROVE  n + 1 \in Typed
  <2>1. SUFFICES ASSUME NEW i \in D, rank[i] < n + 1
                 PROVE  strip[i] \in Texts
    OBVIOUS
  <2>2. strip[i] = Step(strip, i)
    BY <1>9
  <2>a. \A j \in D : rank[j] \in Nat
    BY <1>0
  <2> HIDE DEF Step, D, rank
  <2>3. CASE \A h, k : Step(h, i) = <<>> /\ Step(k, i) = <<>>
    <3>1. Step(strip, i) = <<>>
      BY <2>3, Zenon
    <3>2. QED
      BY <2>2, <3>1, Joins
  <2>4. CASE /\ StripNext(text, i) \in D /\ rank[StripNext(text, i)] < rank[i]
             /\ \E head \in Texts : \A h : Step(h, i) = head \o h[StripNext(text, i)]
    <3>1. rank[StripNext(text, i)] < n
      BY <2>1, <2>4, <2>a
    <3>2. strip[StripNext(text, i)] \in Texts
      BY <1>12, <2>4, <3>1
    <3>3. PICK head \in Texts : \A h : Step(h, i) = head \o h[StripNext(text, i)]
      BY <2>4
    <3>4. Step(strip, i) = head \o strip[StripNext(text, i)]
      BY <3>3, Zenon
    <3>5. QED
      BY <2>2, <3>2, <3>4, JoinType
  <2>5. QED
    BY <1>1, <2>3, <2>4
<1>13. Nat \subseteq Typed
  <2> HIDE DEF Typed
  <2>1. QED
    BY <1>11, <1>12, Joining!NaturalInduction
<1>14. \A i \in D : strip[i] \in Texts
  <2>1. \A i \in D : rank[i] + 1 \in Nat /\ rank[i] < rank[i] + 1
    BY <1>0
  <2> HIDE DEF D, rank
  <2>2. QED
    BY <1>13, <2>1
<1>15. strip \in [D -> Texts]
  <2> HIDE DEF Step, D
  <2>1. QED
    BY <1>7, <1>14
<1>16. QED
  BY <1>8, <1>10, <1>15

\* A text without its comments is a text.
LEMMA StripType ==
  ASSUME NEW text \in Texts
  PROVE  StripCypherComments(text) \in Texts
<1>1. PICK f \in [0..Len(text) -> Texts] : StripCypherComments(text) = f[0]
  BY StripSolved
<1>2. 0 \in 0..Len(text)
  BY LenType
<1>3. QED
  BY <1>1, <1>2

-----------------------------------------------------------------------------
(***************************************************************************)
(* Numbers in their order.                                                 *)
(***************************************************************************)
Below(S, n) == {m \in S : m < n}

\* The numbers of a finite set below another one are counted.
LEMMA BelowParts ==
  ASSUME NEW S \in SUBSET Nat, IsFiniteSet(S), NEW n
  PROVE  IsFiniteSet(Below(S, n)) /\ Cardinality(Below(S, n)) \in Nat
<1>1. Below(S, n) \in SUBSET S
  BY DEF Below
<1>2. IsFiniteSet(Below(S, n))
  BY <1>1, FS_Subset
<1>3. QED
  BY <1>2, FS_CardinalityType

\* More numbers lie below a greater one.
LEMMA BelowGrows ==
  ASSUME NEW S \in SUBSET Nat, IsFiniteSet(S), NEW n \in S, NEW k \in Nat, n < k
  PROVE  Cardinality(Below(S, n)) < Cardinality(Below(S, k))
<1>1. /\ IsFiniteSet(Below(S, n)) /\ Cardinality(Below(S, n)) \in Nat
      /\ IsFiniteSet(Below(S, k)) /\ Cardinality(Below(S, k)) \in Nat
  BY BelowParts
<1>2. n \notin Below(S, n)
  BY DEF Below
<1>3. Cardinality(Below(S, n) \cup {n}) = Cardinality(Below(S, n)) + 1
  BY <1>1, <1>2, FS_AddElement
<1>4. Below(S, n) \cup {n} \in SUBSET Below(S, k)
  <2>1. n \in Below(S, k)
    BY DEF Below
  <2>2. ASSUME NEW m \in Below(S, n)
        PROVE  m \in Below(S, k)
    <3>1. m \in S /\ m \in Nat /\ n \in Nat /\ m < n
      BY DEF Below
    <3>2. m < k
      BY <3>1
    <3>3. QED
      BY <3>1, <3>2 DEF Below
  <2>3. QED
    BY <2>1, <2>2
<1>5. Cardinality(Below(S, n) \cup {n}) <= Cardinality(Below(S, k))
  BY <1>1, <1>4, FS_Subset
<1>6. QED
  BY <1>1, <1>3, <1>5

\* Every count below the number of elements is that of the numbers below one.
LEMMA BelowReaches ==
  ASSUME NEW S \in SUBSET Nat, IsFiniteSet(S), NEW k \in Nat, k < Cardinality(S)
  PROVE  \E n \in S : Cardinality(Below(S, n)) = k
<1> DEFINE Reaches(R) == \A j \in Nat : j < Cardinality(R) => \E n \in R : Cardinality(Below(R, n)) = j
           Sizes == {c \in Nat : \A R \in SUBSET Nat :
                       IsFiniteSet(R) /\ Cardinality(R) = c => Reaches(R)}
<1>1. 0 \in Sizes
  OBVIOUS
<1>2. ASSUME NEW c \in Nat, c \in Sizes
      PROVE  c + 1 \in Sizes
  <2>1. SUFFICES ASSUME NEW R \in SUBSET Nat, IsFiniteSet(R), Cardinality(R) = c + 1
                 PROVE  Reaches(R)
    <3> HIDE DEF Reaches
    <3>1. QED
      BY <2>1
  <2>2. R # {} /\ R \subseteq Int
    <3>1. Cardinality({}) = 0
      BY FS_EmptySet
    <3>2. c + 1 # 0
      OBVIOUS
    <3>3. R # {}
      BY <2>1, <3>1, <3>2
    <3>4. QED
      BY <3>3
  <2> DEFINE top == Max(R)
             rest == R \ {top}
  <2>3. top \in R /\ \A x \in R : x <= top
    <3>1. Joining!Max(R) \in R /\ \A x \in R : x <= Joining!Max(R)
      <4>1. Joining!IsFiniteSet(R)
        BY <2>1 DEF IsFiniteSet, Joining!IsFiniteSet
      <4>2. QED
        BY <2>2, <4>1, Joining!GreatestOfFinite
    <3>2. Joining!Max(R) = Max(R)
      BY DEF Joining!Max, Max
    <3>3. QED
      BY <3>1, <3>2
  <2> HIDE DEF top
  <2>4. IsFiniteSet(rest) /\ Cardinality(rest) = c /\ rest \in SUBSET Nat
    <3>1. IsFiniteSet(rest) /\ Cardinality(rest) = Cardinality(R) - 1
      BY <2>1, <2>3, FS_RemoveElement
    <3>2. rest \in SUBSET Nat
      BY <2>1
    <3>3. QED
      BY <2>1, <3>1, <3>2
  <2>5. Below(R, top) = rest
    <3>1. ASSUME NEW m \in R
          PROVE  m < top <=> m # top
      <4>1. m \in Nat /\ top \in Nat /\ m <= top
        BY <2>1, <2>3
      <4>2. QED
        BY <4>1
    <3>2. QED
      BY <3>1 DEF Below
  <2>6. ASSUME NEW n \in rest
        PROVE  Below(rest, n) = Below(R, n)
    BY <2>3 DEF Below
  <2>7. Reaches(rest)
    <3> HIDE DEF Reaches
    <3>1. QED
      BY <1>2, <2>4
  <2>8. ASSUME NEW j \in Nat, j < Cardinality(R)
        PROVE  \E n \in R : Cardinality(Below(R, n)) = j
    <3>1. CASE j < c
      <4>1. PICK n \in rest : Cardinality(Below(rest, n)) = j
        BY <2>4, <2>7, <3>1
      <4>2. n \in R /\ Below(rest, n) = Below(R, n)
        BY <2>6
      <4>3. QED
        BY <4>1, <4>2
    <3>2. CASE j = c
      BY <2>3, <2>4, <2>5, <3>2
    <3>3. QED
      BY <2>1, <2>8, <3>1, <3>2
  <2>9. QED
    BY <2>8
<1>3. Nat \subseteq Sizes
  <2> HIDE DEF Sizes
  <2>1. QED
    BY <1>1, <1>2, Joining!NaturalInduction
<1>4. Cardinality(S) \in Nat
  BY FS_CardinalityType
<1>5. Reaches(S)
  <2> HIDE DEF Reaches
  <2>1. QED
    BY <1>3, <1>4
<1>6. QED
  BY <1>5

\* InOrder lists the numbers of a set, each after those below it.
LEMMA NumbersInOrder ==
  ASSUME NEW S \in SUBSET Nat, IsFiniteSet(S)
  PROVE  /\ InOrder(S) \in Seq(Nat) /\ Len(InOrder(S)) = Cardinality(S)
         /\ Cardinality(S) \in Nat
         /\ \A k \in 1..Cardinality(S) :
              InOrder(S)[k] \in S /\ Cardinality(Below(S, InOrder(S)[k])) = k - 1
         /\ \A n \in S : /\ Cardinality(Below(S, n)) + 1 \in 1..Cardinality(S)
                         /\ InOrder(S)[Cardinality(Below(S, n)) + 1] = n
<1>0. Cardinality(S) \in Nat
  BY FS_CardinalityType
<1>1. ASSUME NEW k \in 1..Cardinality(S)
      PROVE  /\ InOrder(S)[k] \in S
             /\ Cardinality(Below(S, InOrder(S)[k])) = k - 1
  <2>1. k - 1 \in Nat /\ k - 1 < Cardinality(S)
    BY <1>0
  <2>2. \E n \in S : Cardinality(Below(S, n)) = k - 1
    BY <2>1, BelowReaches
  <2>3. InOrder(S)[k] = CHOOSE n \in S : Cardinality(Below(S, n)) = k - 1
    BY DEF InOrder, Below
  <2>4. QED
    BY <2>2, <2>3
<1>2. InOrder(S) = [k \in 1..Cardinality(S) |-> InOrder(S)[k]]
  <2> DEFINE Nth(k) == CHOOSE n \in S : Cardinality({m \in S : m < n}) = k - 1
  <2>1. InOrder(S) = [k \in 1..Cardinality(S) |-> Nth(k)]
    BY DEF InOrder
  <2> HIDE DEF Nth
  <2>2. QED
    BY <2>1
<1>3. InOrder(S) \in Seq(Nat) /\ Len(InOrder(S)) = Cardinality(S)
  <2>1. \A k \in 1..Cardinality(S) : InOrder(S)[k] \in Nat
    BY <1>1
  <2> DEFINE list == InOrder(S)
             size == Cardinality(S)
  <2>2. list = [k \in 1..size |-> list[k]] /\ size \in Nat /\ \A k \in 1..size : list[k] \in Nat
    BY <1>0, <1>2, <2>1
  <2> HIDE DEF list, size
  <2>3. list \in Seq(Nat) /\ Len(list) = size
    BY <2>2
  <2>4. QED
    BY <2>3 DEF list, size
<1>4. ASSUME NEW n \in S
      PROVE  /\ Cardinality(Below(S, n)) + 1 \in 1..Cardinality(S)
             /\ InOrder(S)[Cardinality(Below(S, n)) + 1] = n
  <2> DEFINE k == Cardinality(Below(S, n)) + 1
             other == InOrder(S)[k]
  <2>1. Cardinality(Below(S, n)) \in Nat
    BY BelowParts
  <2>2. k \in 1..Cardinality(S)
    <3>1. n \notin Below(S, n) /\ Below(S, n) \cup {n} \in SUBSET S
      BY DEF Below
    <3>2. IsFiniteSet(Below(S, n))
      BY BelowParts
    <3>3. Cardinality(Below(S, n) \cup {n}) = Cardinality(Below(S, n)) + 1
      BY <3>1, <3>2, FS_AddElement
    <3>4. Cardinality(Below(S, n) \cup {n}) <= Cardinality(S)
      BY <3>1, FS_Subset
    <3>5. QED
      BY <1>0, <2>1, <3>3, <3>4
  <2>3. other \in S /\ Cardinality(Below(S, other)) = k - 1
    BY <1>1, <2>2
  <2>4. Cardinality(Below(S, other)) = Cardinality(Below(S, n))
    BY <2>1, <2>3
  <2> HIDE DEF other, k
  <2>5. ~(other < n) /\ ~(n < other)
    <3>1. n \in Nat /\ other \in Nat
      BY <2>3
    <3>2. other < n => Cardinality(Below(S, other)) < Cardinality(Below(S, n))
      BY <2>3, <3>1, BelowGrows
    <3>3. n < other => Cardinality(Below(S, n)) < Cardinality(Below(S, other))
      BY <2>3, <3>1, BelowGrows
    <3>4. QED
      BY <2>1, <2>4, <3>2, <3>3
  <2>6. other = n
    BY <2>3, <2>5
  <2>7. QED
    BY <2>2, <2>6 DEF other, k
<1>5. QED
  BY <1>0, <1>1, <1>3, <1>4

-----------------------------------------------------------------------------
(***************************************************************************)
(* Positions: the binary search counts the newlines before an offset.      *)
(***************************************************************************)
Newlines(text) == {i \in 1..Len(text) : text[i] = "\n"}

\* The number of newlines among the symbols before an offset.
LineOf(text, offset) == Cardinality(Below(Newlines(text), offset + 1))

\* A text has finitely many newlines.
LEMMA NewlinesParts ==
  ASSUME NEW text \in Texts
  PROVE  Newlines(text) \in SUBSET Nat /\ IsFiniteSet(Newlines(text))
<1>1. Len(text) \in Nat
  BY LenType
<1>2. Newlines(text) \in SUBSET (1..Len(text))
  BY DEF Newlines
<1>3. IsFiniteSet(1..Len(text))
  BY <1>1, FS_Interval
<1>4. IsFiniteSet(Newlines(text))
  BY <1>2, <1>3, FS_Subset
<1>5. Newlines(text) \in SUBSET Nat
  BY <1>1, <1>2
<1>6. QED
  BY <1>4, <1>5

\* The first line starts at 0, every other one after a newline (buildLineIndex).
LEMMA LineStartsParts ==
  ASSUME NEW text \in Texts
  PROVE  /\ LineStarts(text) \in Seq(Nat)
         /\ Len(LineStarts(text)) = Cardinality(Newlines(text)) + 1
         /\ Cardinality(Newlines(text)) \in Nat
         /\ LineStarts(text)[1] = 0
         /\ \A k \in 1..Cardinality(Newlines(text)) :
              LineStarts(text)[k + 1] = InOrder(Newlines(text))[k]
<1> DEFINE list == InOrder(Newlines(text))
<1>1. list \in Seq(Nat) /\ Len(list) = Cardinality(Newlines(text)) /\ Cardinality(Newlines(text)) \in Nat
  BY NewlinesParts, NumbersInOrder
<1>2. LineStarts(text) = <<0>> \o list
  BY DEF LineStarts, Newlines
<1> HIDE DEF list
<1>3. /\ <<0>> \o list \in Seq(Nat) /\ Len(<<0>> \o list) = Len(list) + 1
      /\ (<<0>> \o list)[1] = 0 /\ \A k \in 1..Len(list) : (<<0>> \o list)[k + 1] = list[k]
  BY <1>1
<1>4. QED
  BY <1>1, <1>2, <1>3 DEF list

\* An offset lies before the start of exactly the lines after its own.
LEMMA StartsAfter ==
  ASSUME NEW text \in Texts, NEW offset \in Nat
  PROVE  /\ LineOf(text, offset) \in 0..(Len(LineStarts(text)) - 1)
         /\ \A l \in 0..(Len(LineStarts(text)) - 1) :
              offset < LineStarts(text)[l + 1] <=> LineOf(text, offset) < l
<1> DEFINE N == Newlines(text)
           T == LineOf(text, offset)
           starts == LineStarts(text)
<1>1. /\ starts \in Seq(Nat) /\ Len(starts) = Cardinality(N) + 1 /\ Cardinality(N) \in Nat
      /\ starts[1] = 0 /\ \A k \in 1..Cardinality(N) : starts[k + 1] = InOrder(N)[k]
  BY LineStartsParts
<1>2. N \in SUBSET Nat /\ IsFiniteSet(N)
  BY NewlinesParts
<1>3. T = Cardinality(Below(N, offset + 1)) /\ T \in Nat /\ T <= Cardinality(N)
  <2>1. T = Cardinality(Below(N, offset + 1))
    BY DEF LineOf
  <2>2. Below(N, offset + 1) \in SUBSET N
    BY DEF Below
  <2>3. Cardinality(Below(N, offset + 1)) \in Nat
    BY <1>2, BelowParts
  <2>4. Cardinality(Below(N, offset + 1)) <= Cardinality(N)
    BY <1>2, <2>2, FS_Subset
  <2>5. QED
    BY <2>1, <2>3, <2>4
<1> HIDE DEF N, T, starts
<1>4. ASSUME NEW l \in 1..Cardinality(N)
      PROVE  offset < starts[l + 1] <=> T < l
  <2> DEFINE n == InOrder(N)[l]
  <2>1. starts[l + 1] = n /\ n \in N /\ Cardinality(Below(N, n)) = l - 1 /\ n \in Nat
    BY <1>1, <1>2, NumbersInOrder
  <2> HIDE DEF n
  <2>2. CASE n <= offset
    <3>1. n < offset + 1 /\ offset + 1 \in Nat
      BY <2>1, <2>2
    <3>2. Cardinality(Below(N, n)) < Cardinality(Below(N, offset + 1))
      BY <1>2, <2>1, <3>1, BelowGrows
    <3>3. QED
      BY <1>3, <2>1, <2>2, <3>2
  <2>3. CASE offset < n
    <3>1. ASSUME NEW m \in Below(N, offset + 1)
          PROVE  m \in Below(N, n)
      <4>1. m \in N /\ m < offset + 1
        BY DEF Below
      <4>2. m \in Nat
        BY <1>2, <4>1
      <4>3. m < n
        BY <2>1, <2>3, <4>1, <4>2
      <4>4. QED
        BY <4>1, <4>3 DEF Below
    <3>2. IsFiniteSet(Below(N, n))
      BY <1>2, BelowParts
    <3>3. Cardinality(Below(N, offset + 1)) <= Cardinality(Below(N, n))
      BY <3>1, <3>2, FS_Subset
    <3>4. QED
      BY <1>3, <2>1, <2>3, <3>3
  <2>4. QED
    BY <2>1, <2>2, <2>3
<1>5. T \in 0..(Len(starts) - 1)
  BY <1>1, <1>3
<1>6. ASSUME NEW l \in 0..(Len(starts) - 1)
      PROVE  offset < starts[l + 1] <=> T < l
  <2>1. CASE l = 0
    BY <1>1, <1>3, <2>1
  <2>2. CASE l # 0
    <3>1. l \in 1..Cardinality(N)
      BY <1>1, <2>2
    <3>2. QED
      BY <1>4, <3>1
  <2>3. QED
    BY <2>1, <2>2
<1>7. QED
  BY <1>5, <1>6 DEF T, starts

LineEnd(starts, line, offset) ==
  IF line + 1 < Len(starts) THEN starts[line + 2] ELSE offset + 1

SearchStep(f, low, high, starts, offset) ==
  LET mid == (low + high) \div 2
  IN  IF low > high THEN Len(starts) - 1
      ELSE IF offset < starts[mid + 1] THEN f[<<low, mid - 1>>]
      ELSE IF offset >= LineEnd(starts, mid, offset) THEN f[<<mid + 1, high>>]
      ELSE mid

\* The binary search is a function of its two bounds.
LEMMA SearchSolved ==
  ASSUME NEW starts \in Seq(Nat), starts # <<>>, NEW offset \in Nat
  PROVE  \E f :
           /\ \A low \in 0..Len(starts), high \in -1..(Len(starts) - 1) :
                f[<<low, high>>] = SearchStep(f, low, high, starts, offset)
           /\ PositionAt(starts, offset) =
                [line |-> f[<<0, Len(starts) - 1>>],
                 character |-> offset - starts[f[<<0, Len(starts) - 1>>] + 1]]
<1> DEFINE D == (0..Len(starts)) \X (-1..(Len(starts) - 1))
           Step(f, r) == SearchStep(f, r[1], r[2], starts, offset)
           G == [f \in [D -> Int] |-> [r \in D |-> Step(f, r)]]
           rank == [r \in D |-> IF r[1] > r[2] THEN 0 ELSE r[2] - r[1] + 1]
           search == CHOOSE f : f = [r \in D |-> Step(f, r)]
<1>0. Len(starts) \in Nat
  OBVIOUS
<1>1. ASSUME NEW r \in D
      PROVE  /\ r = <<r[1], r[2]>>
             /\ r[1] \in Int /\ r[2] \in Int
             /\ r[1] <= r[2] =>
                  LET mid == (r[1] + r[2]) \div 2
                  IN  /\ mid \in Int
                      /\ <<r[1], mid - 1>> \in D /\ rank[<<r[1], mid - 1>>] < rank[r]
                      /\ <<mid + 1, r[2]>> \in D /\ rank[<<mid + 1, r[2]>>] < rank[r]
  <2>1. /\ r = <<r[1], r[2]>> /\ r[1] \in 0..Len(starts) /\ r[2] \in -1..(Len(starts) - 1)
        /\ r[1] \in Int /\ r[2] \in Int
    OBVIOUS
  <2>2. ASSUME r[1] <= r[2]
        PROVE  LET mid == (r[1] + r[2]) \div 2
               IN  /\ mid \in Int
                   /\ <<r[1], mid - 1>> \in D /\ rank[<<r[1], mid - 1>>] < rank[r]
                   /\ <<mid + 1, r[2]>> \in D /\ rank[<<mid + 1, r[2]>>] < rank[r]
    <3> DEFINE mid == (r[1] + r[2]) \div 2
    <3>1. mid \in Int /\ r[1] <= mid /\ mid <= r[2]
      BY <2>1, <2>2
    <3> HIDE DEF mid
    <3>2. <<r[1], mid - 1>> \in D /\ <<mid + 1, r[2]>> \in D
      BY <1>0, <2>1, <3>1
    <3>3. rank[<<r[1], mid - 1>>] = IF r[1] > mid - 1 THEN 0 ELSE mid - 1 - r[1] + 1
      BY <3>2
    <3>4. rank[<<mid + 1, r[2]>>] = IF mid + 1 > r[2] THEN 0 ELSE r[2] - (mid + 1) + 1
      BY <3>2
    <3>5. rank[r] = r[2] - r[1] + 1
      BY <2>1, <2>2
    <3> HIDE DEF rank, D
    <3>6. rank[<<r[1], mid - 1>>] < rank[r] /\ rank[<<mid + 1, r[2]>>] < rank[r]
      <4>1. rank[<<r[1], mid - 1>>] < rank[r]
        BY <2>1, <2>2, <3>1, <3>3, <3>5
      <4>2. rank[<<mid + 1, r[2]>>] < rank[r]
        BY <2>1, <2>2, <3>1, <3>4, <3>5
      <4>3. QED
        BY <4>1, <4>2
    <3>7. QED
      BY <3>1, <3>2, <3>6 DEF mid
  <2>3. QED
    BY <2>1, <2>2
<1>2. ASSUME NEW f \in [D -> Int], NEW r \in D
      PROVE  Step(f, r) \in Int
  <2>a. r[1] \in Int /\ r[2] \in Int
    BY <1>1
  <2> HIDE DEF D, rank
  <2>1. CASE r[1] > r[2]
    BY <1>0, <1>1, <2>1 DEF SearchStep
  <2>2. CASE r[1] <= r[2]
    <3> DEFINE mid == (r[1] + r[2]) \div 2
    <3>1. mid \in Int /\ f[<<r[1], mid - 1>>] \in Int /\ f[<<mid + 1, r[2]>>] \in Int
      BY <1>1, <2>2
    <3>2. ~(r[1] > r[2]) /\ Step(f, r) \in {mid, f[<<r[1], mid - 1>>], f[<<mid + 1, r[2]>>]}
      BY <1>1, <2>2 DEF SearchStep
    <3>3. QED
      BY <3>1, <3>2
  <2>3. QED
    BY <2>a, <2>1, <2>2
<1>3. Joining!Unfolds(G, D, Int)
  <2> HIDE DEF Step, D
  <2>1. QED
    BY <1>2 DEF Joining!Unfolds
<1>4. ASSUME NEW g \in [D -> Int], NEW h \in [D -> Int], NEW r \in D,
             \A q \in D : rank[q] < rank[r] => g[q] = h[q]
      PROVE  Step(g, r) = Step(h, r)
  <2>a. r[1] \in Int /\ r[2] \in Int
    BY <1>1
  <2> HIDE DEF D, rank
  <2>1. CASE r[1] > r[2]
    BY <1>1, <2>1 DEF SearchStep
  <2>2. CASE r[1] <= r[2]
    <3> DEFINE mid == (r[1] + r[2]) \div 2
    <3>1. g[<<r[1], mid - 1>>] = h[<<r[1], mid - 1>>] /\ g[<<mid + 1, r[2]>>] = h[<<mid + 1, r[2]>>]
      BY <1>1, <1>4, <2>2
    <3>2. QED
      BY <3>1 DEF SearchStep
  <2>3. QED
    BY <2>a, <2>1, <2>2
<1>5. Joining!RestsOnLower(G, D, Int, rank)
  <2> HIDE DEF Step, D, rank
  <2>1. QED
    BY <1>4 DEF Joining!RestsOnLower
<1>6. \E f \in [D -> Int] : f = G[f]
  <2> DEFINE default == 0
             V == Int
  <2>1. rank \in [D -> Nat]
    BY <1>0
  <2>2. default \in V
    OBVIOUS
  <2>3. Joining!Unfolds(G, D, V) /\ Joining!RestsOnLower(G, D, V, rank)
    BY <1>3, <1>5
  <2>4. \E f \in [D -> V] : f = G[f]
    <3> HIDE DEF G, D, V, rank, default
    <3>1. QED
      BY <2>1, <2>2, <2>3, Joining!RankRecursion
  <2>5. QED
    BY <2>4
<1>7. search = [r \in D |-> Step(search, r)]
  <2> HIDE DEF Step, D
  <2>1. QED
    BY <1>6
<1>8. PositionAt(starts, offset) =
        [line |-> search[<<0, Len(starts) - 1>>],
         character |-> offset - starts[search[<<0, Len(starts) - 1>>] + 1]]
  BY DEF PositionAt, SearchStep, LineEnd
<1> HIDE DEF search
<1>9. ASSUME NEW low \in 0..Len(starts), NEW high \in -1..(Len(starts) - 1)
      PROVE  search[<<low, high>>] = SearchStep(search, low, high, starts, offset)
  <2>1. <<low, high>> \in D /\ <<low, high>>[1] = low /\ <<low, high>>[2] = high
    OBVIOUS
  <2>2. search[<<low, high>>] = Step(search, <<low, high>>)
    <3> HIDE DEF Step, D
    <3>1. QED
      BY <1>7, <2>1
  <2>3. QED
    BY <2>1, <2>2
<1>10. QED
  BY <1>8, <1>9

\* The search finds the line an offset is on.
LEMMA SearchFinds ==
  ASSUME NEW text \in Texts, NEW offset \in Nat
  PROVE  PositionAt(LineStarts(text), offset) =
           [line |-> LineOf(text, offset),
            character |-> offset - LineStarts(text)[LineOf(text, offset) + 1]]
<1> DEFINE starts == LineStarts(text)
           T == LineOf(text, offset)
<1>1. starts \in Seq(Nat) /\ Len(starts) \in Nat /\ Len(starts) >= 1 /\ starts # <<>>
  BY LineStartsParts
<1>2. /\ T \in 0..(Len(starts) - 1)
      /\ \A l \in 0..(Len(starts) - 1) : offset < starts[l + 1] <=> T < l
  BY StartsAfter
<1> HIDE DEF starts, T
<1>3. PICK f :
        /\ \A low \in 0..Len(starts), high \in -1..(Len(starts) - 1) :
             f[<<low, high>>] = SearchStep(f, low, high, starts, offset)
        /\ PositionAt(starts, offset) =
             [line |-> f[<<0, Len(starts) - 1>>],
              character |-> offset - starts[f[<<0, Len(starts) - 1>>] + 1]]
  BY <1>1, SearchSolved
<1> DEFINE Found(n) == \A low, high \in 0..(Len(starts) - 1) :
                         low <= T /\ T <= high /\ high - low < n => f[<<low, high>>] = T
           Narrow == {n \in Nat : Found(n)}
<1>4. 0 \in Narrow
  <2>1. \A low, high \in 0..(Len(starts) - 1) :
          low <= T /\ T <= high => ~(high - low < 0)
    BY <1>1, <1>2
  <2>2. QED
    BY <2>1
<1>5. ASSUME NEW n \in Nat, n \in Narrow
      PROVE  n + 1 \in Narrow
  <2>1. SUFFICES ASSUME NEW low \in 0..(Len(starts) - 1), NEW high \in 0..(Len(starts) - 1),
                        low <= T, T <= high, high - low < n + 1
                 PROVE  f[<<low, high>>] = T
    <3>1. n + 1 \in Nat
      OBVIOUS
    <3>2. Found(n + 1)
      BY <2>1, Zenon
    <3> HIDE DEF Found
    <3>3. QED
      BY <3>1, <3>2
  <2> DEFINE mid == (low + high) \div 2
  <2>2. /\ mid \in 0..(Len(starts) - 1) /\ low <= mid /\ mid <= high
        /\ low \in 0..Len(starts) /\ high \in -1..(Len(starts) - 1) /\ ~(low > high)
    BY <1>1, <1>2, <2>1
  <2>3. f[<<low, high>>] = SearchStep(f, low, high, starts, offset)
    BY <1>3, <2>2
  <2>4. f[<<low, high>>] =
          IF offset < starts[mid + 1] THEN f[<<low, mid - 1>>]
          ELSE IF offset >= LineEnd(starts, mid, offset) THEN f[<<mid + 1, high>>]
          ELSE mid
    BY <2>2, <2>3 DEF SearchStep
  <2> HIDE DEF mid
  <2>5. CASE offset < starts[mid + 1]
    <3>1. T < mid
      BY <1>2, <2>2, <2>5
    <3>2. /\ mid - 1 \in 0..(Len(starts) - 1) /\ T <= mid - 1
          /\ (mid - 1) - low < n
      BY <1>1, <1>2, <2>1, <2>2, <3>1
    <3>3. f[<<low, mid - 1>>] = T
      BY <1>5, <2>1, <3>2
    <3>4. QED
      BY <2>4, <2>5, <3>3
  <2>6. CASE ~(offset < starts[mid + 1]) /\ offset >= LineEnd(starts, mid, offset)
    <3>1. mid + 1 < Len(starts)
      BY <1>1, <2>2, <2>6 DEF LineEnd
    <3>2. ~(offset < starts[(mid + 1) + 1])
      <4>1. LineEnd(starts, mid, offset) = starts[mid + 2] /\ mid + 2 \in 1..Len(starts)
        BY <1>1, <2>2, <3>1 DEF LineEnd
      <4>2. starts[mid + 2] \in Nat
        BY <1>1, <4>1
      <4>3. mid + 2 = (mid + 1) + 1
        BY <2>2
      <4>4. QED
        BY <2>6, <4>1, <4>2, <4>3
    <3>3. mid + 1 \in 0..(Len(starts) - 1)
      BY <1>1, <2>2, <3>1
    <3>4. ~(T < mid + 1)
      BY <1>2, <3>2, <3>3
    <3>5. mid + 1 <= T /\ high - (mid + 1) < n
      BY <1>2, <2>1, <2>2, <3>4
    <3>6. f[<<mid + 1, high>>] = T
      BY <1>5, <2>1, <3>3, <3>5
    <3>7. QED
      BY <2>4, <2>6, <3>6
  <2>7. CASE ~(offset < starts[mid + 1]) /\ ~(offset >= LineEnd(starts, mid, offset))
    <3>1. ~(T < mid)
      BY <1>2, <2>2, <2>7
    <3>2. T < mid + 1
      <4>1. CASE mid + 1 < Len(starts)
        <5>1. LineEnd(starts, mid, offset) = starts[mid + 2] /\ mid + 2 \in 1..Len(starts)
          BY <1>1, <2>2, <4>1 DEF LineEnd
        <5>2. starts[mid + 2] \in Nat
          BY <1>1, <5>1
        <5>3. mid + 2 = (mid + 1) + 1 /\ mid + 1 \in 0..(Len(starts) - 1)
          BY <1>1, <2>2, <4>1
        <5>4. offset < starts[(mid + 1) + 1]
          BY <2>7, <5>1, <5>2, <5>3
        <5>5. QED
          BY <1>2, <5>3, <5>4
      <4>2. CASE ~(mid + 1 < Len(starts))
        BY <1>1, <1>2, <2>2, <4>2
      <4>3. QED
        BY <4>1, <4>2
    <3>3. T = mid
      BY <1>2, <2>2, <3>1, <3>2
    <3>4. QED
      BY <2>4, <2>7, <3>3
  <2>8. QED
    BY <2>5, <2>6, <2>7
<1>6. Nat \subseteq Narrow
  <2> HIDE DEF Narrow
  <2>1. QED
    BY <1>4, <1>5, Joining!NaturalInduction
<1>7. f[<<0, Len(starts) - 1>>] = T
  <2> DEFINE high == Len(starts) - 1
  <2>1. 0 \in 0..high /\ high \in 0..high /\ 0 <= T /\ T <= high /\ high - 0 < Len(starts)
    BY <1>1, <1>2
  <2>2. Found(Len(starts))
    BY <1>1, <1>6
  <2>3. QED
    BY <2>1, <2>2
<1>8. PositionAt(starts, offset) = [line |-> T, character |-> offset - starts[T + 1]]
  BY <1>3, <1>7
<1>9. QED
  BY <1>8 DEF starts, T

\* Which is what counting newlines gives.
LEMMA PlaceFound ==
  ASSUME source \in Texts, NEW offset \in 0..Len(source)
  PROVE  PositionAt(LineStarts(source), offset) = PlaceOf(offset)
<1> DEFINE N == Newlines(source)
           before == Below(N, offset + 1)
           starts == LineStarts(source)
<1>0. Len(source) \in Nat /\ offset \in Nat /\ offset <= Len(source)
  BY LenType
<1>1. N \in SUBSET Nat /\ IsFiniteSet(N)
  BY NewlinesParts
<1>2. /\ starts \in Seq(Nat) /\ starts[1] = 0
      /\ \A k \in 1..Cardinality(N) : starts[k + 1] = InOrder(N)[k]
  BY LineStartsParts
<1>3. {i \in 1..offset : source[i] = "\n"} = before
  <2>1. \A i \in 1..offset : i \in 1..Len(source) /\ i < offset + 1
    BY <1>0
  <2>2. \A i \in 1..Len(source) : i < offset + 1 => i \in 1..offset
    BY <1>0
  <2>3. QED
    BY <2>1, <2>2 DEF Newlines, Below
<1>4. LineOf(source, offset) = Cardinality(before)
  BY DEF LineOf
<1>5. PlaceOf(offset) = [line |-> Cardinality(before), character |-> offset - Max(before \cup {0})]
  BY <1>3 DEF PlaceOf
<1>6. starts[Cardinality(before) + 1] = Max(before \cup {0})
  <2>1. IsFiniteSet(before) /\ Cardinality(before) \in Nat
    BY <1>1, BelowParts
  <2>2. before \in SUBSET N /\ before \in SUBSET Nat
    BY <1>1 DEF Below
  <2>3. IsFiniteSet(before \cup {0})
    BY <2>1, FS_AddElement
  <2> DEFINE all == before \cup {0}
             top == Max(all)
  <2>4. all \subseteq Int /\ all # {} /\ 0 \in all
    BY <2>2
  <2>5. top \in all /\ \A x \in all : x <= top
    <3> HIDE DEF all
    <3>1. Joining!IsFiniteSet(all)
      BY <2>3 DEF IsFiniteSet, Joining!IsFiniteSet, all
    <3>2. Joining!Max(all) \in all /\ \A x \in all : x <= Joining!Max(all)
      BY <2>4, <3>1, Joining!GreatestOfFinite
    <3>3. Joining!Max(all) = Max(all)
      BY DEF Joining!Max, Max
    <3>4. QED
      BY <3>2, <3>3
  <2> HIDE DEF top
  <2>6. CASE before = {}
    <3>1. top = 0
      BY <2>5, <2>6
    <3>2. Cardinality(before) = 0
      BY <2>6, FS_EmptySet
    <3>3. QED
      BY <1>2, <3>1, <3>2 DEF top
  <2>7. CASE before # {}
    <3> HIDE DEF before
    <3>1. \A x \in before : x \in Nat /\ x >= 1
      <4>1. \A x \in N : x >= 1
        BY <1>0 DEF Newlines
      <4>2. QED
        BY <2>2, <4>1
    <3>2. top \in before
      BY <2>5, <2>7, <3>1
    <3>3. Below(N, top) = before \ {top}
      <4>1. ASSUME NEW m \in N
            PROVE  m < top <=> m \in before /\ m # top
        <5>1. m \in Nat /\ top \in Nat /\ top < offset + 1
          BY <1>1, <2>2, <3>2 DEF before, Below
        <5>2. m \in before <=> m < offset + 1
          BY DEF before, Below
        <5>3. m \in before => m <= top
          BY <2>5
        <5>4. QED
          BY <1>0, <5>1, <5>2, <5>3
      <4>2. QED
        BY <2>2, <4>1 DEF Below
    <3>4. Cardinality(Below(N, top)) = Cardinality(before) - 1
      BY <2>1, <3>2, <3>3, FS_RemoveElement
    <3>5. /\ Cardinality(Below(N, top)) + 1 \in 1..Cardinality(N)
          /\ InOrder(N)[Cardinality(Below(N, top)) + 1] = top
      <4> HIDE DEF N
      <4>1. top \in N
        BY <2>2, <3>2
      <4>2. QED
        BY <1>1, <4>1, NumbersInOrder
    <3>6. Cardinality(Below(N, top)) + 1 = Cardinality(before)
      BY <2>1, <3>4
    <3>7. starts[Cardinality(before) + 1] = top
      BY <1>2, <3>5, <3>6
    <3>8. QED
      BY <3>7 DEF top
  <2>8. QED
    BY <2>6, <2>7
<1>7. PositionAt(starts, offset) =
        [line |-> LineOf(source, offset), character |-> offset - starts[LineOf(source, offset) + 1]]
  BY <1>0, SearchFinds
<1>8. QED
  BY <1>4, <1>5, <1>6, <1>7

-----------------------------------------------------------------------------
(***************************************************************************)
(* Keywords.                                                               *)
(***************************************************************************)
OfOneWord(p)  == Len(p) = 1
OfTwoWords(p) == Len(p) = 2 /\ p[2] \in Keywords

\* Keywords of clauses have one word or two.
LEMMA PhraseWords ==
  /\ DOMAIN ClauseKeywords = 1..19
  /\ \A k \in DOMAIN ClauseKeywords : OfOneWord(ClauseKeywords[k]) \/ OfTwoWords(ClauseKeywords[k])
  /\ EndOfText \notin Keywords
<1>1. DOMAIN ClauseKeywords = 1..19
  BY DEF ClauseKeywords
<1>2. \A k \in 1..4 : OfTwoWords(ClauseKeywords[k])
  BY DEF ClauseKeywords, OfTwoWords, Keywords
<1>3. \A k \in 5..19 : OfOneWord(ClauseKeywords[k])
  BY DEF ClauseKeywords, OfOneWord
<1>4. EndOfText \notin Keywords
  BY Zenon DEF EndOfText, Keywords
<1>5. \A k \in 1..19 : k \in 1..4 \/ k \in 5..19
  OBVIOUS
<1>6. QED
  BY <1>1, <1>2, <1>3, <1>4, <1>5

\* Blanks are passed up to the first symbol that is none.
LEMMA AfterBlanksParts ==
  ASSUME NEW text \in Texts, NEW i \in Nat, i <= Len(text)
  PROVE  /\ AfterBlanks(text, i) \in Nat
         /\ i <= AfterBlanks(text, i) /\ AfterBlanks(text, i) <= Len(text)
         /\ \A j \in i..(AfterBlanks(text, i) - 1) : CharAt(text, j) \in Blank
<1> DEFINE S == {j \in From(text, i) : CharAt(text, j) \notin Blank}
           next == First(S)
<1>0. Len(text) \in Nat
  BY LenType
<1>1. S \in SUBSET Nat
  BY FromParts
<1>2. AfterBlanks(text, i) = IF next = None THEN Len(text) ELSE next
  BY DEF AfterBlanks
<1>3. CASE S = {}
  <2>1. next = None
    <3> HIDE DEF S
    <3>1. QED
      BY <1>1, <1>3, FirstIsLeast
  <2>2. ASSUME NEW j \in i..(Len(text) - 1)
        PROVE  CharAt(text, j) \in Blank
    <3>1. j \in From(text, i)
      BY <1>0, FromParts
    <3>2. QED
      BY <1>3, <3>1
  <2>3. QED
    BY <1>0, <1>2, <2>1, <2>2
<1>4. CASE S # {}
  <2>1. next \in S /\ next \in Nat /\ \A n \in S : next <= n
    <3> HIDE DEF S
    <3>1. QED
      BY <1>1, <1>4, FirstIsLeast
  <2>2. AfterBlanks(text, i) = next
    BY <1>2, <2>1, Literals
  <2> HIDE DEF next
  <2>3. i <= next /\ next < Len(text)
    BY <2>1, FromParts
  <2>4. ASSUME NEW j \in i..(next - 1)
        PROVE  CharAt(text, j) \in Blank
    <3>1. j \in From(text, i) /\ ~(next <= j)
      BY <1>0, <2>1, <2>3, FromParts
    <3>2. QED
      BY <2>1, <3>1
  <2>5. QED
    BY <1>0, <2>1, <2>2, <2>3, <2>4
<1>5. QED
  BY <1>3, <1>4

\* A phrase found at a symbol of the text ends in the text.
LEMMA PhraseEnds ==
  ASSUME NEW text \in Texts, NEW i \in 0..(Len(text) - 1), NEW phrase,
         OfOneWord(phrase) \/ OfTwoWords(phrase), PhraseEnd(text, i, phrase) # None
  PROVE  /\ PhraseEnd(text, i, phrase) \in Nat
         /\ i < PhraseEnd(text, i, phrase) /\ PhraseEnd(text, i, phrase) <= Len(text)
<1>0. Len(text) \in Nat /\ i \in Nat /\ i + 1 \in Nat /\ i < Len(text)
  BY LenType
<1>1. WordEnd(text, i, phrase[1]) \in {i + 1, None}
  BY DEF WordEnd
<1>2. CASE OfOneWord(phrase)
  <2>1. PhraseEnd(text, i, phrase) = WordEnd(text, i, phrase[1])
    BY <1>2 DEF PhraseEnd, OfOneWord
  <2>2. QED
    BY <1>0, <1>1, <2>1
<1>3. CASE OfTwoWords(phrase)
  <2> DEFINE j == AfterBlanks(text, i + 1)
  <2>1. WordEnd(text, i, phrase[1]) = i + 1
    <3>1. WordEnd(text, i, phrase[1]) # None
      BY DEF PhraseEnd
    <3>2. QED
      BY <1>1, <3>1
  <2>2. /\ CharAt(text, i + 1) \in Blank
        /\ PhraseEnd(text, i, phrase) = WordEnd(text, j, phrase[2])
    <3>1. Len(phrase) # 1
      BY <1>3 DEF OfTwoWords
    <3>2. i + 1 # None
      BY <1>0, Literals
    <3>3. PhraseEnd(text, i, phrase) =
            IF CharAt(text, i + 1) \notin Blank THEN None ELSE WordEnd(text, j, phrase[2])
      BY <2>1, <3>1, <3>2 DEF PhraseEnd
    <3>4. QED
      BY <3>3
  <2>3. j \in Nat /\ i + 1 <= j /\ j <= Len(text)
    BY <1>0, AfterBlanksParts
  <2> HIDE DEF j
  <2>4. CharAt(text, j) = phrase[2] /\ PhraseEnd(text, i, phrase) = j + 1
    BY <2>2 DEF WordEnd
  <2>5. CharAt(text, j) # EndOfText
    BY <1>3, <2>4, PhraseWords DEF OfTwoWords
  <2>6. j \in 0..(Len(text) - 1)
    BY <2>5, CharWithin
  <2>7. QED
    BY <1>0, <2>3, <2>4, <2>6
<1>4. QED
  BY <1>2, <1>3

\* A keyword that is found starts where it was looked for, and it is not empty.
LEMMA KeywordFound ==
  ASSUME NEW text \in Texts, NEW i \in 0..(Len(text) - 1), KeywordAt(text, i) # <<>>
  PROVE  LET m == KeywordAt(text, i)[1]
         IN  /\ KeywordAt(text, i) = <<m>>
             /\ m \in [keyword : KeywordPhrases, start : Nat, end : Nat]
             /\ m.start = i /\ i < m.end /\ m.end <= Len(text)
<1> DEFINE S == {k \in DOMAIN ClauseKeywords : PhraseEnd(text, i, ClauseKeywords[k]) # None}
           found == First(S)
           phrase == ClauseKeywords[found]
           end == PhraseEnd(text, i, phrase)
<1>1. S \in SUBSET Nat
  <2>1. DOMAIN ClauseKeywords = 1..19
    BY PhraseWords
  <2>2. DOMAIN ClauseKeywords \subseteq Nat
    BY <2>1
  <2>3. QED
    BY <2>2
<1>2. /\ ~(IsIdentifierChar(CharAt(text, i - 1)) \/ found = None)
      /\ KeywordAt(text, i) = <<[keyword |-> phrase, start |-> i, end |-> end]>>
  BY DEF KeywordAt
<1>3. found \in S
  <2> HIDE DEF S
  <2>1. QED
    BY <1>1, <1>2, FirstIsLeast
<1>4. phrase \in KeywordPhrases /\ end # None /\ (OfOneWord(phrase) \/ OfTwoWords(phrase))
  <2>1. found \in DOMAIN ClauseKeywords /\ end # None
    BY <1>3
  <2> HIDE DEF found
  <2>2. QED
    BY <2>1, PhraseWords DEF KeywordPhrases
<1> HIDE DEF phrase, found
<1>5. end \in Nat /\ i < end /\ end <= Len(text)
  BY <1>4, PhraseEnds
<1>6. i \in Nat
  BY LenType
<1> HIDE DEF end
<1> DEFINE m == [keyword |-> phrase, start |-> i, end |-> end]
<1>7. m \in [keyword : KeywordPhrases, start : Nat, end : Nat] /\ m.start = i /\ m.end = end
  BY <1>4, <1>5, <1>6
<1>8. KeywordAt(text, i)[1] = m
  BY <1>2
<1>9. QED
  BY <1>2, <1>5, <1>7, <1>8

-----------------------------------------------------------------------------
(***************************************************************************)
(* The annotation of clauses with what the preview has for them.           *)
(***************************************************************************)
\* What annotation leaves alone.
SameText(c, d) == /\ c.keyword = d.keyword /\ c.raw = d.raw
                  /\ c.start = d.start /\ c.end = d.end

\* What holds of the clauses after i entries: those lifted lie before the
\* cursor and name entries of their kind, in the order of the entries.
KeepsOrder(t, clauses, lifted, i) ==
  /\ Len(t.clauses) = Len(clauses)
  /\ \A k \in 1..Len(clauses) : SameText(t.clauses[k], clauses[k])
  /\ \A k \in 1..Len(clauses) : t.clauses[k].support = "lifted" <=> t.clauses[k].irPath # None
  /\ \A k \in 1..Len(clauses) : t.clauses[k].support = "lifted" =>
       /\ k < t.cursor /\ t.clauses[k].irPath \in 1..i
       /\ lifted[t.clauses[k].irPath].kind = KindOf(t.clauses[k].keyword)
  /\ \A j, k \in 1..Len(clauses) :
       t.clauses[j].support = "lifted" /\ t.clauses[k].support = "lifted" /\ j < k =>
         t.clauses[j].irPath < t.clauses[k].irPath

Annotating == [clauses : Seq(Clause), cursor : Nat \ {0}]

\* The first clause of some kinds is one of them, from the cursor on.
LEMMA FirstUnknownParts ==
  ASSUME NEW clauses \in Seq(Clause), NEW cursor \in Nat \ {0}, NEW kinds
  PROVE  LET k == FirstUnknown(clauses, cursor, kinds)
         IN  k # 0 => /\ k \in 1..Len(clauses) /\ cursor <= k
                      /\ KindOf(clauses[k].keyword) \in kinds
<1> DEFINE S == {k \in cursor..Len(clauses) :
                    clauses[k].support = "unknown" /\ KindOf(clauses[k].keyword) \in kinds}
<1>1. FirstUnknown(clauses, cursor, kinds) = IF S = {} THEN 0 ELSE Min(S)
  BY DEF FirstUnknown
<1>2. S \in SUBSET Nat /\ \A k \in S : k \in 1..Len(clauses) /\ cursor <= k
  BY DEF Clause
<1>3. \A k \in S : KindOf(clauses[k].keyword) \in kinds
  OBVIOUS
<1>4. S # {} => Min(S) \in S
  <2>1. S # {} => First(S) = Min(S)
    BY DEF First
  <2> HIDE DEF S
  <2>2. QED
    BY <1>2, <2>1, FirstIsLeast
<1> HIDE DEF S
<1>5. QED
  BY <1>1, <1>2, <1>3, <1>4

RawMarked(clauses, marked) ==
  [k \in DOMAIN clauses |->
     IF k \in marked THEN [clauses[k] EXCEPT !.support = "raw", !.irPath = None] ELSE clauses[k]]

\* A raw clause marks clauses from the cursor on, and moves it past them.
LEMMA MarkRawParts ==
  ASSUME NEW clauses \in Seq(Clause), NEW cursor \in Nat \ {0}, NEW raw
  PROVE  \E marked \in SUBSET (cursor..Len(clauses)) :
           /\ MarkRawCovered(clauses, cursor, raw).clauses = RawMarked(clauses, marked)
           /\ MarkRawCovered(clauses, cursor, raw).cursor \in Nat
           /\ MarkRawCovered(clauses, cursor, raw).cursor >= cursor
<1> DEFINE text == NormalizeClauseText(raw)
           Covered(k) == LET own == NormalizeClauseText(clauses[k].raw)
                         IN  own # <<>> /\ Includes(text, own)
           first == {k \in cursor..Len(clauses) : Covered(k) /\ \A j \in cursor..(k - 1) : ~Covered(j)}
           run   == {k \in cursor..Len(clauses) :
                       \E f \in first : f <= k /\ \A j \in f..k : Covered(j)}
           next  == FirstUnknown(clauses, cursor, Kinds)
           marked == IF run # {} THEN run ELSE {next} \ {0}
<1>1. /\ MarkRawCovered(clauses, cursor, raw).clauses = RawMarked(clauses, marked)
      /\ MarkRawCovered(clauses, cursor, raw).cursor = IF marked = {} THEN cursor ELSE Max(marked) + 1
  BY DEF MarkRawCovered, RawMarked
<1>2. marked \in SUBSET (cursor..Len(clauses))
  <2>1. run \in SUBSET (cursor..Len(clauses))
    OBVIOUS
  <2>2. next # 0 => next \in cursor..Len(clauses)
    <3>1. next # 0 => next \in 1..Len(clauses) /\ cursor <= next
      BY FirstUnknownParts
    <3> HIDE DEF next
    <3>2. QED
      BY <3>1
  <2> HIDE DEF run, next
  <2>3. QED
    BY <2>1, <2>2
<1> HIDE DEF marked
<1>3. marked # {} => Max(marked) \in cursor..Len(clauses)
  <2>1. marked \in SUBSET (1..Len(clauses)) /\ Len(clauses) \in Nat
    BY <1>2
  <2>2. marked # {} => Joining!Max(marked) \in marked
    BY <2>1, Joining!GreatestPosition
  <2>3. Joining!Max(marked) = Max(marked)
    BY DEF Joining!Max, Max
  <2>4. QED
    BY <1>2, <2>2, <2>3
<1>4. /\ MarkRawCovered(clauses, cursor, raw).cursor \in Nat
      /\ MarkRawCovered(clauses, cursor, raw).cursor >= cursor
  <2> DEFINE new == MarkRawCovered(clauses, cursor, raw).cursor
  <2>1. CASE marked = {}
    BY <1>1, <2>1
  <2>2. CASE marked # {}
    <3>1. new = Max(marked) + 1 /\ Max(marked) \in cursor..Len(clauses)
      BY <1>1, <1>3, <2>2
    <3> HIDE DEF new
    <3>2. new \in Nat /\ new >= cursor
      BY <3>1
    <3>3. QED
      BY <3>2 DEF new
  <2>3. QED
    BY <2>1, <2>2
<1>5. QED
  BY <1>1, <1>2, <1>4

\* A clause stays one when its support is set.
LEMMA ClauseEdits ==
  ASSUME NEW c \in Clause
  PROVE  /\ \A path \in Nat :
              /\ [c EXCEPT !.support = "lifted", !.irPath = path] \in Clause
              /\ SameText([c EXCEPT !.support = "lifted", !.irPath = path], c)
              /\ [c EXCEPT !.support = "lifted", !.irPath = path].support = "lifted"
              /\ [c EXCEPT !.support = "lifted", !.irPath = path].irPath = path
         /\ \A s \in {"raw", "unknown"} :
              /\ [c EXCEPT !.support = s, !.irPath = None] \in Clause
              /\ SameText([c EXCEPT !.support = s, !.irPath = None], c)
              /\ [c EXCEPT !.support = s, !.irPath = None].support # "lifted"
              /\ [c EXCEPT !.support = s, !.irPath = None].irPath = None
<1>1. "lifted" \in Supports /\ "raw" \in Supports /\ "unknown" \in Supports
  BY DEF Supports
<1>2. None \in Int
  BY DEF None
<1>3. \A s \in {"raw", "unknown"} : s \in Supports /\ s # "lifted"
  BY <1>1
<1>4. ASSUME NEW s \in Supports, NEW path \in Int
      PROVE  /\ [c EXCEPT !.support = s, !.irPath = path] \in Clause
             /\ SameText([c EXCEPT !.support = s, !.irPath = path], c)
             /\ [c EXCEPT !.support = s, !.irPath = path].support = s
             /\ [c EXCEPT !.support = s, !.irPath = path].irPath = path
  BY DEF Clause, SameText
<1>5. \A path \in Nat : path \in Int
  OBVIOUS
<1>6. QED
  BY <1>1, <1>2, <1>3, <1>4, <1>5

\* Marking clauses raw leaves the others alone.
LEMMA RawMarkedParts ==
  ASSUME NEW clauses \in Seq(Clause), NEW marked \in SUBSET (1..Len(clauses))
  PROVE  LET new == RawMarked(clauses, marked)
         IN  /\ new \in Seq(Clause) /\ Len(new) = Len(clauses)
             /\ \A k \in 1..Len(clauses) :
                  /\ SameText(new[k], clauses[k])
                  /\ k \in marked => new[k].support # "lifted" /\ new[k].irPath = None
                  /\ k \notin marked => new[k] = clauses[k]
<1> DEFINE Edited(c) == [c EXCEPT !.support = "raw", !.irPath = None]
           new == RawMarked(clauses, marked)
<1>1. \A c \in Clause : /\ Edited(c) \in Clause /\ SameText(Edited(c), c)
                        /\ Edited(c).support # "lifted" /\ Edited(c).irPath = None
  BY ClauseEdits
<1>2. \A k \in 1..Len(clauses) : clauses[k] \in Clause
  OBVIOUS
<1>3. new = [k \in 1..Len(clauses) |-> IF k \in marked THEN Edited(clauses[k]) ELSE clauses[k]]
  BY DEF RawMarked
<1> HIDE DEF Edited, new
<1>4. new \in Seq(Clause) /\ Len(new) = Len(clauses)
  BY <1>1, <1>2, <1>3
<1>5. \A c \in Clause : SameText(c, c)
  BY DEF SameText
<1>6. ASSUME NEW k \in 1..Len(clauses)
      PROVE  /\ SameText(new[k], clauses[k])
             /\ k \in marked => new[k].support # "lifted" /\ new[k].irPath = None
             /\ k \notin marked => new[k] = clauses[k]
  <2>1. CASE k \in marked
    <3>1. new[k] = Edited(clauses[k])
      BY <1>3, <2>1
    <3>2. QED
      BY <1>1, <1>2, <2>1, <3>1
  <2>2. CASE k \notin marked
    <3>1. new[k] = clauses[k]
      BY <1>3, <2>2
    <3>2. QED
      BY <1>2, <1>5, <2>2, <3>1
  <2>3. QED
    BY <2>1, <2>2
<1>7. QED
  BY <1>4, <1>6 DEF new

\* A structured clause marks one clause from the cursor on, or none.
MarksOne(r, clauses, cursor, kind, path) ==
  /\ r = [clauses |-> r.clauses, cursor |-> r.cursor]
  /\ r.clauses \in Seq(Clause) /\ Len(r.clauses) = Len(clauses)
  /\ r.cursor \in Nat /\ r.cursor >= cursor
  /\ \A k \in 1..Len(clauses) : SameText(r.clauses[k], clauses[k])
  /\ \/ r.clauses = clauses
     \/ \E k \in 1..Len(clauses) :
          /\ cursor <= k /\ k < r.cursor
          /\ r.clauses[k].support = "lifted" /\ r.clauses[k].irPath = path
          /\ KindOf(r.clauses[k].keyword) = kind
          /\ \A j \in 1..Len(clauses) : j # k => r.clauses[j] = clauses[j]

\* A structured clause marks one clause of its kind, or none.
LEMMA MarkLiftedParts ==
  ASSUME NEW clauses \in Seq(Clause), NEW cursor \in Nat \ {0}, NEW kind, NEW path \in Nat
  PROVE  MarksOne(MarkLifted(clauses, cursor, kind, path), clauses, cursor, kind, path)
<1> DEFINE r == MarkLifted(clauses, cursor, kind, path)
           k == FirstUnknown(clauses, cursor, {kind})
           Edited(c) == [c EXCEPT !.support = "lifted", !.irPath = path]
<1>1. \A c \in Clause : /\ Edited(c) \in Clause /\ SameText(Edited(c), c)
                        /\ Edited(c).support = "lifted" /\ Edited(c).irPath = path
  BY ClauseEdits
<1>2. \A j \in 1..Len(clauses) : clauses[j] \in Clause
  OBVIOUS
<1>3. \A c \in Clause : SameText(c, c)
  BY DEF SameText
<1>4. k # 0 => k \in 1..Len(clauses) /\ cursor <= k /\ KindOf(clauses[k].keyword) = kind
  BY FirstUnknownParts
<1>5. r = IF k = 0 THEN [clauses |-> clauses, cursor |-> cursor]
          ELSE [clauses |-> [clauses EXCEPT ![k] = Edited(clauses[k])], cursor |-> k + 1]
  BY <1>2, <1>4 DEF MarkLifted, Clause
<1> HIDE DEF r, k, Edited
<1>6. CASE k = 0
  BY <1>2, <1>3, <1>5, <1>6 DEF r, MarksOne
<1>7. CASE k # 0
  <2>1. r.clauses = [clauses EXCEPT ![k] = Edited(clauses[k])] /\ r.cursor = k + 1
    BY <1>5, <1>7
  <2>a. r = [clauses |-> r.clauses, cursor |-> r.cursor]
    BY <1>5, <1>7
  <2>2. r.clauses \in Seq(Clause) /\ Len(r.clauses) = Len(clauses)
    BY <1>1, <1>2, <1>4, <1>7, <2>1
  <2>3. r.clauses[k] = Edited(clauses[k]) /\ \A j \in 1..Len(clauses) : j # k => r.clauses[j] = clauses[j]
    BY <1>4, <1>7, <2>1
  <2>4. k \in Nat /\ cursor <= k /\ k < k + 1 /\ k + 1 \in Nat /\ k + 1 >= cursor /\ k \in 1..Len(clauses)
    BY <1>4, <1>7
  <2>5. r.clauses[k].support = "lifted" /\ r.clauses[k].irPath = path
        /\ SameText(r.clauses[k], clauses[k])
    BY <1>1, <1>2, <2>3, <2>4
  <2>6. KindOf(r.clauses[k].keyword) = kind
    BY <1>4, <1>7, <2>5 DEF SameText
  <2>7. \A j \in 1..Len(clauses) : SameText(r.clauses[j], clauses[j])
    BY <1>2, <1>3, <2>3, <2>5
  <2>8. QED
    BY <2>a, <2>1, <2>2, <2>3, <2>4, <2>5, <2>6, <2>7 DEF r, MarksOne
<1>8. QED
  BY <1>6, <1>7

\* Annotations one after the other leave the same things alone.
LEMMA SameTextSteps ==
  ASSUME NEW a, NEW b, NEW c, SameText(a, b), SameText(b, c)
  PROVE  SameText(a, c)
BY DEF SameText

\* An entry leaves clauses in order.
LEMMA AnnotateKeepsOrder ==
  ASSUME NEW clauses \in Seq(Clause), NEW lifted, NEW i \in Nat \ {0},
         NEW t \in Annotating, KeepsOrder(t, clauses, lifted, i - 1),
         NEW entry, entry.path = i, entry.clause = lifted[i]
  PROVE  /\ Annotate(t, entry) \in Annotating
         /\ KeepsOrder(Annotate(t, entry), clauses, lifted, i)
<1> DEFINE u == Annotate(t, entry)
<1>1. t.clauses \in Seq(Clause) /\ t.cursor \in Nat \ {0} /\ Len(t.clauses) = Len(clauses)
      /\ Len(clauses) \in Nat
  BY DEF Annotating, KeepsOrder
<1>2. /\ \A k \in 1..Len(clauses) : SameText(t.clauses[k], clauses[k])
      /\ \A k \in 1..Len(clauses) : t.clauses[k].support = "lifted" <=> t.clauses[k].irPath # None
      /\ \A k \in 1..Len(clauses) : t.clauses[k].support = "lifted" =>
           /\ k < t.cursor /\ t.clauses[k].irPath \in 1..(i - 1)
           /\ lifted[t.clauses[k].irPath].kind = KindOf(t.clauses[k].keyword)
      /\ \A j, k \in 1..Len(clauses) :
           t.clauses[j].support = "lifted" /\ t.clauses[k].support = "lifted" /\ j < k =>
             t.clauses[j].irPath < t.clauses[k].irPath
  BY DEF KeepsOrder
<1>3. CASE entry.clause.kind = "raw"
  <2>1. u = MarkRawCovered(t.clauses, t.cursor, entry.clause.cypher)
    BY <1>3 DEF Annotate
  <2>2. PICK marked \in SUBSET (t.cursor..Len(t.clauses)) :
          /\ u.clauses = RawMarked(t.clauses, marked)
          /\ u.cursor \in Nat /\ u.cursor >= t.cursor
    BY <1>1, <2>1, MarkRawParts
  <2>3. marked \in SUBSET (1..Len(t.clauses))
    BY <1>1
  <2>4. /\ u.clauses \in Seq(Clause) /\ Len(u.clauses) = Len(clauses)
        /\ \A k \in 1..Len(clauses) :
             /\ SameText(u.clauses[k], t.clauses[k])
             /\ k \in marked => u.clauses[k].support # "lifted" /\ u.clauses[k].irPath = None
             /\ k \notin marked => u.clauses[k] = t.clauses[k]
    BY <1>1, <2>2, <2>3, RawMarkedParts
  <2>5. u = [clauses |-> u.clauses, cursor |-> u.cursor]
    BY <2>1 DEF MarkRawCovered
  <2> HIDE DEF u
  <2>6. u \in Annotating
    <3>1. u.cursor \in Nat \ {0}
      BY <1>1, <2>2
    <3>2. QED
      BY <2>4, <2>5, <3>1 DEF Annotating
  <2>7. \A k \in 1..Len(clauses) : SameText(u.clauses[k], clauses[k])
    BY <1>2, <2>4, SameTextSteps
  <2>8. \A k \in 1..Len(clauses) : u.clauses[k].support = "lifted" => u.clauses[k] = t.clauses[k]
    BY <2>4
  <2>9. \A k \in 1..Len(clauses) : u.clauses[k].support = "lifted" <=> u.clauses[k].irPath # None
    BY <1>2, <2>4
  <2>10. \A k \in 1..Len(clauses) : u.clauses[k].support = "lifted" =>
           /\ k < u.cursor /\ u.clauses[k].irPath \in 1..i
           /\ lifted[u.clauses[k].irPath].kind = KindOf(u.clauses[k].keyword)
    <3>1. SUFFICES ASSUME NEW k \in 1..Len(clauses), u.clauses[k].support = "lifted"
                   PROVE  /\ k < u.cursor /\ u.clauses[k].irPath \in 1..i
                          /\ lifted[u.clauses[k].irPath].kind = KindOf(u.clauses[k].keyword)
      OBVIOUS
    <3>2. /\ k < t.cursor /\ u.clauses[k].irPath \in 1..(i - 1)
          /\ lifted[u.clauses[k].irPath].kind = KindOf(u.clauses[k].keyword)
      BY <1>2, <2>8, <3>1
    <3>3. QED
      BY <1>1, <2>2, <3>2
  <2>11. \A j, k \in 1..Len(clauses) :
           u.clauses[j].support = "lifted" /\ u.clauses[k].support = "lifted" /\ j < k =>
             u.clauses[j].irPath < u.clauses[k].irPath
    BY <1>2, <2>8
  <2>12. QED
    BY <2>4, <2>6, <2>7, <2>9, <2>10, <2>11 DEF KeepsOrder, u
<1>4. CASE entry.clause.kind # "raw"
  <2> DEFINE kind == entry.clause.kind
  <2>1. u = MarkLifted(t.clauses, t.cursor, kind, i)
    BY <1>4 DEF Annotate
  <2>a. i \in Nat
    OBVIOUS
  <2> HIDE DEF kind, u
  <2>2. /\ u = [clauses |-> u.clauses, cursor |-> u.cursor]
        /\ u.clauses \in Seq(Clause) /\ Len(u.clauses) = Len(clauses)
        /\ u.cursor \in Nat /\ u.cursor >= t.cursor
        /\ \A k \in 1..Len(clauses) : SameText(u.clauses[k], t.clauses[k])
        /\ \/ u.clauses = t.clauses
           \/ \E k \in 1..Len(clauses) :
                /\ t.cursor <= k /\ k < u.cursor
                /\ u.clauses[k].support = "lifted" /\ u.clauses[k].irPath = i
                /\ KindOf(u.clauses[k].keyword) = kind
                /\ \A j \in 1..Len(clauses) : j # k => u.clauses[j] = t.clauses[j]
    <3>1. MarksOne(u, t.clauses, t.cursor, kind, i)
      BY <1>1, <2>a, <2>1, MarkLiftedParts
    <3>2. QED
      BY <1>1, <3>1 DEF MarksOne
  <2>4. u \in Annotating
    <3>1. u.cursor \in Nat \ {0}
      BY <1>1, <2>2
    <3>2. QED
      BY <2>2, <3>1 DEF Annotating
  <2>5. \A k \in 1..Len(clauses) : SameText(u.clauses[k], clauses[k])
    BY <1>2, <2>2, SameTextSteps
  <2>6. \A k \in 1..Len(clauses) : t.clauses[k].support = "lifted" =>
          k < u.cursor /\ t.clauses[k].irPath \in 1..i /\ t.clauses[k].irPath < i
    BY <1>1, <1>2, <2>2
  <2>7. CASE u.clauses = t.clauses
    BY <1>2, <2>2, <2>4, <2>5, <2>6, <2>7 DEF KeepsOrder, u
  <2>8. ASSUME NEW k \in 1..Len(clauses),
               t.cursor <= k, k < u.cursor,
               u.clauses[k].support = "lifted", u.clauses[k].irPath = i,
               KindOf(u.clauses[k].keyword) = kind,
               \A j \in 1..Len(clauses) : j # k => u.clauses[j] = t.clauses[j]
        PROVE  KeepsOrder(u, clauses, lifted, i)
    <3>1. i # None
      BY Literals
    <3>2. \A j \in 1..Len(clauses) : u.clauses[j].support = "lifted" <=> u.clauses[j].irPath # None
      BY <1>2, <2>8, <3>1
    <3>3. \A j \in 1..Len(clauses) : u.clauses[j].support = "lifted" =>
            /\ j < u.cursor /\ u.clauses[j].irPath \in 1..i
            /\ lifted[u.clauses[j].irPath].kind = KindOf(u.clauses[j].keyword)
      <4>1. SUFFICES ASSUME NEW j \in 1..Len(clauses), u.clauses[j].support = "lifted"
                     PROVE  /\ j < u.cursor /\ u.clauses[j].irPath \in 1..i
                            /\ lifted[u.clauses[j].irPath].kind = KindOf(u.clauses[j].keyword)
        OBVIOUS
      <4>2. CASE j = k
        <5>1. i \in 1..i
          OBVIOUS
        <5>2. QED
          BY <2>8, <4>2, <5>1 DEF kind
      <4>3. CASE j # k
        BY <1>2, <2>6, <2>8, <4>1, <4>3
      <4>4. QED
        BY <4>2, <4>3
    <3>4. \A j, m \in 1..Len(clauses) :
            u.clauses[j].support = "lifted" /\ u.clauses[m].support = "lifted" /\ j < m =>
              u.clauses[j].irPath < u.clauses[m].irPath
      <4>1. SUFFICES ASSUME NEW j \in 1..Len(clauses), NEW m \in 1..Len(clauses), j < m,
                            u.clauses[j].support = "lifted", u.clauses[m].support = "lifted"
                     PROVE  u.clauses[j].irPath < u.clauses[m].irPath
        OBVIOUS
      <4>2. CASE m = k
        <5>1. j # k
          BY <4>1, <4>2
        <5>2. QED
          BY <2>6, <2>8, <4>1, <4>2, <5>1
      <4>3. CASE m # k
        <5>1. m < k
          BY <1>1, <1>2, <2>8, <4>1, <4>3
        <5>2. j # k
          BY <4>1, <5>1
        <5>3. QED
          BY <1>2, <2>8, <4>1, <4>3, <5>2
      <4>4. QED
        BY <4>2, <4>3
    <3>5. QED
      BY <2>2, <2>5, <3>2, <3>3, <3>4 DEF KeepsOrder
  <2>9. QED
    BY <2>2, <2>4, <2>7, <2>8 DEF u
<1>5. QED
  BY <1>3, <1>4

\* An entry leaves clauses of their type.
LEMMA AnnotateType ==
  ASSUME NEW t \in Annotating, NEW entry, entry.path \in Nat
  PROVE  Annotate(t, entry) \in Annotating
<1> DEFINE u == Annotate(t, entry)
<1>1. t.clauses \in Seq(Clause) /\ t.cursor \in Nat \ {0}
  BY DEF Annotating
<1>2. CASE entry.clause.kind = "raw"
  <2>1. u = MarkRawCovered(t.clauses, t.cursor, entry.clause.cypher)
    BY <1>2 DEF Annotate
  <2>2. PICK marked \in SUBSET (t.cursor..Len(t.clauses)) :
          /\ u.clauses = RawMarked(t.clauses, marked)
          /\ u.cursor \in Nat /\ u.cursor >= t.cursor
    BY <1>1, <2>1, MarkRawParts
  <2>3. marked \in SUBSET (1..Len(t.clauses))
    BY <1>1
  <2>4. u.clauses \in Seq(Clause)
    BY <1>1, <2>2, <2>3, RawMarkedParts
  <2>5. u = [clauses |-> u.clauses, cursor |-> u.cursor]
    BY <2>1 DEF MarkRawCovered
  <2> HIDE DEF u
  <2>6. u.cursor \in Nat \ {0}
    BY <1>1, <2>2
  <2>7. u \in Annotating
    BY <2>4, <2>5, <2>6 DEF Annotating
  <2>8. QED
    BY <2>7 DEF u
<1>3. CASE entry.clause.kind # "raw"
  <2> DEFINE kind == entry.clause.kind
             path == entry.path
  <2>1. u = MarkLifted(t.clauses, t.cursor, kind, path)
    BY <1>3 DEF Annotate
  <2>2. path \in Nat
    OBVIOUS
  <2> HIDE DEF kind, path, u
  <2>3. MarksOne(u, t.clauses, t.cursor, kind, path)
    BY <1>1, <2>1, <2>2, MarkLiftedParts
  <2>4. /\ u = [clauses |-> u.clauses, cursor |-> u.cursor]
        /\ u.clauses \in Seq(Clause) /\ u.cursor \in Nat /\ u.cursor >= t.cursor
    BY <2>3 DEF MarksOne
  <2>5. u.cursor \in Nat \ {0}
    BY <1>1, <2>4
  <2>6. u \in Annotating
    BY <2>4, <2>5 DEF Annotating
  <2>7. QED
    BY <2>6 DEF u
<1>4. QED
  BY <1>2, <1>3

\* Before any entry no clause is lifted.
LEMMA UnannotatedParts ==
  ASSUME NEW clauses \in Seq(Clause), NEW lifted
  PROVE  LET t == [clauses |-> Unannotated(clauses), cursor |-> 1]
         IN  t \in Annotating /\ KeepsOrder(t, clauses, lifted, 0)
<1> DEFINE Edited(c) == [c EXCEPT !.support = "unknown", !.irPath = None]
           new == Unannotated(clauses)
           t == [clauses |-> new, cursor |-> 1]
<1>1. \A c \in Clause : /\ Edited(c) \in Clause /\ SameText(Edited(c), c)
                        /\ Edited(c).support # "lifted" /\ Edited(c).irPath = None
  BY ClauseEdits
<1>2. \A k \in 1..Len(clauses) : clauses[k] \in Clause
  OBVIOUS
<1>3. new = [k \in 1..Len(clauses) |-> Edited(clauses[k])]
  BY DEF Unannotated
<1> HIDE DEF Edited, new
<1>4. new \in Seq(Clause) /\ Len(new) = Len(clauses)
  BY <1>1, <1>2, <1>3
<1>5. \A k \in 1..Len(clauses) : /\ SameText(new[k], clauses[k])
                                 /\ new[k].support # "lifted" /\ new[k].irPath = None
  <2>1. \A k \in 1..Len(clauses) : new[k] = Edited(clauses[k])
    BY <1>3
  <2>2. QED
    BY <1>1, <1>2, <2>1
<1>6. t \in Annotating
  BY <1>4 DEF Annotating
<1>7. t.clauses = new
  OBVIOUS
<1> HIDE DEF t
<1>8. KeepsOrder(t, clauses, lifted, 0)
  BY <1>4, <1>5, <1>7 DEF KeepsOrder
<1>9. QED
  BY <1>6, <1>8 DEF t, new

\* What annotation has come to after a sequence of entries.
Annotated(base, s) == FoldLeft(Annotate, base, s)

\* Annotation passes through one value per entry.
LEMMA AnnotatedPrefixes ==
  ASSUME NEW base \in Annotating, NEW E, NEW s \in Seq(E),
         \A t \in Annotating, x \in E : Annotate(t, x) \in Annotating
  PROVE  \E p \in [0..Len(s) -> Annotating] :
           /\ p[0] = base
           /\ \A k \in 1..Len(s) : p[k] = Annotate(p[k - 1], s[k])
           /\ Annotated(base, s) = p[Len(s)]
<1> DEFINE n == Len(s)
           D == SUBSET (1..n)
           Step(it, d) == IF d = {} THEN base ELSE Annotate(it[d \ {Max(d)}], s[Max(d)])
           rank == [d \in D |-> Cardinality(d)]
           G == [it \in [D -> Annotating] |-> [d \in D |-> Step(it, d)]]
<1>1. n \in Nat /\ DOMAIN s = 1..n /\ \A i \in 1..n : s[i] \in E
  OBVIOUS
<1>a. \A d \in D : IsFiniteSet(d)
  <2>1. IsFiniteSet(1..n)
    BY <1>1, FS_Interval
  <2>2. QED
    BY <2>1, FS_Subset
<1>2. ASSUME NEW d \in D, d # {}
      PROVE  /\ Max(d) \in d /\ Max(d) \in 1..n /\ d \ {Max(d)} \in D
             /\ rank[d \ {Max(d)}] < rank[d]
  <2>1. Max(d) \in d
    BY <1>1, <1>2, Joining!GreatestPosition DEF Max, Joining!Max
  <2>2. IsFiniteSet(d)
    BY <1>a
  <2>3. Cardinality(d) \in Nat /\ Cardinality(d \ {Max(d)}) = Cardinality(d) - 1
    BY <2>1, <2>2, FS_RemoveElement, FS_CardinalityType
  <2>4. d \ {Max(d)} \in D /\ Max(d) \in 1..n
    BY <2>1
  <2>5. rank[d] = Cardinality(d) /\ rank[d \ {Max(d)}] = Cardinality(d \ {Max(d)})
    BY <2>4
  <2> HIDE DEF D, rank
  <2>6. QED
    BY <2>1, <2>3, <2>4, <2>5
<1>3. rank \in [D -> Nat]
  BY <1>a, FS_CardinalityType
<1>4. Joining!Unfolds(G, D, Annotating)
  <2>1. ASSUME NEW it \in [D -> Annotating], NEW d \in D
        PROVE  Step(it, d) \in Annotating
    <3> HIDE DEF rank
    <3>1. CASE d = {}
      BY <3>1
    <3>2. CASE d # {}
      <4>1. it[d \ {Max(d)}] \in Annotating /\ s[Max(d)] \in E
        BY <1>1, <1>2, <3>2
      <4>2. QED
        BY <3>2, <4>1
    <3>3. QED
      BY <3>1, <3>2
  <2> HIDE DEF Step, D
  <2>2. QED
    BY <2>1 DEF Joining!Unfolds
<1>5. Joining!RestsOnLower(G, D, Annotating, rank)
  <2>1. SUFFICES ASSUME NEW g \in [D -> Annotating], NEW h \in [D -> Annotating], NEW d \in D,
                        \A e \in D : rank[e] < rank[d] => g[e] = h[e]
                 PROVE  Step(g, d) = Step(h, d)
    <3> HIDE DEF Step, D, rank
    <3>1. QED
      BY <2>1 DEF Joining!RestsOnLower
  <2> HIDE DEF rank
  <2>2. CASE d = {}
    BY <2>2
  <2>3. CASE d # {}
    BY <1>2, <2>1, <2>3
  <2>4. QED
    BY <2>2, <2>3
<1>6. \E it \in [D -> Annotating] : it = G[it]
  <2> HIDE DEF n, D, rank, Step, G
  <2>1. QED
    BY <1>3, <1>4, <1>5, Joining!RankRecursion
<1> DEFINE iter == CHOOSE it : it = [d \in D |-> Step(it, d)]
<1>7. iter = [d \in D |-> Step(iter, d)]
  <2>1. \E it : it = [d \in D |-> Step(it, d)]
    <3> HIDE DEF D, rank, Step
    <3>1. QED
      BY <1>6
  <2> HIDE DEF D, rank, Step, G
  <2>2. QED
    BY <2>1
<1>8. Annotated(base, s) = iter[1..n]
  BY <1>1 DEF Annotated, FoldLeft, MapThenFoldSet
<1> HIDE DEF iter
<1>9. iter[1..0] = base
  <2>1. 1..0 = {} /\ {} \in D
    OBVIOUS
  <2>2. iter[{}] = Step(iter, {})
    <3> HIDE DEF Step, D
    <3>1. QED
      BY <1>7, <2>1
  <2>3. QED
    BY <2>1, <2>2
<1>10. ASSUME NEW k \in 1..n
       PROVE  iter[1..k] = Annotate(iter[1..(k - 1)], s[k])
  <2>1. 1..k \in D /\ 1..k # {}
    BY <1>1
  <2>2. Max(1..k) = k
    <3>1. k \in Nat /\ k \in 1..k
      BY <1>1
    <3>2. Max(1..k) \in 1..k /\ \A j \in 1..k : j <= Max(1..k)
      BY <3>1, Joining!GreatestPosition DEF Max, Joining!Max
    <3>3. QED
      BY <3>1, <3>2
  <2>3. (1..k) \ {k} = 1..(k - 1)
    BY <1>1
  <2>4. iter[1..k] = Step(iter, 1..k)
    <3> HIDE DEF Step, D
    <3>1. QED
      BY <1>7, <2>1
  <2>5. QED
    BY <2>1, <2>2, <2>3, <2>4
<1>11. ASSUME NEW k \in 0..n
       PROVE  iter[1..k] \in Annotating
  <2> DEFINE Typed == {j \in Nat : j <= n => iter[1..j] \in Annotating}
  <2>1. 0 \in Typed
    BY <1>9
  <2>2. ASSUME NEW j \in Nat, j \in Typed
        PROVE  j + 1 \in Typed
    <3>1. SUFFICES ASSUME j + 1 <= n
                   PROVE  iter[1..(j + 1)] \in Annotating
      OBVIOUS
    <3>2. j + 1 \in 1..n /\ (j + 1) - 1 = j
      BY <1>1, <3>1
    <3>3. iter[1..(j + 1)] = Annotate(iter[1..j], s[j + 1])
      BY <1>10, <3>2
    <3>4. QED
      BY <1>1, <2>2, <3>1, <3>2, <3>3
  <2>3. k \in Typed
    <3> HIDE DEF Typed
    <3>1. QED
      BY <1>1, <2>1, <2>2, Joining!NaturalInduction
  <2>4. QED
    BY <1>1, <2>3
<1> DEFINE p == [k \in 0..n |-> iter[1..k]]
<1>12. p \in [0..n -> Annotating]
  BY <1>11
<1>13. p[0] = base /\ p[n] = Annotated(base, s)
  BY <1>1, <1>8, <1>9
<1>14. \A k \in 1..n : p[k] = Annotate(p[k - 1], s[k])
  <2>1. \A k \in 1..n : k \in 0..n /\ k - 1 \in 0..n
    BY <1>1
  <2>2. QED
    BY <1>10, <2>1
<1>15. QED
  <2> HIDE DEF p
  <2>1. QED
    BY <1>12, <1>13, <1>14

\* What annotation leaves is in order, for any preview.
LEMMA AnnotatedKeepsOrder ==
  ASSUME NEW clauses \in Seq(Clause), NEW n \in Nat, NEW lifted, DOMAIN lifted = 1..n
  PROVE  \E t \in Annotating : /\ t.clauses = AnnotateIrPreviewSupport(clauses, lifted)
                               /\ KeepsOrder(t, clauses, lifted, n)
<1> DEFINE base == [clauses |-> Unannotated(clauses), cursor |-> 1]
           entries == [i \in DOMAIN lifted |-> [path |-> i, clause |-> lifted[i]]]
           E == {entries[i] : i \in 1..n}
           I == [i \in Nat |-> {t \in Annotating : KeepsOrder(t, clauses, lifted, i)}]
<1>1. entries \in Seq(E) /\ Len(entries) = n
      /\ \A i \in 1..n : entries[i].path = i /\ entries[i].clause = lifted[i]
  OBVIOUS
<1>2. \A x \in E : x.path \in Nat
  BY <1>1
<1>3. base \in Annotating /\ base \in I[0]
  BY UnannotatedParts
<1> HIDE DEF entries, E, base
<1>4. \A t \in Annotating, x \in E : Annotate(t, x) \in Annotating
  BY <1>2, AnnotateType
<1>5. ASSUME NEW i \in 1..n, NEW t \in I[i - 1]
      PROVE  Annotate(t, entries[i]) \in I[i]
  <2>1. i \in Nat \ {0} /\ i - 1 \in Nat
    OBVIOUS
  <2>2. t \in Annotating /\ KeepsOrder(t, clauses, lifted, i - 1)
    BY <2>1
  <2>3. entries[i].path = i /\ entries[i].clause = lifted[i]
    BY <1>1
  <2>4. Annotate(t, entries[i]) \in Annotating /\ KeepsOrder(Annotate(t, entries[i]), clauses, lifted, i)
    BY <2>1, <2>2, <2>3, AnnotateKeepsOrder
  <2>5. QED
    BY <2>1, <2>4
<1>6. PICK p \in [0..n -> Annotating] :
        /\ p[0] = base
        /\ \A k \in 1..n : p[k] = Annotate(p[k - 1], entries[k])
        /\ Annotated(base, entries) = p[n]
  <2>1. entries \in Seq(E) /\ Len(entries) = n
    BY <1>1
  <2>2. \E p \in [0..Len(entries) -> Annotating] :
          /\ p[0] = base
          /\ \A k \in 1..Len(entries) : p[k] = Annotate(p[k - 1], entries[k])
          /\ Annotated(base, entries) = p[Len(entries)]
    BY <1>3, <1>4, <2>1, AnnotatedPrefixes
  <2>3. QED
    BY <2>1, <2>2
<1>7. Annotated(base, entries) \in I[n]
  <2> HIDE DEF I
  <2> DEFINE Reached == {k \in Nat : k <= n => p[k] \in I[k]}
  <2>1. 0 \in Reached
    BY <1>3, <1>6
  <2>2. ASSUME NEW k \in Nat, k \in Reached
        PROVE  k + 1 \in Reached
    <3>1. SUFFICES ASSUME k + 1 <= n
                   PROVE  p[k + 1] \in I[k + 1]
      OBVIOUS
    <3>2. k + 1 \in 1..n /\ (k + 1) - 1 = k /\ p[k] \in I[k]
      BY <2>2, <3>1
    <3>3. Annotate(p[k], entries[k + 1]) \in I[k + 1] /\ p[k + 1] = Annotate(p[k], entries[k + 1])
      BY <1>5, <1>6, <3>2
    <3>4. QED
      BY <3>3
  <2>3. Nat \subseteq Reached
    <3> HIDE DEF Reached
    <3>1. QED
      BY <2>1, <2>2, Joining!NaturalInduction
  <2>4. n \in Reached
    BY <2>3
  <2>5. QED
    BY <1>6, <2>4
<1>8. AnnotateIrPreviewSupport(clauses, lifted) = Annotated(base, entries).clauses
  BY DEF AnnotateIrPreviewSupport, base, entries, Annotated
<1>9. QED
  BY <1>7, <1>8

\* The text to lift is a text.
LEMMA LiftSourceType ==
  ASSUME NEW clauses \in Seq(Clause)
  PROVE  LiftSource(clauses) \in Texts
<1>1. <<>> \in Texts
  BY DEF Texts
<1>2. ASSUME NEW text \in Texts, NEW clause \in Clause
      PROVE  Joined(text, clause) \in Texts
  <2>1. clause.raw \in Texts
    BY DEF Clause
  <2>2. Stripped(clause) \in Texts
    BY <2>1, StripType, TrimType DEF Stripped
  <2>3. <<" ">> \in Texts
    <3>1. " " \in Symbols
      BY Zenon DEF Symbols, Blank
    <3> DEFINE c == " "
    <3> HIDE DEF c
    <3>2. c \in Symbols => <<c>> \in Seq(Symbols)
      OBVIOUS
    <3>3. QED
      BY <3>1, <3>2 DEF Texts, c
  <2>4. text \o <<" ">> \o Stripped(clause) \in Texts
    <3>1. text \o <<" ">> \in Texts
      BY <2>3, JoinType
    <3>2. QED
      BY <2>2, <3>1, JoinType
  <2>5. Joined(text, clause) \in {text, Stripped(clause), text \o <<" ">> \o Stripped(clause)}
    BY Zenon DEF Joined
  <2>6. QED
    BY <2>2, <2>4, <2>5
<1>3. Joining!Folds(Texts, Clause)
  BY <1>2 DEF Joining!Folds
<1>4. Joining!Fold(<<>>, clauses) \in Texts
  BY <1>1, <1>3, Joining!FoldLeftType
<1>5. QED
  BY <1>4 DEF LiftSource, Joining!Fold, FoldLeft, MapThenFoldSet, Max,
              Joining!FoldLeft, Joining!MapThenFoldSet, Joining!Max

\* The preview has one clause per clause of the lifted text.
LEMMA LiftedParts ==
  ASSUME NEW text \in Texts
  PROVE  \E n \in Nat : DOMAIN LiftRawCypherToIr(text) = 1..n
<1> DEFINE S == {i \in From(text, 0) : /\ OpenQuote(text, i) = NoQuote
                                       /\ \E keyword \in LiftKeywords : MatchesKeywordAt(text, keyword, i)}
<1>1. S \in SUBSET Nat /\ IsFiniteSet(S)
  <2>1. From(text, 0) \in SUBSET Nat /\ IsFiniteSet(From(text, 0))
    BY LenType, FS_Interval DEF From
  <2>2. S \subseteq From(text, 0)
    OBVIOUS
  <2> HIDE DEF S
  <2>3. QED
    BY <2>1, <2>2, FS_Subset
<1>2. Len(ClauseOffsets(text)) \in Nat
  <2>1. ClauseOffsets(text) = InOrder(S)
    BY DEF ClauseOffsets
  <2> HIDE DEF S
  <2>2. QED
    BY <1>1, <2>1, NumbersInOrder
<1>3. DOMAIN SplitClauses(text) = 1..Len(ClauseOffsets(text))
  BY DEF SplitClauses
<1>4. DOMAIN LiftRawCypherToIr(text) = DOMAIN SplitClauses(text)
  BY DEF LiftRawCypherToIr
<1>5. QED
  BY <1>2, <1>3, <1>4

-----------------------------------------------------------------------------
(***************************************************************************)
(* The first invariant, step by step.                                      *)
(***************************************************************************)
\* No spans are in line.
LEMMA InLineNone ==
  ASSUME NEW limit
  PROVE  InLine(<<>>, limit)
BY DEF InLine

\* Spans up to a limit are also up to a higher one.
LEMMA InLineLonger ==
  ASSUME NEW S, \A x \in S : x.start \in Nat /\ x.end \in Nat,
         NEW list \in Seq(S), NEW a \in Nat, NEW b \in Nat, InLine(list, a), a <= b
  PROVE  InLine(list, b)
BY DEF InLine

\* A span after the others is in line with them.
LEMMA InLineAppend ==
  ASSUME NEW S, \A x \in S : x.start \in Nat /\ x.end \in Nat,
         NEW list \in Seq(S), NEW a \in Nat, NEW b \in Nat, InLine(list, a),
         NEW x \in S, a <= x.start, x.start < x.end, x.end <= b
  PROVE  /\ Append(list, x) \in Seq(S)
         /\ InLine(Append(list, x), b)
<1> DEFINE new == Append(list, x)
<1>1. /\ new \in Seq(S) /\ Len(new) = Len(list) + 1 /\ Len(list) \in Nat
      /\ \A k \in 1..Len(list) : new[k] = list[k]
      /\ new[Len(list) + 1] = x
      /\ DOMAIN new = 1..(Len(list) + 1) /\ DOMAIN list = 1..Len(list)
  OBVIOUS
<1>2. \A k \in 1..Len(list) : /\ list[k].start \in Nat /\ list[k].end \in Nat
                              /\ list[k].start < list[k].end /\ list[k].end <= a
  BY <1>1 DEF InLine
<1>3. x.start \in Nat /\ x.end \in Nat
  OBVIOUS
<1> HIDE DEF new
<1>4. ASSUME NEW k \in 1..(Len(list) + 1)
      PROVE  new[k].start < new[k].end /\ new[k].end <= b
  <2>1. CASE k \in 1..Len(list)
    BY <1>1, <1>2, <1>3, <2>1
  <2>2. CASE k = Len(list) + 1
    BY <1>1, <2>2
  <2>3. QED
    BY <1>1, <2>1, <2>2
<1>5. ASSUME NEW j \in 1..(Len(list) + 1), NEW k \in 1..(Len(list) + 1), j < k
      PROVE  new[j].end <= new[k].start
  <2>1. j \in 1..Len(list)
    BY <1>1, <1>5
  <2>2. CASE k \in 1..Len(list)
    BY <1>1, <1>5, <2>1, <2>2 DEF InLine
  <2>3. CASE k = Len(list) + 1
    BY <1>1, <1>2, <1>3, <2>1, <2>3
  <2>4. QED
    BY <1>1, <2>2, <2>3
<1>6. QED
  BY <1>1, <1>4, <1>5 DEF InLine, new

\* A span that starts at the limit of a tiling goes on with it.
LEMMA TilesAppend ==
  ASSUME NEW S, NEW list \in Seq(S), NEW a, Tiles(list, a), NEW x \in S, x.start = a
  PROVE  Tiles(Append(list, x), x.end)
<1> DEFINE new == Append(list, x)
<1>1. /\ new \in Seq(S) /\ Len(new) = Len(list) + 1 /\ Len(list) \in Nat
      /\ \A k \in 1..Len(list) : new[k] = list[k]
      /\ new[Len(list) + 1] = x
      /\ DOMAIN new = 1..(Len(list) + 1) /\ DOMAIN list = 1..Len(list)
  OBVIOUS
<1> HIDE DEF new
<1>2. new # <<>> /\ Last(new).end = x.end
  BY <1>1 DEF Last
<1>3. ASSUME NEW k \in 1..(Len(list) + 1)
      PROVE  new[k].start = IF k = 1 THEN 0 ELSE new[k - 1].end
  <2>1. CASE k \in 1..Len(list)
    BY <1>1, <2>1 DEF Tiles
  <2>2. CASE k = Len(list) + 1 /\ list = <<>>
    BY <1>1, <2>2 DEF Tiles
  <2>3. CASE k = Len(list) + 1 /\ list # <<>>
    <3>1. Len(list) \in 1..Len(list) /\ k # 1 /\ k - 1 = Len(list)
      BY <1>1, <2>3
    <3>2. list[Len(list)].end = a
      BY <2>3 DEF Tiles, Last
    <3>3. QED
      BY <1>1, <2>3, <3>1, <3>2
  <2>4. QED
    BY <1>1, <2>1, <2>2, <2>3
<1>4. QED
  BY <1>1, <1>2, <1>3 DEF Tiles, new

\* Everything the report lists has a span.
LEMMA SpansTyped ==
  /\ \A x \in Fragment  : x.start \in Nat /\ x.end \in Nat
  /\ \A x \in Comment   : x.start \in Nat /\ x.end \in Nat
  /\ \A x \in Statement : x.start \in Nat /\ x.end \in Nat
  /\ \A x \in Match     : x.start \in Nat /\ x.end \in Nat
  /\ \A x \in Clause    : x.start \in Nat /\ x.end \in Nat
BY DEF Fragment, Comment, Statement, Match, Clause

\* A sequence over a set is one over a larger set.
LEMMA SeqGrows ==
  ASSUME NEW S, NEW T, S \subseteq T, NEW s \in Seq(S)
  PROVE  s \in Seq(T)
OBVIOUS

\* The source is a text.
LEMMA SourceIsText ==
  ASSUME source \in Seq(STRING)
  PROVE  source \in Texts /\ Len(source) \in Nat
<1>1. STRING \subseteq Symbols
  BY DEF Symbols
<1>2. source \in Texts
  BY <1>1, SeqGrows DEF Texts
<1>3. QED
  BY <1>2, LenType

\* Before the first symbol is read the report is empty.
LEMMA InitInv ==
  ASSUME Init
  PROVE  Inv
<1> USE DEF Init
<1>1. source \in Seq(STRING)
  BY SourcesAssumption DEF SourcesAssumption
<1>2. Len(source) \in Nat
  BY <1>1, SourceIsText
<1>3. phase # "clauses" /\ phase # "done"
  OBVIOUS
<1>4. PhaseInv
  BY <1>2, <1>3, InLineNone DEF PhaseInv, ReadTo
<1>5. StackInv /\ TriviaInv /\ StatementsInv
  BY <1>2, InLineNone DEF StackInv, TriviaInv, StatementsInv, Terminators
<1>6. FragmentsInv
  BY InLineNone DEF FragmentsInv, Tiles, CutTo
<1>7. \A k \in DOMAIN statements : ClausesInv(statements[k])
  OBVIOUS
<1>8. AnnotationsKeepOrder
  BY <1>3 DEF AnnotationsKeepOrder, Done
<1>9. QED
  BY <1>1, <1>4, <1>5, <1>6, <1>7, <1>8 DEF Inv

\* The steps of the first scanner that cut nothing.
LEMMA ScanOn ==
  ASSUME Inv, phase = "fragments", at' \in Nat, at <= at', at' <= Len(source),
         UNCHANGED <<source, phase, from, fragments, statements, current, matches, preview>>,
         StackInv', TriviaInv'
  PROVE  Inv'
<1>1. Len(source) \in Nat /\ at \in Nat /\ from \in Nat /\ from <= at /\ from <= at'
  BY SourceIsText DEF Inv, PhaseInv, ReadTo
<1>2. PhaseInv'
  <2>1. phase # "clauses" /\ phase # "done"
    OBVIOUS
  <2>2. matches = <<>>
    BY <2>1 DEF Inv, PhaseInv
  <2>3. matches' \in Seq(Match) /\ InLine(matches', at')
    BY <2>2, InLineNone
  <2>4. QED
    BY <1>1, <2>1, <2>2, <2>3 DEF Inv, PhaseInv, ReadTo
<1>3. FragmentsInv'
  BY DEF Inv, FragmentsInv, CutTo
<1>4. StatementsInv'
  BY DEF Inv, StatementsInv, Terminators, IsTerminator, CutTo
<1>5. \A k \in DOMAIN statements' : ClausesInv(statements[k])'
  BY DEF Inv, ClausesInv
<1>6. AnnotationsKeepOrder'
  BY DEF AnnotationsKeepOrder, Done
<1>7. source' \in Seq(STRING)
  BY DEF Inv
<1>8. QED
  BY <1>2, <1>3, <1>4, <1>5, <1>6, <1>7 DEF Inv

\* The first scanner is in the source.
LEMMA ScanningAt ==
  ASSUME Inv, Scanning
  PROVE  /\ source \in Texts /\ Len(source) \in Nat
         /\ at \in Nat /\ at \in 0..(Len(source) - 1) /\ at \in Offsets
         /\ at + 1 \in Nat /\ at <= at + 1 /\ at + 1 <= Len(source)
         /\ phase = "fragments" /\ ReadTo = at /\ CutTo = from
         /\ from \in Nat /\ from <= at
<1>1. source \in Texts /\ Len(source) \in Nat /\ phase = "fragments" /\ at < Len(source)
  BY SourceIsText DEF Inv, Scanning
<1>2. ReadTo = at /\ CutTo = from
  BY <1>1 DEF ReadTo, CutTo
<1>3. at \in Nat /\ from \in Nat /\ from <= at
  BY <1>2 DEF Inv, PhaseInv
<1>4. QED
  BY <1>1, <1>2, <1>3 DEF Offsets

\* A comment is listed after the others.
LEMMA CommentListed ==
  ASSUME Inv, Scanning, at' \in Nat, at < at', at' <= Len(source),
         NEW kind \in {"line-comment", "block-comment"},
         trivia' = Append(trivia, [kind |-> kind, start |-> at, end |-> at']),
         UNCHANGED <<source, phase, stack, from, fragments, statements, current, matches, preview>>
  PROVE  Inv'
<1>1. Len(source) \in Nat /\ at \in Nat /\ phase = "fragments" /\ ReadTo = at
  BY ScanningAt
<1>2. StackInv'
  BY DEF Inv, StackInv, Bracket, Offsets
<1>3. TriviaInv'
  <2> DEFINE x == [kind |-> kind, start |-> at, end |-> at']
  <2>1. x \in Comment /\ x.start = at /\ x.end = at'
    BY <1>1 DEF Comment
  <2>2. trivia \in Seq(Comment) /\ InLine(trivia, at)
    BY <1>1 DEF Inv, TriviaInv
  <2>3. trivia' = Append(trivia, x)
    OBVIOUS
  <2> HIDE DEF x
  <2>4. trivia' \in Seq(Comment) /\ InLine(trivia', at')
    BY <1>1, <2>1, <2>2, <2>3, InLineAppend, SpansTyped
  <2>5. ReadTo' = at'
    BY <1>1 DEF ReadTo
  <2>6. QED
    BY <2>4, <2>5 DEF TriviaInv
<1>4. at <= at'
  BY <1>1
<1>5. QED
  BY <1>1, <1>2, <1>3, <1>4, ScanOn

\* A comment is added at the end of those before it.
LEMMA CommentSteps ==
  ASSUME Inv, LineComment \/ BlockComment
  PROVE  Inv'
<1>0. Scanning
  BY DEF LineComment, BlockComment
<1>1. source \in Texts /\ at \in Nat /\ at \in 0..(Len(source) - 1)
  BY <1>0, ScanningAt
<1>2. CASE LineComment
  <2>1. at' \in Nat /\ at + 2 <= at' /\ at' <= Len(source)
    BY <1>1, <1>2, LineCommentEnds DEF LineComment
  <2>2. at < at'
    BY <1>1, <2>1
  <2>3. trivia' = Append(trivia, [kind |-> "line-comment", start |-> at, end |-> at'])
    BY <1>2 DEF LineComment
  <2>4. UNCHANGED <<source, phase, stack, from, fragments, statements, current, matches, preview>>
    BY <1>2 DEF LineComment
  <2>5. QED
    BY <1>0, <2>1, <2>2, <2>3, <2>4, CommentListed
<1>3. CASE BlockComment
  <2>1. at' \in Nat /\ at + 2 <= at' /\ at' <= Len(source)
    BY <1>1, <1>3, BlockCommentEnds DEF BlockComment
  <2>2. at < at'
    BY <1>1, <2>1
  <2>3. trivia' = Append(trivia, [kind |-> "block-comment", start |-> at, end |-> at'])
    BY <1>3 DEF BlockComment
  <2>4. UNCHANGED <<source, phase, stack, from, fragments, statements, current, matches, preview>>
    BY <1>3 DEF BlockComment
  <2>5. QED
    BY <1>0, <2>1, <2>2, <2>3, <2>4, CommentListed
<1>4. QED
  BY <1>2, <1>3

\* The comments listed stay, when the scanner goes on.
LEMMA TriviaStays ==
  ASSUME Inv, Scanning, at' \in Nat, at <= at', UNCHANGED <<source, phase, trivia>>
  PROVE  TriviaInv'
<1>1. at \in Nat /\ phase = "fragments" /\ ReadTo = at
  BY ScanningAt
<1>2. trivia \in Seq(Comment) /\ InLine(trivia, at)
  BY <1>1 DEF Inv, TriviaInv
<1>3. InLine(trivia, at')
  BY <1>1, <1>2, InLineLonger, SpansTyped
<1>4. ReadTo' = at'
  BY <1>1 DEF ReadTo
<1>5. QED
  BY <1>2, <1>3, <1>4 DEF TriviaInv

\* Opening and closing a bracket leave a stack of brackets.
LEMMA BracketSteps ==
  ASSUME StackInv, NEW char, NEW offset \in Offsets
  PROVE  /\ char \in Openers => Append(stack, [char |-> char, offset |-> offset]) \in Seq(Bracket)
         /\ stack # <<>> => Front(stack) \in Seq(Bracket)
<1>1. char \in Openers => [char |-> char, offset |-> offset] \in Bracket
  BY DEF Bracket
<1>2. stack \in Seq(Bracket)
  BY DEF StackInv
<1>3. stack # <<>> => Front(stack) \in Seq(Bracket)
  <2> HIDE DEF Bracket
  <2>1. QED
    BY <1>2 DEF Front
<1>4. QED
  BY <1>1, <1>2, <1>3

\* What adds nothing to the report but faults.
LEMMA SymbolSteps ==
  ASSUME Inv, Quoted \/ Open \/ Close \/ OtherSymbol
  PROVE  Inv'
<1>0. Scanning /\ UNCHANGED <<source, phase, from, fragments, trivia, statements, current, matches, preview>>
  BY DEF Quoted, Open, Close, OtherSymbol
<1>1. /\ source \in Texts /\ Len(source) \in Nat /\ phase = "fragments"
      /\ at \in Nat /\ at \in 0..(Len(source) - 1) /\ at \in Offsets
      /\ at + 1 \in Nat /\ at <= at + 1 /\ at + 1 <= Len(source)
  BY <1>0, ScanningAt
<1>2. at' \in Nat /\ at <= at' /\ at' <= Len(source)
  <2>1. CASE Quoted
    <3>1. at' = SkipQuoted(source, at, Char).end
      BY <2>1 DEF Quoted
    <3>2. at' \in Nat /\ at < at' /\ at' <= Len(source)
      BY <1>1, <3>1, QuotedEnds
    <3>3. QED
      BY <1>1, <3>2
  <2>2. CASE Open \/ Close \/ OtherSymbol
    <3>1. at' = at + 1
      BY <2>2 DEF Open, Close, OtherSymbol
    <3>2. QED
      BY <1>1, <3>1
  <2>3. QED
    BY <2>1, <2>2
<1>3. StackInv'
  <2>0. StackInv
    BY DEF Inv
  <2>1. stack' \in Seq(Bracket)
    <3>1. CASE Quoted \/ OtherSymbol
      BY <2>0, <3>1 DEF StackInv, Quoted, OtherSymbol
    <3>2. CASE Open
      BY <1>1, <2>0, <3>2, BracketSteps DEF Open
    <3>3. CASE Close
      BY <1>1, <2>0, <3>3, BracketSteps DEF Close, Closes, StackInv
    <3>4. QED
      BY <3>1, <3>2, <3>3
  <2>2. QED
    BY <1>0, <2>1 DEF StackInv, Bracket, Offsets
<1>4. TriviaInv'
  BY <1>0, <1>2, TriviaStays
<1>5. QED
  BY <1>0, <1>1, <1>2, <1>3, <1>4, ScanOn

\* A sequence and one element more.
LEMMA JoinOne ==
  ASSUME NEW S, NEW s \in Seq(S), NEW x \in S
  PROVE  s \o <<x>> = Append(s, x)
OBVIOUS

\* Up to an offset the fragments tile the text, also if the last one is empty.
LEMMA FragmentsAdded ==
  ASSUME Inv, phase = "fragments", NEW end \in Nat, from <= end
  PROVE  LET new == fragments \o FragmentsUpTo(end)
         IN  new \in Seq(Fragment) /\ InLine(new, end) /\ Tiles(new, end)
<1> DEFINE new == fragments \o FragmentsUpTo(end)
           x == NewFragment(from, end)
<1>0. CutTo = from /\ from \in Nat
  BY DEF CutTo, Inv, PhaseInv
<1>1. fragments \in Seq(Fragment) /\ InLine(fragments, from) /\ Tiles(fragments, from)
  BY <1>0 DEF Inv, FragmentsInv
<1>2. CASE end <= from
  <2>1. end = from
    BY <1>0, <1>2
  <2>2. new = fragments
    BY <1>1, <1>2 DEF FragmentsUpTo
  <2>3. QED
    BY <1>1, <2>1, <2>2
<1>3. CASE ~(end <= from)
  <2>1. x \in Fragment /\ x.start = from /\ x.end = end
    BY <1>0 DEF NewFragment, Fragment
  <2>2. new = fragments \o <<x>>
    BY <1>3 DEF FragmentsUpTo
  <2> HIDE DEF x, new
  <2>3. new = Append(fragments, x)
    BY <1>1, <2>1, <2>2, JoinOne
  <2>4. new \in Seq(Fragment) /\ InLine(new, end)
    <3>1. from <= x.start /\ x.start < x.end /\ x.end <= end
      BY <1>0, <1>3, <2>1
    <3>2. QED
      BY <1>0, <1>1, <2>1, <2>3, <3>1, InLineAppend, SpansTyped
  <2>5. Tiles(new, end)
    BY <1>1, <2>1, <2>3, TilesAppend
  <2>6. QED
    BY <2>4, <2>5 DEF new
<1>4. QED
  BY <1>2, <1>3

\* What holds of statements cut up to a limit and terminated before an end.
Listed(list, limit, end) ==
  /\ list \in Seq(Statement) /\ InLine(list, limit) /\ Terminators(list, end)
  /\ \A k \in DOMAIN list : ClausesInv(list[k])

\* A fragment that is a statement comes after the statements before it.
LEMMA StatementsAdded ==
  ASSUME Inv, phase = "fragments", NEW end \in Nat, from <= end
  PROVE  Listed(StatementsUpTo(end), end, from)
<1> DEFINE x == [start |-> from, end |-> end, terminator |-> None, clauses |-> <<>>]
           new == StatementsUpTo(end)
           n == Len(statements)
<1>0. CutTo = from /\ from \in Nat
  BY DEF CutTo, Inv, PhaseInv
<1>1. /\ statements \in Seq(Statement) /\ InLine(statements, from) /\ Terminators(statements, from)
      /\ \A k \in DOMAIN statements : ClausesInv(statements[k])
      /\ n \in Nat /\ DOMAIN statements = 1..n
  BY <1>0 DEF Inv, StatementsInv
<1>2. new = statements \/ (from < end /\ new = Append(statements, x))
  <2>1. end <= from \/ from < end
    BY <1>0
  <2>2. CASE end <= from
    BY <2>2 DEF StatementsUpTo
  <2>3. CASE ~(end <= from)
    BY <2>1, <2>3 DEF StatementsUpTo, WithStatement, NewFragment
  <2>4. QED
    BY <2>2, <2>3
<1>3. CASE new = statements
  <2>1. InLine(statements, end)
    BY <1>0, <1>1, InLineLonger, SpansTyped
  <2>2. QED
    BY <1>1, <1>3, <2>1 DEF Listed
<1>4. CASE from < end /\ new = Append(statements, x)
  <2>1. x \in Statement
    BY <1>0 DEF Statement, None
  <2>2. x.start = from /\ x.end = end /\ x.terminator = None /\ x.clauses = <<>>
    OBVIOUS
  <2> HIDE DEF x, new
  <2>3. new \in Seq(Statement) /\ InLine(new, end)
    <3>1. from <= x.start /\ x.start < x.end /\ x.end <= end
      BY <1>0, <1>4, <2>2
    <3>2. QED
      BY <1>0, <1>1, <1>4, <2>1, <3>1, InLineAppend, SpansTyped
  <2>4. /\ DOMAIN new = 1..(n + 1) /\ new[n + 1] = x
        /\ \A k \in 1..n : new[k] = statements[k]
    BY <1>1, <1>4, <2>1
  <2>5. Terminators(new, from)
    <3>1. SUFFICES ASSUME NEW k \in 1..(n + 1), new[k].terminator # None
                   PROVE  /\ new[k].end <= new[k].terminator /\ new[k].terminator < from
                          /\ IsTerminator(new[k].terminator)
                          /\ \A j \in 1..(n + 1) : k < j => new[k].terminator < new[j].start
      BY <2>4 DEF Terminators
    <3>2. k \in 1..n
      <4>1. k # n + 1
        BY <2>2, <2>4, <3>1
      <4>2. QED
        BY <1>1, <4>1
    <3>3. /\ new[k].end <= new[k].terminator /\ new[k].terminator < from
          /\ IsTerminator(new[k].terminator)
          /\ \A j \in 1..n : k < j => new[k].terminator < statements[j].start
      BY <1>1, <2>4, <3>1, <3>2 DEF Terminators
    <3>4. ASSUME NEW j \in 1..(n + 1), k < j
          PROVE  new[k].terminator < new[j].start
      <4>1. CASE j \in 1..n
        BY <2>4, <3>3, <3>4, <4>1
      <4>2. CASE j = n + 1
        BY <2>2, <2>4, <3>3, <4>2
      <4>3. QED
        BY <1>1, <4>1, <4>2
    <3>5. QED
      BY <3>3, <3>4
  <2>6. ClausesInv(x)
    BY <2>2, InLineNone DEF ClausesInv
  <2>7. \A k \in 1..(n + 1) : ClausesInv(new[k])
    <3>1. \A k \in 1..(n + 1) : k \in 1..n \/ k = n + 1
      BY <1>1
    <3>2. QED
      BY <1>1, <2>4, <2>6, <3>1
  <2>8. QED
    BY <2>3, <2>4, <2>5, <2>7 DEF Listed, new
<1>5. QED
  BY <1>2, <1>3, <1>4

\* A semicolon after the statements is the terminator of the last at most.
LEMMA StatementTerminated ==
  ASSUME at \in Nat, IsTerminator(at), NEW end \in Nat, end <= at,
         NEW list, Listed(list, at, end)
  PROVE  Listed(Terminated(list), at + 1, at + 1)
<1> DEFINE n == Len(list)
           new == Terminated(list)
<1>1. /\ list \in Seq(Statement) /\ InLine(list, at) /\ Terminators(list, end)
      /\ \A k \in 1..n : ClausesInv(list[k])
      /\ n \in Nat /\ DOMAIN list = 1..n
  BY DEF Listed
<1>2. /\ \A k \in 1..n : /\ list[k].start \in Nat /\ list[k].end \in Nat
                         /\ list[k].terminator \in Int
                         /\ list[k].start < list[k].end /\ list[k].end <= at
      /\ \A j, k \in 1..n : j < k => list[j].end <= list[k].start
  <2>1. \A k \in 1..n : list[k] \in Statement
    BY <1>1
  <2>2. QED
    BY <1>1, <2>1 DEF InLine, Statement
<1>3. \A k \in 1..n : list[k].terminator # None =>
        /\ list[k].end <= list[k].terminator /\ list[k].terminator < end
        /\ IsTerminator(list[k].terminator)
        /\ \A j \in 1..n : k < j => list[k].terminator < list[j].start
  BY <1>1 DEF Terminators
<1>4. \A t \in Int : t < end => t < at + 1
  OBVIOUS
<1>5. CASE new = list
  <2>1. InLine(list, at + 1)
    BY <1>1, <1>2 DEF InLine
  <2>2. Terminators(list, at + 1)
    BY <1>1, <1>2, <1>3, <1>4 DEF Terminators
  <2>3. QED
    BY <1>1, <1>5, <2>1, <2>2 DEF Listed
<1>6. CASE new # list
  <2>1. n \in 1..n /\ new = [list EXCEPT ![n].terminator = at]
    BY <1>1, <1>6 DEF Terminated
  <2> HIDE DEF new
  <2>2. /\ DOMAIN new = 1..n
        /\ \A k \in 1..n : k # n => new[k] = list[k]
        /\ new[n] = [list[n] EXCEPT !.terminator = at]
    BY <1>1, <2>1
  <2>3. list[n] \in Statement
    BY <1>1, <2>1
  <2>4. /\ new[n] \in Statement
        /\ new[n].start = list[n].start /\ new[n].end = list[n].end
        /\ new[n].clauses = list[n].clauses /\ new[n].terminator = at
    BY <2>2, <2>3 DEF Statement
  <2>5. new \in Seq(Statement)
    <3>1. \A k \in 1..n : new[k] \in Statement
      BY <1>1, <2>2, <2>4
    <3>2. Len(new) = n
      BY <1>1, <2>1
    <3>3. new = [k \in 1..n |-> new[k]]
      BY <1>1, <2>1
    <3>4. QED
      BY <1>1, <3>1, <3>3
  <2>6. \A k \in 1..n : new[k].start = list[k].start /\ new[k].end = list[k].end
    BY <2>2, <2>4
  <2>7. InLine(new, at + 1)
    BY <1>2, <2>2, <2>6 DEF InLine
  <2>8. Terminators(new, at + 1)
    <3>1. SUFFICES ASSUME NEW k \in 1..n, new[k].terminator # None
                   PROVE  /\ new[k].end <= new[k].terminator /\ new[k].terminator < at + 1
                          /\ IsTerminator(new[k].terminator)
                          /\ \A j \in 1..n : k < j => new[k].terminator < new[j].start
      BY <2>2 DEF Terminators
    <3>2. CASE k = n
      BY <1>1, <1>2, <2>1, <2>4, <3>2
    <3>3. CASE k # n
      BY <1>2, <1>3, <1>4, <2>2, <2>6, <3>1, <3>3
    <3>4. QED
      BY <3>2, <3>3
  <2>9. \A k \in 1..n : ClausesInv(new[k])
    <3>1. ClausesInv(new[n])
      BY <1>1, <2>1, <2>4 DEF ClausesInv
    <3>2. QED
      BY <1>1, <2>2, <3>1
  <2>10. QED
    BY <2>2, <2>5, <2>7, <2>8, <2>9 DEF Listed, new
<1>7. QED
  BY <1>5, <1>6

\* A terminator ends its fragment and the statement before it.
LEMMA TerminatorStep ==
  ASSUME Inv, Terminator
  PROVE  Inv'
<1>0. Scanning
  BY DEF Terminator
<1>1. /\ source \in Texts /\ Len(source) \in Nat /\ phase = "fragments"
      /\ at \in Nat /\ at \in 0..(Len(source) - 1)
      /\ at + 1 \in Nat /\ at <= at + 1 /\ at + 1 <= Len(source)
      /\ from \in Nat /\ from <= at
  BY <1>0, ScanningAt
<1>2. /\ at' = at + 1 /\ from' = at + 1
      /\ UNCHANGED <<source, phase, stack, trivia, faults, current, matches, preview>>
  BY DEF Terminator
<1>3. CutTo' = at + 1 /\ ReadTo' = at + 1
  BY <1>1, <1>2 DEF CutTo, ReadTo
<1>4. IsTerminator(at)
  <2>1. Char = source[at + 1]
    BY <1>1 DEF Char, CharAt
  <2>2. Char = ";"
    BY DEF Terminator
  <2>3. QED
    BY <2>1, <2>2 DEF IsTerminator
<1>5. FragmentsInv'
  <2> DEFINE x == [kind |-> "terminator", start |-> at, end |-> at + 1]
             upTo == fragments \o FragmentsUpTo(at)
  <2>1. upTo \in Seq(Fragment) /\ InLine(upTo, at) /\ Tiles(upTo, at)
    BY <1>1, FragmentsAdded
  <2>2. x \in Fragment /\ x.start = at /\ x.end = at + 1
    BY <1>1 DEF Fragment
  <2>3. fragments' = upTo \o <<x>>
    BY DEF Terminator
  <2> HIDE DEF x, upTo
  <2>4. fragments' = Append(upTo, x)
    BY <2>1, <2>2, <2>3, JoinOne
  <2>5. fragments' \in Seq(Fragment) /\ InLine(fragments', at + 1)
    <3>1. at <= x.start /\ x.start < x.end /\ x.end <= at + 1
      BY <1>1, <2>2
    <3>2. QED
      BY <1>1, <2>1, <2>2, <2>4, <3>1, InLineAppend, SpansTyped
  <2>6. Tiles(fragments', at + 1)
    BY <2>1, <2>2, <2>4, TilesAppend
  <2>7. QED
    BY <1>3, <2>5, <2>6 DEF FragmentsInv
<1>6. Listed(statements', at + 1, at + 1)
  <2>1. Listed(StatementsUpTo(at), at, from)
    BY <1>1, StatementsAdded
  <2>2. statements' = Terminated(StatementsUpTo(at))
    BY DEF Terminator
  <2>3. QED
    BY <1>1, <1>4, <2>1, <2>2, StatementTerminated
<1>7. StatementsInv' /\ \A k \in DOMAIN statements' : ClausesInv(statements[k])'
  BY <1>2, <1>3, <1>6 DEF StatementsInv, Listed, ClausesInv, Terminators, IsTerminator
<1>8. TriviaInv'
  BY <1>0, <1>1, <1>2, TriviaStays
<1>9. StackInv'
  BY <1>2 DEF Inv, StackInv, Bracket, Offsets
<1>10. PhaseInv'
  <2>1. phase # "clauses" /\ phase # "done"
    BY <1>1
  <2>2. matches = <<>> /\ preview = <<>> /\ current = 1
    BY <1>1, <2>1 DEF Inv, PhaseInv
  <2>3. matches' \in Seq(Match) /\ InLine(matches', at')
    BY <1>2, <2>2, InLineNone
  <2>4. Len(statements') \in Nat
    BY <1>6 DEF Listed
  <2>5. from' <= ReadTo'
    BY <1>1, <1>2, <1>3
  <2>6. QED
    BY <1>1, <1>2, <2>1, <2>2, <2>3, <2>4, <2>5 DEF PhaseInv
<1>11. source' \in Seq(STRING)
  BY <1>2 DEF Inv
<1>12. AnnotationsKeepOrder'
  BY <1>1, <1>2 DEF AnnotationsKeepOrder, Done
<1>13. QED
  BY <1>5, <1>7, <1>8, <1>9, <1>10, <1>11, <1>12 DEF Inv

\* The rest of the source is the last fragment.
LEMMA EndOfSourceStep ==
  ASSUME Inv, EndOfSource
  PROVE  Inv'
<1>1. /\ source \in Texts /\ Len(source) \in Nat /\ phase = "fragments" /\ at = Len(source)
      /\ at \in Nat /\ from \in Nat /\ from <= at
  BY SourceIsText DEF EndOfSource, Inv, PhaseInv, ReadTo
<1>2. /\ at' = 0 /\ stack' = <<>> /\ phase' \in {"preview", "clauses"}
      /\ phase' = "clauses" => statements' # <<>>
      /\ UNCHANGED <<source, from, trivia, current, matches, preview>>
  BY DEF EndOfSource
<1>3. phase' # "fragments" /\ phase' # "done"
  BY <1>2
<1>4. CutTo' = at /\ ReadTo' = at
  BY <1>1, <1>2, <1>3 DEF CutTo, ReadTo
<1>5. FragmentsInv'
  <2>1. fragments' = fragments \o FragmentsUpTo(at)
    BY DEF EndOfSource
  <2>2. QED
    BY <1>1, <1>4, <2>1, FragmentsAdded DEF FragmentsInv
<1>6. Listed(statements', at, from)
  <2>1. statements' = StatementsUpTo(at)
    BY DEF EndOfSource
  <2>2. QED
    BY <1>1, <2>1, StatementsAdded
<1>7. StatementsInv' /\ \A k \in DOMAIN statements' : ClausesInv(statements[k])'
  <2>1. statements' \in Seq(Statement) /\ InLine(statements', at) /\ Terminators(statements', from)
        /\ \A k \in DOMAIN statements' : ClausesInv(statements'[k])
    BY <1>6 DEF Listed
  <2>2. \A k \in DOMAIN statements' : statements'[k].terminator \in Int
    <3>1. \A k \in DOMAIN statements' : statements'[k] \in Statement
      BY <2>1
    <3>2. QED
      BY <3>1 DEF Statement
  <2>3. Terminators(statements', at)
    <3>1. \A t \in Int : t < from => t < at
      BY <1>1
    <3>2. QED
      BY <2>1, <2>2, <3>1 DEF Terminators
  <2>4. Terminators(statements, CutTo)'
    BY <1>2, <1>4, <2>3 DEF Terminators, IsTerminator
  <2>5. \A k \in DOMAIN statements' : ClausesInv(statements[k])'
    BY <1>2, <2>1 DEF ClausesInv
  <2>6. QED
    BY <1>4, <2>1, <2>4, <2>5 DEF StatementsInv
<1>8. TriviaInv'
  <2>1. ReadTo = at
    BY <1>1 DEF ReadTo
  <2>2. QED
    BY <1>2, <1>4, <2>1 DEF Inv, TriviaInv
<1>9. StackInv'
  BY <1>2 DEF StackInv
<1>10. PhaseInv'
  <2>1. phase # "clauses" /\ phase # "done"
    BY <1>1
  <2>2. matches = <<>> /\ preview = <<>> /\ current = 1
    BY <1>1, <2>1 DEF Inv, PhaseInv
  <2>3. matches' \in Seq(Match) /\ InLine(matches', at')
    BY <1>2, <2>2, InLineNone
  <2>4. Len(statements') \in Nat /\ (statements' # <<>> => 1 <= Len(statements'))
    BY <1>6 DEF Listed
  <2>5. Len(Raw)' \in Nat \/ phase' # "clauses"
    <3>1. SUFFICES ASSUME phase' = "clauses"
                   PROVE  Len(Raw)' \in Nat
      OBVIOUS
    <3>2. 1 \in DOMAIN statements' /\ statements' \in Seq(Statement) /\ InLine(statements', at)
      BY <1>2, <1>6, <2>4, <3>1 DEF Listed
    <3>3. /\ statements'[1].start \in Nat /\ statements'[1].end \in Nat
          /\ statements'[1].start < statements'[1].end /\ statements'[1].end <= at
      <4>1. statements'[1] \in Statement
        BY <3>2
      <4>2. statements'[1].start < statements'[1].end /\ statements'[1].end <= at
        BY <3>2 DEF InLine
      <4>3. QED
        BY <4>1, <4>2 DEF Statement
    <3>4. Raw' = Slice(source, statements'[1].start, statements'[1].end)
      BY <1>2, <2>2 DEF Raw, TextOf
    <3>5. statements'[1].start <= statements'[1].end
      BY <3>3
    <3>6. Raw' \in Texts
      BY <1>1, <3>3, <3>4, <3>5, SliceParts
    <3>7. QED
      BY <3>6, LenType
  <2>6. QED
    BY <1>1, <1>2, <1>3, <1>4, <2>2, <2>3, <2>4, <2>5 DEF PhaseInv
<1>11. source' \in Seq(STRING)
  BY <1>2 DEF Inv
<1>12. AnnotationsKeepOrder'
  BY <1>3 DEF AnnotationsKeepOrder, Done
<1>13. QED
  BY <1>5, <1>7, <1>8, <1>9, <1>10, <1>11, <1>12 DEF Inv

\* The statement the second scanner is in is part of the source.
LEMMA RawParts ==
  ASSUME Inv, phase = "clauses"
  PROVE  LET s == statements[current]
         IN  /\ source \in Texts /\ Len(source) \in Nat
             /\ current \in DOMAIN statements /\ s \in Statement
             /\ s.start \in Nat /\ s.end \in Nat /\ s.start < s.end /\ s.end <= Len(source)
             /\ Raw = Slice(source, s.start, s.end)
             /\ Raw \in Texts /\ Len(Raw) = s.end - s.start
             /\ Len(Raw) \in Nat /\ Len(Raw) <= Len(source)
             /\ at \in Nat /\ at <= Len(Raw)
<1> DEFINE s == statements[current]
<1>1. source \in Texts /\ Len(source) \in Nat
  BY SourceIsText DEF Inv
<1>2. current \in Nat \ {0} /\ current <= Len(statements) /\ at \in Nat /\ at <= Len(Raw)
  BY DEF Inv, PhaseInv
<1>3. CutTo = Len(source)
  BY DEF CutTo
<1>4. statements \in Seq(Statement) /\ InLine(statements, Len(source))
  BY <1>3 DEF Inv, StatementsInv
<1>5. current \in DOMAIN statements /\ s \in Statement
  BY <1>2, <1>4
<1>6. s.start < s.end /\ s.end <= Len(source)
  BY <1>4, <1>5 DEF InLine
<1>7. s.start \in Nat /\ s.end \in Nat
  BY <1>5 DEF Statement
<1>8. Raw = Slice(source, s.start, s.end)
  BY DEF Raw, TextOf
<1> HIDE DEF s
<1>9. Raw \in Texts /\ Len(Raw) = s.end - s.start
  <2>1. s.start <= s.end
    BY <1>6, <1>7
  <2>2. QED
    BY <1>1, <1>6, <1>7, <1>8, <2>1, SliceParts
<1>10. Len(Raw) \in Nat /\ Len(Raw) <= Len(source)
  BY <1>1, <1>6, <1>7, <1>9
<1>11. QED
  BY <1>1, <1>2, <1>5, <1>6, <1>7, <1>8, <1>9, <1>10 DEF s

\* The steps of the second scanner in a statement.
LEMMA SearchOn ==
  ASSUME Inv, phase = "clauses", at' \in Nat, at' <= Len(Raw),
         UNCHANGED <<source, phase, from, fragments, trivia, statements, current, preview>>,
         stack' \in Seq(Bracket), matches' \in Seq(Match), InLine(matches', at')
  PROVE  Inv'
<1>1. Len(source) \in Nat /\ Len(Raw) \in Nat /\ Len(Raw) <= Len(source)
  BY RawParts
<1>2. Raw' = Raw
  BY DEF Raw, TextOf
<1>3. at' <= Len(source)
  BY <1>1
<1>4. CutTo' = CutTo /\ ReadTo' = ReadTo
  BY DEF CutTo, ReadTo
<1>5. PhaseInv'
  BY <1>2, <1>3, <1>4 DEF Inv, PhaseInv
<1>6. FragmentsInv' /\ TriviaInv'
  BY <1>4 DEF Inv, FragmentsInv, TriviaInv
<1>7. StatementsInv'
  BY <1>4 DEF Inv, StatementsInv, Terminators, IsTerminator
<1>8. \A k \in DOMAIN statements' : ClausesInv(statements[k])'
  BY DEF Inv, ClausesInv
<1>9. StackInv'
  BY DEF StackInv, Bracket, Offsets
<1>10. AnnotationsKeepOrder' /\ source' \in Seq(STRING)
  BY DEF Inv, AnnotationsKeepOrder, Done
<1>11. QED
  BY <1>5, <1>6, <1>7, <1>8, <1>9, <1>10 DEF Inv

\* The second scanner is in the text of a statement.
LEMMA SearchingAt ==
  ASSUME Inv, Searching
  PROVE  /\ phase = "clauses" /\ Raw \in Texts /\ Len(Raw) \in Nat
         /\ at \in 0..(Len(Raw) - 1) /\ at \in Nat /\ at \in Offsets
         /\ at + 1 \in Nat /\ at <= at + 1 /\ at + 1 <= Len(Raw)
         /\ matches \in Seq(Match) /\ InLine(matches, at) /\ StackInv
<1>1. phase = "clauses" /\ at < Len(Raw)
  BY DEF Searching
<1>2. /\ Raw \in Texts /\ Len(Raw) \in Nat /\ at \in Nat
      /\ Len(source) \in Nat /\ Len(Raw) <= Len(source)
  BY <1>1, RawParts
<1>3. matches \in Seq(Match) /\ InLine(matches, at) /\ StackInv
  BY DEF Inv, PhaseInv
<1>4. QED
  BY <1>1, <1>2, <1>3 DEF Offsets

\* Keywords found stay in line as the scanner goes on.
LEMMA MatchesStay ==
  ASSUME Inv, Searching, at' \in Nat, at <= at', UNCHANGED matches
  PROVE  matches' \in Seq(Match) /\ InLine(matches', at')
<1>1. matches \in Seq(Match) /\ InLine(matches, at) /\ at \in Nat
  BY SearchingAt
<1>2. QED
  BY <1>1, InLineLonger, SpansTyped

\* What the second scanner passes.
LEMMA PassSteps ==
  ASSUME Inv, PassToken \/ PassBracket \/ PassSymbol
  PROVE  Inv'
<1>0. Searching /\ UNCHANGED <<source, phase, from, fragments, trivia, statements, current, matches, preview>>
  BY DEF PassToken, PassBracket, PassSymbol
<1>1. /\ phase = "clauses" /\ Raw \in Texts /\ Len(Raw) \in Nat
      /\ at \in 0..(Len(Raw) - 1) /\ at \in Nat /\ at \in Offsets
      /\ at + 1 \in Nat /\ at <= at + 1 /\ at + 1 <= Len(Raw) /\ StackInv
  BY <1>0, SearchingAt
<1>2. at' \in Nat /\ at <= at' /\ at' <= Len(Raw)
  <2>1. CASE PassBracket \/ PassSymbol
    BY <1>1, <2>1 DEF PassBracket, PassSymbol
  <2>2. CASE PassToken
    <3>1. CASE StartsLineComment(Raw, at) /\ at' = IF IndexOfNewline(Raw, at + 2) = None THEN Len(Raw)
                                                   ELSE IndexOfNewline(Raw, at + 2) + 1
      <4> DEFINE found == IndexOfNewline(Raw, at + 2)
      <4>1. found # None => found \in Nat /\ at + 2 <= found /\ found < Len(Raw)
        BY <1>1, <3>1, NewlineFound
      <4>2. at' = IF found = None THEN Len(Raw) ELSE found + 1
        BY <3>1
      <4> HIDE DEF found
      <4>3. QED
        BY <1>1, <4>1, <4>2
    <3>2. CASE StartsBlockComment(Raw, at) /\ at' = BlockCommentEnd(Raw, at)
      <4>1. at' \in Nat /\ at + 2 <= at' /\ at' <= Len(Raw)
        BY <1>1, <3>2, BlockCommentEnds
      <4>2. QED
        BY <1>1, <4>1
    <3>3. CASE at' = SkipQuoted(Raw, at, InRaw).end
      <4>1. at' \in Nat /\ at < at' /\ at' <= Len(Raw)
        BY <1>1, <3>3, QuotedEnds
      <4>2. QED
        BY <1>1, <4>1
    <3>4. QED
      BY <2>2, <3>1, <3>2, <3>3 DEF PassToken
  <2>3. QED
    BY <2>1, <2>2, <1>0
<1>3. stack' \in Seq(Bracket)
  <2>1. CASE PassToken \/ PassSymbol
    BY <1>1, <2>1 DEF PassToken, PassSymbol, StackInv
  <2>2. CASE PassBracket
    BY <1>1, <2>2, BracketSteps DEF PassBracket, Closes, StackInv
  <2>3. QED
    BY <2>1, <2>2
<1>4. matches' \in Seq(Match) /\ InLine(matches', at')
  BY <1>0, <1>2, MatchesStay
<1>5. QED
  BY <1>0, <1>1, <1>2, <1>3, <1>4, SearchOn

\* A keyword is found after those found before.
LEMMA FindClauseStep ==
  ASSUME Inv, FindClause
  PROVE  Inv'
<1> DEFINE m == KeywordAt(Raw, at)[1]
<1>0. Searching
  BY DEF FindClause
<1>1. /\ phase = "clauses" /\ Raw \in Texts /\ at \in 0..(Len(Raw) - 1) /\ at \in Nat
      /\ matches \in Seq(Match) /\ InLine(matches, at) /\ StackInv
  BY <1>0, SearchingAt
<1>2. /\ KeywordAt(Raw, at) = <<m>> /\ m \in Match
      /\ m.start = at /\ at < m.end /\ m.end <= Len(Raw)
  <2>1. KeywordAt(Raw, at) # <<>>
    BY DEF FindClause
  <2>2. QED
    BY <1>1, <2>1, KeywordFound DEF Match
<1>3. matches' = matches \o <<m>> /\ at' = m.end
  BY <1>2 DEF FindClause
<1> HIDE DEF m
<1>4. m.end \in Nat
  BY <1>2, SpansTyped
<1>5. matches' \in Seq(Match) /\ InLine(matches', at')
  <2>1. matches' = Append(matches, m)
    BY <1>1, <1>2, <1>3, JoinOne
  <2>2. at <= m.start /\ m.start < m.end /\ m.end <= m.end
    BY <1>1, <1>2, <1>4
  <2>3. QED
    BY <1>1, <1>2, <1>3, <1>4, <2>1, <2>2, InLineAppend, SpansTyped
<1>6. stack' \in Seq(Bracket)
  BY <1>1 DEF FindClause, StackInv
<1>7. UNCHANGED <<source, phase, from, fragments, trivia, statements, current, preview>>
  BY DEF FindClause
<1>8. QED
  BY <1>1, <1>2, <1>3, <1>4, <1>5, <1>6, <1>7, SearchOn
NewClause(keyword, raw, start, end, support) ==
  [keyword |-> keyword, raw |-> raw, start |-> start, end |-> end,
   support |-> support, irPath |-> None]

\* The parts of a clause that was found.
LEMMA NewClauseParts ==
  ASSUME NEW keyword \in KeywordPhrases, NEW raw \in Texts, NEW start \in Nat, NEW end \in Nat,
         NEW support \in Supports
  PROVE  LET c == NewClause(keyword, raw, start, end, support)
         IN  c \in Clause /\ c.start = start /\ c.end = end /\ c.raw = raw
<1>1. None \in Int
  BY DEF None
<1>2. QED
  BY <1>1 DEF NewClause, Clause

\* The words of a clause that nothing stands for.
LEMMA ClauseLiterals ==
  /\ <<"RAW">> \in KeywordPhrases
  /\ "raw" \in Supports /\ "unknown" \in Supports
<1>1. <<"RAW">> \in KeywordPhrases
  BY Zenon DEF KeywordPhrases
<1>2. "raw" \in Supports /\ "unknown" \in Supports
  BY Zenon DEF Supports
<1>3. QED
  BY <1>1, <1>2

\* Clauses found in a statement are parts of it, in their order.
Within(list, s) ==
  /\ list \in Seq(Clause) /\ InLine(list, s.end)
  /\ \A c \in DOMAIN list :
       /\ s.start <= list[c].start
       /\ list[c].raw = Slice(source, list[c].start, list[c].end)

\* A statement without keywords is one clause.
LEMMA OneRawClause ==
  ASSUME source \in Texts, NEW s \in Statement, s.start < s.end, s.end <= Len(source)
  PROVE  Within(Clauses(s, <<>>), s)
<1> DEFINE keyword == <<"RAW">>
           support == "raw"
           c == NewClause(keyword, Slice(source, s.start, s.end), s.start, s.end, support)
           new == Clauses(s, <<>>)
<1>1. new = <<c>>
  BY Zenon DEF Clauses, TextOf, NewClause
<1>2. keyword \in KeywordPhrases /\ support \in Supports
  BY ClauseLiterals
<1>3. s.start \in Nat /\ s.end \in Nat /\ Len(source) \in Nat
  BY LenType, SpansTyped
<1> HIDE DEF keyword, support, new
<1>4. Slice(source, s.start, s.end) \in Texts
  <2>1. s.start <= s.end
    BY <1>3
  <2>2. QED
    BY <1>3, <2>1, SliceParts
<1>5. c \in Clause /\ c.start = s.start /\ c.end = s.end /\ c.raw = Slice(source, s.start, s.end)
  BY <1>2, <1>3, <1>4, NewClauseParts
<1> HIDE DEF c
<1>6. new \in Seq(Clause) /\ DOMAIN new = {1} /\ new[1] = c
  <2>1. new \in Seq(Clause) /\ Len(new) = 1 /\ new[1] = c
    BY <1>1, <1>5
  <2>2. QED
    BY <2>1
<1>7. s.end <= s.end /\ ~(1 < 1) /\ s.start <= s.start
  BY <1>3
<1>8. InLine(new, s.end)
  <2>1. \A k \in DOMAIN new : new[k].start < new[k].end /\ new[k].end <= s.end
    BY <1>5, <1>6, <1>7
  <2>2. \A j, k \in DOMAIN new : ~(j < k)
    BY <1>6, <1>7
  <2>3. QED
    BY <2>1, <2>2 DEF InLine
<1>9. QED
  BY <1>5, <1>6, <1>7, <1>8 DEF Within, new

\* Clauses reach from keyword to keyword, within their statement.
LEMMA FoundClauses ==
  ASSUME source \in Texts, NEW s \in Statement, s.start < s.end, s.end <= Len(source),
         NEW found \in Seq(Match), found # <<>>, InLine(found, s.end - s.start)
  PROVE  /\ Within(Clauses(s, found), s)
         /\ Len(Clauses(s, found)) = Len(found)
         /\ \A k \in 1..Len(found) :
              /\ Clauses(s, found)[k].start = s.start + found[k].start
              /\ Clauses(s, found)[k].end =
                   IF k < Len(found) THEN s.start + found[k + 1].start ELSE s.end
<1> DEFINE n == Len(found)
           long == s.end - s.start
           End(k) == IF k < n THEN found[k + 1].start ELSE long
           Raws(k) == Slice(TextOf(s), found[k].start, End(k))
           support == "unknown"
           C(k) == NewClause(found[k].keyword, Raws(k), s.start + found[k].start, s.start + End(k), support)
           new == Clauses(s, found)
<1>1. new = [k \in DOMAIN found |-> C(k)]
  BY Zenon DEF Clauses, NewClause
<1>2. support \in Supports
  BY ClauseLiterals
<1>3. /\ s.start \in Nat /\ s.end \in Nat /\ Len(source) \in Nat /\ long \in Nat
      /\ n \in Nat \ {0} /\ DOMAIN found = 1..n
  BY LenType, SpansTyped
<1> HIDE DEF support, new
<1>4. \A k \in 1..n : /\ found[k].start \in Nat /\ found[k].end \in Nat
                      /\ found[k].keyword \in KeywordPhrases
                      /\ found[k].start < found[k].end /\ found[k].end <= long
  <2>1. \A k \in 1..n : found[k] \in Match
    BY <1>3
  <2>2. \A k \in 1..n : found[k].start < found[k].end /\ found[k].end <= long
    BY <1>3 DEF InLine
  <2>3. QED
    BY <2>1, <2>2 DEF Match
<1>5. \A j, k \in 1..n : j < k => found[j].end <= found[k].start
  BY <1>3 DEF InLine
<1>6. ASSUME NEW k \in 1..n
      PROVE  End(k) \in Nat /\ found[k].start < End(k) /\ found[k].start <= End(k) /\ End(k) <= long
  <2>1. CASE k < n
    <3>1. k + 1 \in 1..n /\ k < k + 1
      BY <1>3, <2>1
    <3>2. found[k].end <= found[k + 1].start
      BY <1>5, <3>1
    <3>3. /\ found[k].start \in Nat /\ found[k].end \in Nat /\ found[k].start < found[k].end
          /\ found[k + 1].start \in Nat /\ found[k + 1].end \in Nat
          /\ found[k + 1].start < found[k + 1].end /\ found[k + 1].end <= long
      BY <1>4, <3>1
    <3>4. End(k) = found[k + 1].start
      BY <2>1
    <3> HIDE DEF End, long
    <3>5. QED
      BY <1>3, <3>2, <3>3, <3>4
  <2>2. CASE ~(k < n)
    BY <1>3, <1>4, <2>2
  <2>3. QED
    BY <2>1, <2>2
<1>7. ASSUME NEW j \in 1..n, NEW k \in 1..n, j < k
      PROVE  End(j) <= found[k].start
  <2>1. j < n /\ j + 1 \in 1..n
    BY <1>3, <1>7
  <2>2. CASE j + 1 = k
    BY <1>4, <2>1, <2>2
  <2>3. CASE j + 1 # k
    <3>1. j + 1 < k
      BY <1>7, <2>3
    <3>2. found[j + 1].end <= found[k].start
      BY <1>5, <2>1, <3>1
    <3>3. QED
      BY <1>4, <2>1, <3>2
  <2>4. QED
    BY <2>2, <2>3
<1> HIDE DEF End
<1>8. ASSUME NEW k \in 1..n
      PROVE  /\ C(k) \in Clause
             /\ C(k).start = s.start + found[k].start /\ C(k).end = s.start + End(k)
             /\ C(k).raw = Slice(source, s.start + found[k].start, s.start + End(k))
  <2> DEFINE a == found[k].start
             b == End(k)
  <2>1. /\ a \in Nat /\ b \in Nat /\ a <= b /\ b <= long
        /\ s.start + a \in Nat /\ s.start + b \in Nat
        /\ s.start + a <= s.start + b /\ s.start + b <= Len(source) /\ s.start <= s.end
    <3>1. a \in Nat /\ b \in Nat /\ a <= b /\ b <= long
      BY <1>4, <1>6
    <3>2. s.end = s.start + long /\ s.end <= Len(source)
      BY <1>3, SpansTyped
    <3> HIDE DEF a, b, long
    <3>3. s.start \in Nat /\ s.end \in Nat /\ long \in Nat /\ Len(source) \in Nat
      BY <1>3
    <3> DEFINE x == s.start
               y == s.end
               size == Len(source)
    <3>4. y = x + long /\ y <= size /\ x \in Nat /\ y \in Nat /\ size \in Nat
      BY <3>2, <3>3
    <3> HIDE DEF x, y, size
    <3>5. /\ x + a \in Nat /\ x + b \in Nat /\ x + a <= x + b
          /\ x + b <= y /\ x <= y
      BY <3>1, <3>3, <3>4
    <3>6. x + b <= size
      BY <3>1, <3>3, <3>4, <3>5
    <3>7. QED
      BY <3>1, <3>5, <3>6 DEF x, y, size
  <2>2. Raws(k) = Slice(source, s.start + a, s.start + b)
    <3>1. TextOf(s) = Slice(source, s.start, s.end)
      BY DEF TextOf
    <3> HIDE DEF a, b
    <3>2. Slice(Slice(source, s.start, s.end), a, b) = Slice(source, s.start + a, s.start + b)
      <4>1. a \in Nat /\ b \in Nat /\ a <= b /\ b <= s.end - s.start
        BY <2>1 DEF long
      <4>2. s.start \in Nat /\ s.end \in Nat /\ s.start <= s.end /\ s.end <= Len(source)
        BY <1>3, <2>1
      <4> HIDE DEF long
      <4>3. QED
        BY <4>1, <4>2, SliceOfSlice
    <3>3. QED
      BY <3>1, <3>2 DEF a, b
  <2>3. Raws(k) \in Texts
    <3> HIDE DEF a, b, Raws, long
    <3>1. Slice(source, s.start + a, s.start + b) \in Texts
      BY <2>1, SliceParts
    <3>2. QED
      BY <2>2, <3>1
  <2>4. found[k].keyword \in KeywordPhrases
    BY <1>4
  <2> HIDE DEF Raws
  <2> DEFINE c == NewClause(found[k].keyword, Raws(k), s.start + a, s.start + b, support)
  <2>5. c \in Clause /\ c.start = s.start + a /\ c.end = s.start + b /\ c.raw = Raws(k)
    <3> DEFINE x == s.start + a
               y == s.start + b
    <3>1. x \in Nat /\ y \in Nat
      BY <2>1
    <3> HIDE DEF a, b, long, x, y
    <3>2. /\ NewClause(found[k].keyword, Raws(k), x, y, support) \in Clause
          /\ NewClause(found[k].keyword, Raws(k), x, y, support).start = x
          /\ NewClause(found[k].keyword, Raws(k), x, y, support).end = y
          /\ NewClause(found[k].keyword, Raws(k), x, y, support).raw = Raws(k)
      BY <1>2, <2>3, <2>4, <3>1, NewClauseParts
    <3>3. QED
      BY <3>2 DEF x, y
  <2>6. C(k) = c
    OBVIOUS
  <2> HIDE DEF c, C
  <2>7. QED
    BY <2>2, <2>5, <2>6
<1> HIDE DEF C
<1>9. new \in Seq(Clause) /\ Len(new) = n /\ DOMAIN new = 1..n /\ \A k \in 1..n : new[k] = C(k)
  BY <1>1, <1>3, <1>8
<1>10. ASSUME NEW k \in 1..n
       PROVE  /\ s.start <= new[k].start /\ new[k].start < new[k].end /\ new[k].end <= s.end
              /\ new[k].raw = Slice(source, new[k].start, new[k].end)
              /\ new[k].start = s.start + found[k].start /\ new[k].end = s.start + End(k)
  <2>1. /\ new[k].start = s.start + found[k].start /\ new[k].end = s.start + End(k)
        /\ new[k].raw = Slice(source, new[k].start, new[k].end)
    BY <1>8, <1>9
  <2>2. QED
    BY <1>3, <1>4, <1>6, <2>1
<1>11. ASSUME NEW j \in 1..n, NEW k \in 1..n, j < k
       PROVE  new[j].end <= new[k].start
  <2>1. new[j].end = s.start + End(j) /\ new[k].start = s.start + found[k].start
    BY <1>10
  <2>2. End(j) <= found[k].start /\ End(j) \in Nat /\ found[k].start \in Nat
    BY <1>4, <1>6, <1>7, <1>11
  <2>3. QED
    BY <1>3, <2>1, <2>2
<1>12. Within(new, s)
  BY <1>9, <1>10, <1>11 DEF Within, InLine
<1>13. \A k \in 1..n : new[k].end = IF k < n THEN s.start + found[k + 1].start ELSE s.end
  <2>1. \A k \in 1..n : new[k].end = s.start + End(k)
    BY <1>10
  <2>2. s.start + long = s.end
    BY <1>3
  <2>3. QED
    BY <2>1, <2>2 DEF End
<1>14. QED
  BY <1>9, <1>10, <1>12, <1>13 DEF new
WithClauses(list, k, cs) == [list EXCEPT ![k].clauses = cs]

\* Other clauses for a statement leave the statements as they were cut.
LEMMA ClausesReplaced ==
  ASSUME NEW limit, NEW end, NEW list, Listed(list, limit, end),
         NEW k \in DOMAIN list, NEW cs, Within(cs, list[k])
  PROVE  /\ Listed(WithClauses(list, k, cs), limit, end)
         /\ Len(WithClauses(list, k, cs)) = Len(list)
         /\ WithClauses(list, k, cs)[k].clauses = cs
<1> DEFINE n == Len(list)
           new == WithClauses(list, k, cs)
<1>0. new = [list EXCEPT ![k].clauses = cs]
  BY DEF WithClauses
<1> HIDE DEF new
<1>1. /\ list \in Seq(Statement) /\ InLine(list, limit) /\ Terminators(list, end)
      /\ \A j \in DOMAIN list : ClausesInv(list[j])
      /\ n \in Nat /\ DOMAIN list = 1..n
  BY DEF Listed
<1>2. /\ DOMAIN new = 1..n
      /\ \A j \in 1..n : j # k => new[j] = list[j]
      /\ new[k] = [list[k] EXCEPT !.clauses = cs]
  BY <1>0, <1>1
<1>3. list[k] \in Statement
  BY <1>1
<1>4. /\ new[k] \in Statement
      /\ new[k].start = list[k].start /\ new[k].end = list[k].end
      /\ new[k].terminator = list[k].terminator /\ new[k].clauses = cs
  BY <1>2, <1>3 DEF Statement, Within
<1>5. new \in Seq(Statement) /\ Len(new) = n
  <2>1. \A j \in 1..n : list[j] \in Statement
    BY <1>1
  <2>2. \A j \in 1..n : new[j] \in Statement
    BY <1>2, <1>4, <2>1
  <2>3. new = [j \in 1..n |-> new[j]]
    BY <1>0, <1>1
  <2>4. QED
    BY <1>1, <2>2, <2>3
<1>6. \A j \in 1..n : /\ new[j].start = list[j].start /\ new[j].end = list[j].end
                      /\ new[j].terminator = list[j].terminator
  BY <1>2, <1>4
<1>7. InLine(new, limit) /\ Terminators(new, end)
  BY <1>1, <1>2, <1>6 DEF InLine, Terminators
<1>8. \A j \in 1..n : ClausesInv(new[j])
  <2>1. ClausesInv(new[k])
    BY <1>4 DEF ClausesInv, Within
  <2>2. QED
    BY <1>1, <1>2, <2>1
<1>9. QED
  BY <1>2, <1>4, <1>5, <1>7, <1>8 DEF Listed, new

\* The invariant once the text is cut, in terms of the statements.
LEMMA CutInv ==
  ASSUME Inv, phase # "fragments"
  PROVE  Listed(statements, Len(source), Len(source))
<1>1. CutTo = Len(source)
  BY DEF CutTo
<1>2. QED
  BY <1>1 DEF Inv, StatementsInv, Listed

\* Steps after the cut that change the clauses of statements alone.
LEMMA CutStays ==
  ASSUME Inv, phase # "fragments", phase' # "fragments",
         UNCHANGED <<source, from, fragments, trivia>>,
         stack' \in Seq(Bracket), Listed(statements', Len(source), Len(source)),
         PhaseInv', AnnotationsKeepOrder'
  PROVE  Inv'
<1>1. CutTo = Len(source) /\ ReadTo = Len(source) /\ CutTo' = Len(source) /\ ReadTo' = Len(source)
  BY DEF CutTo, ReadTo
<1>2. FragmentsInv' /\ TriviaInv'
  BY <1>1 DEF Inv, FragmentsInv, TriviaInv
<1>3. StatementsInv' /\ \A k \in DOMAIN statements' : ClausesInv(statements[k])'
  BY <1>1 DEF StatementsInv, Listed, ClausesInv, Terminators, IsTerminator
<1>4. StackInv'
  BY DEF StackInv, Bracket, Offsets
<1>5. source' \in Seq(STRING)
  BY DEF Inv
<1>6. QED
  BY <1>2, <1>3, <1>4, <1>5 DEF Inv

\* The clauses of a statement lie in it.
LEMMA EndOfStatementStep ==
  ASSUME Inv, EndOfStatement
  PROVE  Inv'
<1> DEFINE s == statements[current]
           cs == Clauses(s, matches)
<1>1. phase = "clauses" /\ phase # "fragments" /\ at = Len(Raw)
  BY DEF EndOfStatement
<1>2. /\ source \in Texts /\ Len(source) \in Nat
      /\ current \in DOMAIN statements /\ s \in Statement
      /\ s.start \in Nat /\ s.end \in Nat /\ s.start < s.end /\ s.end <= Len(source)
      /\ Len(Raw) = s.end - s.start
  BY <1>1, RawParts
<1>3. matches \in Seq(Match) /\ InLine(matches, s.end - s.start)
  BY <1>1, <1>2 DEF Inv, PhaseInv
<1>4. Within(cs, s)
  BY <1>2, <1>3, OneRawClause, FoundClauses
<1>5. /\ statements' = WithClauses(statements, current, cs)
      /\ current' = current + 1
      /\ phase' = IF current = Len(statements) THEN "preview" ELSE "clauses"
      /\ at' = 0 /\ stack' = <<>> /\ matches' = <<>>
      /\ UNCHANGED <<source, from, fragments, trivia, preview>>
  BY DEF EndOfStatement, WithClauses
<1>6. Listed(statements, Len(source), Len(source))
  BY <1>1, CutInv
<1>7. Listed(statements', Len(source), Len(source)) /\ Len(statements') = Len(statements)
  <2> HIDE DEF cs
  <2>1. QED
    BY <1>2, <1>4, <1>5, <1>6, ClausesReplaced
<1> HIDE DEF s, cs
<1>8. phase' # "fragments" /\ phase' # "done" /\ phase' \in {"clauses", "preview"}
      /\ (phase' = "clauses" => current # Len(statements))
  BY <1>5
<1>9. current \in Nat \ {0} /\ Len(statements) \in Nat /\ current <= Len(statements)
  BY <1>2, <1>6 DEF Listed
<1>10. ReadTo' = Len(source) /\ from <= Len(source) /\ from \in Nat
  BY <1>1, <1>5, <1>8 DEF Inv, PhaseInv, ReadTo
<1>11. phase' = "clauses" => current' <= Len(statements') /\ Len(Raw)' \in Nat
  <2>1. SUFFICES ASSUME phase' = "clauses"
                 PROVE  current' <= Len(statements') /\ Len(Raw)' \in Nat
    OBVIOUS
  <2>2. current' <= Len(statements') /\ current' \in Nat \ {0}
    BY <1>5, <1>7, <1>8, <1>9, <2>1
  <2> DEFINE t == statements'[current']
  <2>3. statements' \in Seq(Statement) /\ InLine(statements', Len(source))
    BY <1>7 DEF Listed
  <2>4. current' \in DOMAIN statements' /\ t \in Statement
    BY <2>2, <2>3
  <2>5. t.start < t.end /\ t.end <= Len(source)
    BY <2>3, <2>4 DEF InLine
  <2>6. t.start \in Nat /\ t.end \in Nat
    BY <2>4 DEF Statement
  <2>7. Raw' = Slice(source, t.start, t.end)
    BY <1>5 DEF Raw, TextOf
  <2> HIDE DEF t
  <2>8. t.start <= t.end
    BY <2>5, <2>6
  <2>9. Raw' \in Texts
    BY <1>2, <2>5, <2>6, <2>7, <2>8, SliceParts
  <2>10. QED
    BY <2>2, <2>9, LenType
<1>12. PhaseInv'
  <2>1. matches' \in Seq(Match) /\ InLine(matches', at')
    BY <1>5, InLineNone
  <2>2. preview' = <<>>
    BY <1>1, <1>5 DEF Inv, PhaseInv
  <2>3. at' \in Nat /\ at' <= Len(source') /\ (phase' = "clauses" => at' <= Len(Raw)')
    BY <1>2, <1>5, <1>11
  <2>4. current' \in Nat \ {0} /\ current' <= Len(statements') + 1
    BY <1>5, <1>7, <1>9
  <2>5. QED
    BY <1>5, <1>8, <1>10, <1>11, <2>1, <2>2, <2>3, <2>4 DEF PhaseInv
<1>13. AnnotationsKeepOrder'
  BY <1>8 DEF AnnotationsKeepOrder, Done
<1>14. stack' \in Seq(Bracket)
  BY <1>5
<1>15. QED
  BY <1>1, <1>5, <1>7, <1>8, <1>12, <1>13, <1>14, CutStays

\* What annotation leaves are the parts of the statement they were.
LEMMA AnnotatedWithin ==
  ASSUME NEW s, NEW clauses, Within(clauses, s), NEW new \in Seq(Clause),
         Len(new) = Len(clauses), \A k \in 1..Len(clauses) : SameText(new[k], clauses[k])
  PROVE  Within(new, s)
<1>1. clauses \in Seq(Clause) /\ DOMAIN clauses = 1..Len(clauses) /\ DOMAIN new = 1..Len(clauses)
  BY DEF Within
<1>2. \A k \in 1..Len(clauses) : /\ new[k].start = clauses[k].start /\ new[k].end = clauses[k].end
                                 /\ new[k].raw = clauses[k].raw
  BY DEF SameText
<1>3. QED
  BY <1>1, <1>2 DEF Within, InLine

\* The annotations point to clauses of the preview, and change nothing else.
LEMMA BuildIrPreviewStep ==
  ASSUME Inv, BuildIrPreview
  PROVE  Inv'
<1> DEFINE cs == statements[1].clauses
           new == AnnotateIrPreviewSupport(cs, preview')
<1>1. phase = "preview" /\ phase # "fragments" /\ phase # "clauses" /\ Previewed
  BY DEF BuildIrPreview
<1>2. Listed(statements, Len(source), Len(source))
  BY <1>1, CutInv
<1>3. Len(statements) = 1 /\ 1 \in DOMAIN statements /\ statements[1] \in Statement
      /\ ClausesInv(statements[1])
  <2>1. Len(statements) = 1
    BY <1>1 DEF Previewed
  <2>2. statements \in Seq(Statement) /\ \A k \in DOMAIN statements : ClausesInv(statements[k])
    BY <1>2 DEF Listed
  <2>3. 1 \in DOMAIN statements
    BY <2>1, <2>2
  <2>4. QED
    BY <2>1, <2>2, <2>3
<1>4. Within(cs, statements[1]) /\ cs \in Seq(Clause)
  BY <1>3 DEF Within, ClausesInv, Statement
<1>5. /\ preview' = LiftRawCypherToIr(LiftSource(cs))
      /\ statements' = WithClauses(statements, 1, new)
      /\ phase' = "done" /\ UNCHANGED <<source, at, stack, from, fragments, trivia, current, matches>>
  BY DEF BuildIrPreview, WithClauses
<1> HIDE DEF cs, new
<1>6. PICK n \in Nat : DOMAIN preview' = 1..n
  BY <1>4, <1>5, LiftSourceType, LiftedParts
<1>7. PICK t \in Annotating : t.clauses = new /\ KeepsOrder(t, cs, preview', n)
  BY <1>4, <1>6, AnnotatedKeepsOrder DEF new
<1>8. new \in Seq(Clause) /\ Len(new) = Len(cs) /\ \A k \in 1..Len(cs) : SameText(new[k], cs[k])
  BY <1>7 DEF KeepsOrder, Annotating
<1>9. Within(new, statements[1])
  BY <1>4, <1>8, AnnotatedWithin
<1>10. /\ Listed(statements', Len(source), Len(source)) /\ Len(statements') = Len(statements)
       /\ statements'[1].clauses = new
  BY <1>2, <1>3, <1>5, <1>9, ClausesReplaced
<1>11. phase' # "fragments" /\ phase' # "clauses"
  BY <1>5
<1>12. PhaseInv'
  <2>1. ReadTo' = ReadTo
    BY <1>1, <1>5, <1>11 DEF ReadTo
  <2>2. QED
    BY <1>1, <1>5, <1>10, <1>11, <2>1 DEF Inv, PhaseInv
<1>13. AnnotationsKeepOrder'
  <2> DEFINE lifted == {k \in DOMAIN new : new[k].support = "lifted"}
  <2>1. \A k \in 1..Len(cs) : new[k].support = "lifted" <=> new[k].irPath # None
    BY <1>7 DEF KeepsOrder
  <2>2. \A k \in 1..Len(cs) : new[k].support = "lifted" =>
          preview'[new[k].irPath].kind = KindOf(new[k].keyword)
    BY <1>7 DEF KeepsOrder
  <2>3. \A j, k \in 1..Len(cs) :
          new[j].support = "lifted" /\ new[k].support = "lifted" /\ j < k =>
            new[j].irPath < new[k].irPath
    BY <1>7 DEF KeepsOrder
  <2>4. DOMAIN new = 1..Len(cs)
    BY <1>8
  <2>5. /\ \A k \in DOMAIN new : k \in lifted <=> new[k].irPath # None
        /\ \A k \in lifted : preview'[new[k].irPath].kind = KindOf(new[k].keyword)
        /\ \A j, k \in lifted : j < k => new[j].irPath < new[k].irPath
    BY <2>1, <2>2, <2>3, <2>4
  <2>6. QED
    BY <1>10, <2>5 DEF AnnotationsKeepOrder
<1>14. stack' \in Seq(Bracket)
  BY <1>5 DEF Inv, StackInv
<1>15. QED
  BY <1>1, <1>5, <1>10, <1>11, <1>12, <1>13, <1>14, CutStays

\* Without a preview nothing is annotated.
LEMMA NoPreviewStep ==
  ASSUME Inv, NoPreview
  PROVE  Inv'
<1>1. phase = "preview" /\ phase # "fragments" /\ phase # "clauses" /\ phase # "done"
  BY DEF NoPreview
<1>2. phase' = "done" /\ phase' # "fragments" /\ phase' # "clauses"
      /\ UNCHANGED <<source, at, stack, from, fragments, trivia, statements, current, matches, preview>>
  BY DEF NoPreview
<1>3. Listed(statements', Len(source), Len(source))
  BY <1>1, <1>2, CutInv
<1>4. ReadTo' = ReadTo
  BY <1>1, <1>2 DEF ReadTo
<1>5. PhaseInv'
  BY <1>1, <1>2, <1>4 DEF Inv, PhaseInv
<1>6. AnnotationsKeepOrder'
  BY <1>1, <1>2 DEF Inv, PhaseInv, AnnotationsKeepOrder
<1>7. stack' \in Seq(Bracket)
  BY <1>2 DEF Inv, StackInv
<1>8. QED
  BY <1>1, <1>2, <1>3, <1>5, <1>6, <1>7, CutStays

\* Every step keeps the invariant.
LEMMA NextInv ==
  ASSUME Inv, [Next]_vars
  PROVE  Inv'
<1>1. CASE UNCHANGED vars
  <2>1. CutTo' = CutTo /\ ReadTo' = ReadTo
    BY <1>1 DEF vars, CutTo, ReadTo
  <2>2. PhaseInv' /\ StackInv'
    BY <1>1, <2>1 DEF Inv, PhaseInv, StackInv, Bracket, Offsets, vars, Raw, TextOf
  <2>3. FragmentsInv' /\ TriviaInv' /\ StatementsInv'
    BY <1>1, <2>1 DEF Inv, FragmentsInv, TriviaInv, StatementsInv, Terminators, IsTerminator, vars
  <2>4. \A k \in DOMAIN statements' : ClausesInv(statements[k])'
    BY <1>1 DEF Inv, ClausesInv, vars
  <2>5. AnnotationsKeepOrder' /\ source' \in Seq(STRING)
    BY <1>1 DEF Inv, AnnotationsKeepOrder, Done, vars
  <2>6. QED
    BY <2>2, <2>3, <2>4, <2>5 DEF Inv
<1>2. CASE LineComment \/ BlockComment
  BY <1>2, CommentSteps
<1>3. CASE Quoted \/ Open \/ Close \/ OtherSymbol
  BY <1>3, SymbolSteps
<1>4. CASE Terminator
  BY <1>4, TerminatorStep
<1>5. CASE EndOfSource
  BY <1>5, EndOfSourceStep
<1>6. CASE PassToken \/ PassBracket \/ PassSymbol
  BY <1>6, PassSteps
<1>7. CASE FindClause
  BY <1>7, FindClauseStep
<1>8. CASE EndOfStatement
  BY <1>8, EndOfStatementStep
<1>9. CASE BuildIrPreview
  BY <1>9, BuildIrPreviewStep
<1>10. CASE NoPreview
  BY <1>10, NoPreviewStep
<1>11. QED
  BY <1>1, <1>2, <1>3, <1>4, <1>5, <1>6, <1>7, <1>8, <1>9, <1>10 DEF Next

\* What the report says so far lies in the text read so far, in its order, in
\* every phase of every parse (parseCypherLosslessly).
THEOREM Invariance == Spec => []Inv
<1>1. Init => Inv
  BY InitInv
<1>2. Inv /\ [Next]_vars => Inv'
  BY NextInv
<1>3. QED
  BY <1>1, <1>2, PTL DEF Spec

-----------------------------------------------------------------------------
(***************************************************************************)
(* The entries of the source map.                                          *)
(***************************************************************************)
OfList(e, kind, list) ==
  \E k \in DOMAIN list : e = Entry(kind, <<k, 0>>, list[k], TextOf(list[k]))

OfTerminators(e, kind) ==
  \E k \in DOMAIN statements :
    /\ statements[k].terminator # None
    /\ e = Entry(kind, <<k, 0>>,
                 [start |-> statements[k].terminator, end |-> statements[k].terminator + 1],
                 <<";">>)

OfClauses(e, kind) ==
  \E k \in DOMAIN statements : \E c \in DOMAIN statements[k].clauses :
    e = Entry(kind, <<k, c>>, statements[k].clauses[c], statements[k].clauses[c].raw)

EntryCases(e) ==
  \/ OfList(e, "fragment", fragments) \/ OfList(e, "trivia", trivia)
  \/ OfList(e, "statement", statements)
  \/ OfTerminators(e, "terminator") \/ OfClauses(e, "clause")

\* The entries of the source map are of five kinds.
LEMMA SourceMapCases ==
  ASSUME NEW e \in SourceMap
  PROVE  EntryCases(e)
<1> DEFINE Listed1(kind, list) ==
             {Entry(kind, <<k, 0>>, list[k], TextOf(list[k])) : k \in DOMAIN list}
           Ended == {k \in DOMAIN statements : statements[k].terminator # None}
           End(k) == [start |-> statements[k].terminator, end |-> statements[k].terminator + 1]
           Ends == {Entry("terminator", <<k, 0>>, End(k), <<";">>) : k \in Ended}
           Parts(k) == {Entry("clause", <<k, c>>, statements[k].clauses[c], statements[k].clauses[c].raw) :
                          c \in DOMAIN statements[k].clauses}
           AllParts == UNION {Parts(k) : k \in DOMAIN statements}
<1>1. SourceMap = Listed1("fragment", fragments) \cup Listed1("trivia", trivia)
                  \cup Listed1("statement", statements) \cup Ends \cup AllParts
  BY Zenon DEF SourceMap
<1>2. \A kind, list : e \in Listed1(kind, list) => OfList(e, kind, list)
  BY DEF OfList
<1>3. e \in Ends => OfTerminators(e, "terminator")
  BY Zenon DEF OfTerminators
<1>4. e \in AllParts => OfClauses(e, "clause")
  BY Zenon DEF OfClauses
<1> HIDE DEF Listed1, Ends, AllParts
<1>5. QED
  BY <1>1, <1>2, <1>3, <1>4 DEF EntryCases

\* An entry whose text is that of its span, which lies in the source.
Named(e, kind) ==
  /\ e.id[1] = kind
  /\ e.id[2] \in 0..Len(source) /\ e.id[3] \in 0..Len(source)
  /\ e.text = Slice(source, e.id[2], e.id[3])

\* The parts of an entry.
LEMMA EntryParts ==
  ASSUME NEW kind, NEW path, NEW span, NEW text
  PROVE  LET e == Entry(kind, path, span, text)
         IN  /\ e.id[1] = kind /\ e.id[2] = span.start /\ e.id[3] = span.end
             /\ e.path = path /\ e.text = text
             /\ e.id = <<kind, span.start, span.end>>
BY DEF Entry

\* A list of spans in line has one entry per span.
LEMMA ListNamed ==
  ASSUME NEW S, \A x \in S : x.start \in Nat /\ x.end \in Nat, NEW kind,
         NEW list \in Seq(S), Len(source) \in Nat, InLine(list, Len(source)),
         NEW e, OfList(e, kind, list)
  PROVE  /\ Named(e, kind)
         /\ \A d : OfList(d, kind, list) /\ d.id = e.id => d.path = e.path
<1>1. PICK k \in DOMAIN list : e = Entry(kind, <<k, 0>>, list[k], TextOf(list[k]))
  BY DEF OfList
<1>2. /\ e.id[1] = kind /\ e.id[2] = list[k].start /\ e.id[3] = list[k].end
      /\ e.path = <<k, 0>> /\ e.text = TextOf(list[k])
  BY <1>1, EntryParts
<1>3. \A j \in DOMAIN list : /\ list[j].start \in Nat /\ list[j].end \in Nat
                             /\ list[j].start < list[j].end /\ list[j].end <= Len(source)
  BY DEF InLine
<1>4. Named(e, kind)
  <2>1. list[k].start \in 0..Len(source) /\ list[k].end \in 0..Len(source)
    BY <1>3
  <2>2. QED
    BY <1>2, <2>1 DEF Named, TextOf
<1>5. ASSUME NEW d, OfList(d, kind, list), d.id = e.id
      PROVE  d.path = e.path
  <2>1. PICK j \in DOMAIN list : d = Entry(kind, <<j, 0>>, list[j], TextOf(list[j]))
    BY <1>5 DEF OfList
  <2>2. d.id[2] = list[j].start /\ d.path = <<j, 0>>
    BY <2>1, EntryParts
  <2>3. list[j].start = list[k].start
    BY <1>2, <1>5, <2>2
  <2>4. ~(j < k) /\ ~(k < j)
    BY <1>3, <2>3 DEF InLine
  <2>5. j = k
    BY <2>4
  <2>6. QED
    BY <1>2, <2>2, <2>5
<1>6. QED
  BY <1>4, <1>5

\* The entries of terminators name their places, each its own.
LEMMA TerminatorsNamed ==
  ASSUME source \in Texts, Listed(statements, Len(source), Len(source)), NEW kind,
         NEW e, OfTerminators(e, kind)
  PROVE  /\ Named(e, kind)
         /\ \A d : OfTerminators(d, kind) /\ d.id = e.id => d.path = e.path
<1> DEFINE T(k) == statements[k].terminator
           span(k) == [start |-> T(k), end |-> T(k) + 1]
           text == <<";">>
<1>0. \A d : OfTerminators(d, kind) =>
        \E j \in DOMAIN statements : T(j) # None /\ d = Entry(kind, <<j, 0>>, span(j), text)
  BY Zenon DEF OfTerminators
<1>a. \A j : span(j).start = T(j) /\ span(j).end = T(j) + 1
  OBVIOUS
<1> HIDE DEF T, span, text
<1>1. PICK k \in DOMAIN statements : T(k) # None /\ e = Entry(kind, <<k, 0>>, span(k), text)
  BY <1>0
<1>2. /\ e.id[1] = kind /\ e.id[2] = T(k) /\ e.id[3] = T(k) + 1
      /\ e.path = <<k, 0>> /\ e.text = text
  BY <1>1, <1>a, EntryParts
<1>3. Len(source) \in Nat
  BY LenType
<1>4. /\ statements \in Seq(Statement) /\ InLine(statements, Len(source))
      /\ Terminators(statements, Len(source))
  BY DEF Listed
<1>5. \A j \in DOMAIN statements :
        /\ statements[j].start \in Nat /\ statements[j].end \in Nat /\ T(j) \in Int
        /\ statements[j].start < statements[j].end
  <2>1. \A j \in DOMAIN statements : statements[j] \in Statement
    BY <1>4
  <2>2. \A j \in DOMAIN statements : statements[j].start < statements[j].end
    BY <1>4 DEF InLine
  <2>3. QED
    BY <2>1, <2>2 DEF Statement, T
<1>6. \A j \in DOMAIN statements : T(j) # None =>
        /\ statements[j].end <= T(j) /\ T(j) < Len(source) /\ IsTerminator(T(j))
        /\ \A m \in DOMAIN statements : j < m => T(j) < statements[m].start
  BY <1>4 DEF Terminators, T
<1>7. T(k) \in Nat /\ T(k) + 1 \in Nat /\ T(k) <= T(k) + 1 /\ T(k) + 1 <= Len(source)
      /\ IsTerminator(T(k))
  BY <1>1, <1>3, <1>5, <1>6
<1>8. Slice(source, T(k), T(k) + 1) = text
  <2> DEFINE cut == Slice(source, T(k), T(k) + 1)
             c == ";"
  <2>1. source[T(k) + 1] = c
    BY <1>7 DEF IsTerminator
  <2> HIDE DEF c
  <2>2. cut \in Texts /\ Len(cut) = 1 /\ cut[1] = source[T(k) + 1]
    <3>1. /\ cut \in Texts /\ Len(cut) = (T(k) + 1) - T(k)
          /\ \A i \in 1..((T(k) + 1) - T(k)) : cut[i] = source[T(k) + i]
      BY <1>7, SliceParts
    <3>2. (T(k) + 1) - T(k) = 1 /\ 1 \in 1..1
      BY <1>7
    <3> HIDE DEF cut
    <3>3. QED
      BY <3>1, <3>2
  <2> HIDE DEF cut
  <2>3. cut = <<c>>
    BY <2>1, <2>2 DEF Texts
  <2>4. QED
    BY <2>3 DEF cut, c, text
<1>9. Named(e, kind)
  <2>1. T(k) \in 0..Len(source) /\ T(k) + 1 \in 0..Len(source)
    BY <1>3, <1>7
  <2>2. QED
    BY <1>2, <1>8, <2>1 DEF Named
<1>10. ASSUME NEW d, OfTerminators(d, kind), d.id = e.id
       PROVE  d.path = e.path
  <2>1. PICK j \in DOMAIN statements : T(j) # None /\ d = Entry(kind, <<j, 0>>, span(j), text)
    BY <1>0, <1>10
  <2>2. d.id[2] = T(j) /\ d.path = <<j, 0>>
    BY <1>a, <2>1, EntryParts
  <2>3. T(j) = T(k)
    BY <1>2, <1>10, <2>2
  <2>4. ~(j < k) /\ ~(k < j)
    BY <1>1, <1>5, <1>6, <2>1, <2>3
  <2>5. j = k
    BY <1>4, <2>4
  <2>6. QED
    BY <1>2, <2>2, <2>5
<1>11. QED
  BY <1>9, <1>10

\* The entries of clauses name their places, each its own.
LEMMA ClausesNamed ==
  ASSUME source \in Texts, Listed(statements, Len(source), Len(source)), NEW kind,
         NEW e, OfClauses(e, kind)
  PROVE  /\ Named(e, kind)
         /\ \A d : OfClauses(d, kind) /\ d.id = e.id => d.path = e.path
<1> DEFINE Cs(k) == statements[k].clauses
<1>0. PICK k \in DOMAIN statements :
        \E c \in DOMAIN Cs(k) : e = Entry(kind, <<k, c>>, Cs(k)[c], Cs(k)[c].raw)
  BY DEF OfClauses
<1>1. PICK c \in DOMAIN Cs(k) : e = Entry(kind, <<k, c>>, Cs(k)[c], Cs(k)[c].raw)
  BY <1>0
<1>2. /\ e.id[1] = kind /\ e.id[2] = Cs(k)[c].start /\ e.id[3] = Cs(k)[c].end
      /\ e.path = <<k, c>> /\ e.text = Cs(k)[c].raw
  BY <1>1, EntryParts
<1>3. Len(source) \in Nat
  BY LenType
<1>4. /\ statements \in Seq(Statement) /\ InLine(statements, Len(source))
      /\ \A j \in DOMAIN statements : ClausesInv(statements[j])
  BY DEF Listed
<1>5. \A j \in DOMAIN statements :
        /\ statements[j].start \in Nat /\ statements[j].end \in Nat
        /\ statements[j].start < statements[j].end /\ statements[j].end <= Len(source)
        /\ Cs(j) \in Seq(Clause)
  <2>1. \A j \in DOMAIN statements : statements[j] \in Statement
    BY <1>4
  <2>2. \A j \in DOMAIN statements :
          statements[j].start < statements[j].end /\ statements[j].end <= Len(source)
    BY <1>4 DEF InLine
  <2>3. QED
    BY <2>1, <2>2 DEF Statement
<1>6. \A j, m \in DOMAIN statements : j < m => statements[j].end <= statements[m].start
  BY <1>4 DEF InLine
<1>7. ASSUME NEW j \in DOMAIN statements, NEW i \in DOMAIN Cs(j)
      PROVE  /\ Cs(j)[i].start \in Nat /\ Cs(j)[i].end \in Nat
             /\ statements[j].start <= Cs(j)[i].start /\ Cs(j)[i].start < Cs(j)[i].end
             /\ Cs(j)[i].end <= statements[j].end
             /\ Cs(j)[i].raw = Slice(source, Cs(j)[i].start, Cs(j)[i].end)
             /\ \A m \in DOMAIN Cs(j) : i < m => Cs(j)[i].end <= Cs(j)[m].start
  <2>1. Cs(j)[i] \in Clause
    BY <1>5
  <2>2. ClausesInv(statements[j])
    BY <1>4
  <2>3. QED
    BY <2>1, <2>2, SpansTyped DEF ClausesInv, InLine
<1> HIDE DEF Cs
<1>8. Named(e, kind)
  <2>1. Cs(k)[c].start \in 0..Len(source) /\ Cs(k)[c].end \in 0..Len(source)
    BY <1>3, <1>5, <1>7
  <2>2. Cs(k)[c].raw = Slice(source, Cs(k)[c].start, Cs(k)[c].end)
    BY <1>7
  <2>3. QED
    BY <1>2, <2>1, <2>2 DEF Named
<1>9. ASSUME NEW d, OfClauses(d, kind), d.id = e.id
      PROVE  d.path = e.path
  <2>0. PICK j \in DOMAIN statements :
          \E i \in DOMAIN Cs(j) : d = Entry(kind, <<j, i>>, Cs(j)[i], Cs(j)[i].raw)
    BY <1>9 DEF OfClauses, Cs
  <2>1. PICK i \in DOMAIN Cs(j) : d = Entry(kind, <<j, i>>, Cs(j)[i], Cs(j)[i].raw)
    BY <2>0
  <2>2. d.id[2] = Cs(j)[i].start /\ d.path = <<j, i>>
    BY <2>1, EntryParts
  <2>3. Cs(j)[i].start = Cs(k)[c].start
    BY <1>2, <1>9, <2>2
  <2>4. ~(j < k) /\ ~(k < j)
    <3>1. /\ Cs(j)[i].start \in Nat /\ Cs(j)[i].end \in Nat
          /\ statements[j].start <= Cs(j)[i].start /\ Cs(j)[i].start < Cs(j)[i].end
          /\ Cs(j)[i].end <= statements[j].end
      BY <1>7
    <3>2. /\ Cs(k)[c].end \in Nat
          /\ statements[k].start <= Cs(k)[c].start /\ Cs(k)[c].start < Cs(k)[c].end
          /\ Cs(k)[c].end <= statements[k].end
      BY <1>7
    <3>3. QED
      BY <1>5, <1>6, <2>3, <3>1, <3>2
  <2>5. j = k
    BY <1>4, <2>4
  <2>6. ~(i < c) /\ ~(c < i)
    BY <1>7, <2>3, <2>5
  <2>7. i = c
    <3>1. Cs(k) \in Seq(Clause)
      BY <1>5
    <3>2. QED
      BY <2>5, <2>6, <3>1
  <2>8. QED
    BY <1>2, <2>2, <2>5, <2>7
<1>10. QED
  BY <1>8, <1>9

\* The lists of the report, once it is done.
LEMMA DoneInv ==
  ASSUME Inv, phase = "done"
  PROVE  /\ source \in Texts /\ Len(source) \in Nat
         /\ fragments \in Seq(Fragment) /\ InLine(fragments, Len(source))
         /\ trivia \in Seq(Comment) /\ InLine(trivia, Len(source))
         /\ statements \in Seq(Statement) /\ InLine(statements, Len(source))
         /\ Listed(statements, Len(source), Len(source))
<1>1. phase # "fragments"
  OBVIOUS
<1>2. CutTo = Len(source) /\ ReadTo = Len(source)
  BY <1>1 DEF CutTo, ReadTo
<1>3. Listed(statements, Len(source), Len(source))
  BY <1>1, CutInv
<1>4. QED
  BY <1>2, <1>3, SourceIsText DEF Inv, FragmentsInv, TriviaInv, Listed

\* Entries of one kind are named, and their id tells them apart.
Apart(e, kind) ==
  /\ Named(e, kind)
  /\ \A d \in SourceMap : d.id = e.id => d.path = e.path

OfEntryKind(e, kind) ==
  \/ kind = "fragment" /\ OfList(e, kind, fragments)
  \/ kind = "trivia" /\ OfList(e, kind, trivia)
  \/ kind = "statement" /\ OfList(e, kind, statements)
  \/ kind = "terminator" /\ OfTerminators(e, kind)
  \/ kind = "clause" /\ OfClauses(e, kind)

\* So do those of every kind.
LEMMA KindNamed ==
  ASSUME Inv, phase = "done", NEW kind, NEW e, OfEntryKind(e, kind)
  PROVE  /\ Named(e, kind)
         /\ \A d : OfEntryKind(d, kind) /\ d.id = e.id => d.path = e.path
<1>1. /\ source \in Texts /\ Len(source) \in Nat
      /\ fragments \in Seq(Fragment) /\ InLine(fragments, Len(source))
      /\ trivia \in Seq(Comment) /\ InLine(trivia, Len(source))
      /\ statements \in Seq(Statement) /\ InLine(statements, Len(source))
      /\ Listed(statements, Len(source), Len(source))
  BY DoneInv
<1>2. CASE kind = "fragment"
  <2>1. \A d : OfEntryKind(d, kind) => OfList(d, kind, fragments)
    BY <1>2 DEF OfEntryKind
  <2>2. \A x \in Fragment : x.start \in Nat /\ x.end \in Nat
    BY SpansTyped
  <2>3. OfList(e, kind, fragments)
    BY <2>1
  <2>4. Named(e, kind) /\ \A d : OfList(d, kind, fragments) /\ d.id = e.id => d.path = e.path
    BY <1>1, <2>2, <2>3, ListNamed
  <2>5. QED
    BY <2>1, <2>4
<1>3. CASE kind = "trivia"
  <2>1. \A d : OfEntryKind(d, kind) => OfList(d, kind, trivia)
    BY <1>3 DEF OfEntryKind
  <2>2. \A x \in Comment : x.start \in Nat /\ x.end \in Nat
    BY SpansTyped
  <2>3. OfList(e, kind, trivia)
    BY <2>1
  <2>4. Named(e, kind) /\ \A d : OfList(d, kind, trivia) /\ d.id = e.id => d.path = e.path
    BY <1>1, <2>2, <2>3, ListNamed
  <2>5. QED
    BY <2>1, <2>4
<1>4. CASE kind = "statement"
  <2>1. \A d : OfEntryKind(d, kind) => OfList(d, kind, statements)
    BY <1>4 DEF OfEntryKind
  <2>2. \A x \in Statement : x.start \in Nat /\ x.end \in Nat
    BY SpansTyped
  <2>3. OfList(e, kind, statements)
    BY <2>1
  <2>4. Named(e, kind) /\ \A d : OfList(d, kind, statements) /\ d.id = e.id => d.path = e.path
    BY <1>1, <2>2, <2>3, ListNamed
  <2>5. QED
    BY <2>1, <2>4
<1>5. CASE kind = "terminator"
  <2>1. \A d : OfEntryKind(d, kind) => OfTerminators(d, kind)
    BY <1>5 DEF OfEntryKind
  <2>2. QED
    BY <1>1, <2>1, TerminatorsNamed
<1>6. CASE kind = "clause"
  <2>1. \A d : OfEntryKind(d, kind) => OfClauses(d, kind)
    BY <1>6 DEF OfEntryKind
  <2>2. QED
    BY <1>1, <2>1, ClausesNamed
<1>7. QED
  BY <1>2, <1>3, <1>4, <1>5, <1>6 DEF OfEntryKind

\* Every entry is of a kind, and those of other kinds have other ids.
LEMMA EntriesApart ==
  ASSUME Inv, phase = "done", NEW e \in SourceMap
  PROVE  \E kind : Apart(e, kind)
<1>1. \A d \in SourceMap : \E kind : OfEntryKind(d, kind)
  BY SourceMapCases DEF EntryCases, OfEntryKind
<1>2. PICK kind : OfEntryKind(e, kind)
  BY <1>1
<1>3. Named(e, kind)
  BY <1>2, KindNamed
<1>4. ASSUME NEW d \in SourceMap, d.id = e.id
      PROVE  d.path = e.path
  <2>1. PICK other : OfEntryKind(d, other)
    BY <1>1
  <2>2. Named(d, other)
    BY <2>1, KindNamed
  <2>3. other = kind
    BY <1>3, <1>4, <2>2 DEF Named
  <2>4. QED
    BY <1>2, <1>4, <2>1, <2>3, KindNamed
<1>5. QED
  BY <1>3, <1>4 DEF Apart

-----------------------------------------------------------------------------
(***************************************************************************)
(* The theorems.                                                           *)
(***************************************************************************)
\* Offsets, kinds and indices stay within bounds, in every phase of every
\* parse (parseCypherLosslessly).
THEOREM TypeCorrect == Spec => []TypeOK
<1>1. Inv => TypeOK
  <2> SUFFICES ASSUME Inv
               PROVE  TypeOK
    OBVIOUS
  <2>1. source \in Seq(STRING) /\ Len(source) \in Nat
    BY SourceIsText DEF Inv
  <2>2. /\ phase \in {"fragments", "clauses", "preview", "done"}
        /\ at \in 0..Len(source) /\ from \in 0..Len(source)
    BY <2>1 DEF Inv, PhaseInv, ReadTo
  <2>3. \A k \in DOMAIN stack : stack[k].char \in Openers /\ stack[k].offset \in Offsets
    <3>1. \A k \in DOMAIN stack : stack[k] \in Bracket
      BY DEF Inv, StackInv
    <3>2. QED
      BY <3>1 DEF Bracket
  <2>4. \A k \in DOMAIN fragments : fragments[k].kind \in {"statement", "terminator", "trivia"}
    <3>1. \A k \in DOMAIN fragments : fragments[k] \in Fragment
      BY DEF Inv, FragmentsInv
    <3>2. QED
      BY <3>1 DEF Fragment
  <2>5. \A k \in DOMAIN trivia : trivia[k].kind \in {"line-comment", "block-comment"}
    <3>1. \A k \in DOMAIN trivia : trivia[k] \in Comment
      BY DEF Inv, TriviaInv
    <3>2. QED
      BY <3>1 DEF Comment
  <2>6. \A k \in DOMAIN statements : \A c \in DOMAIN statements[k].clauses :
          statements[k].clauses[c].support \in Supports
    <3>1. \A k \in DOMAIN statements : statements[k] \in Statement
      BY DEF Inv, StatementsInv
    <3>2. \A k \in DOMAIN statements : statements[k].clauses \in Seq(Clause)
      BY <3>1 DEF Statement
    <3>3. \A k \in DOMAIN statements : \A c \in DOMAIN statements[k].clauses :
            statements[k].clauses[c] \in Clause
      BY <3>2
    <3>4. QED
      BY <3>3 DEF Clause
  <2>7. /\ current \in 1..(Len(statements) + 1)
        /\ phase = "clauses" => current <= Len(statements) /\ at <= Len(Raw)
    BY DEF Inv, PhaseInv, StatementsInv
  <2>8. QED
    BY <2>1, <2>2, <2>3, <2>4, <2>5, <2>6, <2>7 DEF TypeOK
<1>2. QED
  BY <1>1, Invariance, PTL

\* Every entry of the source map says one place in three ways, and no two
\* entries have one id, for every text (buildSourceMap, positionAt).
THEOREM PlacesNamed == Spec => []EntriesNameTheirPlace
<1>1. Inv => EntriesNameTheirPlace
  <2> SUFFICES ASSUME Inv, phase = "done"
               PROVE  EntriesNameTheirPlace
    BY DEF EntriesNameTheirPlace, Done
  <2>1. source \in Texts
    BY DoneInv
  <2>2. ASSUME NEW e \in SourceMap
        PROVE  /\ e.text = Slice(source, e.id[2], e.id[3])
               /\ \A k \in {2, 3} : PositionAt(LineStarts(source), e.id[k]) = PlaceOf(e.id[k])
               /\ \A d \in SourceMap : d.id = e.id => d.path = e.path
    <3>1. PICK kind : Apart(e, kind)
      BY EntriesApart
    <3>2. e.id[2] \in 0..Len(source) /\ e.id[3] \in 0..Len(source)
      BY <3>1 DEF Apart, Named
    <3>3. \A k \in {2, 3} : PositionAt(LineStarts(source), e.id[k]) = PlaceOf(e.id[k])
      BY <2>1, <3>2, PlaceFound
    <3>4. QED
      BY <3>1, <3>3 DEF Apart, Named
  <2>3. QED
    BY <2>2 DEF EntriesNameTheirPlace
<1>2. QED
  BY <1>1, Invariance, PTL

\* Clauses said to be lifted name clauses of the preview of their own kind, in
\* the order of the source, for every text (annotateIrPreviewSupport).
THEOREM AnnotationsOrdered == Spec => []AnnotationsKeepOrder
<1>1. Inv => AnnotationsKeepOrder
  BY DEF Inv
<1>2. QED
  BY <1>1, Invariance, PTL
-----------------------------------------------------------------------------
(***************************************************************************)
(* The modes of a text: what a reader makes of it symbol by symbol.        *)
(***************************************************************************)
\* The next mode, mode by mode.
LEMMA NextInCode == \A c, next : NextMode("code", c, next) = InModeCode(c, next)
BY DEF NextMode, Quotes, Backtick

LEMMA NextInLine ==
  /\ \A next : NextMode("line", "\n", next) = "code"
  /\ \A c, next : c # "\n" => NextMode("line", c, next) = "line"
BY DEF NextMode, Quotes, Backtick

LEMMA NextOpening == \A c, next : NextMode("opening", c, next) = "block"
BY DEF NextMode, Quotes, Backtick

LEMMA NextInBlock ==
  /\ NextMode("block", "*", "/") = "closing"
  /\ \A c, next : ~(c = "*" /\ next = "/") => NextMode("block", c, next) = "block"
BY DEF NextMode, Quotes, Backtick

LEMMA NextClosing == \A c, next : NextMode("closing", c, next) = "code"
BY DEF NextMode, Quotes, Backtick

LEMMA NextEscaped ==
  /\ \A c, next : NextMode("escaped single", c, next) = "'"
  /\ \A c, next : NextMode("escaped double", c, next) = "\""
BY DEF NextMode, Quotes, Backtick

LEMMA NextInQuote == \A q \in Quotes : \A c, next : NextMode(q, c, next) = InModeQuote(q, c)
BY DEF NextMode, Quotes, Backtick

\* The modes a symbol leads to in code.
LEMMA CodeCases ==
  /\ NextMode("code", "/", "/") = "line"
  /\ NextMode("code", "/", "*") = "opening"
  /\ \A c \in Quotes : \A next : NextMode("code", c, next) = c
  /\ \A c, next : c \notin Quotes /\ ~(c = "/" /\ next \in {"/", "*"}) =>
       NextMode("code", c, next) = "code"
<1>1. /\ InModeCode("/", "/") = "line" /\ InModeCode("/", "*") = "opening"
      /\ \A c \in Quotes : \A next : InModeCode(c, next) = c
      /\ \A c, next : c \notin Quotes /\ ~(c = "/" /\ next \in {"/", "*"}) =>
           InModeCode(c, next) = "code"
  BY DEF InModeCode, Quotes, Backtick
<1>2. \A c, next : NextMode("code", c, next) = InModeCode(c, next)
  BY NextInCode
<1>3. QED
  BY <1>1, <1>2

\* The modes a symbol leads to between quotes.
LEMMA QuoteCases ==
  ASSUME NEW q \in Quotes, NEW c
  PROVE  /\ c = "\\" /\ q # Backtick =>
              /\ InModeQuote(q, c) \in EscapeModes
              /\ \A d, next : NextMode(InModeQuote(q, c), d, next) = q
         /\ c = q => InModeQuote(q, c) = "code"
         /\ ~(c = "\\" /\ q # Backtick) /\ c # q => InModeQuote(q, c) = q
<1>1. "'" # Backtick /\ "\"" # Backtick /\ "'" # "\"" /\ "\\" \notin Quotes
  BY Zenon DEF Backtick, Quotes
<1>2. CASE q = "'"
  <2>1. /\ InModeQuote("'", "\\") = "escaped single"
        /\ InModeQuote("'", "'") = "code"
        /\ c # "\\" /\ c # "'" => InModeQuote("'", c) = "'"
    BY DEF InModeQuote
  <2>2. \A d, next : NextMode("escaped single", d, next) = "'"
    BY NextEscaped
  <2>3. QED
    BY <1>1, <1>2, <2>1, <2>2 DEF EscapeModes
<1>3. CASE q = "\""
  <2>1. /\ InModeQuote("\"", "\\") = "escaped double"
        /\ InModeQuote("\"", "\"") = "code"
        /\ c # "\\" /\ c # "\"" => InModeQuote("\"", c) = "\""
    BY DEF InModeQuote
  <2>2. \A d, next : NextMode("escaped double", d, next) = "\""
    BY NextEscaped
  <2>3. QED
    BY <1>1, <1>3, <2>1, <2>2 DEF EscapeModes
<1>4. CASE q = Backtick
  <2>1. /\ InModeQuote(Backtick, Backtick) = "code"
        /\ c # Backtick => InModeQuote(Backtick, c) = Backtick
    BY DEF InModeQuote, Backtick
  <2>2. QED
    BY <1>4, <2>1
<1>5. QED
  BY <1>2, <1>3, <1>4 DEF Quotes

\* Modes apart: what is code is no comment, no quote and no escape.
LEMMA ModesApart ==
  /\ "code" \notin Quotes \cup CommentModes \cup EscapeModes
  /\ \A q \in Quotes \cup EscapeModes : q \notin CommentModes /\ q # "code"
  /\ CommentModes = {"line", "opening", "block", "closing"}
  /\ \A q \in Quotes : q \in ModeSet /\ q \notin EscapeModes
  /\ \A q \in EscapeModes : q \in ModeSet
BY DEF Quotes, Backtick, CommentModes, EscapeModes, ModeSet

\* A mode leads to a mode.
LEMMA NextModeType ==
  ASSUME NEW mode \in ModeSet, NEW c, NEW next
  PROVE  NextMode(mode, c, next) \in ModeSet
<1>0. {"code", "line", "opening", "block", "closing", "'", "\""} \subseteq ModeSet
  BY DEF ModeSet, CommentModes, Quotes
<1>1. InModeCode(c, next) \in ModeSet
  BY <1>0, ModesApart DEF InModeCode
<1>2. \A q \in Quotes : InModeQuote(q, c) \in ModeSet
  <2>1. {"escaped single", "escaped double"} \subseteq ModeSet
    BY DEF ModeSet, EscapeModes
  <2>2. QED
    BY <1>0, <2>1, ModesApart DEF InModeQuote
<1>3. mode \in {"code", "line", "opening", "block", "closing", "escaped single", "escaped double"} \cup Quotes
  BY DEF ModeSet, CommentModes, EscapeModes
<1>4. /\ NextMode("code", c, next) \in ModeSet /\ NextMode("line", c, next) \in ModeSet
      /\ NextMode("opening", c, next) \in ModeSet /\ NextMode("block", c, next) \in ModeSet
      /\ NextMode("closing", c, next) \in ModeSet
      /\ NextMode("escaped single", c, next) \in ModeSet
      /\ NextMode("escaped double", c, next) \in ModeSet
  <2>1. NextMode("code", c, next) \in ModeSet
    <3>1. NextMode("code", c, next) = InModeCode(c, next)
      BY NextInCode
    <3>2. QED
      BY <1>1, <3>1
  <2>2. NextMode("line", c, next) \in ModeSet
    <3>1. NextMode("line", c, next) = "code" \/ NextMode("line", c, next) = "line"
      BY NextInLine
    <3>2. QED
      BY <1>0, <3>1, Zenon
  <2>3. /\ NextMode("opening", c, next) \in ModeSet /\ NextMode("block", c, next) \in ModeSet
        /\ NextMode("closing", c, next) \in ModeSet
    <3>1. NextMode("opening", c, next) = "block" /\ NextMode("closing", c, next) = "code"
      BY NextOpening, NextClosing
    <3>2. NextMode("block", c, next) = "block" \/ NextMode("block", c, next) = "closing"
      BY NextInBlock
    <3>3. QED
      BY <1>0, <3>1, <3>2, Zenon
  <2>4. NextMode("escaped single", c, next) \in ModeSet
    <3>1. NextMode("escaped single", c, next) = "'"
      BY NextEscaped
    <3>2. QED
      BY <1>0, <3>1, Zenon
  <2>5. NextMode("escaped double", c, next) \in ModeSet
    <3>1. NextMode("escaped double", c, next) = "\""
      BY NextEscaped
    <3>2. QED
      BY <1>0, <3>1, Zenon
  <2>6. QED
    BY <2>1, <2>2, <2>3, <2>4, <2>5
<1>5. \A q \in Quotes : NextMode(q, c, next) \in ModeSet
  BY <1>2, NextInQuote
<1>6. QED
  BY <1>3, <1>4, <1>5

\* What is read on from each place to the next exists.
LEMMA ReadOn ==
  ASSUME NEW V, NEW first \in V, NEW n \in Nat, NEW next \in [1..n -> [V -> V]]
  PROVE  \E f \in [1..(n + 1) -> V] :
           f[1] = first /\ \A k \in 1..n : f[k + 1] = next[k][f[k]]
<1> DEFINE D == 1..(n + 1)
           Step(f, k) == IF k = 1 THEN first ELSE next[k - 1][f[k - 1]]
           rank == [k \in D |-> k]
           G == [f \in [D -> V] |-> [k \in D |-> Step(f, k)]]
<1>1. \A k \in D : k # 1 => k - 1 \in D /\ k - 1 \in 1..n /\ rank[k - 1] < rank[k]
  OBVIOUS
<1>2. rank \in [D -> Nat]
  OBVIOUS
<1>3. \A f \in [D -> V], k \in D : Step(f, k) \in V
  <2> HIDE DEF D
  <2>1. QED
    BY <1>1
<1>4. Joining!Unfolds(G, D, V)
  <2> HIDE DEF Step, D
  <2>1. QED
    BY <1>3 DEF Joining!Unfolds
<1>5. ASSUME NEW g \in [D -> V], NEW h \in [D -> V], NEW k \in D,
             \A j \in D : rank[j] < rank[k] => g[j] = h[j]
      PROVE  Step(g, k) = Step(h, k)
  <2>1. k # 1 => g[k - 1] = h[k - 1]
    BY <1>1, <1>5
  <2>2. QED
    BY <2>1
<1>6. Joining!RestsOnLower(G, D, V, rank)
  <2> HIDE DEF Step, D, rank
  <2>1. QED
    BY <1>5 DEF Joining!RestsOnLower
<1>7. PICK f \in [D -> V] : f = G[f]
  <2> HIDE DEF G, D, rank
  <2>1. QED
    BY <1>2, <1>4, <1>6, Joining!RankRecursion
<1>8. \A k \in D : f[k] = Step(f, k)
  <2> HIDE DEF Step, D
  <2>1. QED
    BY <1>7
<1>9. 1 \in D /\ \A k \in 1..n : k + 1 \in D /\ k + 1 # 1 /\ (k + 1) - 1 = k
  OBVIOUS
<1>10. f[1] = first
  BY <1>8, <1>9
<1>11. ASSUME NEW k \in 1..n
       PROVE  f[k + 1] = next[k][f[k]]
  <2> HIDE DEF D
  <2>1. f[k + 1] = next[(k + 1) - 1][f[(k + 1) - 1]]
    BY <1>8, <1>9
  <2>2. QED
    BY <1>9, <2>1
<1>12. QED
  BY <1>7, <1>10, <1>11

\* In particular modes that begin in code.
LEMMA ModesOn ==
  ASSUME NEW n \in Nat, NEW next \in [1..n -> [ModeSet -> ModeSet]]
  PROVE  \E f \in [1..(n + 1) -> ModeSet] :
           f[1] = "code" /\ \A k \in 1..n : f[k + 1] = next[k][f[k]]
<1>1. "code" \in ModeSet
  BY DEF ModeSet
<1>2. QED
  BY <1>1, ReadOn

\* What begins in a set and stays in it is a sequence of the set.
LEMMA OnStays ==
  ASSUME NEW V, NEW n \in Nat, NEW o, o = [k \in 1..(n + 1) |-> o[k]], o[1] \in V,
         \A k \in 1..n : o[k] \in V => o[k + 1] \in V
  PROVE  o \in Seq(V) /\ Len(o) = n + 1
<1> DEFINE In == {k \in Nat : k \in 0..n => o[k + 1] \in V}
<1>1. 0 \in In
  OBVIOUS
<1>2. ASSUME NEW k \in Nat, k \in In
      PROVE  k + 1 \in In
  <2>1. SUFFICES ASSUME k + 1 \in 0..n
                 PROVE  o[(k + 1) + 1] \in V
    OBVIOUS
  <2>2. k \in 0..n /\ k + 1 \in 1..n
    BY <2>1
  <2>3. QED
    BY <1>2, <2>2
<1>3. Nat \subseteq In
  <2> HIDE DEF In
  <2>1. QED
    BY <1>1, <1>2, Joining!NaturalInduction
<1>4. ASSUME NEW k \in 1..(n + 1)
      PROVE  o[k] \in V
  <2>1. k - 1 \in Nat /\ k - 1 \in 0..n /\ (k - 1) + 1 = k
    OBVIOUS
  <2>2. QED
    BY <1>3, <2>1
<1>5. o \in [1..(n + 1) -> V]
  BY <1>4
<1>6. QED
  BY <1>5

\* The modes of a text are those its symbols lead to from code.
LEMMA ModesRead ==
  ASSUME NEW text \in Texts
  PROVE  Reads(ModesOf(text), text) /\ ModesOf(text)[1] = "code"
<1> DEFINE n == Len(text)
           Next1(mode, k) == NextMode(mode, CharAt(text, k - 1), CharAt(text, k))
           next == [k \in 1..n |-> [mode \in ModeSet |-> Next1(mode, k)]]
           m == ModesOf(text)
<1>0. n \in Nat
  BY LenType
<1>1. "code" \in ModeSet
  BY DEF ModeSet
<1>2. \A mode \in ModeSet, k \in 1..n : Next1(mode, k) \in ModeSet
  BY NextModeType
<1>3. next \in [1..n -> [ModeSet -> ModeSet]]
  <2> HIDE DEF Next1
  <2>1. QED
    BY <1>2
<1>4. \A mode \in ModeSet, k \in 1..n : next[k][mode] = Next1(mode, k)
  <2> HIDE DEF Next1
  <2>1. QED
    BY <1>2
<1>5. \E f : f = [k \in 1..(n + 1) |-> IF k = 1 THEN "code" ELSE Next1(f[k - 1], k - 1)]
  <2> HIDE DEF next, n, Next1
  <2>1. PICK f \in [1..(n + 1) -> ModeSet] :
          f[1] = "code" /\ \A k \in 1..n : f[k + 1] = next[k][f[k]]
    BY <1>0, <1>3, ModesOn
  <2>2. \A k \in 1..(n + 1) : k # 1 => k - 1 \in 1..n /\ k - 1 \in 1..(n + 1) /\ (k - 1) + 1 = k
    BY <1>0
  <2>3. ASSUME NEW k \in 1..(n + 1), k # 1
        PROVE  f[k] = Next1(f[k - 1], k - 1)
    <3>1. f[k] = next[k - 1][f[k - 1]] /\ f[k - 1] \in ModeSet
      BY <2>1, <2>2, <2>3
    <3>2. QED
      BY <1>4, <2>2, <2>3, <3>1
  <2>4. f = [k \in 1..(n + 1) |-> f[k]]
    BY <2>1
  <2>5. f = [k \in 1..(n + 1) |-> IF k = 1 THEN "code" ELSE Next1(f[k - 1], k - 1)]
    BY <2>1, <2>3, <2>4
  <2>6. QED
    BY <2>5
<1>6. m = [k \in 1..(n + 1) |-> IF k = 1 THEN "code" ELSE Next1(m[k - 1], k - 1)]
  <2>1. \A k \in 1..(n + 1) : (k - 1) - 1 = k - 2
    BY <1>0
  <2> DEFINE G(f) == [k \in 1..(n + 1) |-> IF k = 1 THEN "code" ELSE Next1(f[k - 1], k - 1)]
             H(f) == [k \in 1..(n + 1) |-> IF k = 1 THEN "code"
                                          ELSE NextMode(f[k - 1], CharAt(text, k - 2), CharAt(text, k - 1))]
  <2>2. \A f : G(f) = H(f)
    BY <2>1
  <2>3. m = CHOOSE f : f = H(f)
    BY DEF ModesOf
  <2>4. \E f : f = G(f)
    BY <1>5
  <2> HIDE DEF G, H, m
  <2>5. m = G(m)
    BY <2>2, <2>3, <2>4
  <2>6. QED
    BY <2>5 DEF G
<1> HIDE DEF m
<1>7. m[1] = "code" /\ \A k \in 1..n : m[k + 1] = Next1(m[k], k)
  <2>1. 1 \in 1..(n + 1) /\ \A k \in 1..n : k + 1 \in 1..(n + 1) /\ k + 1 # 1 /\ (k + 1) - 1 = k
    BY <1>0
  <2> HIDE DEF n, Next1
  <2>2. \A k \in 1..(n + 1) : m[k] = IF k = 1 THEN "code" ELSE Next1(m[k - 1], k - 1)
    BY <1>6
  <2>3. QED
    BY <2>1, <2>2
<1>8. m \in Seq(ModeSet) /\ Len(m) = n + 1
  <2> HIDE DEF n, Next1
  <2>1. m[1] \in ModeSet /\ \A k \in 1..n : m[k] \in ModeSet => m[k + 1] \in ModeSet
    BY <1>1, <1>2, <1>7
  <2>2. m = [k \in 1..(n + 1) |-> m[k]]
    BY <1>6
  <2>3. QED
    BY <1>0, <2>1, <2>2, OnStays
<1>9. \A i \in 0..(n - 1) : i + 1 \in 1..n /\ (i + 1) - 1 = i /\ (i + 1) + 1 = i + 2
  BY <1>0
<1>10. QED
  BY <1>7, <1>8, <1>9 DEF Reads, m

\* A symbol leads from the mode before it to the one after.
LEMMA ModeStep ==
  ASSUME NEW text \in Texts, NEW m, Reads(m, text), NEW i \in 0..(Len(text) - 1)
  PROVE  /\ m[i + 1] \in ModeSet /\ m[i + 2] \in ModeSet
         /\ m[i + 2] = NextMode(m[i + 1], CharAt(text, i), CharAt(text, i + 1))
         /\ Len(text) \in Nat /\ i \in Nat /\ i < Len(text)
<1>1. Len(text) \in Nat
  BY LenType
<1>2. i + 1 \in 1..Len(m) /\ i + 2 \in 1..Len(m)
  BY <1>1 DEF Reads
<1>3. m \in Seq(ModeSet)
  BY DEF Reads
<1>4. m[i + 1] \in ModeSet /\ m[i + 2] \in ModeSet
  BY <1>2, <1>3
<1>5. QED
  BY <1>1, <1>4 DEF Reads

\* A reader is in a line comment up to its newline, and in code after that.
LEMMA LineModes ==
  ASSUME NEW text \in Texts, NEW m, Reads(m, text), NEW i \in 0..(Len(text) - 1),
         m[i + 1] = "code", StartsLineComment(text, i)
  PROVE  LET end == LineCommentEnd(text, i)
         IN  /\ end \in Nat /\ i + 2 <= end /\ end <= Len(text)
             /\ \A j \in (i + 1)..end : m[j + 1] = "line"
             /\ end < Len(text) => CharAt(text, end) = "\n" /\ m[end + 2] = "code"
<1> DEFINE end == LineCommentEnd(text, i)
           Lined == {n \in Nat : i + 1 + n <= end => m[i + 2 + n] = "line"}
<1>1. /\ end \in Nat /\ i + 2 <= end /\ end <= Len(text)
      /\ \A j \in (i + 2)..(end - 1) : CharAt(text, j) # "\n"
      /\ end < Len(text) => CharAt(text, end) = "\n"
  BY LineCommentEnds
<1>2. Len(text) \in Nat /\ i \in Nat
  BY LenType
<1>3. CharAt(text, i) = "/" /\ CharAt(text, i + 1) = "/" /\ "/" # "\n"
  BY DEF StartsLineComment
<1> HIDE DEF end
<1>4. 0 \in Lined
  <2>1. m[i + 2] = NextMode("code", "/", "/")
    BY <1>3, ModeStep
  <2>2. m[i + 2] = "line"
    BY <2>1, CodeCases
  <2>3. QED
    BY <1>2, <2>2
<1>5. ASSUME NEW n \in Nat, n \in Lined
      PROVE  n + 1 \in Lined
  <2>1. SUFFICES ASSUME i + 1 + (n + 1) <= end
                 PROVE  m[i + 2 + (n + 1)] = "line"
    OBVIOUS
  <2> DEFINE j == i + 1 + n
  <2>2. j \in 0..(Len(text) - 1) /\ j + 1 = i + 2 + n /\ j + 2 = i + 2 + (n + 1) /\ j < end
    BY <1>1, <1>2, <2>1
  <2>3. m[j + 1] = "line"
    BY <1>1, <1>2, <1>5, <2>1, <2>2
  <2>4. CharAt(text, j) # "\n"
    <3>1. CASE n = 0
      <4>1. j = i + 1
        BY <3>1, <1>2
      <4>2. QED
        BY <4>1, <1>3
    <3>2. CASE n # 0
      <4>1. j \in (i + 2)..(end - 1)
        BY <1>1, <1>2, <2>2, <3>2
      <4>2. QED
        BY <1>1, <4>1
    <3>3. QED
      BY <3>1, <3>2
  <2> HIDE DEF j
  <2>5. m[j + 2] = NextMode("line", CharAt(text, j), CharAt(text, j + 1))
    BY <2>2, <2>3, ModeStep
  <2>6. m[j + 2] = "line"
    BY <2>4, <2>5, NextInLine
  <2>7. QED
    BY <2>2, <2>6
<1>6. Nat \subseteq Lined
  <2> HIDE DEF Lined
  <2>1. QED
    BY <1>4, <1>5, Joining!NaturalInduction
<1>7. ASSUME NEW j \in (i + 1)..end
      PROVE  m[j + 1] = "line"
  <2>1. j - (i + 1) \in Nat /\ i + 1 + (j - (i + 1)) = j /\ i + 2 + (j - (i + 1)) = j + 1 /\ j <= end
    BY <1>1, <1>2
  <2> DEFINE n == j - (i + 1)
  <2>2. n \in Lined
    BY <1>6, <2>1
  <2>3. QED
    BY <2>1, <2>2
<1>8. ASSUME end < Len(text)
      PROVE  CharAt(text, end) = "\n" /\ m[end + 2] = "code"
  <2>1. CharAt(text, end) = "\n" /\ end \in 0..(Len(text) - 1)
    BY <1>1, <1>2, <1>8
  <2>2. m[end + 1] = "line"
    BY <1>1, <1>2, <1>7
  <2>3. m[end + 2] = NextMode("line", CharAt(text, end), CharAt(text, end + 1))
    BY <2>1, <2>2, ModeStep
  <2>4. QED
    BY <2>1, <2>3, NextInLine
<1>9. QED
  BY <1>1, <1>7, <1>8 DEF end

\* A reader is in a block comment up to its end, if it has one.
LEMMA BlockModes ==
  ASSUME NEW text \in Texts, NEW m, Reads(m, text), NEW i \in 0..(Len(text) - 1),
         m[i + 1] = "code", StartsBlockComment(text, i)
  PROVE  LET end   == BlockCommentEnd(text, i)
             found == IndexOfBlockEnd(text, i + 2)
         IN  /\ end \in Nat /\ i + 2 <= end /\ end <= Len(text)
             /\ m[i + 2] = "opening"
             /\ found # None =>
                  /\ found \in Nat /\ i + 2 <= found /\ end = found + 2
                  /\ \A j \in (i + 2)..found : m[j + 1] = "block"
                  /\ m[found + 2] = "closing" /\ m[end + 1] = "code"
                  /\ CharAt(text, found) = "*" /\ CharAt(text, found + 1) = "/"
             /\ found = None =>
                  end = Len(text) /\ \A j \in (i + 2)..end : m[j + 1] = "block"
<1> DEFINE end == BlockCommentEnd(text, i)
           found == IndexOfBlockEnd(text, i + 2)
           limit == IF found = None THEN Len(text) ELSE found
           Blocked == {n \in Nat : i + 2 + n <= limit => m[i + 3 + n] = "block"}
<1>1. /\ end \in Nat /\ i + 2 <= end /\ end <= Len(text)
      /\ found # None =>
           /\ found \in Nat /\ i + 2 <= found /\ end = found + 2
           /\ CharAt(text, found) = "*" /\ CharAt(text, found + 1) = "/"
      /\ found = None => end = Len(text)
      /\ \A j \in (i + 2)..(limit - 1) : ~(CharAt(text, j) = "*" /\ CharAt(text, j + 1) = "/")
  BY BlockCommentEnds
<1>2. Len(text) \in Nat /\ i \in Nat
  BY LenType
<1>3. limit \in Nat /\ i + 2 <= limit /\ limit <= Len(text) /\ (found # None => limit + 2 <= Len(text))
  BY <1>1, <1>2
<1>4. CharAt(text, i) = "/" /\ CharAt(text, i + 1) = "*"
  BY DEF StartsBlockComment
<1>5. found # None => limit = found
  OBVIOUS
<1>a. found = None => limit = Len(text)
  OBVIOUS
<1> HIDE DEF end, found, limit
<1>6. m[i + 2] = "opening"
  <2>1. m[i + 2] = NextMode("code", "/", "*")
    BY <1>4, ModeStep
  <2>2. QED
    BY <2>1, CodeCases
<1>7. 0 \in Blocked
  <2>1. i + 1 \in 0..(Len(text) - 1) /\ (i + 1) + 1 = i + 2 /\ (i + 1) + 2 = i + 3
    BY <1>1, <1>2
  <2>2. m[i + 3] = NextMode("opening", CharAt(text, i + 1), CharAt(text, i + 2))
    <3> DEFINE k == i + 1
    <3>1. k \in 0..(Len(text) - 1) /\ k + 1 = i + 2 /\ k + 2 = i + 3
      BY <2>1
    <3> HIDE DEF k
    <3>2. m[k + 2] = NextMode(m[k + 1], CharAt(text, k), CharAt(text, k + 1))
      BY <3>1, ModeStep
    <3>3. m[k + 1] = "opening" /\ k + 1 = i + 2
      BY <1>6, <3>1
    <3>4. QED
      BY <3>1, <3>2, <3>3 DEF k
  <2>3. m[i + 3] = "block"
    BY <2>2, NextOpening
  <2>4. QED
    BY <1>2, <2>3
<1>8. ASSUME NEW n \in Nat, n \in Blocked
      PROVE  n + 1 \in Blocked
  <2>1. SUFFICES ASSUME i + 2 + (n + 1) <= limit
                 PROVE  m[i + 3 + (n + 1)] = "block"
    OBVIOUS
  <2> DEFINE j == i + 2 + n
  <2>2. j \in 0..(Len(text) - 1) /\ j + 1 = i + 3 + n /\ j + 2 = i + 3 + (n + 1)
        /\ j \in (i + 2)..(limit - 1)
    BY <1>2, <1>3, <2>1
  <2>3. m[j + 1] = "block"
    BY <1>2, <1>3, <1>8, <2>1, <2>2
  <2>4. ~(CharAt(text, j) = "*" /\ CharAt(text, j + 1) = "/")
    BY <1>1, <2>2
  <2> HIDE DEF j
  <2>5. m[j + 2] = NextMode("block", CharAt(text, j), CharAt(text, j + 1))
    BY <2>2, <2>3, ModeStep
  <2>6. m[j + 2] = "block"
    BY <2>4, <2>5, NextInBlock
  <2>7. QED
    BY <2>2, <2>6
<1>9. Nat \subseteq Blocked
  <2> HIDE DEF Blocked
  <2>1. QED
    BY <1>7, <1>8, Joining!NaturalInduction
<1>10. ASSUME NEW j \in (i + 2)..limit
       PROVE  m[j + 1] = "block"
  <2>1. j - (i + 2) \in Nat /\ i + 2 + (j - (i + 2)) = j /\ i + 3 + (j - (i + 2)) = j + 1 /\ j <= limit
    BY <1>2, <1>3
  <2> DEFINE n == j - (i + 2)
  <2>2. n \in Blocked
    BY <1>9, <2>1
  <2>3. QED
    BY <2>1, <2>2
<1>11. ASSUME found # None
       PROVE  m[found + 2] = "closing" /\ m[end + 1] = "code"
  <2>1. found \in 0..(Len(text) - 1) /\ found + 1 \in 0..(Len(text) - 1) /\ found \in (i + 2)..limit
        /\ end = found + 2
    BY <1>1, <1>2, <1>3, <1>5, <1>11
  <2>2. m[found + 2] = NextMode("block", "*", "/")
    BY <1>1, <1>10, <1>11, <2>1, ModeStep
  <2>3. m[found + 2] = "closing"
    BY <2>2, NextInBlock
  <2> DEFINE k == found + 1
  <2>4. k \in 0..(Len(text) - 1) /\ k + 1 = found + 2 /\ k + 2 = end + 1
    BY <1>1, <1>11, <2>1
  <2> HIDE DEF k
  <2>5. m[k + 2] = NextMode("closing", CharAt(text, k), CharAt(text, k + 1))
    <3>1. m[k + 1] = "closing"
      BY <2>3, <2>4
    <3>2. QED
      BY <2>4, <3>1, ModeStep
  <2>6. m[k + 2] = "code"
    BY <2>5, NextClosing
  <2>7. QED
    BY <2>3, <2>4, <2>6
<1>12. found # None => \A j \in (i + 2)..found : m[j + 1] = "block"
  BY <1>5, <1>10
<1>13. found = None => end = Len(text) /\ \A j \in (i + 2)..end : m[j + 1] = "block"
  BY <1>1, <1>a, <1>10
<1>14. QED
  BY <1>1, <1>6, <1>11, <1>12, <1>13 DEF end, found

\* What a reader makes of the symbols in a quoted token from an offset on.
InToken(m, text, q, from0, to) ==
  \A j \in from0..(to - 1) :
    /\ ~IsCode(m, j) /\ ~IsComment(m, j)
    /\ m[j + 1] = "code" => m[j] = q /\ CharAt(text, j - 1) = q /\ CharAt(text, j) = q

\* What a reader makes of the end of a quoted token.
AfterToken(m, text, q, token) ==
  /\ token.closed => /\ m[token.end + 1] = "code" /\ m[token.end] = q
                     /\ CharAt(text, token.end - 1) = q /\ CharAt(text, token.end) # q
  /\ ~token.closed => m[Len(text) + 1] \in Quotes \cup EscapeModes

\* The modes between quotes, one or two symbols on.
LEMMA QuoteSteps ==
  ASSUME NEW text \in Texts, NEW m, Reads(m, text), NEW q \in Quotes,
         NEW i \in 0..(Len(text) - 1), m[i + 1] = q
  PROVE  /\ CharAt(text, i) = "\\" /\ q # Backtick =>
              /\ m[i + 2] \in EscapeModes
              /\ i + 1 < Len(text) => m[i + 3] = q
         /\ CharAt(text, i) = q => m[i + 2] = "code"
         /\ CharAt(text, i) = q /\ CharAt(text, i + 1) = q =>
              i + 1 < Len(text) /\ m[i + 3] = q
         /\ ~(CharAt(text, i) = "\\" /\ q # Backtick) /\ CharAt(text, i) # q => m[i + 2] = q
<1> DEFINE c == CharAt(text, i)
           k == i + 1
<1>1. Len(text) \in Nat /\ i \in Nat
  BY LenType
<1>2. m[i + 2] = InModeQuote(q, c)
  <2>1. m[i + 2] = NextMode(q, c, CharAt(text, i + 1))
    BY ModeStep
  <2>2. QED
    BY <2>1, NextInQuote
<1>3. k < Len(text) => m[k + 2] = NextMode(m[k + 1], CharAt(text, k), CharAt(text, k + 1))
  <2>1. k < Len(text) => k \in 0..(Len(text) - 1)
    BY <1>1
  <2> HIDE DEF k
  <2>2. QED
    BY <2>1, ModeStep
<1>4. k + 1 = i + 2 /\ k + 2 = i + 3
  BY <1>1
<1>5. ASSUME c = "\\", q # Backtick
      PROVE  m[i + 2] \in EscapeModes /\ (i + 1 < Len(text) => m[i + 3] = q)
  BY <1>2, <1>3, <1>4, <1>5, QuoteCases
<1>6. c = q => m[i + 2] = "code"
  BY <1>2, QuoteCases
<1>7. ASSUME c = q, CharAt(text, i + 1) = q
      PROVE  i + 1 < Len(text) /\ m[i + 3] = q
  <2>1. q # EndOfText
    BY Literals
  <2>2. i + 1 < Len(text)
    BY <1>1, <1>7, <2>1, CharWithin
  <2>3. m[i + 3] = NextMode("code", q, CharAt(text, k + 1))
    BY <1>3, <1>4, <1>6, <1>7, <2>2
  <2>4. QED
    BY <2>2, <2>3, CodeCases
<1>8. ~(c = "\\" /\ q # Backtick) /\ c # q => m[i + 2] = q
  BY <1>2, QuoteCases
<1>9. QED
  BY <1>5, <1>6, <1>7, <1>8

\* No symbol of a quoted token is code or in a comment, and after a token that
\* ends a reader is in code.
LEMMA QuotedModes ==
  ASSUME NEW text \in Texts, NEW m, Reads(m, text), NEW start \in 0..(Len(text) - 1),
         m[start + 1] = "code", CharAt(text, start) \in Quotes
  PROVE  LET q == CharAt(text, start)
             token == SkipQuoted(text, start, q)
         IN  /\ AfterToken(m, text, q, token)
             /\ ~IsCode(m, start) /\ ~IsComment(m, start) /\ m[start + 2] # "code"
             /\ InToken(m, text, q, start + 1, token.end)
<1> DEFINE q == CharAt(text, start)
<1>0. Len(text) \in Nat /\ start \in Nat /\ q \in Quotes
  BY LenType
<1>1. PICK f :
        /\ \A i \in 0..(Len(text) + 1) : SkipCases(f, i, text, q)
        /\ SkipQuoted(text, start, q) = f[start + 1]
  BY SkipSolved
<1> HIDE DEF q
<1> DEFINE Inside(i) == IF i <= Len(text) THEN m[i + 1] = q ELSE m[Len(text) + 1] \in EscapeModes
           Good(i) == Inside(i) => /\ f[i].end \in Nat /\ f[i].end <= Len(text)
                                   /\ AfterToken(m, text, q, f[i]) /\ InToken(m, text, q, i, f[i].end)
           Ended == {n \in Nat : \A i \in 0..(Len(text) + 1) : Len(text) + 1 - i <= n => Good(i)}
<1>a. q # "code" /\ q \notin CommentModes /\ "code" \notin CommentModes
      /\ "closing" \in CommentModes
      /\ \A e \in EscapeModes : e # "code" /\ e \notin CommentModes
  BY <1>0, ModesApart
<1>2. ASSUME NEW i \in 0..(Len(text) + 1), i >= Len(text)
      PROVE  Good(i)
  <2>1. f[i] = Token(Len(text), FALSE)
    BY <1>1, <1>2 DEF SkipCases, Token
  <2>2. f[i].end = Len(text) /\ f[i].closed = FALSE
    BY <2>1 DEF Token
  <2>3. InToken(m, text, q, i, f[i].end)
    <3>1. i..(f[i].end - 1) = {}
      BY <1>0, <1>2, <2>2
    <3>2. QED
      BY <3>1 DEF InToken
  <2>4. Inside(i) => m[Len(text) + 1] \in Quotes \cup EscapeModes
    BY <1>0, <1>2
  <2>5. QED
    BY <1>0, <2>2, <2>3, <2>4 DEF AfterToken
<1>3. 0 \in Ended
  <2>1. \A i \in 0..(Len(text) + 1) : Len(text) + 1 - i <= 0 => i >= Len(text)
    BY <1>0
  <2> HIDE DEF Good
  <2>2. QED
    BY <1>2, <2>1
<1>b. ASSUME NEW i \in 0..(Len(text) - 1), NEW j \in {i + 1, i + 2}, Good(j), f[i] = f[j],
             Inside(i), Inside(j),
             \A k \in i..(j - 1) : k < Len(text) =>
               /\ ~IsCode(m, k) /\ ~IsComment(m, k)
               /\ m[k + 1] = "code" => m[k] = q /\ CharAt(text, k - 1) = q /\ CharAt(text, k) = q
      PROVE  Good(i)
  <2>1. /\ f[i].end \in Nat /\ f[i].end <= Len(text)
        /\ AfterToken(m, text, q, f[i]) /\ InToken(m, text, q, j, f[i].end)
    BY <1>b
  <2>2. \A k \in i..(f[i].end - 1) : k < Len(text) /\ (k \in i..(j - 1) \/ k \in j..(f[i].end - 1))
    BY <1>0, <2>1
  <2>3. InToken(m, text, q, i, f[i].end)
    <3> HIDE DEF Inside, Good
    <3>1. QED
      BY <1>b, <2>1, <2>2 DEF InToken
  <2>4. QED
    BY <2>1, <2>3
<1>4. ASSUME NEW n \in Nat, n \in Ended
      PROVE  n + 1 \in Ended
  <2>1. SUFFICES ASSUME NEW i \in 0..(Len(text) + 1), Len(text) + 1 - i <= n + 1, i < Len(text),
                        Inside(i)
                 PROVE  Good(i)
    <3> HIDE DEF Inside
    <3>1. QED
      BY <1>0, <1>2
  <2>2. i + 1 \in 0..(Len(text) + 1) /\ i + 2 \in 0..(Len(text) + 1) /\ i \in 0..(Len(text) - 1)
    BY <1>0, <2>1
  <2>3. Good(i + 1) /\ Good(i + 2)
    <3>1. Len(text) + 1 - (i + 1) <= n /\ Len(text) + 1 - (i + 2) <= n
      BY <1>0, <2>1
    <3> HIDE DEF Good
    <3>2. QED
      BY <1>4, <2>2, <3>1
  <2>4. m[i + 1] = q
    BY <2>1
  <2> DEFINE c == CharAt(text, i)
  <2>a. (i + 1) + 1 = i + 2 /\ (i + 2) + 1 = i + 3 /\ (i + 1) + 2 = i + 3
        /\ (i + 1) - 1 = i /\ i..((i + 1) - 1) = {i} /\ i..((i + 2) - 1) = {i, i + 1}
    BY <2>2
  <2>5. CASE c = "\\" /\ q # Backtick
    <3>1. f[i] = f[i + 2]
      BY <1>1, <2>1, <2>5 DEF SkipCases, Kept
    <3>2. m[i + 2] \in EscapeModes /\ (i + 1 < Len(text) => m[i + 3] = q)
      BY <1>0, <2>2, <2>4, <2>5, QuoteSteps
    <3>3. Inside(i + 2)
      <4>1. CASE i + 1 < Len(text)
        BY <1>0, <2>2, <2>a, <3>2, <4>1
      <4>2. CASE ~(i + 1 < Len(text))
        <5>1. Len(text) + 1 = i + 2 /\ ~(i + 2 <= Len(text))
          BY <1>0, <2>1, <2>2, <4>2
        <5>2. QED
          BY <3>2, <5>1
      <4>3. QED
        BY <4>1, <4>2
    <3>4. ~IsCode(m, i) /\ ~IsComment(m, i)
      BY <1>a, <2>4, <3>2 DEF IsCode, IsComment
    <3>5. i + 1 < Len(text) => ~IsCode(m, i + 1) /\ ~IsComment(m, i + 1) /\ m[(i + 1) + 1] # "code"
      BY <1>a, <2>a, <3>2 DEF IsCode, IsComment
    <3> HIDE DEF Good, Inside
    <3>6. QED
      BY <1>a, <1>b, <2>1, <2>2, <2>3, <2>4, <2>a, <3>1, <3>3, <3>4, <3>5
  <2>6. CASE c = q /\ CharAt(text, i + 1) = q
    <3>1. f[i] = f[i + 2]
      BY <1>1, <2>1, <2>6 DEF SkipCases, Kept
    <3>2. m[i + 2] = "code" /\ i + 1 < Len(text) /\ m[i + 3] = q
      BY <1>0, <2>2, <2>4, <2>6, QuoteSteps
    <3>3. Inside(i + 2)
      BY <1>0, <2>2, <2>a, <3>2
    <3>4. ~IsCode(m, i) /\ ~IsComment(m, i)
      BY <1>a, <2>4, <3>2 DEF IsCode, IsComment
    <3>5. ~IsCode(m, i + 1) /\ ~IsComment(m, i + 1)
          /\ m[i + 1] = q /\ CharAt(text, (i + 1) - 1) = q /\ CharAt(text, i + 1) = q
      BY <1>a, <2>4, <2>6, <2>a, <3>2 DEF IsCode, IsComment
    <3> HIDE DEF Good, Inside
    <3>6. QED
      BY <1>a, <1>b, <2>1, <2>2, <2>3, <2>4, <2>a, <3>1, <3>3, <3>4, <3>5
  <2>7. CASE ~(c = "\\" /\ q # Backtick) /\ c = q /\ CharAt(text, i + 1) # q
    <3>1. f[i] = Token(i + 1, TRUE)
      BY <1>1, <2>1, <2>7 DEF SkipCases, Kept, Token
    <3>2. f[i].end = i + 1 /\ f[i].closed = TRUE
      BY <3>1 DEF Token
    <3>3. m[i + 2] = "code"
      BY <1>0, <2>2, <2>4, <2>7, QuoteSteps
    <3>4. AfterToken(m, text, q, f[i])
      BY <2>4, <2>7, <2>a, <3>2, <3>3 DEF AfterToken
    <3>5. ~IsCode(m, i) /\ ~IsComment(m, i)
      BY <1>a, <2>4, <3>3 DEF IsCode, IsComment
    <3>6. InToken(m, text, q, i, f[i].end)
      BY <1>a, <2>4, <2>a, <3>2, <3>5 DEF InToken
    <3>7. QED
      BY <1>0, <2>2, <3>2, <3>4, <3>6
  <2>8. CASE ~(c = "\\" /\ q # Backtick) /\ c # q
    <3>1. f[i] = f[i + 1]
      BY <1>1, <2>1, <2>8 DEF SkipCases, Kept
    <3>2. m[i + 2] = q
      BY <1>0, <2>2, <2>4, <2>8, QuoteSteps
    <3>3. Inside(i + 1)
      BY <1>0, <2>2, <2>a, <3>2
    <3>4. ~IsCode(m, i) /\ ~IsComment(m, i)
      BY <1>a, <2>4, <3>2 DEF IsCode, IsComment
    <3> HIDE DEF Good, Inside
    <3>5. QED
      BY <1>a, <1>b, <2>1, <2>2, <2>3, <2>4, <2>a, <3>1, <3>3, <3>4
  <2>9. QED
    BY <2>5, <2>6, <2>7, <2>8
<1>5. Nat \subseteq Ended
  <2> HIDE DEF Ended
  <2>1. QED
    BY <1>3, <1>4, Joining!NaturalInduction
<1>6. m[start + 2] = q
  <2>1. m[start + 2] = NextMode("code", q, CharAt(text, start + 1))
    BY ModeStep DEF q
  <2>2. QED
    BY <1>0, <2>1, CodeCases
<1>7. Good(start + 1) /\ Inside(start + 1)
  <2>1. start + 1 \in 0..(Len(text) + 1) /\ Len(text) + 1 \in Nat /\ start + 1 <= Len(text)
        /\ (start + 1) + 1 = start + 2
    BY <1>0
  <2>2. Len(text) + 1 - (start + 1) <= Len(text) + 1
    BY <1>0
  <2>3. Inside(start + 1)
    BY <1>6, <2>1
  <2> HIDE DEF Good, Inside
  <2>4. QED
    BY <1>5, <2>1, <2>2, <2>3
<1>8. ~IsCode(m, start) /\ ~IsComment(m, start) /\ m[start + 2] # "code"
  BY <1>6, <1>a, ModesApart DEF IsCode, IsComment
<1>9. QED
  BY <1>1, <1>7, <1>8 DEF q

\* A symbol that begins no token leaves a reader in code.
LEMMA SymbolModes ==
  ASSUME NEW text \in Texts, NEW m, Reads(m, text), NEW i \in 0..(Len(text) - 1),
         m[i + 1] = "code", CharAt(text, i) \notin Quotes,
         ~StartsLineComment(text, i), ~StartsBlockComment(text, i)
  PROVE  m[i + 2] = "code" /\ IsCode(m, i) /\ ~IsComment(m, i)
<1>1. ~(CharAt(text, i) = "/" /\ CharAt(text, i + 1) \in {"/", "*"})
  BY DEF StartsLineComment, StartsBlockComment
<1>2. m[i + 2] = NextMode("code", CharAt(text, i), CharAt(text, i + 1))
  BY ModeStep
<1>3. m[i + 2] = "code"
  BY <1>1, <1>2, CodeCases
<1>4. QED
  BY <1>3, ModesApart DEF IsCode, IsComment

\* Every symbol of a line comment is in a comment, its newline is not.
LEMMA LineIsComment ==
  ASSUME NEW text \in Texts, NEW m, Reads(m, text), NEW i \in 0..(Len(text) - 1),
         m[i + 1] = "code", StartsLineComment(text, i)
  PROVE  LET end == LineCommentEnd(text, i)
         IN  /\ \A j \in i..(end - 1) : IsComment(m, j) /\ ~IsCode(m, j)
             /\ \A j \in (i + 1)..end : m[j + 1] = "line"
             /\ m[i + 2] = "line"
             /\ end < Len(text) => ~IsComment(m, end) /\ ~IsCode(m, end)
<1> DEFINE end == LineCommentEnd(text, i)
<1>1. /\ end \in Nat /\ i + 2 <= end /\ end <= Len(text)
      /\ \A j \in (i + 1)..end : m[j + 1] = "line"
      /\ end < Len(text) => CharAt(text, end) = "\n" /\ m[end + 2] = "code"
  BY LineModes
<1>2. i \in Nat /\ Len(text) \in Nat
  BY LenType
<1>3. "line" \in CommentModes /\ "line" # "code" /\ "line" # "closing" /\ "code" \notin CommentModes
  BY ModesApart
<1> HIDE DEF end
<1>4. ASSUME NEW j \in i..(end - 1)
      PROVE  m[j + 2] = "line"
  <2>1. j + 1 \in (i + 1)..end /\ (j + 1) + 1 = j + 2
    BY <1>1, <1>2
  <2>2. QED
    BY <1>1, <2>1
<1>5. i \in i..(end - 1)
  BY <1>1, <1>2
<1>6. end < Len(text) => m[end + 1] = "line" /\ m[end + 2] = "code"
  BY <1>1, <1>2
<1>7. QED
  BY <1>1, <1>3, <1>4, <1>5, <1>6 DEF end, IsComment, IsCode

\* Every symbol of a block comment is in a comment.
LEMMA BlockIsComment ==
  ASSUME NEW text \in Texts, NEW m, Reads(m, text), NEW i \in 0..(Len(text) - 1),
         m[i + 1] = "code", StartsBlockComment(text, i)
  PROVE  LET end == BlockCommentEnd(text, i)
         IN  /\ \A j \in i..(end - 1) : IsComment(m, j) /\ ~IsCode(m, j)
             /\ \A j \in (i + 1)..(end - 1) : m[j + 1] # "code"
             /\ IndexOfBlockEnd(text, i + 2) # None => m[end] = "closing"
             /\ IndexOfBlockEnd(text, i + 2) = None => m[end + 1] = "block"
<1> DEFINE end   == BlockCommentEnd(text, i)
           found == IndexOfBlockEnd(text, i + 2)
<1>1. /\ end \in Nat /\ i + 2 <= end /\ end <= Len(text)
      /\ m[i + 2] = "opening"
      /\ found # None =>
           /\ found \in Nat /\ i + 2 <= found /\ end = found + 2
           /\ \A j \in (i + 2)..found : m[j + 1] = "block"
           /\ m[found + 2] = "closing"
      /\ found = None => \A j \in (i + 2)..end : m[j + 1] = "block"
  BY BlockModes
<1>2. i \in Nat /\ Len(text) \in Nat
  BY LenType
<1>3. "opening" \in CommentModes /\ "block" \in CommentModes /\ "closing" \in CommentModes
      /\ "opening" # "code" /\ "block" # "code" /\ "closing" # "code"
  BY ModesApart
<1> HIDE DEF end, found
<1>4. ASSUME NEW j \in (i + 1)..(end - 1)
      PROVE  m[j + 1] \in {"opening", "block", "closing"}
  <2>1. CASE j = i + 1
    <3>1. j + 1 = i + 2
      BY <1>2, <2>1
    <3>2. QED
      BY <1>1, <3>1
  <2>2. CASE j # i + 1 /\ found # None /\ j = found + 1
    <3>1. j + 1 = found + 2
      BY <1>1, <2>2
    <3>2. QED
      BY <1>1, <2>2, <3>1
  <2>3. CASE j # i + 1 /\ found # None /\ j # found + 1
    <3>1. found \in Nat /\ end = found + 2 /\ \A x \in (i + 2)..found : m[x + 1] = "block"
      BY <1>1, <2>3
    <3>2. j \in (i + 2)..found
      BY <1>2, <2>3, <3>1
    <3>3. QED
      BY <3>1, <3>2
  <2>4. CASE j # i + 1 /\ found = None
    <3>1. j \in (i + 2)..end
      BY <1>1, <1>2, <2>4
    <3>2. QED
      BY <1>1, <2>4, <3>1
  <2>5. QED
    BY <2>1, <2>2, <2>3, <2>4
<1>5. found # None => m[end] = "closing"
  BY <1>1
<1>6. found = None => m[end + 1] = "block"
  BY <1>1, <1>2
<1>7. ASSUME NEW j \in i..(end - 1)
      PROVE  IsComment(m, j) /\ ~IsCode(m, j)
  <2>1. CASE j # end - 1
    <3>1. j + 1 \in (i + 1)..(end - 1) /\ (j + 1) + 1 = j + 2
      BY <1>1, <1>2, <2>1
    <3>2. m[j + 2] \in {"opening", "block", "closing"}
      BY <1>4, <3>1
    <3>3. QED
      BY <1>3, <3>2 DEF IsComment, IsCode
  <2>2. CASE j = end - 1
    <3>1. j + 1 = end /\ j + 2 = end + 1
      BY <1>1, <2>2
    <3>2. QED
      BY <1>3, <1>5, <1>6, <3>1 DEF IsComment, IsCode
  <2>3. QED
    BY <2>1, <2>2
<1>8. \A j \in (i + 1)..(end - 1) : m[j + 1] # "code"
  BY <1>3, <1>4
<1>9. QED
  BY <1>5, <1>6, <1>7, <1>8 DEF end, found

\* Which symbol comes next matters only in a comment.
LEMMA NextModeBlind ==
  ASSUME NEW mode \in ModeSet, NEW c, NEW d, NEW e, d \notin {"/", "*"}, e \notin {"/", "*"}
  PROVE  NextMode(mode, c, d) = NextMode(mode, c, e)
<1>1. mode \in {"code", "line", "opening", "block", "closing", "escaped single", "escaped double"} \cup Quotes
  BY DEF ModeSet, CommentModes, EscapeModes
<1>2. CASE mode = "code"
  <2>1. InModeCode(c, d) = InModeCode(c, e)
    BY DEF InModeCode
  <2>2. NextMode("code", c, d) = InModeCode(c, d) /\ NextMode("code", c, e) = InModeCode(c, e)
    BY NextInCode
  <2>3. QED
    BY <1>2, <2>1, <2>2
<1>3. CASE mode = "block"
  <2>1. NextMode("block", c, d) = "block" /\ NextMode("block", c, e) = "block"
    BY NextInBlock
  <2>2. QED
    BY <1>3, <2>1
<1>4. CASE mode \in Quotes
  <2>1. \A q \in Quotes : \A x, next : NextMode(q, x, next) = InModeQuote(q, x)
    BY NextInQuote
  <2>2. NextMode(mode, c, d) = InModeQuote(mode, c)
    BY <1>4, <2>1
  <2>3. NextMode(mode, c, e) = InModeQuote(mode, c)
    BY <1>4, <2>1
  <2>4. QED
    BY <2>2, <2>3
<1>5. CASE mode \in {"line", "opening", "closing", "escaped single", "escaped double"}
  <2>1. NextMode("line", c, d) = NextMode("line", c, e)
    BY DEF NextMode
  <2>2. NextMode("opening", c, d) = "block" /\ NextMode("opening", c, e) = "block"
    <3>1. \A x, next : NextMode("opening", x, next) = "block"
      BY NextOpening
    <3>2. QED
      BY <3>1
  <2>3. NextMode("closing", c, d) = "code" /\ NextMode("closing", c, e) = "code"
    <3>1. \A x, next : NextMode("closing", x, next) = "code"
      BY NextClosing
    <3>2. QED
      BY <3>1
  <2>4. NextMode("escaped single", c, d) = "'" /\ NextMode("escaped single", c, e) = "'"
    <3>1. \A x, next : NextMode("escaped single", x, next) = "'"
      BY NextEscaped
    <3>2. QED
      BY <3>1
  <2>5. NextMode("escaped double", c, d) = "\"" /\ NextMode("escaped double", c, e) = "\""
    <3>1. \A x, next : NextMode("escaped double", x, next) = "\""
      BY NextEscaped
    <3>2. QED
      BY <3>1
  <2>6. QED
    BY <1>5, <2>1, <2>2, <2>3, <2>4, <2>5
<1>6. QED
  BY <1>1, <1>2, <1>3, <1>4, <1>5

Shifted(m, a, b) == SubSeq(m, a + 1, b + 1)

\* The modes of a part of a text, unless the part ends in a token that starts a
\* comment with the next symbol.
LEMMA SliceReads ==
  ASSUME NEW text \in Texts, NEW m, Reads(m, text), NEW a \in Nat, NEW b \in Nat, a <= b,
         b <= Len(text), b = Len(text) \/ CharAt(text, b) \notin {"/", "*"}
  PROVE  /\ Reads(Shifted(m, a, b), Slice(text, a, b))
         /\ \A i \in 0..(b - a) : Shifted(m, a, b)[i + 1] = m[a + i + 1]
<1> DEFINE n == Shifted(m, a, b)
           part == Slice(text, a, b)
<1>0. Len(text) \in Nat
  BY LenType
<1>1. m \in Seq(ModeSet) /\ Len(m) = Len(text) + 1
  BY DEF Reads
<1>2. n \in Seq(ModeSet) /\ Len(n) = b - a + 1 /\ \A k \in 1..(b - a + 1) : n[k] = m[a + k]
  <2> DEFINE from0 == a + 1
             to == b + 1
  <2>1. from0 \in Int /\ to \in Int /\ from0 <= to /\ \A i \in from0..to : i \in 1..Len(m)
    BY <1>0, <1>1
  <2>2. \A i \in from0..to : m[i] \in ModeSet
    BY <1>1, <2>1
  <2>3. to - from0 + 1 = b - a + 1 /\ \A k \in 1..(b - a + 1) : from0 + k - 1 = a + k
    OBVIOUS
  <2>4. n = SubSeq(m, from0, to)
    BY DEF Shifted
  <2> HIDE DEF from0, to, n
  <2>5. /\ SubSeq(m, from0, to) \in Seq(ModeSet)
        /\ Len(SubSeq(m, from0, to)) = to - from0 + 1
        /\ \A k \in 1..(to - from0 + 1) : SubSeq(m, from0, to)[k] = m[from0 + k - 1]
    BY <2>1, <2>2, SubSeqProperties
  <2>6. QED
    BY <2>3, <2>4, <2>5
<1>3. /\ part \in Texts /\ Len(part) = b - a
      /\ \A i \in 0..(b - a - 1) : CharAt(part, i) = CharAt(text, a + i)
  BY SliceParts
<1> HIDE DEF n, part
<1>4. \A i \in 0..(b - a) : n[i + 1] = m[a + i + 1]
  <2>1. \A i \in 0..(b - a) : i + 1 \in 1..(b - a + 1) /\ a + (i + 1) = a + i + 1
    OBVIOUS
  <2>2. QED
    BY <1>2, <2>1
<1>5. ASSUME NEW i \in 0..(Len(part) - 1)
      PROVE  n[i + 2] = NextMode(n[i + 1], CharAt(part, i), CharAt(part, i + 1))
  <2> DEFINE k == a + i
  <2>1. /\ k \in 0..(Len(text) - 1) /\ i + 1 \in 0..(b - a) /\ i \in 0..(b - a)
        /\ a + i + 1 = k + 1 /\ a + (i + 1) + 1 = k + 2 /\ (i + 1) + 1 = i + 2
        /\ i \in 0..(b - a - 1) /\ a + (i + 1) = k + 1
    BY <1>0, <1>3
  <2>2. n[i + 1] = m[k + 1]
    BY <1>4, <2>1
  <2>3. n[i + 2] = m[k + 2]
    <3>1. n[(i + 1) + 1] = m[a + (i + 1) + 1]
      BY <1>4, <2>1
    <3>2. QED
      BY <2>1, <3>1
  <2>4. CharAt(part, i) = CharAt(text, k)
    BY <1>3, <2>1
  <2>5. m[k + 1] \in ModeSet /\ m[k + 2] = NextMode(m[k + 1], CharAt(text, k), CharAt(text, k + 1))
    <3> HIDE DEF k
    <3>1. QED
      BY <2>1, ModeStep
  <2>6. CASE i + 1 < b - a
    <3>1. CharAt(part, i + 1) = CharAt(text, a + (i + 1))
      <4>1. i + 1 \in 0..(b - a - 1)
        BY <2>1, <2>6
      <4>2. QED
        BY <1>3, <4>1
    <3>2. CharAt(text, a + (i + 1)) = CharAt(text, k + 1)
      BY <2>1
    <3>3. QED
      BY <2>2, <2>3, <2>4, <2>5, <3>1, <3>2
  <2>7. CASE ~(i + 1 < b - a)
    <3>1. k + 1 = b
      BY <1>3, <2>1, <2>7
    <3>2. CharAt(part, i + 1) = EndOfText
      <4>1. i + 1 \notin 0..(Len(part) - 1)
        BY <1>3, <2>1, <2>7
      <4>2. QED
        BY <4>1 DEF CharAt
    <3>3. CharAt(text, k + 1) \notin {"/", "*"}
      <4>1. CASE b = Len(text)
        <5>1. k + 1 \notin 0..(Len(text) - 1)
          BY <1>0, <3>1, <4>1
        <5>2. CharAt(text, k + 1) = EndOfText
          BY <5>1 DEF CharAt
        <5>3. QED
          BY <5>2, Literals
      <4>2. CASE b # Len(text)
        BY <3>1, <4>2
      <4>3. QED
        BY <4>1, <4>2
    <3>4. EndOfText \notin {"/", "*"}
      BY Literals
    <3>5. NextMode(m[k + 1], CharAt(text, k), CharAt(text, k + 1))
            = NextMode(m[k + 1], CharAt(text, k), EndOfText)
      BY <2>5, <3>3, <3>4, NextModeBlind
    <3>6. QED
      BY <2>2, <2>3, <2>4, <2>5, <3>2, <3>5
  <2>8. QED
    BY <2>6, <2>7
<1>6. Reads(n, part)
  BY <1>2, <1>3, <1>5 DEF Reads
<1>7. QED
  BY <1>4, <1>6 DEF n, part

-----------------------------------------------------------------------------
(***************************************************************************)
(* The strip leaves something exactly where a reader finds something.      *)
(***************************************************************************)
HasInk(text) == \E k \in 1..Len(text) : text[k] \notin Blank

\* There is more at an offset than a blank or a part of a comment.
InkAt(m, text, i) == CharAt(text, i) \notin Blank /\ ~IsComment(m, i)

\* A trimmed text is empty if the text has only blanks.
LEMMA TrimInk ==
  ASSUME NEW text \in Texts
  PROVE  Trim(text) # <<>> <=> HasInk(text)
<1> DEFINE inked == {i \in 1..Len(text) : text[i] \notin Blank}
<1>0. Len(text) \in Nat
  BY LenType
<1>1. inked = {} <=> ~HasInk(text)
  BY DEF HasInk
<1>2. CASE inked = {}
  BY <1>1, <1>2 DEF Trim
<1>3. CASE inked # {}
  <2>2. Min(inked) \in inked /\ \A n \in inked : Min(inked) <= n
    <3>1. inked \in SUBSET Nat
      BY <1>0
    <3>2. First(inked) = Min(inked)
      BY <1>3 DEF First
    <3> HIDE DEF inked
    <3>3. First(inked) \in inked /\ \A n \in inked : First(inked) <= n
      BY <1>3, <3>1, FirstIsLeast
    <3>4. QED
      BY <3>2, <3>3
  <2>3. Max(inked) \in inked
    <3>1. inked \in SUBSET (1..Len(text))
      OBVIOUS
    <3> HIDE DEF inked
    <3>2. QED
      BY <1>0, <1>3, <3>1, Joining!GreatestPosition DEF Max, Joining!Max
  <2>4. Trim(text) = SubSeq(text, Min(inked), Max(inked))
    BY <1>3 DEF Trim
  <2>5. Min(inked) \in 1..Len(text) /\ Max(inked) \in 1..Len(text) /\ Min(inked) <= Max(inked)
    BY <2>2, <2>3
  <2> DEFINE a == Min(inked)
             b == Max(inked)
  <2> HIDE DEF inked, a, b
  <2>6. a \in Int /\ b \in Int /\ a <= b /\ \A i \in a..b : text[i] \in Symbols
    BY <1>0, <2>5, TextParts DEF a, b
  <2>7. Len(SubSeq(text, a, b)) = b - a + 1
    BY <2>6, SubSeqProperties
  <2>8. Len(SubSeq(text, a, b)) # 0
    BY <2>6, <2>7
  <2>9. Trim(text) # <<>>
    <3>1. Len(Trim(text)) # 0
      BY <2>4, <2>8 DEF a, b
    <3>2. QED
      BY <3>1
  <2>10. QED
    BY <1>1, <1>3, <2>9
<1>4. QED
  BY <1>2, <1>3

\* Two texts have more than blanks if one of them has.
LEMMA JoinInk ==
  ASSUME NEW s \in Texts, NEW t \in Texts
  PROVE  HasInk(s \o t) <=> HasInk(s) \/ HasInk(t)
<1>1. Len(s) \in Nat /\ Len(t) \in Nat
  BY LenType
<1>2. /\ Len(s \o t) = Len(s) + Len(t)
      /\ \A k \in 1..(Len(s) + Len(t)) :
           (s \o t)[k] = IF k <= Len(s) THEN s[k] ELSE t[k - Len(s)]
  BY DEF Texts
<1>3. \A k \in 1..Len(s) : (s \o t)[k] = s[k] /\ k \in 1..(Len(s) + Len(t))
  BY <1>1, <1>2
<1>4. \A k \in 1..Len(t) : /\ (s \o t)[Len(s) + k] = t[k] /\ Len(s) + k \in 1..(Len(s) + Len(t))
  BY <1>1, <1>2
<1>5. \A k \in 1..(Len(s) + Len(t)) :
        \/ k \in 1..Len(s) /\ (s \o t)[k] = s[k]
        \/ k - Len(s) \in 1..Len(t) /\ (s \o t)[k] = t[k - Len(s)]
  BY <1>1, <1>2
<1>6. QED
  BY <1>2, <1>3, <1>4, <1>5 DEF HasInk

\* A text of one symbol.
LEMMA OneInk ==
  ASSUME NEW c \in Symbols
  PROVE  <<c>> \in Texts /\ (HasInk(<<c>>) <=> c \notin Blank)
<1>1. <<c>> \in Texts /\ Len(<<c>>) = 1 /\ <<c>>[1] = c
  BY Joins
<1>2. \A k : k \in 1..1 <=> k = 1
  OBVIOUS
<1>3. QED
  BY <1>1, <1>2 DEF HasInk

\* From an offset in code on, the strip leaves something if there is something.
LEMMA StripInk ==
  ASSUME NEW text \in Texts, NEW m, Reads(m, text), m[1] = "code"
  PROVE  HasInk(StripCypherComments(text)) <=> \E j \in 0..(Len(text) - 1) : InkAt(m, text, j)
<1>0. Len(text) \in Nat
  BY LenType
<1>1. PICK f \in [0..Len(text) -> Texts] :
        /\ \A i \in 0..Len(text) : StripCases(f[i], f, i, text)
        /\ StripCypherComments(text) = f[0]
  BY StripSolved
<1> DEFINE Agree(i) == HasInk(f[i]) <=> \E j \in i..(Len(text) - 1) : InkAt(m, text, j)
           Good(i) == i = Len(text) \/ m[i + 1] = "code" => Agree(i)
           Agreed == {n \in Nat : \A i \in 0..Len(text) : Len(text) - i <= n => Good(i)}
<1>2. ASSUME NEW i \in 0..Len(text), f[i] = <<>>, \A j \in i..(Len(text) - 1) : ~InkAt(m, text, j)
      PROVE  Agree(i)
  <2>1. ~HasInk(f[i])
    BY <1>2 DEF HasInk
  <2>2. QED
    BY <1>2, <2>1
<1>3. ASSUME NEW i \in 0..Len(text), NEW next \in 0..Len(text), i <= next, NEW head \in Texts,
             f[i] = head \o f[next], Agree(next),
             HasInk(head) <=> \E j \in i..(next - 1) : InkAt(m, text, j)
      PROVE  Agree(i)
  <2>1. HasInk(f[i]) <=> HasInk(head) \/ HasInk(f[next])
    <3>1. f[next] \in Texts
      OBVIOUS
    <3>2. QED
      BY <1>3, <3>1, JoinInk
  <2>2. \A j : j \in i..(Len(text) - 1) <=> j \in i..(next - 1) \/ j \in next..(Len(text) - 1)
    BY <1>0, <1>3
  <2>3. QED
    BY <1>3, <2>1, <2>2
<1>4. Good(Len(text))
  <2>1. f[Len(text)] = <<>>
    <3>1. Len(text) \in 0..Len(text)
      BY <1>0
    <3>2. StripCases(f[Len(text)], f, Len(text), text)
      BY <1>1, <3>1
    <3>3. QED
      BY <3>2 DEF StripCases
  <2>2. \A j \in Len(text)..(Len(text) - 1) : ~InkAt(m, text, j)
    BY <1>0
  <2>3. Len(text) \in 0..Len(text)
    BY <1>0
  <2> HIDE DEF Agree
  <2>4. QED
    BY <1>2, <2>1, <2>2, <2>3
<1>5. 0 \in Agreed
  <2>1. \A i \in 0..Len(text) : Len(text) - i <= 0 => i = Len(text)
    BY <1>0
  <2> HIDE DEF Good
  <2>2. QED
    BY <1>4, <2>1
<1>6. ASSUME NEW n \in Nat, n \in Agreed
      PROVE  n + 1 \in Agreed
  <2>1. SUFFICES ASSUME NEW i \in 0..Len(text), Len(text) - i <= n + 1, i # Len(text), m[i + 1] = "code"
                 PROVE  Agree(i)
    <3> HIDE DEF Agree
    <3>1. QED
      BY <1>4, <2>1
  <2> DEFINE c == CharAt(text, i)
  <2>2. i \in Nat /\ i \in 0..(Len(text) - 1) /\ i < Len(text)
    BY <1>0, <2>1
  <2>3. ASSUME NEW next \in 0..Len(text), i < next, next = Len(text) \/ m[next + 1] = "code"
        PROVE  Agree(next)
    <3>1. Len(text) - next <= n
      BY <1>0, <2>1, <2>2, <2>3
    <3>2. Good(next)
      <4> HIDE DEF Good
      <4>1. QED
        BY <1>6, <3>1
    <3>3. QED
      BY <2>3, <3>2
  <2>4. StripCases(f[i], f, i, text)
    BY <1>1
  <2> HIDE DEF Agree, Good
  <2>5. CASE AtLineComment(text, i)
    <3> DEFINE end == LineCommentEnd(text, i)
               found == IndexOfNewline(text, i + 2)
    <3>1. StartsLineComment(text, i)
      BY <2>5 DEF AtLineComment
    <3>2. /\ end \in Nat /\ i + 2 <= end /\ end <= Len(text)
          /\ end < Len(text) => CharAt(text, end) = "\n" /\ m[end + 2] = "code"
      BY <2>1, <2>2, <3>1, LineModes
    <3>3. \A j \in i..(end - 1) : ~InkAt(m, text, j)
      BY <2>1, <2>2, <3>1, LineIsComment DEF InkAt
    <3>4. CASE found = None
      <4>1. end = Len(text)
        BY <3>4 DEF LineCommentEnd
      <4>2. f[i] = <<>>
        BY <2>4, <2>5, <3>4 DEF StripCases
      <4> HIDE DEF end
      <4>3. QED
        BY <1>2, <3>3, <4>1, <4>2
    <3>5. CASE found # None
      <4>1. end = found /\ found < Len(text)
        BY <2>2, <3>1, <3>5, NewlineFound DEF LineCommentEnd
      <4>2. f[i] = <<"\n">> \o f[end + 1]
        BY <2>4, <2>5, <3>5, <4>1 DEF StripCases
      <4>3. end + 1 \in 0..Len(text) /\ i < end + 1 /\ i <= end + 1 /\ m[(end + 1) + 1] = "code"
        <5> HIDE DEF end, found
        <5>1. QED
          BY <1>0, <2>2, <3>2, <4>1
      <4>4. <<"\n">> \in Texts /\ ~HasInk(<<"\n">>)
        BY Joins, OneInk
      <4>5. ~InkAt(m, text, end)
        BY <3>2, <4>1, Joins DEF InkAt
      <4> HIDE DEF end, found
      <4>6. \A j \in i..((end + 1) - 1) : ~InkAt(m, text, j)
        <5>1. \A j \in i..((end + 1) - 1) : j \in i..(end - 1) \/ j = end
          BY <2>2, <3>2
        <5>2. QED
          BY <3>3, <4>5, <5>1
      <4>7. Agree(end + 1)
        BY <2>3, <4>3
      <4>8. QED
        BY <1>3, <4>2, <4>3, <4>4, <4>6, <4>7
    <3>6. QED
      BY <3>4, <3>5
  <2>6. CASE AtBlockComment(text, i)
    <3> DEFINE end == BlockCommentEnd(text, i)
    <3>1. StartsBlockComment(text, i)
      BY <2>6 DEF AtBlockComment
    <3>2. /\ end \in Nat /\ i + 2 <= end /\ end <= Len(text)
          /\ end = Len(text) \/ m[end + 1] = "code"
      BY <2>1, <2>2, <3>1, BlockModes
    <3>3. \A j \in i..(end - 1) : ~InkAt(m, text, j)
      BY <2>1, <2>2, <3>1, BlockIsComment DEF InkAt
    <3>4. f[i] = <<" ">> \o f[end]
      BY <2>4, <2>6 DEF StripCases
    <3>5. <<" ">> \in Texts /\ ~HasInk(<<" ">>)
      BY Joins, OneInk
    <3> HIDE DEF end
    <3>6. end \in 0..Len(text) /\ i < end /\ i <= end
      BY <1>0, <2>2, <3>2
    <3>7. Agree(end)
      BY <2>3, <3>2, <3>6
    <3>8. QED
      BY <1>3, <3>3, <3>4, <3>5, <3>6, <3>7
  <2>7. CASE AtQuote(text, i)
    <3> DEFINE end == SkipQuoted(text, i, c).end
    <3>1. c \in Quotes
      BY <2>7 DEF AtQuote
    <3>2. end \in Nat /\ i < end /\ end <= Len(text)
      BY <2>2, QuotedEnds
    <3>3. f[i] = Slice(text, i, end) \o f[end]
      BY <2>4, <2>7 DEF StripCases
    <3>4. InkAt(m, text, i)
      <4>1. ~IsComment(m, i)
        BY <2>1, <2>2, <3>1, QuotedModes
      <4>2. c \notin Blank
        BY <3>1, Zenon DEF Quotes, Backtick, Blank
      <4>3. QED
        BY <4>1, <4>2 DEF InkAt
    <3> HIDE DEF end
    <3>5. /\ Slice(text, i, end) \in Texts /\ Len(Slice(text, i, end)) = end - i
          /\ Slice(text, i, end)[1] = text[i + 1]
      <4>1. 1 \in 1..(end - i)
        BY <2>2, <3>2
      <4>2. QED
        BY <2>2, <3>2, <4>1, SliceParts
    <3>6. text[i + 1] \notin Blank
      BY <2>2, <3>4 DEF InkAt, CharAt
    <3>7. HasInk(Slice(text, i, end))
      <4>1. 1 \in 1..Len(Slice(text, i, end))
        BY <2>2, <3>2, <3>5
      <4>2. QED
        BY <3>5, <3>6, <4>1 DEF HasInk
    <3>8. HasInk(f[i])
      <4>1. f[end] \in Texts
        BY <1>0, <3>2
      <4>2. QED
        BY <3>3, <3>5, <3>7, <4>1, JoinInk
    <3>9. i \in i..(Len(text) - 1)
      BY <1>0, <2>2
    <3>10. QED
      BY <3>4, <3>8, <3>9 DEF Agree
  <2>8. CASE AtSymbol(text, i)
    <3>1. CharAt(text, i) \notin Quotes /\ ~StartsLineComment(text, i) /\ ~StartsBlockComment(text, i)
      BY <2>8 DEF AtSymbol
    <3>2. m[i + 2] = "code" /\ ~IsComment(m, i)
      BY <2>1, <2>2, <3>1, SymbolModes
    <3>3. f[i] = <<c>> \o f[i + 1]
      BY <2>4, <2>8 DEF StripCases
    <3>4. <<c>> \in Texts /\ (HasInk(<<c>>) <=> c \notin Blank)
      <4>1. c \in Symbols
        BY CharType
      <4>2. QED
        BY <4>1, OneInk
    <3>5. i + 1 \in 0..Len(text) /\ i < i + 1 /\ i <= i + 1 /\ (i + 1) + 1 = i + 2
      BY <1>0, <2>2
    <3>6. Agree(i + 1)
      BY <2>3, <3>2, <3>5
    <3>7. HasInk(<<c>>) <=> \E j \in i..((i + 1) - 1) : InkAt(m, text, j)
      <4>1. \A j : j \in i..((i + 1) - 1) <=> j = i
        BY <2>2
      <4>2. InkAt(m, text, i) <=> c \notin Blank
        BY <3>2 DEF InkAt
      <4> HIDE DEF c
      <4>3. QED
        BY <3>4, <4>1, <4>2
    <3> HIDE DEF c
    <3>8. QED
      BY <1>3, <3>3, <3>4, <3>5, <3>6, <3>7
  <2>9. QED
    BY <2>2, <2>5, <2>6, <2>7, <2>8, StripStepNext
<1>7. Nat \subseteq Agreed
  <2> HIDE DEF Agreed
  <2>1. QED
    BY <1>5, <1>6, Joining!NaturalInduction
<1>8. Good(0)
  <2>1. 0 \in 0..Len(text) /\ Len(text) - 0 <= Len(text)
    BY <1>0
  <2> HIDE DEF Good
  <2>2. QED
    BY <1>0, <1>7, <2>1
<1>9. QED
  BY <1>1, <1>8

\* A part of a text that begins in code has code in it, to hasCypherCode, if a
\* reader of the text finds something in it.
LEMMA CodeInk ==
  ASSUME NEW text \in Texts, NEW m, Reads(m, text), NEW a \in Nat, NEW b \in Nat, a <= b,
         b <= Len(text), b = Len(text) \/ CharAt(text, b) \notin {"/", "*"}, m[a + 1] = "code"
  PROVE  HasCypherCode(Slice(text, a, b)) <=> \E i \in a..(b - 1) : InkAt(m, text, i)
<1> DEFINE part == Slice(text, a, b)
           n == Shifted(m, a, b)
<1>1. /\ part \in Texts /\ Len(part) = b - a
      /\ \A i \in 0..(b - a - 1) : CharAt(part, i) = CharAt(text, a + i)
  BY SliceParts
<1>2. Reads(n, part) /\ \A i \in 0..(b - a) : n[i + 1] = m[a + i + 1]
  BY SliceReads
<1> HIDE DEF part, n
<1>3. n[1] = "code"
  <2>1. 0 \in 0..(b - a) /\ 0 + 1 = 1 /\ a + 0 + 1 = a + 1
    OBVIOUS
  <2>2. QED
    BY <1>2, <2>1
<1>4. \A i \in 0..(b - a - 1) : InkAt(n, part, i) <=> InkAt(m, text, a + i)
  <2>1. SUFFICES ASSUME NEW i \in 0..(b - a - 1)
                 PROVE  InkAt(n, part, i) <=> InkAt(m, text, a + i)
    OBVIOUS
  <2>2. i \in 0..(b - a) /\ i + 1 \in 0..(b - a) /\ (i + 1) + 1 = i + 2
        /\ a + (i + 1) + 1 = (a + i) + 2 /\ a + i + 1 = (a + i) + 1
    OBVIOUS
  <2>3. n[i + 1] = m[(a + i) + 1]
    BY <1>2, <2>2
  <2>4. n[i + 2] = m[(a + i) + 2]
    <3>1. n[(i + 1) + 1] = m[a + (i + 1) + 1]
      BY <1>2, <2>2
    <3>2. QED
      BY <2>2, <3>1
  <2>5. CharAt(part, i) = CharAt(text, a + i)
    BY <1>1
  <2>6. QED
    BY <2>3, <2>4, <2>5 DEF InkAt, IsComment
<1>5. (\E i \in 0..(b - a - 1) : InkAt(n, part, i)) <=> \E i \in a..(b - 1) : InkAt(m, text, i)
  <2>1. \A i \in a..(b - 1) : i - a \in 0..(b - a - 1) /\ a + (i - a) = i
    OBVIOUS
  <2>2. \A i \in 0..(b - a - 1) : a + i \in a..(b - 1)
    OBVIOUS
  <2>3. ASSUME NEW i \in 0..(b - a - 1), InkAt(n, part, i)
        PROVE  \E j \in a..(b - 1) : InkAt(m, text, j)
    BY <1>4, <2>2, <2>3
  <2>4. ASSUME NEW i \in a..(b - 1), InkAt(m, text, i)
        PROVE  \E j \in 0..(b - a - 1) : InkAt(n, part, j)
    <3> DEFINE j == i - a
    <3>1. j \in 0..(b - a - 1) /\ a + j = i
      BY <2>1
    <3> HIDE DEF j
    <3>2. InkAt(n, part, j) <=> InkAt(m, text, a + j)
      BY <1>4, <3>1
    <3>3. QED
      BY <2>4, <3>1, <3>2
  <2>5. QED
    BY <2>3, <2>4
<1>6. HasInk(StripCypherComments(part)) <=> \E i \in 0..(b - a - 1) : InkAt(n, part, i)
  BY <1>1, <1>2, <1>3, StripInk
<1>7. HasCypherCode(part) <=> HasInk(StripCypherComments(part))
  BY <1>1, StripType, TrimInk DEF HasCypherCode
<1>8. QED
  BY <1>5, <1>6, <1>7 DEF part

-----------------------------------------------------------------------------
(***************************************************************************)
(* The brackets a reader has open.                                         *)
(***************************************************************************)
\* No symbol opens and closes, and none of them is a terminator or a quote.
LEMMA BracketsApart ==
  /\ Openers \cap Closers = {}
  /\ ";" \notin Openers \cup Closers \cup Quotes
  /\ (Openers \cup Closers) \cap Quotes = {}
<1>1. Openers = {"(", "[", "{"}
  BY DEF Openers, CloserOf
<1>2. Closers = {")", "]", "}"}
  BY <1>1 DEF Closers, CloserOf
<1>3. QED
  BY <1>1, <1>2, Zenon DEF Quotes, Backtick

\* All a symbol can do to the open brackets.
LEMMA OpenedCases ==
  ASSUME NEW text, NEW m, NEW i, NEW open
  PROVE  LET c == CharAt(text, i)
             next == Opened(open, Symbol(text, m, i))
             closes == open # <<>> /\ Last(open).char = OpenerOf(c)
         IN  /\ ~IsCode(m, i) => next = open
             /\ c \notin Openers \cup Closers => next = open
             /\ IsCode(m, i) /\ c \in Openers =>
                  next = Append(open, [char |-> c, offset |-> i])
             /\ IsCode(m, i) /\ c \in Closers /\ closes => next = Front(open)
             /\ c \in Closers /\ ~closes => next = open
<1> DEFINE s == Symbol(text, m, i)
<1>1. s.char = CharAt(text, i) /\ s.offset = i /\ s.code = IsCode(m, i)
  BY DEF Symbol
<1>2. Openers \cap Closers = {}
  BY BracketsApart
<1> HIDE DEF s
<1>3. QED
  BY <1>1, <1>2 DEF Opened, s

\* Brackets lead to brackets.
LEMMA OpenedType ==
  ASSUME NEW text, NEW m, NEW i \in Nat, NEW open \in Opens
  PROVE  Opened(open, Symbol(text, m, i)) \in Opens
<1> DEFINE c == CharAt(text, i)
           next == Opened(open, Symbol(text, m, i))
<1>1. c \in Openers => Append(open, [char |-> c, offset |-> i]) \in Opens
  <2>1. c \in Openers => [char |-> c, offset |-> i] \in OpenBracket
    BY DEF OpenBracket
  <2> HIDE DEF c, OpenBracket
  <2>2. QED
    BY <2>1 DEF Opens
<1>2. open # <<>> => Front(open) \in Opens
  <2> HIDE DEF OpenBracket
  <2>1. QED
    BY DEF Opens, Front
<1>3. \/ next = open
      \/ c \in Openers /\ next = Append(open, [char |-> c, offset |-> i])
      \/ open # <<>> /\ next = Front(open)
  BY OpenedCases
<1>4. QED
  BY <1>1, <1>2, <1>3

\* Brackets of which none is open at first can be read on.
LEMMA OpensOn ==
  ASSUME NEW n \in Nat, NEW next \in [1..n -> [Opens -> Opens]]
  PROVE  \E f \in [1..(n + 1) -> Opens] :
           f[1] = <<>> /\ \A k \in 1..n : f[k + 1] = next[k][f[k]]
<1>1. <<>> \in Opens
  BY DEF Opens
<1>2. QED
  BY <1>1, ReadOn

\* The reference has the brackets its symbols lead to from none.
LEMMA OpensAreRead ==
  ASSUME NEW text \in Texts, NEW m
  PROVE  OpensRead(OpensOf(text, m), m, text)
<1> DEFINE n == Len(text)
           Next1(open, k) == Opened(open, Symbol(text, m, k - 1))
           next == [k \in 1..n |-> [open \in Opens |-> Next1(open, k)]]
           o == OpensOf(text, m)
<1>0. n \in Nat
  BY LenType
<1>1. <<>> \in Opens
  BY DEF Opens
<1>2. \A open \in Opens, k \in 1..n : Next1(open, k) \in Opens
  <2>1. \A k \in 1..n : k - 1 \in Nat
    BY <1>0
  <2>2. QED
    BY <2>1, OpenedType
<1>3. next \in [1..n -> [Opens -> Opens]]
  <2> HIDE DEF Opens, Next1
  <2>1. QED
    BY <1>2
<1>4. \A open \in Opens, k \in 1..n : next[k][open] = Next1(open, k)
  <2> HIDE DEF Opens, Next1
  <2>1. QED
    BY <1>2
<1>5. \E f : f = [k \in 1..(n + 1) |-> IF k = 1 THEN <<>> ELSE Next1(f[k - 1], k - 1)]
  <2> HIDE DEF Opens, next, n, Next1
  <2>1. PICK f \in [1..(n + 1) -> Opens] :
          f[1] = <<>> /\ \A k \in 1..n : f[k + 1] = next[k][f[k]]
    BY <1>0, <1>3, OpensOn
  <2>2. \A k \in 1..(n + 1) : k # 1 => k - 1 \in 1..n /\ k - 1 \in 1..(n + 1) /\ (k - 1) + 1 = k
    BY <1>0
  <2>3. ASSUME NEW k \in 1..(n + 1), k # 1
        PROVE  f[k] = Next1(f[k - 1], k - 1)
    <3>1. f[k] = next[k - 1][f[k - 1]] /\ f[k - 1] \in Opens
      BY <2>1, <2>2, <2>3
    <3>2. QED
      BY <1>4, <2>2, <2>3, <3>1
  <2>4. f = [k \in 1..(n + 1) |-> f[k]]
    BY <2>1
  <2>5. f = [k \in 1..(n + 1) |-> IF k = 1 THEN <<>> ELSE Next1(f[k - 1], k - 1)]
    BY <2>1, <2>3, <2>4
  <2>6. QED
    BY <2>5
<1>6. o = [k \in 1..(n + 1) |-> IF k = 1 THEN <<>> ELSE Next1(o[k - 1], k - 1)]
  <2>1. \A k \in 1..(n + 1) : (k - 1) - 1 = k - 2
    BY <1>0
  <2> DEFINE G(f) == [k \in 1..(n + 1) |-> IF k = 1 THEN <<>> ELSE Next1(f[k - 1], k - 1)]
             H(f) == [k \in 1..(n + 1) |-> IF k = 1 THEN <<>> ELSE Opened(f[k - 1], Symbol(text, m, k - 2))]
  <2>2. \A f : G(f) = H(f)
    BY <2>1
  <2>3. o = CHOOSE f : f = H(f)
    BY DEF OpensOf
  <2>4. \E f : f = G(f)
    BY <1>5
  <2> HIDE DEF G, H, o
  <2>5. o = G(o)
    BY <2>2, <2>3, <2>4
  <2>6. QED
    BY <2>5 DEF G
<1> HIDE DEF o
<1>7. o[1] = <<>> /\ \A k \in 1..n : o[k + 1] = Next1(o[k], k)
  <2>1. 1 \in 1..(n + 1) /\ \A k \in 1..n : k + 1 \in 1..(n + 1) /\ k + 1 # 1 /\ (k + 1) - 1 = k
    BY <1>0
  <2> HIDE DEF n, Next1
  <2>2. \A k \in 1..(n + 1) : o[k] = IF k = 1 THEN <<>> ELSE Next1(o[k - 1], k - 1)
    BY <1>6
  <2>3. QED
    BY <2>1, <2>2
<1>8. o \in Seq(Opens) /\ Len(o) = n + 1
  <2> HIDE DEF Opens, n, Next1
  <2>1. o[1] \in Opens /\ \A k \in 1..n : o[k] \in Opens => o[k + 1] \in Opens
    BY <1>1, <1>2, <1>7
  <2>2. o = [k \in 1..(n + 1) |-> o[k]]
    BY <1>6
  <2>3. QED
    BY <1>0, <2>1, <2>2, OnStays
<1>9. \A i \in 0..(n - 1) : i + 1 \in 1..n /\ (i + 1) - 1 = i /\ (i + 1) + 1 = i + 2
  BY <1>0
<1>10. QED
  BY <1>7, <1>8, <1>9 DEF OpensRead, o

\* Open brackets stand in the text before an offset, the outer ones first.
Nested(open, text, i) ==
  /\ \A k \in DOMAIN open : /\ open[k].offset < i
                            /\ CharAt(text, open[k].offset) = open[k].char
  /\ \A j, k \in DOMAIN open : j < k => open[j].offset < open[k].offset

\* One symbol keeps them so.
LEMMA OpenedNested ==
  ASSUME NEW text, NEW m, NEW i \in Nat, NEW open \in Opens, Nested(open, text, i)
  PROVE  Nested(Opened(open, Symbol(text, m, i)), text, i + 1)
<1> DEFINE c == CharAt(text, i)
           next == Opened(open, Symbol(text, m, i))
           new == [char |-> c, offset |-> i]
<1>1. \/ next = open
      \/ c \in Openers /\ next = Append(open, new)
      \/ open # <<>> /\ next = Front(open)
  BY OpenedCases
<1>2. DOMAIN open = 1..Len(open) /\ Len(open) \in Nat
      /\ \A k \in DOMAIN open : open[k].offset \in Nat
  <2>1. DOMAIN open = 1..Len(open) /\ Len(open) \in Nat /\ \A k \in DOMAIN open : open[k] \in OpenBracket
    BY DEF Opens
  <2>2. \A b \in OpenBracket : b.offset \in Nat
    BY DEF OpenBracket
  <2>3. QED
    BY <2>1, <2>2
<1>3. /\ \A k \in DOMAIN open : /\ open[k].offset < i
                                /\ CharAt(text, open[k].offset) = open[k].char
      /\ \A j, k \in DOMAIN open : j < k => open[j].offset < open[k].offset
  BY DEF Nested
<1> HIDE DEF next, c
<1>4. CASE next = open
  <2>1. \A k \in DOMAIN open : open[k].offset < i + 1
    BY <1>2, <1>3
  <2>2. QED
    BY <1>3, <1>4, <2>1 DEF next, Nested
<1>5. CASE next = Append(open, new)
  <2>1. DOMAIN next = 1..(Len(open) + 1) /\ next[Len(open) + 1] = new
        /\ \A k \in 1..Len(open) : next[k] = open[k]
    <3> HIDE DEF new, OpenBracket
    <3>1. QED
      BY <1>2, <1>5 DEF Opens
  <2>2. new.offset = i /\ new.char = c
    OBVIOUS
  <2> HIDE DEF new
  <2>3. ASSUME NEW k \in DOMAIN next
        PROVE  next[k].offset < i + 1 /\ CharAt(text, next[k].offset) = next[k].char
    <3>1. CASE k = Len(open) + 1
      BY <2>1, <2>2, <3>1 DEF c
    <3>2. CASE k # Len(open) + 1
      <4>1. k \in 1..Len(open)
        BY <1>2, <2>1, <3>2
      <4>2. QED
        BY <1>2, <1>3, <2>1, <4>1
    <3>3. QED
      BY <3>1, <3>2
  <2>4. ASSUME NEW j \in DOMAIN next, NEW k \in DOMAIN next, j < k
        PROVE  next[j].offset < next[k].offset
    <3>1. j \in 1..Len(open) /\ next[j] = open[j]
      BY <1>2, <2>1, <2>4
    <3>2. CASE k = Len(open) + 1
      BY <1>2, <1>3, <2>1, <2>2, <3>1, <3>2
    <3>3. CASE k # Len(open) + 1
      <4>1. k \in 1..Len(open) /\ next[k] = open[k]
        BY <1>2, <2>1, <3>3
      <4>2. QED
        BY <1>2, <1>3, <2>4, <3>1, <4>1
    <3>4. QED
      BY <3>2, <3>3
  <2>5. QED
    BY <2>3, <2>4 DEF next, Nested
<1>6. CASE open # <<>> /\ next = Front(open)
  <2>1. DOMAIN next = 1..(Len(open) - 1) /\ \A k \in 1..(Len(open) - 1) : next[k] = open[k]
    <3> HIDE DEF OpenBracket
    <3>1. QED
      BY <1>2, <1>6 DEF Opens, Front
  <2>2. \A k \in DOMAIN next : k \in DOMAIN open /\ next[k] = open[k]
    BY <1>2, <2>1
  <2>3. \A k \in DOMAIN open : open[k].offset < i + 1
    BY <1>2, <1>3
  <2>4. QED
    BY <1>3, <2>2, <2>3 DEF next, Nested
<1>7. QED
  BY <1>1, <1>4, <1>5, <1>6 DEF next

\* So they always are.
LEMMA OpensNested ==
  ASSUME NEW text \in Texts, NEW m, NEW o, OpensRead(o, m, text)
  PROVE  \A i \in 0..Len(text) : o[i + 1] \in Opens /\ Nested(o[i + 1], text, i)
<1> DEFINE Good == {n \in Nat : n <= Len(text) => Nested(o[n + 1], text, n)}
<1>0. Len(text) \in Nat
  BY LenType
<1>1. /\ o \in Seq(Opens) /\ Len(o) = Len(text) + 1 /\ o[1] = <<>>
      /\ \A i \in 0..(Len(text) - 1) : o[i + 2] = Opened(o[i + 1], Symbol(text, m, i))
  BY DEF OpensRead
<1>2. \A i \in 0..Len(text) : o[i + 1] \in Opens
  <2>1. \A i \in 0..Len(text) : i + 1 \in 1..Len(o)
    BY <1>0, <1>1
  <2> HIDE DEF Opens
  <2>2. QED
    BY <1>1, <2>1
<1>3. 0 \in Good
  <2>1. Nested(<<>>, text, 0)
    BY DEF Nested
  <2>2. QED
    BY <1>1, <2>1
<1>4. ASSUME NEW n \in Nat, n \in Good
      PROVE  n + 1 \in Good
  <2>1. SUFFICES ASSUME n + 1 <= Len(text)
                 PROVE  Nested(o[(n + 1) + 1], text, n + 1)
    OBVIOUS
  <2>2. n \in 0..(Len(text) - 1) /\ n \in 0..Len(text) /\ n <= Len(text) /\ (n + 1) + 1 = n + 2
    BY <1>0, <2>1
  <2>3. o[n + 1] \in Opens /\ Nested(o[n + 1], text, n)
    BY <1>2, <1>4, <2>2
  <2>4. o[n + 2] = Opened(o[n + 1], Symbol(text, m, n))
    BY <1>1, <2>2
  <2>5. QED
    BY <2>2, <2>3, <2>4, OpenedNested
<1>5. Nat \subseteq Good
  <2> HIDE DEF Good
  <2>1. QED
    BY <1>3, <1>4, Joining!NaturalInduction
<1>6. QED
  BY <1>0, <1>2, <1>5

\* A reader has the same brackets open at both ends of what is not code.
LEMMA OpensKept ==
  ASSUME NEW text \in Texts, NEW m, NEW o, OpensRead(o, m, text),
         NEW a \in Nat, NEW b \in Nat, a <= b, b <= Len(text),
         \A j \in a..(b - 1) : ~IsCode(m, j) \/ CharAt(text, j) \notin Openers \cup Closers
  PROVE  \A i \in a..b : o[i + 1] = o[a + 1]
<1> DEFINE Good == {n \in Nat : a + n <= b => o[(a + n) + 1] = o[a + 1]}
<1>0. Len(text) \in Nat
  BY LenType
<1>1. 0 \in Good
  OBVIOUS
<1>2. ASSUME NEW n \in Nat, n \in Good
      PROVE  n + 1 \in Good
  <2>1. SUFFICES ASSUME a + (n + 1) <= b
                 PROVE  o[(a + (n + 1)) + 1] = o[a + 1]
    OBVIOUS
  <2> DEFINE i == a + n
  <2>2. i \in a..(b - 1) /\ i \in 0..(Len(text) - 1) /\ i <= b /\ (a + (n + 1)) + 1 = i + 2
    BY <1>0, <2>1
  <2>3. o[i + 1] = o[a + 1]
    BY <1>2, <2>2
  <2> HIDE DEF i
  <2>4. o[i + 2] = Opened(o[i + 1], Symbol(text, m, i))
    BY <2>2 DEF OpensRead
  <2>5. ~IsCode(m, i) \/ CharAt(text, i) \notin Openers \cup Closers
    BY <2>2
  <2>a. Opened(o[i + 1], Symbol(text, m, i)) = o[i + 1]
    <3> DEFINE open == o[i + 1]
    <3> HIDE DEF open
    <3>1. CASE ~IsCode(m, i)
      <4>1. Opened(open, Symbol(text, m, i)) = open
        BY <3>1, OpenedCases
      <4>2. QED
        BY <4>1 DEF open
    <3>2. CASE CharAt(text, i) \notin Openers \cup Closers
      <4>1. CharAt(text, i) \notin Openers /\ CharAt(text, i) \notin Closers
        BY <3>2
      <4>2. Opened(open, Symbol(text, m, i)) = open
        BY <4>1 DEF Opened, Symbol
      <4>3. QED
        BY <4>2 DEF open
    <3>3. QED
      BY <2>5, <3>1, <3>2
  <2>6. QED
    BY <2>2, <2>3, <2>4, <2>a
<1>3. Nat \subseteq Good
  <2> HIDE DEF Good
  <2>1. QED
    BY <1>1, <1>2, Joining!NaturalInduction
<1>4. ASSUME NEW i \in a..b
      PROVE  o[i + 1] = o[a + 1]
  <2> DEFINE n == i - a
  <2>1. n \in Nat /\ a + n = i /\ a + n <= b
    OBVIOUS
  <2> HIDE DEF n
  <2>2. n \in Good
    BY <1>3, <2>1
  <2>3. QED
    BY <2>1, <2>2
<1>5. QED
  BY <1>4

-----------------------------------------------------------------------------
(***************************************************************************)
(* What a scanner passes, as a reader sees it.                             *)
(***************************************************************************)
\* A reader at a symbol that is no newline, where a scanner may stand, is in code.
LEMMA ReadyInCode ==
  ASSUME NEW text \in Texts, NEW m, NEW i \in 0..(Len(text) - 1), Ready(m, text, i),
         CharAt(text, i) # "\n"
  PROVE  m[i + 1] = "code"
<1>1. i < Len(text)
  BY LenType
<1>2. QED
  BY <1>1 DEF Ready

\* Symbols that are no newline.
LEMMA NoNewline ==
  /\ "/" # "\n" /\ ";" # "\n"
  /\ "\n" \notin Quotes \cup Openers \cup Closers /\ "\n" \in Blank
<1>1. "/" # "\n" /\ ";" # "\n" /\ "\n" \notin Quotes /\ "\n" \in Blank
  BY Zenon DEF Quotes, Backtick, Blank
<1>2. "\n" \notin Openers
  BY Zenon DEF Openers, CloserOf
<1>3. "\n" \notin Closers
  BY Zenon DEF Closers, Openers, CloserOf
<1>4. QED
  BY <1>1, <1>2, <1>3

\* The first scanner stands at the newline after a line comment.
LEMMA LinePassed ==
  ASSUME NEW text \in Texts, NEW m, Reads(m, text), NEW i \in 0..(Len(text) - 1),
         Ready(m, text, i), StartsLineComment(text, i)
  PROVE  LET end == LineCommentEnd(text, i)
         IN  Passed(m, text, i, end, TRUE) /\ m[end + 1] \in Complete
<1> DEFINE end == LineCommentEnd(text, i)
<1>0. Len(text) \in Nat /\ i \in Nat
  BY LenType
<1>1. m[i + 1] = "code"
  <2>1. CharAt(text, i) # "\n"
    BY NoNewline DEF StartsLineComment
  <2>2. QED
    BY <2>1, ReadyInCode
<1>2. /\ end \in Nat /\ i + 2 <= end /\ end <= Len(text)
      /\ \A j \in (i + 1)..end : m[j + 1] = "line"
      /\ end < Len(text) => CharAt(text, end) = "\n" /\ m[end + 2] = "code"
  BY <1>1, LineModes
<1>3. \A j \in i..(end - 1) : IsComment(m, j) /\ ~IsCode(m, j)
  BY <1>1, LineIsComment
<1> HIDE DEF end
<1>4. m[end + 1] = "line" /\ m[end] = "line"
  <2>1. end \in (i + 1)..end /\ end - 1 \in (i + 1)..end /\ (end - 1) + 1 = end
    BY <1>0, <1>2
  <2>2. QED
    BY <1>2, <2>1
<1>5. "line" \notin Quotes /\ "line" \in Complete
  BY ModesApart, Zenon DEF Quotes, Backtick, Complete
<1>6. Ready(m, text, end)
  BY <1>2, <1>4, <1>5 DEF Ready
<1>7. i < end
  BY <1>0, <1>2
<1>8. QED
  BY <1>2, <1>3, <1>4, <1>5, <1>6, <1>7 DEF Passed, end

\* A scanner stands after a block comment.
LEMMA BlockPassed ==
  ASSUME NEW text \in Texts, NEW m, Reads(m, text), NEW i \in 0..(Len(text) - 1),
         Ready(m, text, i), StartsBlockComment(text, i)
  PROVE  LET end == BlockCommentEnd(text, i)
         IN  /\ Passed(m, text, i, end, TRUE)
             /\ IndexOfBlockEnd(text, i + 2) # None => m[end + 1] \in Complete
             /\ IndexOfBlockEnd(text, i + 2) = None => end = Len(text) /\ Endless(m, text, i)
<1> DEFINE end == BlockCommentEnd(text, i)
           found == IndexOfBlockEnd(text, i + 2)
<1>0. Len(text) \in Nat /\ i \in Nat
  BY LenType
<1>1. m[i + 1] = "code"
  <2>1. CharAt(text, i) # "\n"
    BY NoNewline DEF StartsBlockComment
  <2>2. QED
    BY <2>1, ReadyInCode
<1>2. /\ end \in Nat /\ i + 2 <= end /\ end <= Len(text)
      /\ m[i + 2] = "opening"
      /\ found # None => m[end + 1] = "code"
      /\ found = None => end = Len(text)
  BY <1>1, BlockModes
<1>3. /\ \A j \in i..(end - 1) : IsComment(m, j) /\ ~IsCode(m, j)
      /\ \A j \in (i + 1)..(end - 1) : m[j + 1] # "code"
      /\ found # None => m[end] = "closing"
      /\ found = None => m[end + 1] = "block"
  BY <1>1, BlockIsComment
<1> HIDE DEF end, found
<1>4. "closing" \notin Quotes /\ "code" \in Complete /\ "block" \notin Complete /\ "opening" # "code"
  BY Zenon DEF Quotes, Backtick, Complete
<1>5. Ready(m, text, end)
  BY <1>2, <1>3, <1>4 DEF Ready
<1>6. i < end
  BY <1>0, <1>2
<1>7. Passed(m, text, i, end, TRUE)
  BY <1>2, <1>3, <1>5, <1>6 DEF Passed
<1>8. found # None => m[end + 1] \in Complete
  BY <1>2, <1>4
<1>9. found = None => end = Len(text) /\ Endless(m, text, i)
  BY <1>1, <1>2, <1>3, <1>4 DEF Endless
<1>10. QED
  BY <1>7, <1>8, <1>9 DEF end, found

\* A scanner stands after a quoted token.
LEMMA QuotePassed ==
  ASSUME NEW text \in Texts, NEW m, Reads(m, text), NEW i \in 0..(Len(text) - 1),
         Ready(m, text, i), CharAt(text, i) \in Quotes
  PROVE  LET token == SkipQuoted(text, i, CharAt(text, i))
         IN  /\ Passed(m, text, i, token.end, FALSE)
             /\ token.closed \in BOOLEAN
             /\ token.closed => m[token.end + 1] \in Complete
             /\ ~token.closed => token.end = Len(text) /\ Endless(m, text, i)
<1> DEFINE q == CharAt(text, i)
           token == SkipQuoted(text, i, q)
           end == token.end
<1>0. Len(text) \in Nat /\ i \in Nat
  BY LenType
<1>1. m[i + 1] = "code"
  <2>1. CharAt(text, i) # "\n"
    BY NoNewline
  <2>2. QED
    BY <2>1, ReadyInCode
<1>2. /\ end \in Nat /\ i < end /\ end <= Len(text)
      /\ token.closed \in BOOLEAN /\ (~token.closed => end = Len(text))
  BY QuotedEnds
<1>3. /\ AfterToken(m, text, q, token)
      /\ ~IsCode(m, i) /\ ~IsComment(m, i) /\ m[i + 2] # "code"
      /\ InToken(m, text, q, i + 1, end)
  BY <1>1, QuotedModes
<1>4. q \in Quotes
  OBVIOUS
<1> HIDE DEF q, token
<1>5. \A j \in i..(end - 1) : ~IsCode(m, j) /\ ~IsComment(m, j)
  <2>1. \A j \in i..(end - 1) : j = i \/ j \in (i + 1)..(end - 1)
    BY <1>0
  <2>2. QED
    BY <1>3, <2>1 DEF InToken
<1>6. "code" \in Complete /\ \A x \in Quotes \cup EscapeModes : x \notin Complete
  BY Zenon DEF Quotes, Backtick, EscapeModes, Complete
<1>7. Ready(m, text, end)
  BY <1>2, <1>3 DEF Ready, AfterToken
<1>8. Passed(m, text, i, end, FALSE)
  BY <1>2, <1>5, <1>7 DEF Passed
<1>9. token.closed => m[end + 1] \in Complete
  BY <1>3, <1>6 DEF AfterToken
<1>10. ~token.closed => end = Len(text) /\ Endless(m, text, i)
  BY <1>1, <1>2, <1>3, <1>4, <1>6 DEF AfterToken, InToken, Endless
<1>11. QED
  BY <1>2, <1>8, <1>9, <1>10 DEF q, token

\* A scanner stands after a symbol that begins no token.
LEMMA SymbolPassed ==
  ASSUME NEW text \in Texts, NEW m, Reads(m, text), NEW i \in 0..(Len(text) - 1),
         Ready(m, text, i), CharAt(text, i) \notin Quotes,
         ~StartsLineComment(text, i), ~StartsBlockComment(text, i)
  PROVE  /\ m[i + 2] = "code" /\ Ready(m, text, i + 1) /\ ~IsComment(m, i)
         /\ CharAt(text, i) # "\n" => IsCode(m, i) /\ m[i + 1] = "code"
         /\ m[i + 1] \notin Quotes /\ m[i + 2] \in Complete
<1>0. Len(text) \in Nat /\ i \in Nat /\ i < Len(text)
  BY LenType
<1>1. "line" \notin Quotes /\ "code" \notin Quotes /\ "code" \notin CommentModes /\ "line" # "closing"
      /\ "line" # "code" /\ "code" # "closing" /\ "code" \in Complete
  BY ModesApart, Zenon DEF Quotes, Backtick, Complete
<1>2. m[i + 1] = "code" \/ (m[i + 1] = "line" /\ CharAt(text, i) = "\n")
  BY <1>0 DEF Ready
<1>3. m[i + 2] = "code"
  <2>1. CASE m[i + 1] = "code"
    BY <2>1, SymbolModes
  <2>2. CASE m[i + 1] = "line" /\ CharAt(text, i) = "\n"
    <3>1. m[i + 2] = NextMode("line", "\n", CharAt(text, i + 1))
      BY <2>2, ModeStep
    <3>2. QED
      BY <3>1, NextInLine
  <2>3. QED
    BY <1>2, <2>1, <2>2
<1>4. m[i + 1] \notin Quotes /\ m[i + 1] # "closing"
  BY <1>1, <1>2
<1>5. ~IsComment(m, i)
  BY <1>1, <1>3, <1>4 DEF IsComment
<1>6. Ready(m, text, i + 1)
  <2>1. (i + 1) + 1 = i + 2
    BY <1>0
  <2>2. QED
    BY <1>3, <1>4, <2>1 DEF Ready
<1>7. CharAt(text, i) # "\n" => IsCode(m, i) /\ m[i + 1] = "code"
  BY <1>2, <1>3 DEF IsCode
<1>8. QED
  BY <1>1, <1>3, <1>4, <1>5, <1>6, <1>7

-----------------------------------------------------------------------------
(***************************************************************************)
(* The first scanner and the reader of the reference, side by side.        *)
(***************************************************************************)
\* The reference is one of the source.
LEMMA ReferenceRead ==
  ASSUME Inv
  PROVE  /\ source \in Texts /\ Len(source) \in Nat
         /\ Reads(Modes, source) /\ Modes[1] = "code"
         /\ OpensRead(Nesting, Modes, source)
<1>1. source \in Texts /\ Len(source) \in Nat
  BY SourceIsText DEF Inv
<1>2. Reads(Modes, source) /\ Modes[1] = "code"
  BY <1>1, ModesRead DEF Modes
<1>3. OpensRead(Nesting, Modes, source)
  BY <1>1, OpensAreRead DEF Nesting
<1>4. QED
  BY <1>1, <1>2, <1>3

\* It stays as the source does.
LEMMA ReferenceStays ==
  ASSUME UNCHANGED source
  PROVE  Modes' = Modes /\ Nesting' = Nesting
BY DEF Modes, Nesting

\* No brackets, no cuts and no faults are in what is not code.
LEMMA TokenMoves ==
  ASSUME Inv, Scanning, NEW end, NEW comment, Passed(Modes, source, at, end, comment)
  PROVE  /\ Nesting[end + 1] = Nesting[at + 1]
         /\ \A j \in at..(end - 1) : j \notin Cuts(Modes, Nesting) /\ j \notin Unmatched(Modes, Nesting)
<1>1. at \in Nat /\ end \in Nat /\ at <= end /\ end <= Len(source)
  BY ScanningAt DEF Passed
<1>2. \A j \in at..(end - 1) : ~IsCode(Modes, j)
  BY DEF Passed
<1>3. \A i \in at..end : Nesting[i + 1] = Nesting[at + 1]
  BY <1>1, <1>2, ReferenceRead, OpensKept
<1>4. end \in at..end
  BY <1>1
<1>5. QED
  BY <1>2, <1>3, <1>4 DEF Cuts, Unmatched

\* Where the steps over a token go.
LEMMA TokenSteps ==
  ASSUME Inv, ScanInv, LineComment \/ BlockComment \/ Quoted
  PROVE  /\ Scanning /\ at' \in Nat /\ at < at' /\ at' <= Len(source)
         /\ Passed(Modes, source, at, at', LineComment \/ BlockComment)
         /\ UNCHANGED <<source, phase, stack, from, fragments, statements, current, matches, preview>>
<1>0. Scanning
  BY DEF LineComment, BlockComment, Quoted
<1>1. /\ source \in Texts /\ at \in 0..(Len(source) - 1) /\ phase = "fragments"
      /\ Reads(Modes, source)
  BY <1>0, ScanningAt, ReferenceRead
<1>2. Ready(Modes, source, at)
  BY <1>1 DEF ScanInv
<1>3. UNCHANGED <<source, phase, stack, from, fragments, statements, current, matches, preview>>
  BY DEF LineComment, BlockComment, Quoted
<1>4. CASE LineComment
  <2>1. StartsLineComment(source, at) /\ at' = LineCommentEnd(source, at)
    BY <1>4 DEF LineComment
  <2>2. Passed(Modes, source, at, at', TRUE)
    BY <1>1, <1>2, <2>1, LinePassed
  <2>3. QED
    BY <1>0, <1>3, <1>4, <2>2 DEF Passed
<1>5. CASE BlockComment
  <2>1. StartsBlockComment(source, at) /\ at' = BlockCommentEnd(source, at)
    BY <1>5 DEF BlockComment
  <2>2. Passed(Modes, source, at, at', TRUE)
    BY <1>1, <1>2, <2>1, BlockPassed
  <2>3. QED
    BY <1>0, <1>3, <1>5, <2>2 DEF Passed
<1>6. CASE Quoted
  <2>1. Char \in Quotes /\ at' = SkipQuoted(source, at, Char).end
    BY <1>6 DEF Quoted
  <2>2. Passed(Modes, source, at, at', FALSE)
    BY <1>1, <1>2, <2>1, QuotePassed DEF Char
  <2>3. ~LineComment /\ ~BlockComment
    BY <2>1, OneCase DEF LineComment, BlockComment, Char
  <2>4. QED
    BY <1>0, <1>3, <2>2, <2>3 DEF Passed
<1>7. QED
  BY <1>4, <1>5, <1>6

\* What the steps over one symbol find there.
LEMMA OneSymbolSteps ==
  ASSUME Inv, ScanInv, Open \/ Close \/ Terminator \/ OtherSymbol
  PROVE  /\ Scanning /\ at' = at + 1 /\ UNCHANGED <<source, phase>>
         /\ Modes[at + 2] = "code" /\ Ready(Modes, source, at + 1) /\ ~IsComment(Modes, at)
         /\ Open \/ Close \/ Terminator => IsCode(Modes, at) /\ Modes[at + 1] = "code"
         /\ Char # "\n" => IsCode(Modes, at) /\ Modes[at + 1] = "code"
         /\ Modes[at + 2] \in Complete
         /\ Nesting[at + 2] = Opened(stack, Symbol(source, Modes, at)) /\ stack = Nesting[at + 1]
<1>0. Scanning
  BY DEF Open, Close, Terminator, OtherSymbol
<1>1. /\ source \in Texts /\ at \in 0..(Len(source) - 1) /\ phase = "fragments"
      /\ Reads(Modes, source) /\ OpensRead(Nesting, Modes, source)
  BY <1>0, ScanningAt, ReferenceRead
<1>2. Ready(Modes, source, at) /\ stack = Nesting[at + 1]
  BY <1>1 DEF ScanInv
<1>3. at' = at + 1 /\ UNCHANGED <<source, phase>>
  BY DEF Open, Close, Terminator, OtherSymbol
<1>4. Open \/ Close \/ Terminator => Char \in Openers \cup Closers \cup {";"}
  BY DEF Open, Close, Terminator
<1>5. Char \notin Quotes /\ ~StartsLineComment(source, at) /\ ~StartsBlockComment(source, at)
  <2>1. CASE Open \/ Close \/ Terminator
    BY <1>4, <2>1, BracketsApart, OneCase DEF Char
  <2>2. CASE OtherSymbol
    BY <2>2 DEF OtherSymbol, InComment
  <2>3. QED
    BY <2>1, <2>2
<1>6. Open \/ Close \/ Terminator => Char # "\n"
  BY <1>4, NoNewline
<1>7. /\ Modes[at + 2] = "code" /\ Ready(Modes, source, at + 1) /\ ~IsComment(Modes, at)
      /\ CharAt(source, at) # "\n" => IsCode(Modes, at) /\ Modes[at + 1] = "code"
      /\ Modes[at + 2] \in Complete
  BY <1>1, <1>2, <1>5, SymbolPassed DEF Char
<1>8. Nesting[at + 2] = Opened(Nesting[at + 1], Symbol(source, Modes, at))
  BY <1>1 DEF OpensRead
<1>9. QED
  BY <1>0, <1>2, <1>3, <1>6, <1>7, <1>8 DEF Char

\* What the steps over one symbol make of the brackets is what the reader does.
LEMMA BracketsMove ==
  ASSUME Inv, ScanInv, Open \/ Close \/ Terminator \/ OtherSymbol
  PROVE  stack' = Nesting[at + 2]
<1>1. /\ Open \/ Close \/ Terminator => IsCode(Modes, at)
      /\ Nesting[at + 2] = Opened(stack, Symbol(source, Modes, at))
  BY OneSymbolSteps
<1>2. CASE Open
  <2>1. CharAt(source, at) \in Openers /\ stack' = Append(stack, [char |-> CharAt(source, at), offset |-> at])
    BY <1>2 DEF Open, Char
  <2>2. QED
    BY <1>1, <1>2, <2>1, OpenedCases
<1>3. CASE Close
  <2>1. /\ CharAt(source, at) \in Closers
        /\ stack' = IF Closes(CharAt(source, at)) THEN Front(stack) ELSE stack
    BY <1>3 DEF Close, Char
  <2>a. CharAt(source, at) \notin Openers
    BY <2>1, BracketsApart
  <2>2. CASE Closes(CharAt(source, at))
    <3>1. stack # <<>> /\ Last(stack).char = OpenerOf(CharAt(source, at))
      BY <2>2 DEF Closes
    <3>2. Opened(stack, Symbol(source, Modes, at)) = Front(stack)
      BY <1>1, <1>3, <2>1, <2>a, <3>1 DEF Opened, Symbol
    <3>3. QED
      BY <1>1, <2>1, <2>2, <3>2
  <2>3. CASE ~Closes(CharAt(source, at))
    <3>1. ~(stack # <<>> /\ Last(stack).char = OpenerOf(CharAt(source, at)))
      BY <2>3 DEF Closes
    <3>2. Opened(stack, Symbol(source, Modes, at)) = stack
      BY <2>a, <3>1 DEF Opened, Symbol
    <3>3. QED
      BY <1>1, <2>1, <2>3, <3>2
  <2>4. QED
    BY <2>2, <2>3
<1>4. CASE Terminator \/ OtherSymbol
  <2>1. stack' = stack
    BY <1>4 DEF Terminator, OtherSymbol
  <2>2. CharAt(source, at) \notin Openers /\ CharAt(source, at) \notin Closers
    BY <1>4, BracketsApart DEF Terminator, OtherSymbol, Char
  <2>3. Opened(stack, Symbol(source, Modes, at)) = stack
    BY <2>2 DEF Opened, Symbol
  <2>4. QED
    BY <1>1, <2>1, <2>3
<1>5. QED
  BY <1>2, <1>3, <1>4

\* The scanner and the reader stay side by side.
LEMMA ScanStep ==
  ASSUME Inv, ScanInv, LineComment \/ BlockComment \/ Quoted \/ Open \/ Close \/ Terminator \/ OtherSymbol
  PROVE  ScanInv'
<1>1. CASE LineComment \/ BlockComment \/ Quoted
  <2>1. /\ Scanning /\ at' \in Nat
        /\ Passed(Modes, source, at, at', LineComment \/ BlockComment)
        /\ UNCHANGED <<source, phase, stack, from>>
    BY <1>1, TokenSteps
  <2>2. Nesting[at' + 1] = Nesting[at + 1]
    BY <2>1, TokenMoves
  <2>3. Modes' = Modes /\ Nesting' = Nesting
    BY <2>1, ReferenceStays
  <2>4. Ready(Modes, source, at')
    BY <2>1 DEF Passed
  <2>5. QED
    BY <2>1, <2>2, <2>3, <2>4 DEF ScanInv
<1>2. CASE Open \/ Close \/ Terminator \/ OtherSymbol
  <2>1. /\ Scanning /\ at' = at + 1 /\ UNCHANGED <<source, phase>>
        /\ Modes[at + 2] = "code" /\ Ready(Modes, source, at + 1)
    BY <1>2, OneSymbolSteps
  <2>2. stack' = Nesting[at + 2]
    BY <1>2, BracketsMove
  <2>3. Modes' = Modes /\ Nesting' = Nesting
    BY <2>1, ReferenceStays
  <2>4. at \in Nat /\ (at + 1) + 1 = at + 2 /\ (at + 1) - 1 = at
    BY <2>1, ScanningAt
  <2>5. CASE Terminator
    <3>1. from' = at + 1 /\ stack' = <<>> /\ CharAt(source, at) = ";"
      BY <2>5 DEF Terminator, Char
    <3>2. QED
      BY <2>1, <2>2, <2>3, <2>4, <3>1 DEF ScanInv
  <2>6. CASE ~Terminator
    <3>1. from' = from
      BY <1>2, <2>6 DEF Open, Close, OtherSymbol
    <3>2. QED
      BY <2>1, <2>2, <2>3, <2>4, <3>1 DEF ScanInv
  <2>7. QED
    BY <2>5, <2>6
<1>3. QED
  BY <1>1, <1>2

\* What is new is between the old limit and the new one.
LEMMA Between ==
  ASSUME NEW a \in Nat, NEW b \in Nat
  PROVE  \A i \in Int : i < b /\ ~(i < a) <=> i \in a..(b - 1)
OBVIOUS

\* Comments are listed where the reader is in one.
LEMMA CommentsStep ==
  ASSUME Inv, ScanInv, CommentsInv,
         LineComment \/ BlockComment \/ Quoted \/ Open \/ Close \/ Terminator \/ OtherSymbol
  PROVE  CommentsInv'
<1> DEFINE Listing(list, i) == \E k \in DOMAIN list : i \in list[k].start..(list[k].end - 1)
<1>0. Scanning
  BY DEF LineComment, BlockComment, Quoted, Open, Close, Terminator, OtherSymbol
<1>1. at \in Nat /\ Len(source) \in Nat /\ phase = "fragments" /\ ReadTo = at
  BY <1>0, ScanningAt
<1>2. trivia \in Seq(Comment) /\ InLine(trivia, at)
  BY <1>1 DEF Inv, TriviaInv
<1>3. \A k \in DOMAIN trivia : trivia[k].start \in Nat /\ trivia[k].end \in Nat /\ trivia[k].end <= at
  <2>1. \A k \in DOMAIN trivia : trivia[k] \in Comment
    BY <1>2
  <2>2. QED
    BY <1>2, <2>1, SpansTyped DEF InLine
<1>4. \A i \in Offsets : i < at => (IsComment(Modes, i) <=> Listing(trivia, i))
  BY <1>1 DEF CommentsInv
<1>5. \A i \in Offsets : ~(i < at) => ~Listing(trivia, i)
  BY <1>1, <1>3 DEF Offsets
<1>6. /\ UNCHANGED <<source, phase>> /\ at' \in Nat /\ at < at'
      /\ ReadTo' = at' /\ Modes' = Modes /\ Offsets' = Offsets
  <2>1. UNCHANGED <<source, phase>> /\ at' \in Nat /\ at < at'
    BY <1>1, TokenSteps, OneSymbolSteps
  <2>2. QED
    BY <1>1, <2>1, ReferenceStays DEF ReadTo, Offsets
<1>a. \A i \in Int : i < at' /\ ~(i < at) => i \in at..(at' - 1)
  <2>1. at' \in Nat /\ at \in Nat
    BY <1>1, <1>6
  <2>2. QED
    BY <2>1, Between
<1>7. CASE LineComment \/ BlockComment
  <2>1. PICK kind : trivia' = Append(trivia, [kind |-> kind, start |-> at, end |-> at'])
    BY <1>7 DEF LineComment, BlockComment
  <2> DEFINE new == [kind |-> kind, start |-> at, end |-> at']
             n == Len(trivia)
  <2>2. n \in Nat /\ DOMAIN trivia = 1..n /\ DOMAIN trivia' = 1..(n + 1) /\ trivia'[n + 1] = new
        /\ \A k \in 1..n : trivia'[k] = trivia[k]
    BY <1>2, <2>1
  <2>3. new.start = at /\ new.end = at'
    OBVIOUS
  <2> HIDE DEF new, n
  <2>4. \A i : Listing(trivia', i) <=> Listing(trivia, i) \/ i \in at..(at' - 1)
    <3>1. \A k : k \in 1..(n + 1) <=> k \in 1..n \/ k = n + 1
      BY <2>2
    <3>2. QED
      BY <2>2, <2>3, <3>1
  <2>5. \A j \in at..(at' - 1) : IsComment(Modes, j)
    BY <1>7, TokenSteps DEF Passed
  <2>6. ASSUME NEW i \in Offsets, i < at'
        PROVE  IsComment(Modes, i) <=> Listing(trivia', i)
    <3>1. CASE i < at
      <4>1. i \notin at..(at' - 1)
        BY <1>1, <3>1
      <4>2. QED
        BY <1>4, <2>4, <3>1, <4>1
    <3>2. CASE ~(i < at)
      <4>0. i \in Int
        BY <1>1 DEF Offsets
      <4>1. i \in at..(at' - 1)
        BY <1>a, <2>6, <3>2, <4>0
      <4>2. QED
        BY <2>4, <2>5, <4>1
    <3>3. QED
      BY <3>1, <3>2
  <2>7. QED
    BY <1>6, <2>6 DEF CommentsInv
<1>8. CASE ~(LineComment \/ BlockComment)
  <2>1. trivia' = trivia
    BY <1>8 DEF Quoted, Open, Close, Terminator, OtherSymbol
  <2>2. \A j \in at..(at' - 1) : ~IsComment(Modes, j)
    <3>1. CASE Quoted
      BY <1>8, <3>1, TokenSteps DEF Passed
    <3>2. CASE Open \/ Close \/ Terminator \/ OtherSymbol
      <4>1. at' = at + 1 /\ ~IsComment(Modes, at)
        BY <3>2, OneSymbolSteps
      <4>2. \A j \in at..(at' - 1) : j = at
        BY <1>1, <4>1
      <4>3. QED
        BY <4>1, <4>2
    <3>3. QED
      BY <1>8, <3>1, <3>2
  <2>3. ASSUME NEW i \in Offsets, i < at'
        PROVE  IsComment(Modes, i) <=> Listing(trivia', i)
    <3>1. CASE i < at
      BY <1>4, <2>1, <3>1
    <3>2. CASE ~(i < at)
      <4>0. i \in Int
        BY <1>1 DEF Offsets
      <4>1. i \in at..(at' - 1)
        BY <1>a, <2>3, <3>2, <4>0
      <4>2. QED
        BY <1>5, <2>1, <2>2, <3>2, <4>1
    <3>3. QED
      BY <3>1, <3>2
  <2>4. QED
    BY <1>6, <2>3 DEF CommentsInv
<1>9. QED
  BY <1>7, <1>8

-----------------------------------------------------------------------------
(***************************************************************************)
(* The cuts.                                                               *)
(***************************************************************************)
\* The source stays, so what is exact of the new lists is so in the new state.
LEMMA CutsExactNext ==
  ASSUME UNCHANGED source, CutsExact(statements', fragments', ReadTo')
  PROVE  CutsInv'
<1>1. Modes' = Modes /\ Nesting' = Nesting
  BY ReferenceStays
<1>2. Cuts(Modes, Nesting)' = Cuts(Modes, Nesting)
  BY <1>1 DEF Cuts, Offsets
<1>3. \A a, b : Inked(Modes, a, b)' <=> Inked(Modes, a, b)
  BY <1>1 DEF Inked
<1>4. \A k \in DOMAIN statements' : IsCut(statements[k])'
  BY <1>1 DEF CutsExact, IsCut
<1>5. QED
  BY <1>2, <1>3, <1>4 DEF CutsInv, CutsExact

\* A list and one element more.
Longer(list, new, x) ==
  \E n \in Nat : /\ DOMAIN list = 1..n /\ DOMAIN new = 1..(n + 1) /\ new[n + 1] = x
                 /\ \A k \in 1..n : new[k] = list[k]

LEMMA OneMore ==
  ASSUME NEW S, NEW list \in Seq(S), NEW x \in S
  PROVE  Longer(list, Append(list, x), x) /\ Append(list, x) \in Seq(S)
<1> DEFINE new == Append(list, x)
           n == Len(list)
<1>1. n \in Nat /\ DOMAIN list = 1..n /\ DOMAIN new = 1..(n + 1) /\ new[n + 1] = x
      /\ new \in Seq(S) /\ \A k \in 1..n : new[k] = list[k]
  OBVIOUS
<1> HIDE DEF new, n
<1>2. Longer(list, new, x)
  BY <1>1 DEF Longer
<1>3. QED
  BY <1>1, <1>2 DEF new

\* One more span.
LEMMA SpansLonger ==
  ASSUME NEW list, NEW new, NEW x, Longer(list, new, x)
  PROVE  /\ Spans(new) = Spans(list) \cup {<<x.start, x.end>>}
         /\ \A k \in DOMAIN new : (k \in DOMAIN list /\ new[k] = list[k]) \/ new[k] = x
<1>1. PICK n \in Nat : /\ DOMAIN list = 1..n /\ DOMAIN new = 1..(n + 1) /\ new[n + 1] = x
                       /\ \A k \in 1..n : new[k] = list[k]
  BY DEF Longer
<1>2. \A k : k \in 1..(n + 1) <=> k \in 1..n \/ k = n + 1
  BY <1>1
<1>3. QED
  BY <1>1, <1>2 DEF Spans

\* It is of one kind.
LEMMA KindLonger ==
  ASSUME NEW list, NEW new, NEW x, Longer(list, new, x), NEW kind
  PROVE  /\ x.kind = kind => SpansOf(new, kind) = SpansOf(list, kind) \cup {<<x.start, x.end>>}
         /\ x.kind # kind => SpansOf(new, kind) = SpansOf(list, kind)
<1>1. PICK n \in Nat : /\ DOMAIN list = 1..n /\ DOMAIN new = 1..(n + 1) /\ new[n + 1] = x
                       /\ \A k \in 1..n : new[k] = list[k]
  BY DEF Longer
<1>2. \A k : k \in 1..(n + 1) <=> k \in 1..n \/ k = n + 1
  BY <1>1
<1>3. ASSUME NEW span, span \in SpansOf(new, kind)
      PROVE  span \in SpansOf(list, kind) \/ (x.kind = kind /\ span = <<x.start, x.end>>)
  <2>1. PICK k \in 1..(n + 1) : new[k].kind = kind /\ span = <<new[k].start, new[k].end>>
    BY <1>1, <1>3 DEF SpansOf
  <2>2. CASE k \in 1..n
    BY <1>1, <2>1, <2>2 DEF SpansOf
  <2>3. CASE k = n + 1
    BY <1>1, <2>1, <2>3
  <2>4. QED
    BY <1>2, <2>2, <2>3
<1>4. SpansOf(list, kind) \subseteq SpansOf(new, kind)
  BY <1>1, <1>2 DEF SpansOf
<1>5. x.kind = kind => <<x.start, x.end>> \in SpansOf(new, kind)
  BY <1>1, <1>2 DEF SpansOf
<1>6. QED
  BY <1>3, <1>4, <1>5

\* Lists with the same spans have the same set of spans, and are cut the same.
LEMMA SameSpans ==
  ASSUME NEW s, NEW t, DOMAIN s = DOMAIN t,
         \A k \in DOMAIN s : s[k].start = t[k].start /\ s[k].end = t[k].end
  PROVE  /\ Spans(s) = Spans(t)
         /\ (\A k \in DOMAIN s : IsCut(s[k])) <=> (\A k \in DOMAIN t : IsCut(t[k]))
<1>1. Spans(s) = Spans(t)
  BY DEF Spans
<1>2. \A k \in DOMAIN s : IsCut(s[k]) <=> IsCut(t[k])
  BY DEF IsCut
<1>3. QED
  BY <1>1, <1>2

\* A terminator changes no span of a statement.
LEMMA TerminatedSpans ==
  ASSUME NEW list \in Seq(Statement)
  PROVE  /\ DOMAIN Terminated(list) = DOMAIN list
         /\ \A k \in DOMAIN list : /\ Terminated(list)[k].start = list[k].start
                                   /\ Terminated(list)[k].end = list[k].end
<1> DEFINE new == Terminated(list)
           n == Len(list)
<1>1. n \in Nat /\ DOMAIN list = 1..n
  OBVIOUS
<1>2. CASE new = list
  BY <1>2
<1>3. CASE new # list
  <2>1. n \in 1..n /\ new = [list EXCEPT ![n].terminator = at]
    BY <1>1, <1>3 DEF Terminated
  <2> HIDE DEF new
  <2>2. DOMAIN new = 1..n /\ \A k \in 1..n : k # n => new[k] = list[k]
    BY <1>1, <2>1
  <2>3. new[n] = [list[n] EXCEPT !.terminator = at]
    BY <1>1, <2>1
  <2>4. list[n] \in Statement
    BY <1>1, <2>1
  <2>5. new[n].start = list[n].start /\ new[n].end = list[n].end
    BY <2>3, <2>4 DEF Statement
  <2>6. QED
    BY <1>1, <2>2, <2>5 DEF new
<1>4. QED
  BY <1>2, <1>3

\* The fragment that ends at a semicolon in code or with the text.
LEMMA FragmentCut ==
  ASSUME Inv, ScanInv, phase = "fragments", NEW end \in Nat, from <= end, end <= Len(source),
         end = Len(source) \/ CharAt(source, end) = ";"
  PROVE  NewFragment(from, end).kind = "statement" <=> Inked(Modes, from, end)
<1>1. source \in Texts /\ Reads(Modes, source) /\ Modes[from + 1] = "code" /\ from \in Nat
  BY ReferenceRead DEF Inv, PhaseInv, ScanInv
<1>2. end = Len(source) \/ CharAt(source, end) \notin {"/", "*"}
  BY Zenon
<1>3. HasCypherCode(Slice(source, from, end)) <=> \E i \in from..(end - 1) : InkAt(Modes, source, i)
  BY <1>1, <1>2, CodeInk
<1>4. "statement" # "trivia"
  OBVIOUS
<1>5. NewFragment(from, end).kind = "statement" <=> HasCypherCode(Slice(source, from, end))
  BY <1>4 DEF NewFragment
<1>6. QED
  BY <1>3, <1>5 DEF Inked, InkAt

\* One more fragment, which is no terminator, and a statement if it is one.
LEMMA CutsLonger ==
  ASSUME NEW listed, NEW cut, NEW limit, CutsExact(listed, cut, limit),
         NEW new, NEW x, Longer(cut, new, x), x.kind # "terminator",
         x.kind = "statement" <=> Inked(Modes, x.start, x.end),
         NEW more, NEW s,
         x.kind = "statement" =>
           Longer(listed, more, s) /\ s.start = x.start /\ s.end = x.end /\ IsCut(s),
         x.kind # "statement" => more = listed
  PROVE  CutsExact(more, new, limit)
<1>1. SpansOf(new, "terminator") = SpansOf(cut, "terminator")
  BY KindLonger
<1>2. Spans(more) = SpansOf(new, "statement")
  <2>1. Spans(listed) = SpansOf(cut, "statement")
    BY DEF CutsExact
  <2>2. CASE x.kind = "statement"
    <3>1. Spans(more) = Spans(listed) \cup {<<s.start, s.end>>}
      BY <2>2, SpansLonger
    <3>2. SpansOf(new, "statement") = SpansOf(cut, "statement") \cup {<<x.start, x.end>>}
      BY <2>2, KindLonger
    <3>3. QED
      BY <2>1, <2>2, <3>1, <3>2
  <2>3. CASE x.kind # "statement"
    <3>1. SpansOf(new, "statement") = SpansOf(cut, "statement")
      BY <2>3, KindLonger
    <3>2. QED
      BY <2>1, <2>3, <3>1
  <2>4. QED
    BY <2>2, <2>3
<1>3. ASSUME NEW k \in DOMAIN new, new[k].kind # "terminator"
      PROVE  new[k].kind = "statement" <=> Inked(Modes, new[k].start, new[k].end)
  <2>1. (k \in DOMAIN cut /\ new[k] = cut[k]) \/ new[k] = x
    BY SpansLonger
  <2>2. CASE k \in DOMAIN cut /\ new[k] = cut[k]
    BY <1>3, <2>2 DEF CutsExact
  <2>3. CASE new[k] = x
    BY <2>3
  <2>4. QED
    BY <2>1, <2>2, <2>3
<1>4. ASSUME NEW k \in DOMAIN more
      PROVE  IsCut(more[k])
  <2>1. CASE x.kind = "statement"
    <3>1. (k \in DOMAIN listed /\ more[k] = listed[k]) \/ more[k] = s
      BY <2>1, SpansLonger
    <3>2. CASE k \in DOMAIN listed /\ more[k] = listed[k]
      BY <3>2 DEF CutsExact
    <3>3. CASE more[k] = s
      BY <2>1, <3>3
    <3>4. QED
      BY <3>1, <3>2, <3>3
  <2>2. CASE x.kind # "statement"
    BY <2>2 DEF CutsExact
  <2>3. QED
    BY <2>1, <2>2
<1>5. QED
  BY <1>1, <1>2, <1>3, <1>4 DEF CutsExact

\* A sequence and nothing more.
LEMMA JoinNone ==
  ASSUME NEW S, NEW s \in Seq(S)
  PROVE  s \o <<>> = s
OBVIOUS

\* A span of a statement that is cut.
LEMMA NewStatement ==
  ASSUME NEW a \in Nat, NEW b \in Nat
  PROVE  LET s == [start |-> a, end |-> b, terminator |-> None, clauses |-> <<>>]
         IN  s \in Statement /\ s.start = a /\ s.end = b
BY DEF Statement, None

\* The rest up to a cut is a fragment, and a statement if there is something in it.
LEMMA CutsUpTo ==
  ASSUME Inv, ScanInv, CutsInv, phase = "fragments", NEW end \in Nat, from <= end, end <= Len(source),
         end = Len(source) \/ CharAt(source, end) = ";"
  PROVE  /\ CutsExact(StatementsUpTo(end), fragments \o FragmentsUpTo(end), at)
         /\ fragments \o FragmentsUpTo(end) \in Seq(Fragment)
         /\ StatementsUpTo(end) \in Seq(Statement)
<1> DEFINE x == NewFragment(from, end)
           s == [start |-> from, end |-> end, terminator |-> None, clauses |-> <<>>]
           cut == fragments \o FragmentsUpTo(end)
           listed == StatementsUpTo(end)
<1>1. CutsExact(statements, fragments, at)
  BY DEF CutsInv, ReadTo
<1>2. cut \in Seq(Fragment) /\ listed \in Seq(Statement)
  BY FragmentsAdded, StatementsAdded DEF Listed
<1>3. fragments \in Seq(Fragment) /\ statements \in Seq(Statement) /\ from \in Nat
  BY DEF Inv, FragmentsInv, StatementsInv, PhaseInv
<1>4. CASE end <= from
  <2>1. FragmentsUpTo(end) = <<>> /\ listed = statements
    BY <1>4 DEF FragmentsUpTo, StatementsUpTo
  <2>3. cut = fragments
    BY <1>3, <2>1, JoinNone
  <2>2. QED
    BY <1>1, <1>3, <2>1, <2>3
<1>5. CASE ~(end <= from)
  <2>1. x \in Fragment /\ x.start = from /\ x.end = end /\ x.kind \in {"statement", "trivia"}
    BY <1>3 DEF NewFragment, Fragment
  <2>2. s \in Statement /\ s.start = from /\ s.end = end
    <3>1. end \in Nat /\ from \in Nat
      BY <1>3
    <3>2. QED
      BY <3>1, NewStatement
  <2>3. x.kind = "statement" <=> Inked(Modes, from, end)
    BY FragmentCut
  <2>4. IsCut(s)
    BY <2>2 DEF IsCut, ScanInv
  <2>5. cut = fragments \o <<x>> /\ listed = IF x.kind = "statement" THEN Append(statements, s) ELSE statements
    <3>1. FragmentsUpTo(end) = <<x>> /\ StatementsUpTo(end) = WithStatement(x)
      BY <1>5 DEF FragmentsUpTo, StatementsUpTo
    <3> HIDE DEF x
    <3>2. WithStatement(x) = IF x.kind = "statement" THEN Append(statements, s) ELSE statements
      BY <2>1 DEF WithStatement
    <3>3. QED
      BY <3>1, <3>2
  <2> HIDE DEF x, s, cut, listed
  <2>6. cut = Append(fragments, x)
    BY <1>3, <2>1, <2>5, JoinOne
  <2>7. Longer(fragments, cut, x)
    BY <1>3, <2>1, <2>6, OneMore
  <2>a. x.kind = "statement" => Longer(statements, listed, s)
    BY <1>3, <2>2, <2>5, OneMore
  <2>8. x.kind # "statement" => listed = statements
    BY <2>5
  <2>9. x.kind # "terminator"
    BY <2>1
  <2>10. CutsExact(listed, cut, at)
    BY <1>1, <2>1, <2>2, <2>3, <2>4, <2>7, <2>8, <2>9, <2>a, CutsLonger
  <2>11. QED
    BY <1>2, <2>10 DEF cut, listed
<1>6. QED
  BY <1>4, <1>5

\* A cut is an offset.
LEMMA CutsAreOffsets ==
  ASSUME Len(source) \in Nat
  PROVE  \A j \in Cuts(Modes, Nesting) : j \in Int
<1>1. \A j \in Offsets : j \in Int
  BY DEF Offsets
<1>2. Cuts(Modes, Nesting) \subseteq Offsets
  BY DEF Cuts
<1>3. QED
  BY <1>1, <1>2

\* The first scanner cuts where the reader cuts.
LEMMA CutsStep ==
  ASSUME Inv, ScanInv, CutsInv,
         LineComment \/ BlockComment \/ Quoted \/ Open \/ Close \/ OtherSymbol
  PROVE  CutsInv'
<1>0. Scanning /\ UNCHANGED <<source, phase, fragments, statements>>
  BY DEF LineComment, BlockComment, Quoted, Open, Close, OtherSymbol
<1>1. at \in Nat /\ Len(source) \in Nat /\ phase = "fragments" /\ ReadTo = at /\ ReadTo' = at'
  BY <1>0, ScanningAt DEF ReadTo
<1>2. at' \in Nat /\ at < at'
  BY <1>1, TokenSteps, OneSymbolSteps
<1>3. \A j \in at..(at' - 1) : j \notin Cuts(Modes, Nesting)
  <2>1. CASE LineComment \/ BlockComment \/ Quoted
    <3>1. Passed(Modes, source, at, at', LineComment \/ BlockComment)
      BY <2>1, TokenSteps
    <3>2. QED
      BY <1>0, <3>1, TokenMoves
  <2>2. CASE Open \/ Close \/ OtherSymbol
    <3>1. at' = at + 1 /\ stack = Nesting[at + 1]
      BY <2>2, OneSymbolSteps
    <3>2. CharAt(source, at) = ";" => stack # <<>>
      BY <2>2, BracketsApart DEF Open, Close, OtherSymbol, Char
    <3>3. at \notin Cuts(Modes, Nesting)
      BY <3>1, <3>2 DEF Cuts
    <3>4. \A j \in at..(at' - 1) : j = at
      BY <1>1, <3>1
    <3>5. QED
      BY <3>3, <3>4
  <2>3. QED
    BY <2>1, <2>2
<1>4. {j \in Cuts(Modes, Nesting) : j < at'} = {j \in Cuts(Modes, Nesting) : j < at}
  <2>1. \A j \in Cuts(Modes, Nesting) : j \in Int
    BY <1>1, CutsAreOffsets
  <2>2. \A j \in Cuts(Modes, Nesting) : j < at' => j < at
    BY <1>1, <1>2, <1>3, <2>1, Between
  <2>3. \A j \in Cuts(Modes, Nesting) : j < at => j < at'
    BY <1>1, <1>2, <2>1
  <2>4. QED
    BY <2>2, <2>3
<1>5. CutsExact(statements, fragments, at')
  BY <1>1, <1>4 DEF CutsInv, CutsExact
<1>6. QED
  BY <1>0, <1>1, <1>5, CutsExactNext

\* A terminator is a cut.
LEMMA CutsTerminatorStep ==
  ASSUME Inv, ScanInv, CutsInv, Terminator
  PROVE  CutsInv'
<1> DEFINE x == [kind |-> "terminator", start |-> at, end |-> at + 1]
           cut == fragments \o FragmentsUpTo(at)
           listed == StatementsUpTo(at)
<1>0. Scanning
  BY DEF Terminator
<1>1. /\ at \in Nat /\ at \in Offsets /\ Len(source) \in Nat /\ phase = "fragments"
      /\ at <= Len(source) /\ from \in Nat /\ from <= at
  BY <1>0, ScanningAt
<1>2. /\ CharAt(source, at) = ";" /\ stack = <<>> /\ at' = at + 1
      /\ UNCHANGED <<source, phase>>
      /\ fragments' = cut \o <<x>> /\ statements' = Terminated(listed)
  BY DEF Terminator, Char
<1>3. CutsExact(listed, cut, at) /\ cut \in Seq(Fragment) /\ listed \in Seq(Statement)
  BY <1>1, <1>2, CutsUpTo
<1>4. x \in Fragment /\ x.start = at /\ x.end = at + 1 /\ x.kind = "terminator"
  BY <1>1 DEF Fragment
<1>5. at \in Cuts(Modes, Nesting)
  BY <1>1, <1>2, OneSymbolSteps DEF Cuts
<1> HIDE DEF x, cut, listed
<1>6. fragments' = Append(cut, x)
  BY <1>2, <1>3, <1>4, JoinOne
<1>a. Longer(cut, fragments', x)
  BY <1>3, <1>4, <1>6, OneMore
<1>7. SpansOf(fragments', "terminator") = SpansOf(cut, "terminator") \cup {<<at, at + 1>>}
  BY <1>4, <1>a, KindLonger
<1>8. SpansOf(fragments', "statement") = SpansOf(cut, "statement")
  <2>1. x.kind # "statement"
    BY <1>4
  <2>2. QED
    BY <1>a, <2>1, KindLonger
<1>9. Spans(statements') = Spans(listed) /\ \A k \in DOMAIN statements' : IsCut(statements'[k])
  <2>1. /\ DOMAIN statements' = DOMAIN listed
        /\ \A k \in DOMAIN listed : /\ statements'[k].start = listed[k].start
                                    /\ statements'[k].end = listed[k].end
    BY <1>2, <1>3, TerminatedSpans
  <2>2. \A k \in DOMAIN listed : IsCut(listed[k])
    BY <1>3 DEF CutsExact
  <2>3. QED
    BY <2>1, <2>2, SameSpans
<1>10. {<<i, i + 1>> : i \in {j \in Cuts(Modes, Nesting) : j < at + 1}}
         = {<<i, i + 1>> : i \in {j \in Cuts(Modes, Nesting) : j < at}} \cup {<<at, at + 1>>}
  <2>1. \A j \in Cuts(Modes, Nesting) : j \in Int
    BY <1>1, CutsAreOffsets
  <2>2. \A j \in Cuts(Modes, Nesting) : j < at + 1 <=> j < at \/ j = at
    BY <1>1, <2>1
  <2>3. QED
    BY <1>5, <2>2
<1>11. \A k \in DOMAIN fragments' : (k \in DOMAIN cut /\ fragments'[k] = cut[k]) \/ fragments'[k] = x
  BY <1>a, SpansLonger
<1>12. \A k \in DOMAIN fragments' :
         fragments'[k].kind # "terminator" =>
           (fragments'[k].kind = "statement" <=> Inked(Modes, fragments'[k].start, fragments'[k].end))
  BY <1>3, <1>4, <1>11 DEF CutsExact
<1>13. CutsExact(statements', fragments', at')
  BY <1>2, <1>3, <1>7, <1>8, <1>9, <1>10, <1>12 DEF CutsExact
<1>14. ReadTo' = at'
  BY <1>1, <1>2 DEF ReadTo
<1>15. QED
  BY <1>2, <1>13, <1>14, CutsExactNext

\* The last fragment ends with the text.
LEMMA CutsEndStep ==
  ASSUME Inv, ScanInv, CutsInv, EndOfSource
  PROVE  CutsInv'
<1>1. /\ Len(source) \in Nat /\ phase = "fragments" /\ at = Len(source) /\ from \in Nat /\ from <= at
  BY SourceIsText DEF EndOfSource, Inv, PhaseInv, ReadTo
<1>2. /\ fragments' = fragments \o FragmentsUpTo(at) /\ statements' = StatementsUpTo(at)
      /\ UNCHANGED source /\ phase' \in {"preview", "clauses"}
  BY DEF EndOfSource
<1>3. ReadTo' = at
  BY <1>1, <1>2 DEF ReadTo
<1>a. at \in Nat
  BY <1>1
<1>4. CutsExact(statements', fragments', at)
  <2>1. at <= Len(source) /\ (at = Len(source) \/ CharAt(source, at) = ";")
    BY <1>1
  <2>2. CutsExact(StatementsUpTo(at), fragments \o FragmentsUpTo(at), at)
    BY <1>1, <1>a, <2>1, CutsUpTo
  <2>3. QED
    BY <1>2, <2>2
<1>5. QED
  BY <1>2, <1>3, <1>4, CutsExactNext

\* After the cut nothing changes it.
LEMMA CutsLaterStep ==
  ASSUME CutsInv, phase # "fragments", phase' # "fragments", UNCHANGED <<source, fragments>>,
         DOMAIN statements' = DOMAIN statements,
         \A k \in DOMAIN statements : /\ statements'[k].start = statements[k].start
                                      /\ statements'[k].end = statements[k].end
  PROVE  CutsInv'
<1>1. ReadTo = Len(source) /\ ReadTo' = Len(source)
  BY DEF ReadTo
<1>2. /\ Spans(statements') = Spans(statements)
      /\ (\A k \in DOMAIN statements' : IsCut(statements'[k]))
           <=> (\A k \in DOMAIN statements : IsCut(statements[k]))
  BY SameSpans
<1>3. CutsExact(statements', fragments', Len(source))
  BY <1>1, <1>2 DEF CutsInv, CutsExact
<1>4. QED
  BY <1>1, <1>3, CutsExactNext

-----------------------------------------------------------------------------
(***************************************************************************)
(* The faults.                                                             *)
(***************************************************************************)
\* The source stays, and what is missing stays so.
LEMMA ExpectedStays ==
  ASSUME UNCHANGED source
  PROVE  /\ \A n : Expected(n)' = Expected(n)
         /\ \A n : Unterminated(n)' = Unterminated(n)
         /\ Unmatched(Modes, Nesting)' = Unmatched(Modes, Nesting) /\ Unclosed' = Unclosed
<1>1. Modes' = Modes /\ Nesting' = Nesting /\ Offsets' = Offsets
  BY ReferenceStays DEF Offsets
<1>2. Begins(Modes)' = Begins(Modes)
  BY <1>1 DEF Begins, Doubled
<1>3. Unmatched(Modes, Nesting)' = Unmatched(Modes, Nesting)
  BY <1>1 DEF Unmatched
<1>4. QED
  BY <1>1, <1>2, <1>3 DEF Expected, Unterminated, UnmatchedTo, Unclosed

\* A greatest number.
LEMMA MaxIs ==
  ASSUME NEW S, S \subseteq Nat, NEW m \in S, \A y \in S : y <= m
  PROVE  Max(S) = m
<1>1. PICK x \in S : x = Max(S) /\ \A y \in S : x >= y
  BY DEF Max
<1>2. x >= m /\ x <= m /\ x \in Nat /\ m \in Nat
  BY <1>1
<1>3. QED
  BY <1>1, <1>2

\* What never ends begins last.
LEMMA EndlessBegins ==
  ASSUME Inv, Scanning, Ready(Modes, source, at), Endless(Modes, source, at)
  PROVE  Max(Begins(Modes)) = at
<1>1. at \in Nat /\ Len(source) \in Nat /\ at \in Offsets /\ at < Len(source)
  BY ScanningAt DEF Scanning
<1>2. \A i \in Offsets : i \in Nat /\ i < Len(source)
  BY <1>1 DEF Offsets
<1>3. at \notin Doubled(Modes)
  BY <1>1 DEF Ready, Doubled
<1>4. at \in Begins(Modes)
  BY <1>1, <1>3 DEF Begins, Endless
<1>5. ASSUME NEW i \in Begins(Modes)
      PROVE  i <= at
  <2>1. i \in Offsets /\ i \in Nat /\ i < Len(source) /\ i \notin Doubled(Modes) /\ Modes[i + 1] = "code"
    BY <1>2 DEF Begins
  <2>2. SUFFICES ASSUME ~(i <= at)
                 PROVE  FALSE
    OBVIOUS
  <2>3. i \in (at + 1)..(Len(source) - 1) /\ i > 0
    BY <1>1, <2>1, <2>2
  <2>4. Modes[i] \in Quotes /\ CharAt(source, i - 1) = CharAt(source, i)
    BY <2>1, <2>3 DEF Endless
  <2>5. QED
    BY <2>1, <2>3, <2>4 DEF Doubled
<1>6. Begins(Modes) \subseteq Nat
  BY <1>2 DEF Begins
<1> HIDE DEF Begins
<1>7. QED
  BY <1>4, <1>5, <1>6, MaxIs

\* No closing bracket without an opening one, no fault.
LEMMA FaultsStay ==
  ASSUME Inv, FaultsInv, Scanning, UNCHANGED <<source, phase, faults>>, at' \in Nat, at < at',
         Expected(at') = Expected(at)
  PROVE  FaultsInv'
<1>1. at \in Nat /\ phase = "fragments"
  BY ScanningAt
<1>2. /\ faults \in Seq(Faults)
      /\ \A k \in DOMAIN faults : faults[k].offset < at
      /\ \A j, k \in DOMAIN faults : j < k => faults[j].offset < faults[k].offset
      /\ ToSet(faults) = Expected(at)
  BY <1>1 DEF FaultsInv
<1>3. \A k \in DOMAIN faults : faults[k].offset \in Nat
  <2>1. \A k \in DOMAIN faults : faults[k] \in Faults
    BY <1>2
  <2>2. \A f \in Faults : f.offset \in Nat
    BY DEF Faults
  <2>3. QED
    BY <2>1, <2>2
<1>4. \A k \in DOMAIN faults : faults[k].offset < at'
  BY <1>1, <1>2, <1>3
<1>5. Expected(at)' = Expected(at)
  <2>1. \A n : Expected(n)' = Expected(n)
    BY ExpectedStays
  <2>2. QED
    BY <2>1
<1>6. QED
  BY <1>1, <1>2, <1>4, <1>5 DEF FaultsInv

\* A list and one element more has one element more.
LEMMA ElementsLonger ==
  ASSUME NEW list, NEW new, NEW x, Longer(list, new, x)
  PROVE  ToSet(new) = ToSet(list) \cup {x}
<1>1. PICK n \in Nat : /\ DOMAIN list = 1..n /\ DOMAIN new = 1..(n + 1) /\ new[n + 1] = x
                       /\ \A k \in 1..n : new[k] = list[k]
  BY DEF Longer
<1>2. \A k : k \in 1..(n + 1) <=> k \in 1..n \/ k = n + 1
  BY <1>1
<1>3. QED
  BY <1>1, <1>2 DEF ToSet

\* A fault has its parts.
LEMMA FaultParts ==
  ASSUME NEW code, NEW offset
  PROVE  /\ Fault(code, offset).code = code /\ Fault(code, offset).offset = offset
         /\ code \in FaultCodes /\ offset \in Nat => Fault(code, offset) \in Faults
BY DEF Fault, Faults

\* A fault is reported where it is one.
LEMMA FaultsMore ==
  ASSUME Inv, FaultsInv, Scanning, UNCHANGED <<source, phase>>, at' \in Nat, at < at',
         NEW code \in FaultCodes, faults' = Append(faults, Fault(code, at)),
         Expected(at') = Expected(at) \cup {Fault(code, at)}
  PROVE  FaultsInv'
<1> DEFINE x == Fault(code, at)
<1>1. at \in Nat /\ phase = "fragments"
  BY ScanningAt
<1>2. /\ faults \in Seq(Faults)
      /\ \A k \in DOMAIN faults : faults[k].offset < at
      /\ \A j, k \in DOMAIN faults : j < k => faults[j].offset < faults[k].offset
      /\ ToSet(faults) = Expected(at)
  BY <1>1 DEF FaultsInv
<1>3. \A k \in DOMAIN faults : faults[k].offset \in Nat
  <2>1. \A k \in DOMAIN faults : faults[k] \in Faults
    BY <1>2
  <2>2. \A f \in Faults : f.offset \in Nat
    BY DEF Faults
  <2>3. QED
    BY <2>1, <2>2
<1>4. x \in Faults /\ x.offset = at
  BY <1>1, FaultParts
<1>a. faults' = Append(faults, x)
  OBVIOUS
<1> HIDE DEF x
<1>5. Longer(faults, faults', x) /\ faults' \in Seq(Faults)
  BY <1>2, <1>4, <1>a, OneMore
<1>6. PICK n \in Nat : /\ DOMAIN faults = 1..n /\ DOMAIN faults' = 1..(n + 1) /\ faults'[n + 1] = x
                       /\ \A k \in 1..n : faults'[k] = faults[k]
  BY <1>5 DEF Longer
<1>7. \A k : k \in 1..(n + 1) <=> k \in 1..n \/ k = n + 1
  BY <1>6
<1>8. \A k \in DOMAIN faults' : faults'[k].offset < at'
  <2>1. \A k \in 1..n : faults'[k].offset < at'
    BY <1>1, <1>2, <1>3, <1>6
  <2>2. QED
    BY <1>4, <1>6, <1>7, <2>1
<1>9. ASSUME NEW j \in 1..(n + 1), NEW k \in 1..(n + 1), j < k
      PROVE  faults'[j].offset < faults'[k].offset
  <2>1. j \in 1..n
    BY <1>6, <1>9
  <2>2. CASE k \in 1..n
    BY <1>2, <1>6, <1>9, <2>1, <2>2
  <2>3. CASE k = n + 1
    BY <1>2, <1>4, <1>6, <2>1, <2>3
  <2>4. QED
    BY <1>7, <2>2, <2>3
<1>10. ToSet(faults') = Expected(at)'
  <2>1. ToSet(faults') = ToSet(faults) \cup {x}
    BY <1>5, ElementsLonger
  <2>2. ToSet(faults') = Expected(at')
    BY <1>2, <2>1 DEF x
  <2>3. \A m : Expected(m)' = Expected(m)
    BY ExpectedStays
  <2>4. QED
    BY <2>2, <2>3
<1>11. QED
  BY <1>1, <1>5, <1>6, <1>8, <1>9, <1>10 DEF FaultsInv

\* Nothing is unmatched in what is passed.
LEMMA NothingUnmatched ==
  ASSUME Inv, Scanning, NEW end \in Nat, at < end,
         \A j \in at..(end - 1) : j \notin Unmatched(Modes, Nesting)
  PROVE  UnmatchedTo(end) = UnmatchedTo(at)
<1>1. at \in Nat
  BY ScanningAt
<1>2. \A j \in Unmatched(Modes, Nesting) : j \in Int
  <2>1. \A j \in Offsets : j \in Int
    BY ScanningAt DEF Offsets
  <2>2. Unmatched(Modes, Nesting) \subseteq Offsets
    BY DEF Unmatched
  <2>3. QED
    BY <2>1, <2>2
<1>3. \A j \in Unmatched(Modes, Nesting) : j < end <=> j < at
  BY <1>1, <1>2
<1>4. QED
  BY <1>3 DEF UnmatchedTo

\* One more is.
LEMMA OneUnmatched ==
  ASSUME Inv, Scanning, at \in Unmatched(Modes, Nesting)
  PROVE  UnmatchedTo(at + 1) = UnmatchedTo(at) \cup {at}
<1>1. at \in Nat
  BY ScanningAt
<1>2. \A j \in Unmatched(Modes, Nesting) : j \in Int
  <2>1. \A j \in Offsets : j \in Int
    BY ScanningAt DEF Offsets
  <2>2. Unmatched(Modes, Nesting) \subseteq Offsets
    BY DEF Unmatched
  <2>3. QED
    BY <2>1, <2>2
<1>3. \A j \in Unmatched(Modes, Nesting) : j < at + 1 <=> j < at \/ j = at
  BY <1>1, <1>2
<1>4. QED
  BY <1>3 DEF UnmatchedTo

\* Where the scanner stands nothing is unterminated yet.
LEMMA NothingUnterminated ==
  ASSUME Scanning, Ready(Modes, source, at)
  PROVE  Unterminated(at) = {}
<1>1. Modes[at + 1] \in {"code", "line"}
  BY DEF Ready, Scanning
<1>2. Modes[at + 1] \in Complete
  BY <1>1 DEF Complete
<1>3. QED
  BY <1>2 DEF Unterminated

\* What a token adds to what is missing.
LEMMA TokenMisses ==
  ASSUME Inv, ScanInv, Scanning, NEW end, NEW comment, Passed(Modes, source, at, end, comment)
  PROVE  /\ Modes[end + 1] \in Complete => Expected(end) = Expected(at)
         /\ end = Len(source) /\ Endless(Modes, source, at) =>
              Expected(end) = Expected(at) \cup {Fault("lossless-unterminated-token", at)}
<1>1. Ready(Modes, source, at)
  BY DEF ScanInv, Scanning
<1>2. end \in Nat /\ at < end
  BY DEF Passed
<1>3. UnmatchedTo(end) = UnmatchedTo(at)
  BY <1>2, TokenMoves, NothingUnmatched
<1>4. Unterminated(at) = {}
  BY <1>1, NothingUnterminated
<1>5. Modes[end + 1] \in Complete => Unterminated(end) = {}
  BY DEF Unterminated
<1>6. ASSUME end = Len(source), Endless(Modes, source, at)
      PROVE  Unterminated(end) = {at}
  <2>1. Modes[end + 1] \notin Complete
    BY <1>6 DEF Endless
  <2>2. Max(Begins(Modes)) = at
    BY <1>1, <1>6, EndlessBegins
  <2>3. QED
    BY <2>1, <2>2 DEF Unterminated
<1>7. QED
  BY <1>3, <1>4, <1>5, <1>6 DEF Expected, Missing

\* What one symbol adds to what is missing.
LEMMA SymbolMisses ==
  ASSUME Inv, ScanInv, Open \/ Close \/ Terminator \/ OtherSymbol
  PROVE  /\ at \notin Unmatched(Modes, Nesting) => Expected(at + 1) = Expected(at)
         /\ at \in Unmatched(Modes, Nesting) =>
              Expected(at + 1) = Expected(at) \cup {Fault("lossless-unmatched-delimiter", at)}
<1>1. Scanning /\ Modes[at + 2] \in Complete
  BY OneSymbolSteps
<1>2. at \in Nat /\ at + 1 \in Nat /\ at < at + 1 /\ (at + 1) + 1 = at + 2
      /\ \A j \in at..((at + 1) - 1) : j = at
  BY <1>1, ScanningAt
<1>3. Unterminated(at) = {} /\ Unterminated(at + 1) = {}
  <2>1. Ready(Modes, source, at)
    BY <1>1 DEF ScanInv, Scanning
  <2>2. Unterminated(at) = {}
    BY <1>1, <2>1, NothingUnterminated
  <2>3. QED
    BY <1>1, <1>2, <2>2 DEF Unterminated
<1>4. at \notin Unmatched(Modes, Nesting) => UnmatchedTo(at + 1) = UnmatchedTo(at)
  <2>1. SUFFICES ASSUME at \notin Unmatched(Modes, Nesting)
                 PROVE  UnmatchedTo(at + 1) = UnmatchedTo(at)
    OBVIOUS
  <2>2. \A j \in at..((at + 1) - 1) : j \notin Unmatched(Modes, Nesting)
    BY <1>2, <2>1
  <2>3. QED
    BY <1>1, <1>2, <2>2, NothingUnmatched
<1>5. at \in Unmatched(Modes, Nesting) => UnmatchedTo(at + 1) = UnmatchedTo(at) \cup {at}
  BY <1>1, OneUnmatched
<1>6. QED
  BY <1>3, <1>4, <1>5 DEF Expected, Missing

\* A closing bracket is unmatched where the scanner has nothing for it to close.
LEMMA CloseMatches ==
  ASSUME Inv, ScanInv, Close
  PROVE  at \in Unmatched(Modes, Nesting) <=> ~Closes(CharAt(source, at))
<1> DEFINE c == CharAt(source, at)
<1>1. /\ Scanning /\ IsCode(Modes, at) /\ stack = Nesting[at + 1]
      /\ stack' = Nesting[at + 2]
  BY OneSymbolSteps, BracketsMove
<1>2. c \in Closers /\ stack' = IF Closes(c) THEN Front(stack) ELSE stack
  BY DEF Close, Char
<1>3. at \in Offsets
  BY <1>1, ScanningAt
<1>4. at \in Unmatched(Modes, Nesting) <=> stack' = stack
  BY <1>1, <1>2, <1>3 DEF Unmatched
<1>5. Closes(c) => Front(stack) # stack
  <2>1. stack \in Seq(Bracket)
    BY DEF Inv, StackInv
  <2>2. SUFFICES ASSUME stack # <<>>
                 PROVE  Front(stack) # stack
    BY DEF Closes
  <2>3. Len(stack) \in Nat /\ Len(stack) > 0
    BY <2>1, <2>2
  <2>4. DOMAIN Front(stack) = 1..(Len(stack) - 1)
    BY <2>1, <2>3 DEF Front
  <2>5. Len(stack) \in DOMAIN stack /\ Len(stack) \notin DOMAIN Front(stack)
    BY <2>1, <2>3, <2>4
  <2>6. QED
    BY <2>5
<1> HIDE DEF c
<1>6. QED
  BY <1>2, <1>4, <1>5 DEF c

\* The first scanner reports what a reader misses.
LEMMA FaultsStep ==
  ASSUME Inv, ScanInv, FaultsInv,
         LineComment \/ BlockComment \/ Quoted \/ Open \/ Close \/ Terminator \/ OtherSymbol
  PROVE  FaultsInv'
<1>0. Scanning /\ UNCHANGED <<source, phase>>
  BY DEF LineComment, BlockComment, Quoted, Open, Close, Terminator, OtherSymbol
<1>1. /\ source \in Texts /\ at \in 0..(Len(source) - 1) /\ at \in Nat
      /\ Reads(Modes, source) /\ Ready(Modes, source, at)
  BY <1>0, ScanningAt, ReferenceRead DEF ScanInv, Scanning
<1>2. at' \in Nat /\ at < at'
  BY <1>1, TokenSteps, OneSymbolSteps
<1>c. "lossless-unterminated-token" \in FaultCodes /\ "lossless-unmatched-delimiter" \in FaultCodes
  BY DEF FaultCodes
<1>3. CASE LineComment
  <2>1. /\ StartsLineComment(source, at) /\ at' = LineCommentEnd(source, at)
        /\ UNCHANGED faults
    BY <1>3 DEF LineComment
  <2>2. Passed(Modes, source, at, at', TRUE) /\ Modes[at' + 1] \in Complete
    BY <1>1, <2>1, LinePassed
  <2>3. Expected(at') = Expected(at)
    BY <1>0, <2>2, TokenMisses
  <2>4. QED
    BY <1>0, <1>2, <2>1, <2>3, FaultsStay
<1>4. CASE BlockComment
  <2> DEFINE found == IndexOfBlockEnd(source, at + 2)
  <2>1. /\ StartsBlockComment(source, at) /\ at' = BlockCommentEnd(source, at)
        /\ faults' = IF found # None THEN faults
                     ELSE Append(faults, Fault("lossless-unterminated-token", at))
    BY <1>4 DEF BlockComment
  <2>2. /\ Passed(Modes, source, at, at', TRUE)
        /\ found # None => Modes[at' + 1] \in Complete
        /\ found = None => at' = Len(source) /\ Endless(Modes, source, at)
    BY <1>1, <2>1, BlockPassed
  <2> HIDE DEF found
  <2>3. CASE found # None
    <3>1. Expected(at') = Expected(at)
      BY <1>0, <2>2, <2>3, TokenMisses
    <3>2. QED
      BY <1>0, <1>2, <2>1, <2>3, <3>1, FaultsStay
  <2>4. CASE found = None
    <3>1. Expected(at') = Expected(at) \cup {Fault("lossless-unterminated-token", at)}
      BY <1>0, <2>2, <2>4, TokenMisses
    <3>2. QED
      BY <1>0, <1>2, <1>c, <2>1, <2>4, <3>1, FaultsMore
  <2>5. QED
    BY <2>3, <2>4
<1>5. CASE Quoted
  <2> DEFINE token == SkipQuoted(source, at, CharAt(source, at))
  <2>1. /\ CharAt(source, at) \in Quotes /\ at' = token.end
        /\ faults' = IF token.closed THEN faults
                     ELSE Append(faults, Fault("lossless-unterminated-token", at))
    BY <1>5 DEF Quoted, Char
  <2>2. /\ Passed(Modes, source, at, at', FALSE)
        /\ token.closed \in BOOLEAN
        /\ token.closed => Modes[at' + 1] \in Complete
        /\ ~token.closed => at' = Len(source) /\ Endless(Modes, source, at)
    BY <1>1, <2>1, QuotePassed
  <2> HIDE DEF token
  <2>3. CASE token.closed
    <3>1. Expected(at') = Expected(at)
      BY <1>0, <2>2, <2>3, TokenMisses
    <3>2. QED
      BY <1>0, <1>2, <2>1, <2>3, <3>1, FaultsStay
  <2>4. CASE ~token.closed
    <3>1. Expected(at') = Expected(at) \cup {Fault("lossless-unterminated-token", at)}
      BY <1>0, <2>2, <2>4, TokenMisses
    <3>2. QED
      BY <1>0, <1>2, <1>c, <2>1, <2>4, <3>1, FaultsMore
  <2>5. QED
    BY <2>2, <2>3, <2>4
<1>6. CASE Open \/ Terminator \/ OtherSymbol
  <2>1. at' = at + 1 /\ UNCHANGED faults
    BY <1>6 DEF Open, Terminator, OtherSymbol
  <2>2. CharAt(source, at) \notin Closers
    BY <1>6, BracketsApart DEF Open, Terminator, OtherSymbol, Char
  <2>3. at \notin Unmatched(Modes, Nesting)
    BY <2>2 DEF Unmatched
  <2>4. Expected(at + 1) = Expected(at)
    BY <1>6, <2>3, SymbolMisses
  <2>5. QED
    BY <1>0, <1>2, <2>1, <2>4, FaultsStay
<1>7. CASE Close
  <2>1. /\ at' = at + 1
        /\ faults' = IF Closes(CharAt(source, at)) THEN faults
                     ELSE Append(faults, Fault("lossless-unmatched-delimiter", at))
    BY <1>7 DEF Close, Char
  <2>2. CASE Closes(CharAt(source, at))
    <3>1. Expected(at + 1) = Expected(at)
      BY <1>7, <2>2, CloseMatches, SymbolMisses
    <3>2. QED
      BY <1>0, <1>2, <2>1, <2>2, <3>1, FaultsStay
  <2>3. CASE ~Closes(CharAt(source, at))
    <3>1. Expected(at + 1) = Expected(at) \cup {Fault("lossless-unmatched-delimiter", at)}
      BY <1>7, <2>3, CloseMatches, SymbolMisses
    <3>2. QED
      BY <1>0, <1>2, <1>c, <2>1, <2>3, <3>1, FaultsMore
  <2>4. QED
    BY <2>2, <2>3
<1>8. QED
  BY <1>3, <1>4, <1>5, <1>6, <1>7

\* Brackets that are nested are at different offsets, where they open.
LEMMA NestedApart ==
  ASSUME NEW open \in Opens, NEW text, NEW i, Nested(open, text, i)
  PROVE  /\ \A j, k \in DOMAIN open : open[j].offset = open[k].offset => j = k
         /\ \A k \in DOMAIN open : CharAt(text, open[k].offset) \in Openers
<1>1. DOMAIN open = 1..Len(open) /\ Len(open) \in Nat /\ \A k \in DOMAIN open : open[k] \in OpenBracket
  BY DEF Opens
<1>2. \A b \in OpenBracket : b.offset \in Nat /\ b.char \in Openers
  BY DEF OpenBracket
<1>3. /\ \A k \in DOMAIN open : CharAt(text, open[k].offset) = open[k].char
      /\ \A j, k \in DOMAIN open : j < k => open[j].offset < open[k].offset
  BY DEF Nested
<1>4. ASSUME NEW j \in DOMAIN open, NEW k \in DOMAIN open, open[j].offset = open[k].offset
      PROVE  j = k
  <2>1. open[j].offset \in Nat /\ open[k].offset \in Nat /\ j \in Nat /\ k \in Nat
    BY <1>1, <1>2
  <2>2. ~(j < k) /\ ~(k < j)
    BY <1>3, <1>4, <2>1
  <2>3. QED
    BY <2>1, <2>2
<1>5. \A k \in DOMAIN open : CharAt(text, open[k].offset) \in Openers
  BY <1>1, <1>2, <1>3
<1>6. QED
  BY <1>4, <1>5

\* Two lists without repetitions and without a common element, joined.
LEMMA JoinedApart ==
  ASSUME NEW S, NEW s \in Seq(S), NEW t \in Seq(S), IsInjective(s), IsInjective(t),
         \A j \in DOMAIN s, k \in DOMAIN t : s[j] # t[k]
  PROVE  IsInjective(s \o t) /\ ToSet(s \o t) = ToSet(s) \cup ToSet(t)
<1> DEFINE u == s \o t
           m == Len(s)
           n == Len(t)
<1>1. /\ m \in Nat /\ n \in Nat /\ DOMAIN s = 1..m /\ DOMAIN t = 1..n /\ DOMAIN u = 1..(m + n)
      /\ \A k \in 1..m : u[k] = s[k]
      /\ \A k \in 1..(m + n) : k > m => u[k] = t[k - m]
  OBVIOUS
<1> HIDE DEF u, m, n
<1>2. \A k \in 1..(m + n) : k \in 1..m \/ (k > m /\ k - m \in 1..n)
  BY <1>1
<1>3. \A k \in 1..n : m + k \in 1..(m + n) /\ m + k > m /\ (m + k) - m = k
  BY <1>1
<1>4. ASSUME NEW j \in 1..(m + n), NEW k \in 1..(m + n), u[j] = u[k]
      PROVE  j = k
  <2>1. CASE j \in 1..m /\ k \in 1..m
    BY <1>1, <1>4, <2>1 DEF IsInjective
  <2>2. CASE j > m /\ k > m
    <3>1. j - m \in 1..n /\ k - m \in 1..n
      BY <1>1, <2>2
    <3>2. u[j] = t[j - m] /\ u[k] = t[k - m]
      BY <1>1, <2>2
    <3>3. t[j - m] = t[k - m]
      BY <1>4, <3>2
    <3>4. j - m = k - m
      BY <1>1, <3>1, <3>3 DEF IsInjective
    <3>5. QED
      BY <1>1, <3>4
  <2>3. CASE j \in 1..m /\ k > m
    <3>1. j \in DOMAIN s /\ k - m \in DOMAIN t /\ u[j] = s[j] /\ u[k] = t[k - m]
      BY <1>1, <2>3
    <3>2. QED
      BY <1>4, <3>1
  <2>4. CASE j > m /\ k \in 1..m
    <3>1. k \in DOMAIN s /\ j - m \in DOMAIN t /\ u[k] = s[k] /\ u[j] = t[j - m]
      BY <1>1, <2>4
    <3>2. QED
      BY <1>4, <3>1
  <2>5. QED
    BY <1>2, <2>1, <2>2, <2>3, <2>4
<1>5. IsInjective(u)
  BY <1>1, <1>4 DEF IsInjective
<1>6. ToSet(u) \subseteq ToSet(s) \cup ToSet(t)
  <2>1. ASSUME NEW k \in 1..(m + n)
        PROVE  u[k] \in ToSet(s) \cup ToSet(t)
    <3>1. CASE k \in 1..m
      BY <1>1, <3>1 DEF ToSet
    <3>2. CASE k > m /\ k - m \in 1..n
      BY <1>1, <3>2 DEF ToSet
    <3>3. QED
      BY <1>2, <3>1, <3>2
  <2>2. QED
    BY <1>1, <2>1 DEF ToSet
<1>7. ToSet(s) \subseteq ToSet(u)
  <2>1. \A k \in 1..m : k \in 1..(m + n) /\ u[k] = s[k]
    BY <1>1
  <2>2. QED
    BY <1>1, <2>1 DEF ToSet
<1>8. ToSet(t) \subseteq ToSet(u)
  <2>1. \A k \in 1..n : m + k \in 1..(m + n) /\ u[m + k] = t[k]
    BY <1>1, <1>3
  <2>2. \A k \in 1..n : t[k] \in ToSet(u)
    <3>1. \A k \in DOMAIN u : u[k] \in ToSet(u)
      BY DEF ToSet
    <3>2. QED
      BY <1>1, <2>1, <3>1
  <2>3. QED
    BY <1>1, <2>2 DEF ToSet
<1>9. QED
  BY <1>5, <1>6, <1>7, <1>8 DEF u

\* Every bracket left open is reported at the end, and no fault twice.
LEMMA FaultsEndStep ==
  ASSUME Inv, ScanInv, FaultsInv, EndOfSource
  PROVE  FaultsInv'
<1> DEFINE code == "lossless-unmatched-delimiter"
           rest == [k \in DOMAIN stack |-> Fault(code, stack[k].offset)]
           none == Missing(Unterminated(at), UnmatchedTo(at))
<1>1. /\ phase = "fragments" /\ at = Len(source) /\ at \in Nat
      /\ UNCHANGED source /\ phase' # "fragments"
      /\ faults' = faults \o rest
  <2>1. at \in Nat
    BY DEF Inv, PhaseInv
  <2>2. QED
    BY <2>1 DEF EndOfSource
<1>2. /\ faults \in Seq(Faults)
      /\ \A k \in DOMAIN faults : faults[k].offset < at
      /\ \A j, k \in DOMAIN faults : j < k => faults[j].offset < faults[k].offset
      /\ ToSet(faults) = Missing(Unterminated(at), UnmatchedTo(at))
  BY <1>1 DEF FaultsInv, Expected
<1>3. /\ stack = Nesting[at + 1] /\ Last(Nesting) = stack
      /\ stack \in Opens /\ Nested(stack, source, at)
  <2>1. source \in Texts /\ OpensRead(Nesting, Modes, source)
    BY ReferenceRead
  <2>2. stack = Nesting[at + 1]
    BY <1>1 DEF ScanInv
  <2>3. Len(Nesting) = Len(source) + 1
    BY <2>1 DEF OpensRead
  <2>4. Last(Nesting) = Nesting[at + 1]
    BY <1>1, <2>3 DEF Last
  <2>5. at \in 0..Len(source)
    BY <1>1
  <2>6. Nesting[at + 1] \in Opens /\ Nested(Nesting[at + 1], source, at)
    BY <2>1, <2>5, OpensNested
  <2>7. QED
    BY <2>2, <2>4, <2>6
<1>4. /\ DOMAIN stack = 1..Len(stack) /\ Len(stack) \in Nat
      /\ \A k \in DOMAIN stack : stack[k].offset \in Nat
      /\ \A j, k \in DOMAIN stack : stack[j].offset = stack[k].offset => j = k
      /\ \A k \in DOMAIN stack : CharAt(source, stack[k].offset) \in Openers
  <2>1. DOMAIN stack = 1..Len(stack) /\ Len(stack) \in Nat /\ \A k \in DOMAIN stack : stack[k] \in OpenBracket
    BY <1>3 DEF Opens
  <2>2. \A b \in OpenBracket : b.offset \in Nat
    BY DEF OpenBracket
  <2>3. \A k \in DOMAIN stack : stack[k].offset \in Nat
    BY <2>1, <2>2
  <2>4. QED
    BY <1>3, <2>1, <2>3, NestedApart
<1>5. /\ rest \in Seq(Faults) /\ DOMAIN rest = DOMAIN stack
      /\ \A k \in DOMAIN stack : rest[k].offset = stack[k].offset /\ rest[k].code = code
  <2>1. code \in FaultCodes
    BY DEF FaultCodes
  <2>2. \A k \in DOMAIN stack : Fault(code, stack[k].offset) \in Faults
    BY <1>4, <2>1, FaultParts
  <2>3. DOMAIN rest = DOMAIN stack /\ \A k \in DOMAIN stack : rest[k] = Fault(code, stack[k].offset)
    OBVIOUS
  <2>4. \A k \in DOMAIN stack : rest[k].offset = stack[k].offset /\ rest[k].code = code
    BY <2>3, FaultParts
  <2>5. rest \in [1..Len(stack) -> Faults]
    BY <1>4, <2>2
  <2> HIDE DEF rest
  <2>6. rest \in Seq(Faults)
    BY <1>4, <2>5
  <2>7. QED
    BY <2>3, <2>4, <2>6
<1>6. IsInjective(faults)
  <2>1. DOMAIN faults = 1..Len(faults) /\ \A k \in DOMAIN faults : faults[k] \in Faults
    BY <1>2
  <2>2. \A f \in Faults : f.offset \in Nat
    BY DEF Faults
  <2>3. \A j, k \in DOMAIN faults : j \in Int /\ k \in Int
    BY <2>1
  <2>4. ASSUME NEW j \in DOMAIN faults, NEW k \in DOMAIN faults, faults[j] = faults[k]
        PROVE  j = k
    <3>1. ~(j < k) /\ ~(k < j)
      BY <1>2, <2>1, <2>2, <2>4
    <3>2. QED
      BY <2>3, <3>1
  <2>5. QED
    BY <2>4 DEF IsInjective
<1>7. IsInjective(rest)
  <2>1. ASSUME NEW j \in DOMAIN rest, NEW k \in DOMAIN rest, rest[j] = rest[k]
        PROVE  j = k
    <3> HIDE DEF rest
    <3>1. QED
      BY <1>4, <1>5, <2>1
  <2>2. QED
    BY <2>1 DEF IsInjective
<1>8. ASSUME NEW j \in DOMAIN faults, NEW k \in DOMAIN rest
      PROVE  faults[j] # rest[k]
  <2>1. SUFFICES ASSUME faults[j] = rest[k]
                 PROVE  FALSE
    OBVIOUS
  <2>2. rest[k].code = code /\ CharAt(source, rest[k].offset) \in Openers
    <3> HIDE DEF rest
    <3>1. QED
      BY <1>4, <1>5
  <2>3. faults[j] \in Missing(Unterminated(at), UnmatchedTo(at))
    BY <1>2 DEF ToSet
  <2>4. faults[j].code = code => faults[j].offset \in Unmatched(Modes, Nesting)
    <3>1. "lossless-unterminated-token" # code
      OBVIOUS
    <3>2. \A i : Fault("lossless-unterminated-token", i).code # code
                 /\ Fault(code, i).offset = i
      BY <3>1, FaultParts
    <3> HIDE DEF code
    <3>3. CASE faults[j] \in {Fault("lossless-unterminated-token", i) : i \in Unterminated(at)}
      BY <3>2, <3>3
    <3>4. CASE faults[j] \in {Fault(code, i) : i \in UnmatchedTo(at)}
      BY <3>2, <3>4 DEF UnmatchedTo
    <3>5. QED
      BY <2>3, <3>3, <3>4 DEF Missing, code
  <2>5. CharAt(source, faults[j].offset) \in Closers
    BY <2>1, <2>2, <2>4 DEF Unmatched
  <2>6. QED
    BY <2>1, <2>2, <2>5, BracketsApart
<1>9. ToSet(rest) = {Fault(code, i) : i \in Unclosed}
  <2>1. ToSet(rest) = {Fault(code, stack[k].offset) : k \in DOMAIN stack}
    BY DEF ToSet
  <2>2. Unclosed = {stack[k].offset : k \in DOMAIN stack}
    BY <1>3 DEF Unclosed, ToSet
  <2> HIDE DEF code
  <2>3. QED
    BY <2>1, <2>2
<1>10. UnmatchedTo(at) = Unmatched(Modes, Nesting)
  <2>1. \A j \in Offsets : j < at
    BY <1>1 DEF Offsets
  <2>2. Unmatched(Modes, Nesting) \subseteq Offsets
    BY DEF Unmatched
  <2>3. QED
    BY <2>1, <2>2 DEF UnmatchedTo
<1> HIDE DEF rest
<1>11. IsInjective(faults') /\ ToSet(faults') = ToSet(faults) \cup ToSet(rest)
  BY <1>1, <1>2, <1>5, <1>6, <1>7, <1>8, JoinedApart
<1>12. ToSet(faults') = Missing(Unterminated(at), Unmatched(Modes, Nesting) \cup Unclosed)
  BY <1>2, <1>9, <1>10, <1>11 DEF Missing
<1>13. ToSet(faults') = Missing(Unterminated(Len(source)), Unmatched(Modes, Nesting) \cup Unclosed)'
  <2>1. Unterminated(at) = Unterminated(Len(source))'
    <3>1. \A n : Unterminated(n)' = Unterminated(n)
      BY <1>1, ExpectedStays
    <3>2. QED
      BY <1>1, <3>1
  <2>2. Unmatched(Modes, Nesting)' = Unmatched(Modes, Nesting) /\ Unclosed' = Unclosed
    BY <1>1, ExpectedStays
  <2>3. QED
    BY <1>12, <2>1, <2>2 DEF Missing
<1>14. QED
  BY <1>1, <1>11, <1>13 DEF FaultsInv

\* After the scan no fault is added.
LEMMA FaultsLaterStep ==
  ASSUME FaultsInv, phase # "fragments", phase' # "fragments", UNCHANGED <<source, faults>>
  PROVE  FaultsInv'
<1>1. Unterminated(Len(source))' = Unterminated(Len(source))
  <2>1. \A n : Unterminated(n)' = Unterminated(n)
    BY ExpectedStays
  <2>2. QED
    BY <2>1
<1>2. Unmatched(Modes, Nesting)' = Unmatched(Modes, Nesting) /\ Unclosed' = Unclosed
  BY ExpectedStays
<1>3. QED
  BY <1>1, <1>2 DEF FaultsInv, Missing

-----------------------------------------------------------------------------
(***************************************************************************)
(* The second invariant, step by step.                                     *)
(***************************************************************************)
\* Before the first symbol is read there is nothing to find.
LEMMA InitRead ==
  ASSUME Init
  PROVE  ReadInv
<1>0. Inv /\ source \in Texts /\ Len(source) \in Nat /\ Modes[1] = "code" /\ Nesting[1] = <<>>
  BY InitInv, ReferenceRead DEF OpensRead
<1>1. /\ phase = "fragments" /\ at = 0 /\ from = 0 /\ ReadTo = 0 /\ stack = <<>>
      /\ fragments = <<>> /\ trivia = <<>> /\ faults = <<>> /\ statements = <<>>
  BY DEF Init, ReadTo
<1>2. \A i \in Offsets : ~(i < 0)
  BY <1>0 DEF Offsets
<1>3. ScanInv
  BY <1>0, <1>1 DEF ScanInv, Ready
<1>4. CommentsInv
  BY <1>1, <1>2 DEF CommentsInv
<1>5. CutsInv
  <2>1. {j \in Cuts(Modes, Nesting) : j < 0} = {}
    BY <1>2 DEF Cuts
  <2>2. Spans(<<>>) = {} /\ \A kind : SpansOf(<<>>, kind) = {}
    BY DEF Spans, SpansOf
  <2>3. {<<i, i + 1>> : i \in {j \in Cuts(Modes, Nesting) : j < 0}} = {}
    BY <2>1
  <2>4. DOMAIN fragments = {} /\ DOMAIN statements = {}
        /\ Spans(statements) = {} /\ \A kind : SpansOf(fragments, kind) = {}
    BY <1>1, <2>2
  <2>5. CutsExact(statements, fragments, 0)
    BY <2>3, <2>4 DEF CutsExact
  <2>6. QED
    BY <1>1, <2>5 DEF CutsInv
<1>6. FaultsInv
  <2>1. Unterminated(0) = {}
    BY <1>0 DEF Unterminated, Complete
  <2>2. UnmatchedTo(0) = {}
    BY <1>2 DEF UnmatchedTo, Unmatched
  <2>3. ToSet(<<>>) = {}
    BY DEF ToSet
  <2>4. ToSet(faults) = Expected(at)
    BY <1>1, <2>1, <2>2, <2>3 DEF Expected, Missing
  <2>5. QED
    BY <1>1, <2>4 DEF FaultsInv
<1>7. QED
  BY <1>3, <1>4, <1>5, <1>6 DEF ReadInv

\* Once the text is cut only the clauses of statements change.
LEMMA LaterRead ==
  ASSUME ReadInv, phase # "fragments", phase' # "fragments",
         UNCHANGED <<source, fragments, trivia, faults>>,
         DOMAIN statements' = DOMAIN statements,
         \A k \in DOMAIN statements : /\ statements'[k].start = statements[k].start
                                      /\ statements'[k].end = statements[k].end
  PROVE  ReadInv'
<1>1. ScanInv'
  BY DEF ScanInv
<1>2. CommentsInv'
  <2>1. ReadTo = Len(source) /\ ReadTo' = Len(source) /\ Modes' = Modes /\ Offsets' = Offsets
    BY ReferenceStays DEF ReadTo, Offsets
  <2>2. QED
    BY <2>1 DEF ReadInv, CommentsInv
<1>3. CutsInv'
  BY CutsLaterStep DEF ReadInv
<1>4. FaultsInv'
  BY FaultsLaterStep DEF ReadInv
<1>5. QED
  BY <1>1, <1>2, <1>3, <1>4 DEF ReadInv

\* Other clauses leave the spans of statements.
LEMMA ClausesKeepSpans ==
  ASSUME NEW list \in Seq(Statement), NEW k \in DOMAIN list, NEW cs
  PROVE  /\ DOMAIN WithClauses(list, k, cs) = DOMAIN list
         /\ \A j \in DOMAIN list : /\ WithClauses(list, k, cs)[j].start = list[j].start
                                   /\ WithClauses(list, k, cs)[j].end = list[j].end
<1> DEFINE new == WithClauses(list, k, cs)
<1>1. new = [list EXCEPT ![k].clauses = cs]
  BY DEF WithClauses
<1> HIDE DEF new
<1>2. DOMAIN list = 1..Len(list)
  OBVIOUS
<1>3. /\ DOMAIN new = DOMAIN list
      /\ \A j \in DOMAIN list : j # k => new[j] = list[j]
      /\ new[k] = [list[k] EXCEPT !.clauses = cs]
  BY <1>1, <1>2
<1>4. list[k] \in Statement
  OBVIOUS
<1>5. new[k].start = list[k].start /\ new[k].end = list[k].end
  BY <1>3, <1>4 DEF Statement
<1>6. QED
  BY <1>3, <1>5 DEF new

\* The end of the source shows the reader nothing new.
LEMMA EndRead ==
  ASSUME Inv, ReadInv, EndOfSource
  PROVE  ReadInv'
<1>1. phase = "fragments" /\ phase' # "fragments" /\ at = Len(source) /\ UNCHANGED <<source, trivia>>
  BY DEF EndOfSource
<1>2. ScanInv'
  BY <1>1 DEF ScanInv
<1>3. CommentsInv'
  <2>1. ReadTo = at /\ ReadTo' = at /\ Modes' = Modes /\ Offsets' = Offsets
    BY <1>1, ReferenceStays DEF ReadTo, Offsets
  <2>2. QED
    BY <1>1, <2>1 DEF ReadInv, CommentsInv
<1>4. CutsInv'
  BY CutsEndStep DEF ReadInv
<1>5. FaultsInv'
  BY FaultsEndStep DEF ReadInv
<1>6. QED
  BY <1>2, <1>3, <1>4, <1>5 DEF ReadInv

\* Every step keeps the report what a reader finds.
LEMMA NextRead ==
  ASSUME Inv, ReadInv, [Next]_vars
  PROVE  ReadInv'
<1>1. CASE UNCHANGED vars
  <2>1. UNCHANGED <<source, phase, at, stack, from, fragments, trivia, faults, statements>>
    BY <1>1 DEF vars
  <2>2. Modes' = Modes /\ Nesting' = Nesting /\ Offsets' = Offsets /\ ReadTo' = ReadTo
    BY <2>1, ReferenceStays DEF Offsets, ReadTo
  <2>3. ScanInv' /\ CommentsInv'
    BY <2>1, <2>2 DEF ReadInv, ScanInv, CommentsInv
  <2>4. CutsInv'
    <3>1. CutsExact(statements', fragments', ReadTo')
      BY <2>1, <2>2 DEF ReadInv, CutsInv
    <3>2. QED
      BY <2>1, <3>1, CutsExactNext
  <2>5. FaultsInv'
    <3>1. Expected(at)' = Expected(at) /\ Unterminated(Len(source))' = Unterminated(Len(source))
      <4>1. /\ \A n : Expected(n)' = Expected(n)
            /\ \A n : Unterminated(n)' = Unterminated(n)
        BY <2>1, ExpectedStays
      <4>2. QED
        BY <2>1, <4>1
    <3>2. Unmatched(Modes, Nesting)' = Unmatched(Modes, Nesting) /\ Unclosed' = Unclosed
      BY <2>1, ExpectedStays
    <3>3. QED
      BY <2>1, <3>1, <3>2 DEF ReadInv, FaultsInv, Missing
  <2>6. QED
    BY <2>3, <2>4, <2>5 DEF ReadInv
<1>2. CASE LineComment \/ BlockComment \/ Quoted \/ Open \/ Close \/ Terminator \/ OtherSymbol
  <2>1. ScanInv' /\ CommentsInv' /\ FaultsInv'
    BY <1>2, ScanStep, CommentsStep, FaultsStep DEF ReadInv
  <2>2. CutsInv'
    BY <1>2, CutsStep, CutsTerminatorStep DEF ReadInv
  <2>3. QED
    BY <2>1, <2>2 DEF ReadInv
<1>3. CASE EndOfSource
  BY <1>3, EndRead
<1>4. CASE PassToken \/ PassBracket \/ FindClause \/ PassSymbol \/ NoPreview
  <2>1. /\ phase # "fragments" /\ phase' # "fragments"
        /\ UNCHANGED <<source, fragments, trivia, faults, statements>>
    BY <1>4 DEF PassToken, PassBracket, FindClause, PassSymbol, NoPreview, Searching
  <2>2. QED
    BY <2>1, LaterRead
<1>5. CASE EndOfStatement
  <2>1. /\ phase = "clauses" /\ phase # "fragments" /\ phase' # "fragments"
        /\ UNCHANGED <<source, fragments, trivia, faults>>
        /\ statements' = WithClauses(statements, current, Clauses(statements[current], matches))
    BY <1>5 DEF EndOfStatement, WithClauses
  <2>2. statements \in Seq(Statement) /\ current \in DOMAIN statements
    BY <2>1 DEF Inv, StatementsInv, PhaseInv
  <2>3. QED
    BY <2>1, <2>2, ClausesKeepSpans, LaterRead
<1>6. CASE BuildIrPreview
  <2>1. /\ phase # "fragments" /\ phase' # "fragments" /\ Len(statements) = 1
        /\ UNCHANGED <<source, fragments, trivia, faults>>
        /\ statements' = WithClauses(statements, 1,
                           AnnotateIrPreviewSupport(statements[1].clauses, preview'))
    BY <1>6 DEF BuildIrPreview, Previewed, WithClauses
  <2>2. statements \in Seq(Statement) /\ 1 \in DOMAIN statements
    BY <2>1 DEF Inv, StatementsInv
  <2>3. QED
    BY <2>1, <2>2, ClausesKeepSpans, LaterRead
<1>7. QED
  BY <1>1, <1>2, <1>3, <1>4, <1>5, <1>6 DEF Next

\* What the first scanner reports is what the reader finds up to it, in every
\* phase of every parse (scanFragments).
THEOREM ReadAsReference == Spec => []ReadInv
<1>1. Init => ReadInv
  BY InitRead
<1>2. Inv /\ ReadInv /\ [Next]_vars => ReadInv'
  BY NextRead
<1>3. QED
  BY <1>1, <1>2, Invariance, PTL DEF Spec

\* The fragments of every text tile it, and they are cut where a reader finds
\* semicolons in code outside brackets (scanFragments, addStatementOrTrivia).
THEOREM FragmentsCut == Spec => []FragmentsAreCutInCode
<1>1. Inv /\ ReadInv => FragmentsAreCutInCode
  <2> SUFFICES ASSUME Inv, ReadInv, phase = "done"
               PROVE  FragmentsAreCutInCode
    BY DEF FragmentsAreCutInCode, Done
  <2>1. source \in Texts /\ Len(source) \in Nat
    BY SourceIsText DEF Inv
  <2>2. CutTo = Len(source) /\ ReadTo = Len(source)
    BY DEF CutTo, ReadTo
  <2>3. /\ fragments \in Seq(Fragment)
        /\ InLine(fragments, Len(source)) /\ Tiles(fragments, Len(source))
    BY <2>2 DEF Inv, FragmentsInv
  <2>4. CutsExact(statements, fragments, Len(source))
    BY <2>2 DEF ReadInv, CutsInv
  <2>5. {j \in Cuts(Modes, Nesting) : j < Len(source)} = Cuts(Modes, Nesting)
    <3>1. \A j \in Offsets : j < Len(source)
      BY <2>1 DEF Offsets
    <3>2. QED
      BY <3>1 DEF Cuts
  <2>6. SpansOf(fragments, "terminator") = {<<i, i + 1>> : i \in Cuts(Modes, Nesting)}
    BY <2>4, <2>5 DEF CutsExact
  <2>7. source # <<>> => Last(fragments).end = Len(source)
    <3>1. source # <<>> => Len(source) # 0
      BY <2>1 DEF Texts
    <3>2. QED
      BY <2>3, <3>1 DEF Tiles
  <2>8. \A k \in DOMAIN fragments :
          /\ fragments[k].start = IF k = 1 THEN 0 ELSE fragments[k - 1].end
          /\ fragments[k].start < fragments[k].end
          /\ fragments[k].kind # "terminator" =>
               (fragments[k].kind = "statement"
                  <=> Inked(Modes, fragments[k].start, fragments[k].end))
    BY <2>3, <2>4 DEF InLine, Tiles, CutsExact
  <2>9. Spans(statements) = SpansOf(fragments, "statement")
    BY <2>4 DEF CutsExact
  <2>10. QED
    BY <2>6, <2>7, <2>8, <2>9 DEF FragmentsAreCutInCode, Modes, Nesting
<1>2. QED
  BY <1>1, Invariance, ReadAsReference, PTL

\* The comments listed are those a reader is in, and the diagnostics name what
\* a reader misses, each once, for every text (scanFragments, scanQuotedToken).
THEOREM CommentsExact == Spec => []CommentsAndFaultsAreExact
<1>1. Inv /\ ReadInv => CommentsAndFaultsAreExact
  <2> SUFFICES ASSUME Inv, ReadInv, phase = "done"
               PROVE  CommentsAndFaultsAreExact
    BY DEF CommentsAndFaultsAreExact, Done
  <2>1. source \in Texts /\ Len(source) \in Nat /\ Reads(Modes, source)
    BY ReferenceRead
  <2>2. ReadTo = Len(source) /\ \A i \in Offsets : i < Len(source)
    BY <2>1 DEF ReadTo, Offsets
  <2>3. \A i \in Offsets :
          IsComment(Modes, i) <=> \E k \in DOMAIN trivia : i \in trivia[k].start..(trivia[k].end - 1)
    BY <2>2 DEF ReadInv, CommentsInv
  <2>4. /\ ToSet(faults) = Missing(Unterminated(Len(source)),
                                   Unmatched(Modes, Nesting) \cup Unclosed)
        /\ IsInjective(faults)
    BY DEF ReadInv, FaultsInv
  <2>5. Last(Modes) = Modes[Len(source) + 1]
    <3>1. Len(Modes) = Len(source) + 1
      BY <2>1 DEF Reads
    <3>2. QED
      BY <3>1 DEF Last
  <2>6. Unterminated(Len(source)) =
          IF Last(Modes) \in {"code", "line", "closing"} THEN {} ELSE {Max(Begins(Modes))}
    BY <2>5 DEF Unterminated, Complete
  <2>7. QED
    BY <2>3, <2>4, <2>6 DEF CommentsAndFaultsAreExact, Missing, Unclosed, Modes, Nesting
<1>2. QED
  BY <1>1, Invariance, ReadAsReference, PTL

-----------------------------------------------------------------------------
(***************************************************************************)
(* A reader of a part of a text has the brackets of a reader of the whole. *)
(***************************************************************************)
\* The same brackets, wherever they stand.
SameBrackets(s, t) == Len(s) = Len(t) /\ \A k \in 1..Len(s) : s[k].char = t[k].char

\* One symbol keeps them the same.
LEMMA SameOpened ==
  ASSUME NEW open \in Opens, NEW copy \in Opens, SameBrackets(open, copy),
         NEW x, NEW y, x.char = y.char, x.code <=> y.code
  PROVE  SameBrackets(Opened(open, x), Opened(copy, y))
<1> DEFINE n == Len(open)
<1>1. n \in Nat /\ Len(copy) = n /\ \A k \in 1..n : open[k].char = copy[k].char
  BY DEF Opens, SameBrackets
<1>2. DOMAIN open = 1..n /\ DOMAIN copy = 1..n
  BY <1>1 DEF Opens
<1>3. open = <<>> <=> n = 0
  BY DEF Opens
<1>4. copy = <<>> <=> n = 0
  BY <1>1 DEF Opens
<1>5. n # 0 => Last(open).char = Last(copy).char
  BY <1>1 DEF Last
<1> DEFINE opens  == x.code /\ x.char \in Openers
           closes == x.code /\ x.char \in Closers /\ open # <<>> /\ Last(open).char = OpenerOf(x.char)
<1>6. (opens <=> y.code /\ y.char \in Openers)
      /\ (closes <=> y.code /\ y.char \in Closers /\ copy # <<>> /\ Last(copy).char = OpenerOf(y.char))
  BY <1>3, <1>4, <1>5
<1>7. CASE opens
  <2> DEFINE b == [char |-> x.char, offset |-> x.offset]
             c == [char |-> y.char, offset |-> y.offset]
  <2>1. Opened(open, x) = Append(open, b) /\ Opened(copy, y) = Append(copy, c)
    <3>1. x.char \in Openers => x.char \notin Closers
      BY BracketsApart
    <3>2. Opened(open, x) = Append(open, b)
      BY <1>7, <3>1 DEF Opened
    <3>3. Opened(copy, y) = Append(copy, c)
      BY <1>6, <1>7, <3>1 DEF Opened
    <3>4. QED
      BY <3>2, <3>3
  <2>2. b.char = c.char
    OBVIOUS
  <2> HIDE DEF b, c
  <2>3. Len(Append(open, b)) = n + 1 /\ Len(Append(copy, c)) = n + 1
        /\ Append(open, b)[n + 1] = b /\ Append(copy, c)[n + 1] = c
        /\ \A k \in 1..n : Append(open, b)[k] = open[k] /\ Append(copy, c)[k] = copy[k]
    BY <1>1 DEF Opens
  <2> HIDE DEF n
  <2>4. \A k \in 1..(n + 1) : k \in 1..n \/ k = n + 1
    BY <1>1
  <2>5. QED
    BY <1>1, <2>1, <2>2, <2>3, <2>4 DEF SameBrackets
<1>8. CASE ~opens /\ closes
  <2>1. Opened(open, x) = Front(open) /\ Opened(copy, y) = Front(copy)
    <3>1. x.char \in Closers => x.char \notin Openers
      BY BracketsApart
    <3>2. QED
      BY <1>6, <1>8, <3>1 DEF Opened
  <2>2. n # 0
    BY <1>3, <1>8
  <2>3. Len(Front(open)) = n - 1 /\ \A k \in 1..(n - 1) : Front(open)[k] = open[k]
    BY <1>1, <2>2 DEF Front, Opens
  <2>4. Len(Front(copy)) = n - 1 /\ \A k \in 1..(n - 1) : Front(copy)[k] = copy[k]
    BY <1>1, <2>2 DEF Front, Opens
  <2> HIDE DEF n
  <2>5. \A k \in 1..(n - 1) : k \in 1..n
    BY <1>1
  <2>6. QED
    BY <1>1, <2>1, <2>3, <2>4, <2>5 DEF SameBrackets
<1>9. CASE ~opens /\ ~closes
  <2>1. Opened(open, x) = open /\ Opened(copy, y) = copy
    BY <1>6, <1>9 DEF Opened
  <2>2. QED
    BY <2>1
<1>10. QED
  BY <1>7, <1>8, <1>9

\* So they are all along the part, if none is open where it begins.
LEMMA PartOpens ==
  ASSUME NEW text \in Texts, NEW m, NEW o, OpensRead(o, m, text),
         NEW a \in Nat, NEW b \in Nat, a <= b, b <= Len(text), o[a + 1] = <<>>,
         NEW n, \A i \in 0..(b - a) : n[i + 1] = m[a + i + 1],
         NEW p, OpensRead(p, n, Slice(text, a, b))
  PROVE  \A i \in 0..(b - a) : SameBrackets(p[i + 1], o[a + i + 1])
<1> DEFINE part == Slice(text, a, b)
           Same == {i \in Nat : i <= b - a => SameBrackets(p[i + 1], o[a + i + 1])}
<1>0. Len(text) \in Nat
  BY LenType
<1>1. part \in Texts /\ Len(part) = b - a
      /\ \A i \in 0..(b - a - 1) : CharAt(part, i) = CharAt(text, a + i)
  BY SliceParts
<1> HIDE DEF part
<1>2. p[1] = <<>> /\ \A i \in 0..(b - a - 1) : p[i + 2] = Opened(p[i + 1], Symbol(part, n, i))
  BY <1>1 DEF OpensRead, part
<1>3. \A i \in 0..(b - a) : p[i + 1] \in Opens
  BY <1>1, OpensNested DEF part
<1>4. \A i \in 0..Len(text) : o[i + 1] \in Opens
  BY OpensNested
<1>5. \A i \in 0..(Len(text) - 1) : o[i + 2] = Opened(o[i + 1], Symbol(text, m, i))
  BY DEF OpensRead
<1>6. 0 \in Same
  BY <1>2 DEF SameBrackets
<1>7. ASSUME NEW i \in Nat, i \in Same
      PROVE  i + 1 \in Same
  <2>1. SUFFICES ASSUME i + 1 <= b - a
                 PROVE  SameBrackets(p[(i + 1) + 1], o[a + (i + 1) + 1])
    OBVIOUS
  <2>2. /\ i \in 0..(b - a) /\ i \in 0..(b - a - 1) /\ i + 1 \in 0..(b - a)
        /\ a + i \in 0..Len(text) /\ a + i \in 0..(Len(text) - 1)
        /\ (i + 1) + 1 = i + 2 /\ a + (i + 1) + 1 = (a + i) + 2 /\ a + i + 1 = (a + i) + 1
        /\ i <= b - a
    BY <1>0, <2>1
  <2> DEFINE x == Symbol(part, n, i)
             y == Symbol(text, m, a + i)
  <2>3. x.char = CharAt(part, i) /\ (x.code <=> IsCode(n, i))
        /\ y.char = CharAt(text, a + i) /\ (y.code <=> IsCode(m, a + i))
    BY DEF Symbol
  <2> HIDE DEF x, y
  <2>4. n[i + 1] = m[a + i + 1] /\ n[(i + 1) + 1] = m[a + (i + 1) + 1]
    BY <2>2
  <2>5. n[i + 1] = m[(a + i) + 1] /\ n[i + 2] = m[(a + i) + 2]
    BY <2>2, <2>4
  <2>6. IsCode(n, i) <=> IsCode(m, a + i)
    BY <2>5 DEF IsCode
  <2>7. x.char = y.char /\ (x.code <=> y.code)
    BY <1>1, <2>2, <2>3, <2>6
  <2>8. SameBrackets(p[i + 1], o[(a + i) + 1])
    BY <1>7, <2>2
  <2>9. p[i + 1] \in Opens /\ o[(a + i) + 1] \in Opens
    BY <1>3, <1>4, <2>2
  <2>10. SameBrackets(Opened(p[i + 1], x), Opened(o[(a + i) + 1], y))
    BY <2>7, <2>8, <2>9, SameOpened
  <2>11. p[i + 2] = Opened(p[i + 1], x) /\ o[(a + i) + 2] = Opened(o[(a + i) + 1], y)
    BY <1>2, <1>5, <2>2 DEF x, y
  <2>12. QED
    BY <2>2, <2>10, <2>11
<1>8. Nat \subseteq Same
  <2> HIDE DEF Same
  <2>1. QED
    BY <1>6, <1>7, Joining!NaturalInduction
<1>9. QED
  BY <1>8

-----------------------------------------------------------------------------
(***************************************************************************)
(* Keywords of clauses, in a text and in a part of it.                     *)
(***************************************************************************)
\* Symbols that are no letter of a word, and those around words.
LEMMA WordsApart ==
  /\ Words \cap (Blank \cup Quotes \cup Openers \cup Closers
                   \cup {";", "/", "*", "\\", "\n", EndOfText}) = {}
  /\ Blank \cap (Quotes \cup Openers \cup Closers \cup {";", "/", "*", EndOfText}) = {}
  /\ Keywords \subseteq Words
<1>1. Keywords \cap (Blank \cup Quotes \cup {";", "/", "*", "\\", EndOfText}) = {}
  BY Zenon DEF Keywords, Blank, Quotes, Backtick, EndOfText
<1>2. Openers = {"(", "[", "{"} /\ Closers = {")", "]", "}"}
  <2>1. Openers = {"(", "[", "{"}
    BY DEF Openers, CloserOf
  <2>2. QED
    BY <2>1 DEF Closers, CloserOf
<1>3. Keywords \cap ({"(", "[", "{"} \cup {")", "]", "}"}) = {}
  BY Zenon DEF Keywords
<1>4. Blank \cap (Quotes \cup {";", "/", "*", EndOfText}) = {}
  BY Zenon DEF Blank, Quotes, Backtick, EndOfText
<1>5. Blank \cap ({"(", "[", "{"} \cup {")", "]", "}"}) = {}
  BY Zenon DEF Blank
<1>6. "\n" \in Blank
  BY NoNewline
<1>7. Words = Keywords \cup Names
  BY DEF Words
<1> DEFINE Others == Blank \cup Quotes \cup Openers \cup Closers \cup {";", "/", "*", "\\", EndOfText}
<1>8. Keywords \cap Others = {}
  BY <1>1, <1>2, <1>3
<1>9. Names \cap Others = {}
  BY NamesAssumption
<1>10. Blank \cap (Quotes \cup Openers \cup Closers \cup {";", "/", "*", EndOfText}) = {}
  BY <1>2, <1>4, <1>5
<1>11. \A x \in Blank \cup Quotes \cup Openers \cup Closers \cup {";", "/", "*", "\\", "\n", EndOfText} :
         x \in Others
  BY <1>6
<1> HIDE DEF Others
<1>12. QED
  BY <1>7, <1>8, <1>9, <1>10, <1>11

\* The words of keywords: the second word of one begins none of two words.
LEMMA KeywordWords ==
  \A k \in DOMAIN ClauseKeywords :
    /\ OfOneWord(ClauseKeywords[k]) \/ OfTwoWords(ClauseKeywords[k])
    /\ ClauseKeywords[k][1] \in Keywords
    /\ OfTwoWords(ClauseKeywords[k]) => ClauseKeywords[k][2] \in {"MATCH", "DELETE", "CSV", "ALL"}
    /\ OfTwoWords(ClauseKeywords[k]) => ClauseKeywords[k][1] \notin {"MATCH", "DELETE", "CSV", "ALL"}
<1>1. \A k \in 1..4 :
        /\ ClauseKeywords[k][1] \in {"OPTIONAL", "DETACH", "LOAD", "UNION"}
        /\ ClauseKeywords[k][2] \in {"MATCH", "DELETE", "CSV", "ALL"}
  BY DEF ClauseKeywords
<1>2. {"OPTIONAL", "DETACH", "LOAD", "UNION"} \subseteq Keywords
      /\ {"OPTIONAL", "DETACH", "LOAD", "UNION"} \cap {"MATCH", "DELETE", "CSV", "ALL"} = {}
  BY Zenon DEF Keywords
<1>3. \A k \in 5..19 : ClauseKeywords[k][1] \in Keywords /\ Len(ClauseKeywords[k]) = 1
  BY DEF ClauseKeywords, Keywords
<1>4. \A k \in DOMAIN ClauseKeywords : k \in 1..4 \/ k \in 5..19
  BY PhraseWords
<1>5. \A k \in 5..19 : ~OfTwoWords(ClauseKeywords[k])
  BY <1>3 DEF OfTwoWords
<1>6. \A k \in 1..4 : ClauseKeywords[k][1] \in Keywords
                      /\ ClauseKeywords[k][1] \notin {"MATCH", "DELETE", "CSV", "ALL"}
  BY <1>1, <1>2
<1>7. QED
  BY <1>1, <1>3, <1>4, <1>5, <1>6, PhraseWords

\* Blanks end where a symbol is none, and the end of the text is none.
LEMMA AfterBlanksEnds ==
  ASSUME NEW text \in Texts, NEW i \in Nat, i <= Len(text)
  PROVE  CharAt(text, AfterBlanks(text, i)) \notin Blank
<1> DEFINE S == {j \in From(text, i) : CharAt(text, j) \notin Blank}
           next == First(S)
<1>0. Len(text) \in Nat
  BY LenType
<1>1. S \in SUBSET Nat
  BY FromParts
<1>2. AfterBlanks(text, i) = IF next = None THEN Len(text) ELSE next
  BY DEF AfterBlanks
<1>3. CASE next = None
  <2>1. CharAt(text, Len(text)) = EndOfText
    BY <1>0 DEF CharAt
  <2>2. QED
    BY <1>2, <1>3, <2>1, WordsApart
<1>4. CASE next # None
  <2>1. next \in S
    <3> HIDE DEF S
    <3>1. QED
      BY <1>1, <1>4, FirstIsLeast
  <2>2. QED
    BY <1>2, <1>4, <2>1
<1>5. QED
  BY <1>3, <1>4

\* Where blanks end is told by them.
LEMMA AfterBlanksIs ==
  ASSUME NEW text \in Texts, NEW i \in Nat, NEW n \in Nat, i <= n, n <= Len(text),
         \A j \in i..(n - 1) : CharAt(text, j) \in Blank, CharAt(text, n) \notin Blank
  PROVE  AfterBlanks(text, i) = n
<1> DEFINE end == AfterBlanks(text, i)
<1>0. Len(text) \in Nat /\ i <= Len(text)
  BY LenType
<1>1. /\ end \in Nat /\ i <= end /\ end <= Len(text)
      /\ \A j \in i..(end - 1) : CharAt(text, j) \in Blank
  BY <1>0, AfterBlanksParts
<1>2. CharAt(text, end) \notin Blank
  BY <1>0, AfterBlanksEnds
<1> HIDE DEF end
<1>3. ~(end < n)
  <2>1. end < n => end \in i..(n - 1)
    BY <1>1
  <2>2. QED
    BY <1>2, <2>1
<1>4. ~(n < end)
  <2>1. n < end => n \in i..(end - 1)
    BY <1>1
  <2>2. QED
    BY <1>1, <2>1
<1>5. QED
  BY <1>1, <1>3, <1>4 DEF end

\* A phrase of a keyword that is found, symbol by symbol.
LEMMA PhraseSymbols ==
  ASSUME NEW text \in Texts, NEW i \in 0..(Len(text) - 1), NEW k \in DOMAIN ClauseKeywords,
         PhraseEnd(text, i, ClauseKeywords[k]) # None
  PROVE  LET phrase == ClauseKeywords[k]
             end == PhraseEnd(text, i, phrase)
         IN  /\ end \in Nat /\ i < end /\ end <= Len(text)
             /\ CharAt(text, i) = phrase[1] /\ phrase[1] \in Keywords
             /\ CharAt(text, i + 1) \notin Words /\ CharAt(text, end) \notin Words
             /\ OfOneWord(phrase) => end = i + 1
             /\ OfTwoWords(phrase) => /\ CharAt(text, end - 1) = phrase[2]
                                      /\ \A j \in (i + 1)..(end - 2) : CharAt(text, j) \in Blank
<1> DEFINE phrase == ClauseKeywords[k]
           end == PhraseEnd(text, i, phrase)
<1>0. Len(text) \in Nat /\ i \in Nat /\ i + 1 \in Nat /\ i < Len(text) /\ i + 1 <= Len(text)
  BY LenType
<1>1. phrase[1] \in Keywords /\ (OfOneWord(phrase) \/ OfTwoWords(phrase))
  BY KeywordWords
<1>2. end # None
  OBVIOUS
<1>a. ~(OfOneWord(phrase) /\ OfTwoWords(phrase))
  BY DEF OfOneWord, OfTwoWords
<1> HIDE DEF phrase
<1>3. end \in Nat /\ i < end /\ end <= Len(text)
  BY <1>1, <1>2, PhraseEnds
<1>4. /\ WordEnd(text, i, phrase[1]) = i + 1
      /\ CharAt(text, i) = phrase[1] /\ CharAt(text, i + 1) \notin Words
  <2>1. WordEnd(text, i, phrase[1]) # None
    BY <1>2 DEF PhraseEnd
  <2>2. QED
    BY <2>1 DEF WordEnd, IsIdentifierChar
<1>5. CASE OfOneWord(phrase)
  <2>1. end = i + 1
    BY <1>4, <1>5 DEF PhraseEnd, OfOneWord
  <2> HIDE DEF end
  <2>2. QED
    BY <1>1, <1>3, <1>4, <1>5, <1>a, <2>1 DEF end, phrase
<1>6. CASE OfTwoWords(phrase)
  <2> DEFINE j == AfterBlanks(text, i + 1)
  <2>1. Len(phrase) # 1 /\ i + 1 # None
    <3>1. Len(phrase) # 1
      BY <1>6 DEF OfTwoWords
    <3>2. QED
      BY <1>0, <3>1, Literals
  <2>2. CharAt(text, i + 1) \in Blank /\ end = WordEnd(text, j, phrase[2])
    <3>1. end = IF CharAt(text, i + 1) \notin Blank THEN None ELSE WordEnd(text, j, phrase[2])
      BY <1>4, <2>1 DEF PhraseEnd
    <3>2. QED
      BY <1>2, <3>1
  <2>3. j \in Nat /\ i + 1 <= j /\ j <= Len(text) /\ \A b \in (i + 1)..(j - 1) : CharAt(text, b) \in Blank
    BY <1>0, AfterBlanksParts
  <2> HIDE DEF j, end
  <2>4. end = j + 1 /\ CharAt(text, j) = phrase[2] /\ CharAt(text, j + 1) \notin Words
    BY <1>2, <2>2 DEF WordEnd, IsIdentifierChar
  <2>5. end - 1 = j /\ end - 2 = j - 1
    BY <2>3, <2>4
  <2>6. CharAt(text, end) \notin Words /\ CharAt(text, end - 1) = phrase[2]
        /\ \A b \in (i + 1)..(end - 2) : CharAt(text, b) \in Blank
    BY <2>3, <2>4, <2>5
  <2>7. QED
    BY <1>1, <1>3, <1>4, <1>6, <1>a, <2>6 DEF end, phrase
<1>7. QED
  BY <1>1, <1>5, <1>6

SecondWords == {"MATCH", "DELETE", "CSV", "ALL"}

\* A keyword found is a phrase, and no letter of a word stands before it.
LEMMA KeywordPhrase ==
  ASSUME NEW text \in Texts, NEW i \in 0..(Len(text) - 1), KeywordAt(text, i) # <<>>
  PROVE  /\ CharAt(text, i - 1) \notin Words
         /\ \E k \in DOMAIN ClauseKeywords :
              /\ PhraseEnd(text, i, ClauseKeywords[k]) # None
              /\ KeywordAt(text, i)[1].end = PhraseEnd(text, i, ClauseKeywords[k])
<1> DEFINE S == {k \in DOMAIN ClauseKeywords : PhraseEnd(text, i, ClauseKeywords[k]) # None}
           found == First(S)
           phrase == ClauseKeywords[found]
           end == PhraseEnd(text, i, phrase)
<1>1. S \in SUBSET Nat
  <2>1. DOMAIN ClauseKeywords = 1..19
    BY PhraseWords
  <2>2. DOMAIN ClauseKeywords \subseteq Nat
    BY <2>1
  <2>3. QED
    BY <2>2
<1>2. /\ ~(IsIdentifierChar(CharAt(text, i - 1)) \/ found = None)
      /\ KeywordAt(text, i) = <<[keyword |-> phrase, start |-> i, end |-> end]>>
  BY DEF KeywordAt
<1>3. found \in S
  <2> HIDE DEF S
  <2>1. QED
    BY <1>1, <1>2, FirstIsLeast
<1>4. found \in DOMAIN ClauseKeywords /\ end # None
  BY <1>3
<1> HIDE DEF found, phrase
<1>5. KeywordAt(text, i)[1].end = end
  BY <1>2
<1>6. CharAt(text, i - 1) \notin Words
  BY <1>2 DEF IsIdentifierChar
<1>7. QED
  BY <1>4, <1>5, <1>6 DEF phrase

\* A keyword stands apart, and has words and blanks in it; the one word it may
\* have after the first is its end.
LEMMA KeywordText ==
  ASSUME NEW text \in Texts, NEW i \in 0..(Len(text) - 1), KeywordAt(text, i) # <<>>
  PROVE  LET end == KeywordAt(text, i)[1].end
         IN  /\ end \in Nat /\ i < end /\ end <= Len(text)
             /\ CharAt(text, i) \in Keywords
             /\ CharAt(text, i - 1) \notin Words /\ CharAt(text, i + 1) \notin Words
             /\ CharAt(text, end) \notin Words
             /\ \A j \in i..(end - 1) : CharAt(text, j) \in Words \cup Blank
             /\ \A j \in (i + 1)..(end - 1) :
                  CharAt(text, j) \in Words => j = end - 1 /\ CharAt(text, j) \in SecondWords
<1> DEFINE end == KeywordAt(text, i)[1].end
<1>1. PICK k \in DOMAIN ClauseKeywords :
        PhraseEnd(text, i, ClauseKeywords[k]) # None /\ end = PhraseEnd(text, i, ClauseKeywords[k])
  BY KeywordPhrase
<1> DEFINE phrase == ClauseKeywords[k]
<1>2. /\ end \in Nat /\ i < end /\ end <= Len(text)
      /\ CharAt(text, i) = phrase[1] /\ phrase[1] \in Keywords
      /\ CharAt(text, i + 1) \notin Words /\ CharAt(text, end) \notin Words
      /\ OfOneWord(phrase) => end = i + 1
      /\ OfTwoWords(phrase) => /\ CharAt(text, end - 1) = phrase[2]
                               /\ \A j \in (i + 1)..(end - 2) : CharAt(text, j) \in Blank
  BY <1>1, PhraseSymbols
<1>3. /\ OfOneWord(phrase) \/ OfTwoWords(phrase)
      /\ OfTwoWords(phrase) => phrase[2] \in SecondWords
  BY KeywordWords DEF SecondWords
<1>4. SecondWords \subseteq Words /\ Keywords \subseteq Words
  <2>1. SecondWords \subseteq Keywords
    BY Zenon DEF SecondWords, Keywords
  <2>2. QED
    BY <2>1, WordsApart
<1>5. \A x \in Blank : x \notin Words
  BY WordsApart
<1>6. i \in Nat
  BY LenType
<1>7. CharAt(text, i - 1) \notin Words
  BY KeywordPhrase
<1> HIDE DEF end, phrase
<1>8. ASSUME NEW j \in (i + 1)..(end - 1)
      PROVE  /\ CharAt(text, j) \in Words \cup Blank
             /\ CharAt(text, j) \in Words => j = end - 1 /\ CharAt(text, j) \in SecondWords
  <2>1. OfTwoWords(phrase)
    BY <1>2, <1>3, <1>6, <1>8
  <2>2. CASE j = end - 1
    BY <1>2, <1>3, <1>4, <2>1, <2>2
  <2>3. CASE j # end - 1
    <3>1. j \in (i + 1)..(end - 2)
      BY <1>2, <1>6, <2>3
    <3>2. CharAt(text, j) \in Blank
      BY <1>2, <2>1, <3>1
    <3>3. QED
      BY <1>5, <3>2
  <2>4. QED
    BY <2>2, <2>3
<1>9. ASSUME NEW j \in i..(end - 1)
      PROVE  CharAt(text, j) \in Words \cup Blank
  <2>1. j = i \/ j \in (i + 1)..(end - 1)
    BY <1>2, <1>6
  <2>2. QED
    BY <1>2, <1>4, <1>8, <2>1
<1>10. QED
  BY <1>2, <1>7, <1>8, <1>9 DEF end

\* A keyword in another ends with it.
LEMMA KeywordInside ==
  ASSUME NEW text \in Texts, NEW i \in 0..(Len(text) - 1), KeywordAt(text, i) # <<>>,
         NEW j \in 0..(Len(text) - 1), i < j, j < KeywordAt(text, i)[1].end,
         KeywordAt(text, j) # <<>>
  PROVE  KeywordAt(text, j)[1].end <= KeywordAt(text, i)[1].end
<1> DEFINE end == KeywordAt(text, i)[1].end
           last == KeywordAt(text, j)[1].end
<1>0. Len(text) \in Nat /\ i \in Nat /\ j \in Nat
  BY LenType
<1>1. /\ end \in Nat /\ i < end /\ end <= Len(text)
      /\ \A x \in (i + 1)..(end - 1) :
           CharAt(text, x) \in Words => x = end - 1 /\ CharAt(text, x) \in SecondWords
  BY KeywordText
<1>2. CharAt(text, j) \in Keywords
  BY KeywordText
<1>3. PICK k \in DOMAIN ClauseKeywords :
        PhraseEnd(text, j, ClauseKeywords[k]) # None /\ last = PhraseEnd(text, j, ClauseKeywords[k])
  BY KeywordPhrase
<1> DEFINE phrase == ClauseKeywords[k]
<1>4. CharAt(text, j) = phrase[1] /\ (OfOneWord(phrase) => last = j + 1)
  BY <1>3, PhraseSymbols
<1>5. /\ OfOneWord(phrase) \/ OfTwoWords(phrase)
      /\ OfTwoWords(phrase) => phrase[1] \notin SecondWords
  BY KeywordWords DEF SecondWords
<1>6. j < end
  OBVIOUS
<1> HIDE DEF end, last, phrase
<1>7. j \in (i + 1)..(end - 1)
  BY <1>0, <1>1, <1>6
<1>8. CharAt(text, j) \in Words
  BY <1>2, WordsApart
<1>9. j = end - 1 /\ CharAt(text, j) \in SecondWords
  BY <1>1, <1>7, <1>8
<1>10. last = j + 1
  BY <1>4, <1>5, <1>9
<1>11. last <= end
  BY <1>0, <1>1, <1>9, <1>10
<1>12. QED
  BY <1>11 DEF end, last

\* No keyword reaches over what is neither a word nor a blank.
LEMMA KeywordBefore ==
  ASSUME NEW text \in Texts, NEW b \in Nat, b < Len(text), CharAt(text, b) \notin Words \cup Blank,
         NEW j \in Nat, j <= b, KeywordAt(text, j) # <<>>
  PROVE  KeywordAt(text, j)[1].end <= b
<1> DEFINE end == KeywordAt(text, j)[1].end
<1>0. Len(text) \in Nat /\ b \in Nat /\ j \in Nat /\ j \in 0..(Len(text) - 1) /\ j <= b
  BY LenType
<1>1. /\ end \in Nat
      /\ \A x \in j..(end - 1) : CharAt(text, x) \in Words \cup Blank
  BY <1>0, KeywordText
<1> HIDE DEF end
<1>2. b \notin j..(end - 1)
  BY <1>1
<1>3. end <= b
  BY <1>0, <1>1, <1>2
<1>4. QED
  BY <1>3 DEF end

\* A part of a text that cuts neither words nor runs of blanks.
IsPart(text, a, b) ==
  /\ text \in Texts /\ a \in Nat /\ b \in Nat /\ a <= b /\ b <= Len(text)
  /\ CharAt(text, a - 1) \notin Words \cup Blank
  /\ CharAt(text, b) \notin Words \cup Blank

\* The same word or blank, or neither.
Alike(x, y) == x = y \/ (x \notin Words \cup Blank /\ y \notin Words \cup Blank)

\* From before its first symbol to after its last a part looks like the whole.
LEMMA PartAlike ==
  ASSUME NEW text, NEW a, NEW b, IsPart(text, a, b)
  PROVE  LET part == Slice(text, a, b)
         IN  /\ part \in Texts /\ Len(part) = b - a /\ a \in Nat /\ b - a \in Nat
             /\ a + (b - a) <= Len(text) /\ text \in Texts /\ Len(text) \in Nat
             /\ \A i \in -1..(b - a) : Alike(CharAt(part, i), CharAt(text, a + i))
<1> DEFINE part == Slice(text, a, b)
<1>1. /\ text \in Texts /\ a \in Nat /\ b \in Nat /\ a <= b /\ b <= Len(text)
      /\ CharAt(text, a - 1) \notin Words \cup Blank
      /\ CharAt(text, b) \notin Words \cup Blank
  BY DEF IsPart
<1>2. Len(text) \in Nat
  BY <1>1, LenType
<1>3. part \in Texts /\ Len(part) = b - a
      /\ \A i \in 0..(b - a - 1) : CharAt(part, i) = CharAt(text, a + i)
  BY <1>1, SliceParts
<1> HIDE DEF part
<1>4. EndOfText \notin Words \cup Blank
  BY WordsApart
<1>5. CharAt(part, -1) = EndOfText
  BY <1>1, <1>3 DEF CharAt
<1>6. CharAt(part, b - a) = EndOfText
  <2>1. b - a \notin 0..(Len(part) - 1)
    BY <1>1, <1>3
  <2>2. QED
    BY <2>1 DEF CharAt
<1>7. ASSUME NEW i \in -1..(b - a)
      PROVE  Alike(CharAt(part, i), CharAt(text, a + i))
  <2>1. CASE i = -1
    <3>1. a + i = a - 1
      BY <1>1, <2>1
    <3>2. QED
      BY <1>1, <1>4, <1>5, <2>1, <3>1 DEF Alike
  <2>2. CASE i = b - a
    <3>1. a + i = b
      BY <1>1, <2>2
    <3>2. QED
      BY <1>1, <1>4, <1>6, <2>2, <3>1 DEF Alike
  <2>3. CASE i # -1 /\ i # b - a
    <3>1. i \in 0..(b - a - 1)
      BY <1>1, <2>3
    <3>2. QED
      BY <1>3, <3>1 DEF Alike
  <2>4. QED
    BY <2>1, <2>2, <2>3
<1>8. b - a \in Nat /\ a + (b - a) <= Len(text)
  BY <1>1, <1>2
<1>9. QED
  BY <1>1, <1>2, <1>3, <1>7, <1>8 DEF part

\* Where a word ends, if it stands there.
LEMMA WordEnds ==
  ASSUME NEW text, NEW i \in Nat, NEW w
  PROVE  /\ WordEnd(text, i, w) # None <=> CharAt(text, i) = w /\ CharAt(text, i + 1) \notin Words
         /\ WordEnd(text, i, w) # None => WordEnd(text, i, w) = i + 1
<1>0. i + 1 \in Nat
  OBVIOUS
<1>1. i + 1 # None
  BY <1>0, Literals
<1>2. QED
  BY <1>1 DEF WordEnd, IsIdentifierChar

\* A word is in a part where it is in the whole.
LEMMA WordOfPart ==
  ASSUME NEW text, NEW a, NEW b, IsPart(text, a, b), NEW i \in 0..(b - a), NEW w \in Words
  PROVE  LET part == Slice(text, a, b)
         IN  /\ WordEnd(part, i, w) # None <=> WordEnd(text, a + i, w) # None
             /\ WordEnd(part, i, w) # None => WordEnd(text, a + i, w) = a + WordEnd(part, i, w)
<1> DEFINE part == Slice(text, a, b)
<1>1. /\ part \in Texts /\ Len(part) = b - a /\ a \in Nat /\ b - a \in Nat
      /\ \A j \in -1..(b - a) : Alike(CharAt(part, j), CharAt(text, a + j))
  BY PartAlike
<1> DEFINE n == b - a
<1> HIDE DEF part, n
<1>2. n \in Nat /\ i \in 0..n /\ i \in Nat /\ i \in -1..n /\ a + i \in Nat /\ (a + i) + 1 = a + (i + 1)
  BY <1>1 DEF n
<1>3. CharAt(part, i) = w <=> CharAt(text, a + i) = w
  <2>1. Alike(CharAt(part, i), CharAt(text, a + i))
    BY <1>1, <1>2 DEF n
  <2>2. QED
    BY <2>1 DEF Alike
<1>4. ASSUME CharAt(part, i) = w
      PROVE  CharAt(part, i + 1) \notin Words <=> CharAt(text, (a + i) + 1) \notin Words
  <2>1. i \in 0..(n - 1)
    <3>1. CharAt(part, i) # EndOfText
      BY <1>4, WordsApart
    <3>2. i \in 0..(Len(part) - 1)
      BY <3>1 DEF CharAt
    <3>3. QED
      BY <1>1, <3>2 DEF n
  <2>2. i + 1 \in -1..n
    BY <1>2, <2>1
  <2>3. Alike(CharAt(part, i + 1), CharAt(text, a + (i + 1)))
    BY <1>1, <2>2 DEF n
  <2>4. QED
    BY <1>2, <2>3 DEF Alike
<1>5. /\ WordEnd(part, i, w) # None <=> CharAt(part, i) = w /\ CharAt(part, i + 1) \notin Words
      /\ WordEnd(part, i, w) # None => WordEnd(part, i, w) = i + 1
  BY <1>2, WordEnds
<1>6. /\ WordEnd(text, a + i, w) # None <=>
           CharAt(text, a + i) = w /\ CharAt(text, (a + i) + 1) \notin Words
      /\ WordEnd(text, a + i, w) # None => WordEnd(text, a + i, w) = (a + i) + 1
  BY <1>2, WordEnds
<1>7. WordEnd(part, i, w) # None <=> WordEnd(text, a + i, w) # None
  BY <1>3, <1>4, <1>5, <1>6
<1>8. WordEnd(part, i, w) # None => WordEnd(text, a + i, w) = a + WordEnd(part, i, w)
  BY <1>2, <1>5, <1>6, <1>7
<1>9. QED
  BY <1>7, <1>8 DEF part

\* A run of blanks ends in a part where it ends in the whole.
LEMMA BlanksOfPart ==
  ASSUME NEW text, NEW a, NEW b, IsPart(text, a, b), NEW i \in 0..(b - a)
  PROVE  LET part == Slice(text, a, b)
         IN  /\ AfterBlanks(part, i) \in 0..(b - a)
             /\ AfterBlanks(text, a + i) = a + AfterBlanks(part, i)
<1> DEFINE part == Slice(text, a, b)
           n == b - a
           end == AfterBlanks(part, i)
<1>1. /\ part \in Texts /\ Len(part) = b - a /\ a \in Nat /\ b - a \in Nat
      /\ text \in Texts /\ Len(text) \in Nat /\ a + (b - a) <= Len(text)
      /\ \A j \in -1..(b - a) : Alike(CharAt(part, j), CharAt(text, a + j))
  BY PartAlike
<1> HIDE DEF part, n, end
<1>2. n \in Nat /\ i \in Nat /\ i <= n /\ n = Len(part) /\ a + n <= Len(text)
      /\ \A j \in -1..n : Alike(CharAt(part, j), CharAt(text, a + j))
  BY <1>1 DEF n
<1>3. /\ end \in Nat /\ i <= end /\ end <= n
      /\ \A j \in i..(end - 1) : CharAt(part, j) \in Blank
  BY <1>1, <1>2, AfterBlanksParts DEF end
<1>4. CharAt(part, end) \notin Blank
  BY <1>1, <1>2, AfterBlanksEnds DEF end
<1> DEFINE x == a + i
           y == a + end
<1>5. /\ x \in Nat /\ y \in Nat /\ x <= y /\ y <= Len(text)
      /\ \A k \in x..(y - 1) : k - a \in i..(end - 1) /\ k - a \in -1..n /\ a + (k - a) = k
  BY <1>1, <1>2, <1>3
<1>6. CharAt(text, y) \notin Blank
  <2>1. end \in -1..n
    BY <1>2, <1>3
  <2>2. Alike(CharAt(part, end), CharAt(text, a + end))
    BY <1>2, <2>1
  <2>3. QED
    BY <1>4, <2>2 DEF Alike
<1>7. x = a + i /\ y = a + end
  OBVIOUS
<1> HIDE DEF x, y
<1>8. AfterBlanks(text, x) = y
  <2>1. ASSUME NEW k \in x..(y - 1)
        PROVE  CharAt(text, k) \in Blank
    <3>1. k - a \in i..(end - 1) /\ k - a \in -1..n /\ a + (k - a) = k
      BY <1>5
    <3>2. CharAt(part, k - a) \in Blank /\ Alike(CharAt(part, k - a), CharAt(text, a + (k - a)))
      BY <1>2, <1>3, <3>1
    <3>3. QED
      BY <3>1, <3>2 DEF Alike
  <2>2. QED
    BY <1>1, <1>5, <1>6, <2>1, AfterBlanksIs
<1>9. end \in 0..n
  BY <1>2, <1>3
<1>10. QED
  BY <1>7, <1>8, <1>9 DEF part, n, end

\* Of a phrase that is found: the end of a word, or of two with blanks between.
LEMMA PhraseCases ==
  ASSUME NEW text, NEW i \in Nat, NEW phrase
  PROVE  /\ OfOneWord(phrase) => PhraseEnd(text, i, phrase) = WordEnd(text, i, phrase[1])
         /\ OfTwoWords(phrase) /\ WordEnd(text, i, phrase[1]) = None => PhraseEnd(text, i, phrase) = None
         /\ OfTwoWords(phrase) /\ WordEnd(text, i, phrase[1]) # None =>
              /\ CharAt(text, i + 1) \notin Blank => PhraseEnd(text, i, phrase) = None
              /\ CharAt(text, i + 1) \in Blank =>
                   PhraseEnd(text, i, phrase) = WordEnd(text, AfterBlanks(text, i + 1), phrase[2])
<1>1. OfOneWord(phrase) => PhraseEnd(text, i, phrase) = WordEnd(text, i, phrase[1])
  BY DEF PhraseEnd, OfOneWord
<1>2. WordEnd(text, i, phrase[1]) # None => WordEnd(text, i, phrase[1]) = i + 1
  BY WordEnds
<1>3. OfTwoWords(phrase) => Len(phrase) # 1
  BY DEF OfTwoWords
<1>4. OfTwoWords(phrase) /\ WordEnd(text, i, phrase[1]) = None => PhraseEnd(text, i, phrase) = None
  BY <1>3 DEF PhraseEnd
<1>5. ASSUME OfTwoWords(phrase), WordEnd(text, i, phrase[1]) # None
      PROVE  /\ CharAt(text, i + 1) \notin Blank => PhraseEnd(text, i, phrase) = None
             /\ CharAt(text, i + 1) \in Blank =>
                  PhraseEnd(text, i, phrase) = WordEnd(text, AfterBlanks(text, i + 1), phrase[2])
  <2>1. PhraseEnd(text, i, phrase) =
          IF CharAt(text, i + 1) \notin Blank THEN None
          ELSE WordEnd(text, AfterBlanks(text, i + 1), phrase[2])
    BY <1>2, <1>3, <1>5 DEF PhraseEnd
  <2>2. QED
    BY <2>1
<1>6. QED
  BY <1>1, <1>4, <1>5

\* A phrase is in a part where it is in the whole.
LEMMA PhraseOfPart ==
  ASSUME NEW text, NEW a, NEW b, IsPart(text, a, b), NEW i \in 0..(b - a - 1),
         NEW phrase, OfOneWord(phrase) \/ OfTwoWords(phrase), phrase[1] \in Words,
         OfTwoWords(phrase) => phrase[2] \in Words
  PROVE  LET part == Slice(text, a, b)
         IN  /\ PhraseEnd(part, i, phrase) # None <=> PhraseEnd(text, a + i, phrase) # None
             /\ PhraseEnd(part, i, phrase) # None =>
                  PhraseEnd(text, a + i, phrase) = a + PhraseEnd(part, i, phrase)
<1> DEFINE part == Slice(text, a, b)
           n == b - a
           first == WordEnd(part, i, phrase[1])
           copy == WordEnd(text, a + i, phrase[1])
           x == a + i
<1>1. /\ a \in Nat /\ b - a \in Nat
      /\ \A j \in -1..(b - a) : Alike(CharAt(part, j), CharAt(text, a + j))
  BY PartAlike
<1>2. /\ i \in Nat /\ i \in 0..(b - a) /\ i + 1 \in 0..(b - a) /\ i + 1 \in -1..(b - a)
      /\ x \in Nat /\ x + 1 = a + (i + 1) /\ i + 1 \in Nat
  BY <1>1
<1>3. first # None <=> copy # None
  BY <1>2, WordOfPart
<1>4. first # None => copy = a + first
  BY <1>2, WordOfPart
<1>5. CharAt(part, i + 1) \in Blank <=> CharAt(text, x + 1) \in Blank
  <2>1. Alike(CharAt(part, i + 1), CharAt(text, a + (i + 1)))
    BY <1>1, <1>2
  <2> HIDE DEF part, x
  <2>2. QED
    BY <1>2, <2>1 DEF Alike
<1> DEFINE after == AfterBlanks(part, i + 1)
           later == AfterBlanks(text, x + 1)
           second == WordEnd(part, after, phrase[2])
           other == WordEnd(text, later, phrase[2])
<1>6. after \in 0..(b - a) /\ later = a + after
  <2> HIDE DEF x
  <2>1. AfterBlanks(part, i + 1) \in 0..(b - a) /\ AfterBlanks(text, a + (i + 1)) = a + AfterBlanks(part, i + 1)
    BY <1>2, BlanksOfPart
  <2>2. QED
    BY <1>2, <2>1
<1>7. OfTwoWords(phrase) => (second # None <=> other # None)
  <2> HIDE DEF after, later
  <2>1. QED
    BY <1>6, WordOfPart
<1>8. OfTwoWords(phrase) => (second # None => other = a + second)
  <2> HIDE DEF after, later
  <2>1. QED
    BY <1>6, WordOfPart
<1>9. /\ OfOneWord(phrase) => PhraseEnd(part, i, phrase) = first
      /\ OfTwoWords(phrase) /\ first = None => PhraseEnd(part, i, phrase) = None
      /\ OfTwoWords(phrase) /\ first # None =>
           /\ CharAt(part, i + 1) \notin Blank => PhraseEnd(part, i, phrase) = None
           /\ CharAt(part, i + 1) \in Blank => PhraseEnd(part, i, phrase) = second
  BY <1>2, PhraseCases
<1>10. /\ OfOneWord(phrase) => PhraseEnd(text, x, phrase) = copy
       /\ OfTwoWords(phrase) /\ copy = None => PhraseEnd(text, x, phrase) = None
       /\ OfTwoWords(phrase) /\ copy # None =>
            /\ CharAt(text, x + 1) \notin Blank => PhraseEnd(text, x, phrase) = None
            /\ CharAt(text, x + 1) \in Blank => PhraseEnd(text, x, phrase) = other
  BY <1>2, PhraseCases
<1>11. x = a + i
  OBVIOUS
<1> HIDE DEF first, copy, second, other, x, part
<1>12. PhraseEnd(part, i, phrase) # None <=> PhraseEnd(text, x, phrase) # None
  BY <1>3, <1>5, <1>7, <1>9, <1>10
<1>13. PhraseEnd(part, i, phrase) # None => PhraseEnd(text, x, phrase) = a + PhraseEnd(part, i, phrase)
  BY <1>3, <1>4, <1>5, <1>7, <1>8, <1>9, <1>10
<1>14. QED
  BY <1>11, <1>12, <1>13 DEF part

\* So is a keyword, and it ends in both at one place.
LEMMA KeywordOfPart ==
  ASSUME NEW text, NEW a, NEW b, IsPart(text, a, b), NEW i \in 0..(b - a - 1)
  PROVE  LET part == Slice(text, a, b)
         IN  /\ KeywordAt(part, i) # <<>> <=> KeywordAt(text, a + i) # <<>>
             /\ KeywordAt(part, i) # <<>> =>
                  KeywordAt(text, a + i)[1].end = a + KeywordAt(part, i)[1].end
<1> DEFINE part == Slice(text, a, b)
           Fits(t, j) == {k \in DOMAIN ClauseKeywords : PhraseEnd(t, j, ClauseKeywords[k]) # None}
           x == a + i
           found == First(Fits(part, i))
<1>1. /\ part \in Texts /\ Len(part) = b - a /\ a \in Nat /\ b - a \in Nat
      /\ text \in Texts /\ Len(text) \in Nat /\ a + (b - a) <= Len(text)
      /\ \A j \in -1..(b - a) : Alike(CharAt(part, j), CharAt(text, a + j))
  BY PartAlike
<1>2. i - 1 \in -1..(b - a) /\ x - 1 = a + (i - 1)
  BY <1>1
<1>3. IsIdentifierChar(CharAt(part, i - 1)) <=> IsIdentifierChar(CharAt(text, x - 1))
  <2>1. Alike(CharAt(part, i - 1), CharAt(text, a + (i - 1)))
    BY <1>1, <1>2
  <2> HIDE DEF part, x
  <2>2. QED
    BY <1>2, <2>1 DEF Alike, IsIdentifierChar
<1>4. ASSUME NEW k \in DOMAIN ClauseKeywords
      PROVE  /\ PhraseEnd(part, i, ClauseKeywords[k]) # None <=> PhraseEnd(text, x, ClauseKeywords[k]) # None
             /\ PhraseEnd(part, i, ClauseKeywords[k]) # None =>
                  PhraseEnd(text, x, ClauseKeywords[k]) = a + PhraseEnd(part, i, ClauseKeywords[k])
  <2> DEFINE phrase == ClauseKeywords[k]
  <2>1. /\ OfOneWord(phrase) \/ OfTwoWords(phrase)
        /\ phrase[1] \in Words
        /\ OfTwoWords(phrase) => phrase[2] \in Words
    BY KeywordWords, WordsApart DEF OfTwoWords
  <2> HIDE DEF phrase
  <2>2. /\ PhraseEnd(part, i, phrase) # None <=> PhraseEnd(text, x, phrase) # None
        /\ PhraseEnd(part, i, phrase) # None =>
             PhraseEnd(text, x, phrase) = a + PhraseEnd(part, i, phrase)
    BY <2>1, PhraseOfPart
  <2>3. QED
    BY <2>2 DEF phrase
<1>5. Fits(part, i) = Fits(text, x)
  BY <1>4
<1>6. KeywordAt(part, i) =
        IF IsIdentifierChar(CharAt(part, i - 1)) \/ found = None THEN <<>>
        ELSE <<[keyword |-> ClauseKeywords[found], start |-> i,
                end |-> PhraseEnd(part, i, ClauseKeywords[found])]>>
  BY Zenon DEF KeywordAt
<1>7. KeywordAt(text, x) =
        IF IsIdentifierChar(CharAt(text, x - 1)) \/ found = None THEN <<>>
        ELSE <<[keyword |-> ClauseKeywords[found], start |-> x,
                end |-> PhraseEnd(text, x, ClauseKeywords[found])]>>
  <2>1. found = First(Fits(text, x))
    BY <1>5
  <2> HIDE DEF found
  <2>2. QED
    BY <2>1, Zenon DEF KeywordAt
<1>8. ASSUME found # None
      PROVE  found \in Fits(part, i)
  <2>1. Fits(part, i) \in SUBSET Nat
    <3>1. DOMAIN ClauseKeywords \subseteq Nat
      <4>1. DOMAIN ClauseKeywords = 1..19
        BY PhraseWords
      <4>2. QED
        BY <4>1
    <3>2. QED
      BY <3>1
  <2> DEFINE F == Fits(part, i)
  <2>2. F \in SUBSET Nat /\ First(F) # None
    BY <1>8, <2>1
  <2> HIDE DEF F
  <2>3. First(F) \in F
    BY <2>2, FirstIsLeast
  <2>4. QED
    BY <2>3 DEF F
<1>9. ASSUME found # None
      PROVE  PhraseEnd(text, x, ClauseKeywords[found]) = a + PhraseEnd(part, i, ClauseKeywords[found])
  <2>1. found \in DOMAIN ClauseKeywords /\ PhraseEnd(part, i, ClauseKeywords[found]) # None
    BY <1>8, <1>9
  <2> HIDE DEF found
  <2>2. QED
    BY <1>4, <2>1
<1>10. x = a + i
  OBVIOUS
<1> HIDE DEF found, x, part
<1>11. KeywordAt(part, i) # <<>> <=> KeywordAt(text, x) # <<>>
  BY <1>3, <1>6, <1>7
<1>12. KeywordAt(part, i) # <<>> => KeywordAt(text, x)[1].end = a + KeywordAt(part, i)[1].end
  <2>1. SUFFICES ASSUME KeywordAt(part, i) # <<>>
                 PROVE  KeywordAt(text, x)[1].end = a + KeywordAt(part, i)[1].end
    OBVIOUS
  <2>2. found # None
    BY <1>6, <2>1
  <2>3. KeywordAt(part, i)[1].end = PhraseEnd(part, i, ClauseKeywords[found])
    BY <1>6, <2>1
  <2>4. KeywordAt(text, x)[1].end = PhraseEnd(text, x, ClauseKeywords[found])
    BY <1>7, <1>11, <2>1
  <2>5. QED
    BY <1>9, <2>2, <2>3, <2>4
<1>13. QED
  BY <1>10, <1>11, <1>12 DEF part

-----------------------------------------------------------------------------
(***************************************************************************)
(* The keywords a reader finds in a text, one after the other.             *)
(***************************************************************************)
\* Where no keyword is, none begins and none reaches further.
LEMMA HeadsStay ==
  ASSUME NEW text \in Texts, NEW m, NEW o, NEW a \in Nat, NEW b \in Nat, a <= b, b <= Len(text),
         Cleared(m, o, text, a), \A j \in a..(b - 1) : ~KeywordIn(m, o, text, j)
  PROVE  Heads(m, o, text, b) = Heads(m, o, text, a) /\ Cleared(m, o, text, b)
<1>0. Len(text) \in Nat
  BY LenType
<1>1. \A j \in 0..(b - 1) : j \in 0..(a - 1) \/ j \in a..(b - 1)
  OBVIOUS
<1>2. \A j \in 0..(a - 1) : j \in 0..(b - 1)
  OBVIOUS
<1>3. Heads(m, o, text, b) = Heads(m, o, text, a)
  BY <1>1, <1>2 DEF Heads, IsHead
<1>4. ASSUME NEW j \in 0..(b - 1), KeywordIn(m, o, text, j)
      PROVE  EndAt(text, j) <= b
  <2>1. j \in 0..(a - 1)
    BY <1>1, <1>4
  <2>2. EndAt(text, j) <= a
    BY <1>4, <2>1 DEF Cleared
  <2>3. EndAt(text, j) \in Nat
    <3>1. j \in 0..(Len(text) - 1) /\ KeywordAt(text, j) # <<>>
      BY <1>0, <1>4 DEF KeywordIn
    <3>2. QED
      BY <3>1, KeywordText DEF EndAt
  <2>4. QED
    BY <2>2, <2>3
<1>5. QED
  BY <1>3, <1>4 DEF Cleared

\* A keyword that no other reaches over is the only one up to its end.
LEMMA HeadsGrow ==
  ASSUME NEW text \in Texts, NEW m, NEW o, NEW a \in 0..(Len(text) - 1),
         KeywordIn(m, o, text, a), Cleared(m, o, text, a)
  PROVE  LET b == EndAt(text, a)
         IN  Heads(m, o, text, b) = Heads(m, o, text, a) \cup {a} /\ Cleared(m, o, text, b)
<1> DEFINE b == EndAt(text, a)
<1>0. Len(text) \in Nat /\ a \in Nat
  BY LenType
<1>1. KeywordAt(text, a) # <<>>
  BY DEF KeywordIn
<1>2. b \in Nat /\ a < b /\ b <= Len(text)
  BY <1>1, KeywordText DEF EndAt
<1>b. EndAt(text, a) = b
  OBVIOUS
<1> HIDE DEF b
<1>3. /\ \A j \in 0..(b - 1) : j \in 0..(a - 1) \/ j = a \/ j \in (a + 1)..(b - 1)
      /\ \A j \in 0..(a - 1) : j \in 0..(b - 1)
      /\ \A j \in (a + 1)..(b - 1) : a \in 0..(j - 1) /\ j \in Nat /\ ~(b <= j)
      /\ a \in 0..(b - 1)
  BY <1>0, <1>2
<1>4. ASSUME NEW j \in 0..(b - 1), KeywordIn(m, o, text, j)
      PROVE  EndAt(text, j) <= b
  <2>1. j \in 0..(Len(text) - 1) /\ KeywordAt(text, j) # <<>> /\ j \in Nat
    BY <1>0, <1>2, <1>4 DEF KeywordIn
  <2>2. EndAt(text, j) \in Nat
    BY <2>1, KeywordText DEF EndAt
  <2>3. CASE j \in 0..(a - 1)
    <3>1. EndAt(text, j) <= a
      BY <1>4, <2>3 DEF Cleared
    <3>2. QED
      BY <1>0, <1>2, <2>2, <3>1
  <2>4. CASE j = a
    BY <1>2, <1>b, <2>4
  <2>5. CASE j \in (a + 1)..(b - 1)
    <3>1. a < j /\ j < b
      BY <1>0, <1>2, <2>5
    <3>2. KeywordAt(text, j)[1].end <= KeywordAt(text, a)[1].end
      BY <1>1, <1>b, <2>1, <3>1, KeywordInside DEF EndAt
    <3>3. QED
      BY <1>b, <3>2 DEF EndAt
  <2>6. QED
    BY <1>3, <2>3, <2>4, <2>5
<1>5. Cleared(m, o, text, b)
  BY <1>4 DEF Cleared
<1>6. IsHead(m, o, text, a)
  BY DEF IsHead, Cleared
<1>7. \A j \in (a + 1)..(b - 1) : ~IsHead(m, o, text, j)
  BY <1>3, <1>b DEF IsHead
<1>8. ASSUME NEW j
      PROVE  j \in Heads(m, o, text, b) <=> j \in Heads(m, o, text, a) \cup {a}
  <2>1. j \in Heads(m, o, text, b) <=> j \in 0..(b - 1) /\ IsHead(m, o, text, j)
    BY DEF Heads
  <2>2. j \in Heads(m, o, text, a) <=> j \in 0..(a - 1) /\ IsHead(m, o, text, j)
    BY DEF Heads
  <2>3. QED
    BY <1>3, <1>6, <1>7, <2>1, <2>2
<1>9. Heads(m, o, text, b) = Heads(m, o, text, a) \cup {a}
  BY <1>8
<1>10. QED
  BY <1>5, <1>9 DEF b

\* Words and blanks leave a reader in code, and what is open.
LEMMA PlainRead ==
  ASSUME NEW text \in Texts, NEW m, Reads(m, text), NEW o, OpensRead(o, m, text),
         NEW a \in Nat, NEW b \in Nat, a < b, b <= Len(text), m[a + 1] = "code",
         \A j \in a..(b - 1) : CharAt(text, j) \in Words \cup Blank
  PROVE  /\ m[b + 1] = "code" /\ Ready(m, text, b)
         /\ o[b + 1] = o[a + 1]
<1> DEFINE InCode == {n \in Nat : a <= n /\ n <= b => m[n + 1] = "code"}
<1>0. Len(text) \in Nat
  BY LenType
<1>1. \A x \in Words \cup Blank : x \notin Quotes /\ x # "/" /\ x \notin Openers \cup Closers
  BY WordsApart
<1>2. ASSUME NEW n \in Nat, n \in InCode
      PROVE  n + 1 \in InCode
  <2>1. SUFFICES ASSUME a <= n + 1, n + 1 <= b
                 PROVE  m[(n + 1) + 1] = "code"
    OBVIOUS
  <2>2. CASE n + 1 = a
    BY <2>2
  <2>3. CASE n + 1 # a
    <3>1. a <= n /\ n <= b /\ n \in 0..(Len(text) - 1) /\ n \in a..(b - 1) /\ (n + 1) + 1 = n + 2
      BY <1>0, <2>1, <2>3
    <3>2. m[n + 1] = "code"
      BY <1>2, <3>1
    <3>3. CharAt(text, n) \notin Quotes /\ CharAt(text, n) # "/"
      BY <1>1, <3>1
    <3>4. ~StartsLineComment(text, n) /\ ~StartsBlockComment(text, n)
      BY <3>3 DEF StartsLineComment, StartsBlockComment
    <3>5. m[n + 2] = "code"
      BY <3>1, <3>2, <3>3, <3>4, SymbolModes
    <3>6. QED
      BY <3>1, <3>5
  <2>4. QED
    BY <2>2, <2>3
<1>3. 0 \in InCode
  OBVIOUS
<1>4. Nat \subseteq InCode
  <2> HIDE DEF InCode
  <2>1. QED
    BY <1>2, <1>3, Joining!NaturalInduction
<1>5. \A n \in Nat : a <= n /\ n <= b => m[n + 1] = "code"
  BY <1>4
<1>6. b - 1 \in Nat /\ a <= b - 1 /\ b - 1 <= b /\ (b - 1) + 1 = b
  OBVIOUS
<1>7. m[b + 1] = "code" /\ m[b] = "code"
  BY <1>5, <1>6
<1>8. "code" \notin Quotes
  BY ModesApart
<1>9. Ready(m, text, b)
  BY <1>7, <1>8 DEF Ready
<1>10. \A j \in a..(b - 1) : CharAt(text, j) \notin Openers \cup Closers
  BY <1>1
<1>11. \A i \in a..b : o[i + 1] = o[a + 1]
  BY <1>10, OpensKept
<1>12. b \in a..b
  OBVIOUS
<1>13. QED
  BY <1>7, <1>9, <1>11, <1>12

-----------------------------------------------------------------------------
(***************************************************************************)
(* The second scanner reads the text of its statement as a reader does.    *)
(***************************************************************************)
\* The reference is one of the statement.
LEMMA RawRead ==
  ASSUME Inv, phase = "clauses"
  PROVE  /\ Raw \in Texts /\ Len(Raw) \in Nat
         /\ Reads(RawModes, Raw) /\ OpensRead(RawNesting, RawModes, Raw)
<1>1. Raw \in Texts /\ Len(Raw) \in Nat
  BY RawParts
<1>2. Reads(RawModes, Raw)
  BY <1>1, ModesRead DEF RawModes
<1>3. OpensRead(RawNesting, RawModes, Raw)
  BY <1>1, OpensAreRead DEF RawNesting
<1>4. QED
  BY <1>1, <1>2, <1>3

\* The text of the statement stays while the scanner is in it.
LEMMA RawStays ==
  ASSUME UNCHANGED <<source, statements, current>>
  PROVE  Raw' = Raw /\ RawModes' = RawModes /\ RawNesting' = RawNesting
<1>1. Raw' = Raw
  BY DEF Raw, TextOf
<1>2. RawModes' = RawModes
  BY <1>1 DEF RawModes
<1>3. QED
  BY <1>1, <1>2 DEF RawNesting

\* It may pass what has no keyword in it.
LEMMA SearchPasses ==
  ASSUME Inv, SearchInv, Searching, UNCHANGED <<source, phase, statements, current, matches>>,
         at' \in Nat, at < at', at' <= Len(Raw), Ready(RawModes, Raw, at'),
         stack' = RawNesting[at' + 1],
         \A j \in at..(at' - 1) : ~KeywordIn(RawModes, RawNesting, Raw, j)
  PROVE  SearchInv'
<1>1. Raw' = Raw /\ RawModes' = RawModes /\ RawNesting' = RawNesting /\ phase = "clauses"
  BY RawStays DEF Searching
<1>2. Raw \in Texts /\ Len(Raw) \in Nat /\ at \in Nat
  BY <1>1, RawParts
<1>3. /\ StartsOf(matches) = Heads(RawModes, RawNesting, Raw, at)
      /\ Cleared(RawModes, RawNesting, Raw, at)
  BY <1>1 DEF SearchInv
<1>4. /\ Heads(RawModes, RawNesting, Raw, at') = Heads(RawModes, RawNesting, Raw, at)
      /\ Cleared(RawModes, RawNesting, Raw, at')
  <2> DEFINE b == at'
  <2>a. b \in Nat /\ at < b /\ b <= Len(Raw)
    OBVIOUS
  <2>b. \A j \in at..(b - 1) : ~KeywordIn(RawModes, RawNesting, Raw, j)
    OBVIOUS
  <2> HIDE DEF b
  <2>1. at <= b
    BY <1>2, <2>a
  <2>2. /\ Heads(RawModes, RawNesting, Raw, b) = Heads(RawModes, RawNesting, Raw, at)
        /\ Cleared(RawModes, RawNesting, Raw, b)
    BY <1>2, <1>3, <2>a, <2>b, <2>1, HeadsStay
  <2>3. QED
    BY <2>2 DEF b
<1>5. StartsOf(matches)' = StartsOf(matches)
  BY DEF StartsOf
<1>6. /\ Ready(RawModes', Raw', at') /\ stack' = RawNesting'[at' + 1]
      /\ StartsOf(matches)' = Heads(RawModes', RawNesting', Raw', at')
      /\ Cleared(RawModes', RawNesting', Raw', at')
  BY <1>1, <1>3, <1>4, <1>5
<1>7. QED
  BY <1>6 DEF SearchInv

\* A comment or a quoted token has no keyword in it.
LEMMA TokenPasses ==
  ASSUME Inv, SearchInv, PassToken
  PROVE  SearchInv'
<1>1. Searching /\ UNCHANGED <<source, phase, statements, current, matches, stack>>
  BY DEF PassToken
<1>2. /\ phase = "clauses" /\ Raw \in Texts /\ Len(Raw) \in Nat /\ at \in 0..(Len(Raw) - 1) /\ at \in Nat
  BY <1>1, SearchingAt
<1>3. Reads(RawModes, Raw) /\ OpensRead(RawNesting, RawModes, Raw)
  BY <1>2, RawRead
<1>4. Ready(RawModes, Raw, at) /\ stack = RawNesting[at + 1]
  BY <1>2 DEF SearchInv
<1>5. /\ at' \in Nat /\ at < at' /\ at' <= Len(Raw) /\ Ready(RawModes, Raw, at')
      /\ \A j \in at..(at' - 1) : ~IsCode(RawModes, j)
  <2>1. CASE /\ StartsLineComment(Raw, at)
             /\ at' = IF IndexOfNewline(Raw, at + 2) = None THEN Len(Raw)
                      ELSE IndexOfNewline(Raw, at + 2) + 1
    <3> DEFINE end == LineCommentEnd(Raw, at)
               found == IndexOfNewline(Raw, at + 2)
    <3>1. Passed(RawModes, Raw, at, end, TRUE)
      BY <1>2, <1>3, <1>4, <2>1, LinePassed
    <3>2. RawModes[at + 1] = "code"
      <4>1. CharAt(Raw, at) # "\n"
        BY <2>1, NoNewline DEF StartsLineComment
      <4>2. QED
        BY <1>2, <1>3, <1>4, <4>1, ReadyInCode
    <3>3. /\ end \in Nat /\ at + 2 <= end /\ end <= Len(Raw)
          /\ \A j \in (at + 1)..end : RawModes[j + 1] = "line"
          /\ end < Len(Raw) => CharAt(Raw, end) = "\n" /\ RawModes[end + 2] = "code"
      BY <1>2, <1>3, <2>1, <3>2, LineModes
    <3>4. end < Len(Raw) => ~IsCode(RawModes, end)
      BY <1>2, <1>3, <2>1, <3>2, LineIsComment
    <3>5. found # None => found \in Nat /\ at + 2 <= found /\ found < Len(Raw)
      BY <1>2, <2>1, NewlineFound
    <3>6. at' = IF found = None THEN Len(Raw) ELSE found + 1
      BY <2>1
    <3>7. end = IF found = None THEN Len(Raw) ELSE found
      BY DEF LineCommentEnd
    <3>8. \A j \in at..(end - 1) : ~IsCode(RawModes, j)
      BY <3>1 DEF Passed
    <3> HIDE DEF end, found
    <3>9. CASE found = None
      <4>1. at' = end
        BY <3>6, <3>7, <3>9
      <4>2. Ready(RawModes, Raw, end)
        BY <3>1 DEF Passed
      <4>3. at < end
        BY <1>2, <3>3
      <4>4. QED
        BY <3>3, <3>8, <4>1, <4>2, <4>3
    <3>10. CASE found # None
      <4>1. at' = end + 1 /\ end < Len(Raw) /\ end \in Nat
        BY <3>5, <3>6, <3>7, <3>10
      <4>2. \A j \in at..end : j \in at..(end - 1) \/ j = end
        BY <1>2, <4>1
      <4>3. \A j \in at..end : ~IsCode(RawModes, j)
        BY <3>4, <3>8, <4>1, <4>2
      <4>4. RawModes[end + 2] = "code" /\ RawModes[end + 1] = "line" /\ "line" \notin Quotes
        <5>1. end \in (at + 1)..end
          BY <1>2, <3>3
        <5>2. "line" \notin Quotes
          BY ModesApart
        <5>3. QED
          BY <3>3, <4>1, <5>1, <5>2
      <4>5. Ready(RawModes, Raw, end + 1)
        <5>1. (end + 1) + 1 = end + 2
          BY <4>1
        <5>2. QED
          BY <4>4, <5>1 DEF Ready
      <4>6. end + 1 \in Nat /\ at < end + 1 /\ end + 1 <= Len(Raw) /\ (end + 1) - 1 = end
        BY <1>2, <3>3, <4>1
      <4>7. QED
        BY <4>1, <4>3, <4>5, <4>6
    <3>11. QED
      BY <3>9, <3>10
  <2>2. CASE StartsBlockComment(Raw, at) /\ at' = BlockCommentEnd(Raw, at)
    <3>1. Passed(RawModes, Raw, at, at', TRUE)
      BY <1>2, <1>3, <1>4, <2>2, BlockPassed
    <3>2. QED
      BY <3>1 DEF Passed
  <2>3. CASE InRaw \in Quotes /\ at' = SkipQuoted(Raw, at, InRaw).end
    <3>1. Passed(RawModes, Raw, at, at', FALSE)
      BY <1>2, <1>3, <1>4, <2>3, QuotePassed DEF InRaw
    <3>2. QED
      BY <3>1 DEF Passed
  <2>4. QED
    BY <2>1, <2>2, <2>3 DEF PassToken
<1>6. stack' = RawNesting[at' + 1]
  <2> DEFINE b == at'
  <2>a. b \in Nat /\ at < b /\ b <= Len(Raw)
    BY <1>5
  <2>b. \A j \in at..(b - 1) : ~IsCode(RawModes, j)
    BY <1>5
  <2> HIDE DEF b
  <2>1. at <= b
    BY <1>2, <2>a
  <2>2. \A i \in at..b : RawNesting[i + 1] = RawNesting[at + 1]
    BY <1>2, <1>3, <2>a, <2>b, <2>1, OpensKept
  <2>3. b \in at..b
    BY <1>2, <2>a, <2>1
  <2>4. RawNesting[b + 1] = RawNesting[at + 1]
    BY <2>2, <2>3
  <2>5. QED
    BY <1>1, <1>4, <2>4 DEF b
<1>7. \A j \in at..(at' - 1) : ~KeywordIn(RawModes, RawNesting, Raw, j)
  BY <1>5 DEF KeywordIn
<1>8. QED
  BY <1>1, <1>5, <1>6, <1>7, SearchPasses

\* What the second scanner finds at a symbol that begins no token.
LEMMA SymbolSearched ==
  ASSUME Inv, SearchInv, Searching, InRaw \notin Quotes,
         ~StartsLineComment(Raw, at), ~StartsBlockComment(Raw, at)
  PROVE  /\ Ready(RawModes, Raw, at + 1)
         /\ InRaw # "\n" => IsCode(RawModes, at) /\ RawModes[at + 1] = "code"
         /\ RawNesting[at + 2] = Opened(stack, Symbol(Raw, RawModes, at))
         /\ stack = RawNesting[at + 1]
<1>1. phase = "clauses" /\ Raw \in Texts /\ at \in 0..(Len(Raw) - 1)
  BY SearchingAt
<1>2. Reads(RawModes, Raw) /\ OpensRead(RawNesting, RawModes, Raw)
  BY <1>1, RawRead
<1>3. Ready(RawModes, Raw, at) /\ stack = RawNesting[at + 1]
  BY <1>1 DEF SearchInv
<1>4. /\ Ready(RawModes, Raw, at + 1)
      /\ CharAt(Raw, at) # "\n" => IsCode(RawModes, at) /\ RawModes[at + 1] = "code"
  BY <1>1, <1>2, <1>3, SymbolPassed DEF InRaw
<1>5. RawNesting[at + 2] = Opened(RawNesting[at + 1], Symbol(Raw, RawModes, at))
  BY <1>1, <1>2 DEF OpensRead
<1>6. QED
  BY <1>3, <1>4, <1>5 DEF InRaw

\* What it makes of the brackets is what a reader of the statement does.
LEMMA SearchBrackets ==
  ASSUME Inv, SearchInv, PassBracket
  PROVE  /\ Ready(RawModes, Raw, at + 1) /\ stack' = RawNesting[at + 2]
         /\ KeywordAt(Raw, at) = <<>>
<1>0. Searching /\ InRaw \in Openers \cup Closers
  BY DEF PassBracket
<1>1. InRaw \notin Quotes /\ InRaw # "\n" /\ InRaw \notin Words
  BY <1>0, BracketsApart, NoNewline, WordsApart
<1>2. ~StartsLineComment(Raw, at) /\ ~StartsBlockComment(Raw, at)
  BY <1>0, OneCase DEF InRaw
<1>3. /\ Ready(RawModes, Raw, at + 1) /\ IsCode(RawModes, at)
      /\ RawNesting[at + 2] = Opened(stack, Symbol(Raw, RawModes, at))
  BY <1>0, <1>1, <1>2, SymbolSearched
<1>4. ASSUME InRaw \in Openers, stack' = Append(stack, [char |-> InRaw, offset |-> at])
      PROVE  stack' = RawNesting[at + 2]
  <2>1. CharAt(Raw, at) \in Openers /\ stack' = Append(stack, [char |-> CharAt(Raw, at), offset |-> at])
    BY <1>4 DEF InRaw
  <2>2. QED
    BY <1>3, <2>1, OpenedCases
<1>5. ASSUME InRaw \in Closers, stack' = IF Closes(InRaw) THEN Front(stack) ELSE stack
      PROVE  stack' = RawNesting[at + 2]
  <2>1. /\ CharAt(Raw, at) \in Closers
        /\ stack' = IF Closes(CharAt(Raw, at)) THEN Front(stack) ELSE stack
    BY <1>5 DEF InRaw
  <2>a. CharAt(Raw, at) \notin Openers
    BY <2>1, BracketsApart
  <2>2. CASE Closes(CharAt(Raw, at))
    <3>1. stack # <<>> /\ Last(stack).char = OpenerOf(CharAt(Raw, at))
      BY <2>2 DEF Closes
    <3>2. Opened(stack, Symbol(Raw, RawModes, at)) = Front(stack)
      BY <1>3, <2>1, <2>a, <3>1 DEF Opened, Symbol
    <3>3. QED
      BY <1>3, <2>1, <2>2, <3>2
  <2>3. CASE ~Closes(CharAt(Raw, at))
    <3>1. ~(stack # <<>> /\ Last(stack).char = OpenerOf(CharAt(Raw, at)))
      BY <2>3 DEF Closes
    <3>2. Opened(stack, Symbol(Raw, RawModes, at)) = stack
      BY <2>a, <3>1 DEF Opened, Symbol
    <3>3. QED
      BY <1>3, <2>1, <2>3, <3>2
  <2>4. QED
    BY <2>2, <2>3
<1>6. stack' = RawNesting[at + 2]
  BY <1>4, <1>5 DEF PassBracket
<1>7. KeywordAt(Raw, at) = <<>>
  <2>1. Raw \in Texts /\ at \in 0..(Len(Raw) - 1)
    BY <1>0, SearchingAt
  <2>2. Keywords \subseteq Words
    BY WordsApart
  <2>3. QED
    BY <1>1, <2>1, <2>2, KeywordText DEF InRaw
<1>8. QED
  BY <1>3, <1>6, <1>7

\* A symbol with no keyword, or one in brackets, is passed.
LEMMA SymbolPasses ==
  ASSUME Inv, SearchInv, PassBracket \/ PassSymbol
  PROVE  SearchInv'
<1>0. /\ Searching /\ at' = at + 1
      /\ UNCHANGED <<source, phase, statements, current, matches>>
  BY DEF PassBracket, PassSymbol
<1>1. /\ at \in Nat /\ at + 1 \in Nat /\ at < at + 1 /\ at + 1 <= Len(Raw)
      /\ (at + 1) + 1 = at + 2 /\ (at + 1) - 1 = at
  BY <1>0, SearchingAt
<1>2. /\ Ready(RawModes, Raw, at + 1) /\ stack' = RawNesting[at + 2]
      /\ ~KeywordIn(RawModes, RawNesting, Raw, at)
  <2>1. CASE PassBracket
    BY <2>1, SearchBrackets DEF KeywordIn
  <2>2. CASE PassSymbol
    <3>1. /\ InRaw \notin Quotes \cup Openers \cup Closers
          /\ ~StartsLineComment(Raw, at) /\ ~StartsBlockComment(Raw, at)
          /\ stack # <<>> \/ KeywordAt(Raw, at) = <<>>
          /\ stack' = stack
      BY <2>2 DEF PassSymbol, AtToken
    <3>2. /\ Ready(RawModes, Raw, at + 1)
          /\ RawNesting[at + 2] = Opened(stack, Symbol(Raw, RawModes, at))
          /\ stack = RawNesting[at + 1]
      BY <1>0, <3>1, SymbolSearched
    <3>3. CharAt(Raw, at) \notin Openers /\ CharAt(Raw, at) \notin Closers
      BY <3>1 DEF InRaw
    <3>4. Opened(stack, Symbol(Raw, RawModes, at)) = stack
      BY <3>3 DEF Opened, Symbol
    <3>5. QED
      BY <3>1, <3>2, <3>4 DEF KeywordIn
  <2>3. QED
    BY <2>1, <2>2
<1>3. \A j \in at..((at + 1) - 1) : j = at
  BY <1>1
<1>4. /\ at' \in Nat /\ at < at' /\ at' <= Len(Raw) /\ Ready(RawModes, Raw, at')
      /\ stack' = RawNesting[at' + 1]
      /\ \A j \in at..(at' - 1) : ~KeywordIn(RawModes, RawNesting, Raw, j)
  BY <1>0, <1>1, <1>2, <1>3
<1>5. QED
  BY <1>0, <1>4, SearchPasses

\* A keyword found is one a reader of the statement finds.
LEMMA ClauseFound ==
  ASSUME Inv, SearchInv, FindClause
  PROVE  SearchInv'
<1> DEFINE m == KeywordAt(Raw, at)[1]
           b == EndAt(Raw, at)
<1>0. /\ Searching /\ stack = <<>> /\ KeywordAt(Raw, at) # <<>>
      /\ InRaw \notin Quotes /\ ~StartsLineComment(Raw, at) /\ ~StartsBlockComment(Raw, at)
      /\ UNCHANGED <<source, phase, statements, current, stack>>
      /\ matches' = matches \o KeywordAt(Raw, at) /\ at' = b
  BY DEF FindClause, AtToken, EndAt
<1>1. /\ phase = "clauses" /\ Raw \in Texts /\ Len(Raw) \in Nat
      /\ at \in 0..(Len(Raw) - 1) /\ at \in Nat /\ matches \in Seq(Match)
  BY <1>0, SearchingAt
<1>2. Reads(RawModes, Raw) /\ OpensRead(RawNesting, RawModes, Raw)
  BY <1>1, RawRead
<1>3. /\ b \in Nat /\ at < b /\ b <= Len(Raw) /\ CharAt(Raw, at) \in Keywords
      /\ \A j \in at..(b - 1) : CharAt(Raw, j) \in Words \cup Blank
  BY <1>0, <1>1, KeywordText DEF EndAt
<1>4. KeywordAt(Raw, at) = <<m>> /\ m.start = at
  BY <1>0, <1>1, KeywordFound
<1>b. EndAt(Raw, at) = b
  OBVIOUS
<1> HIDE DEF m, b
<1>5. CharAt(Raw, at) # "\n"
  <2>1. "\n" \notin Words /\ Keywords \subseteq Words
    BY WordsApart
  <2>2. QED
    BY <1>3, <2>1
<1>6. /\ IsCode(RawModes, at) /\ RawModes[at + 1] = "code" /\ RawNesting[at + 1] = <<>>
  BY <1>0, <1>5, SymbolSearched DEF InRaw
<1>7. KeywordIn(RawModes, RawNesting, Raw, at)
  BY <1>0, <1>6 DEF KeywordIn
<1>8. Ready(RawModes, Raw, b) /\ RawNesting[b + 1] = <<>>
  BY <1>1, <1>2, <1>3, <1>6, PlainRead
<1>9. /\ StartsOf(matches) = Heads(RawModes, RawNesting, Raw, at)
      /\ Cleared(RawModes, RawNesting, Raw, at)
  BY <1>1 DEF SearchInv
<1>10. /\ Heads(RawModes, RawNesting, Raw, b) = Heads(RawModes, RawNesting, Raw, at) \cup {at}
       /\ Cleared(RawModes, RawNesting, Raw, b)
  BY <1>1, <1>7, <1>9, <1>b, HeadsGrow
<1>11. StartsOf(matches') = StartsOf(matches) \cup {at}
  <2>1. matches' = matches \o <<m>>
    BY <1>0, <1>4
  <2>2. matches' = Append(matches, m)
    BY <1>1, <2>1, JoinOne
  <2> DEFINE n == Len(matches)
  <2>3. /\ n \in Nat /\ DOMAIN matches = 1..n /\ DOMAIN matches' = 1..(n + 1)
        /\ matches'[n + 1] = m /\ \A k \in 1..n : matches'[k] = matches[k]
    BY <1>1, <2>2
  <2> HIDE DEF n
  <2>4. \A k : k \in 1..(n + 1) <=> k \in 1..n \/ k = n + 1
    BY <2>3
  <2>5. QED
    BY <1>4, <2>3, <2>4 DEF StartsOf
<1>12. Raw' = Raw /\ RawModes' = RawModes /\ RawNesting' = RawNesting
  BY <1>0, RawStays
<1>13. /\ Ready(RawModes', Raw', at') /\ stack' = RawNesting'[at' + 1]
       /\ StartsOf(matches') = Heads(RawModes', RawNesting', Raw', at')
       /\ Cleared(RawModes', RawNesting', Raw', at')
  BY <1>0, <1>8, <1>9, <1>10, <1>11, <1>12
<1>14. QED
  BY <1>13 DEF SearchInv

-----------------------------------------------------------------------------
(***************************************************************************)
(* The third invariant, step by step.                                      *)
(***************************************************************************)
\* Clauses made of the keywords of a statement are exact.
LEMMA ClausesAreExact ==
  ASSUME source \in Texts, NEW s \in Statement, s.start < s.end, s.end <= Len(source),
         NEW found \in Seq(Match), InLine(found, s.end - s.start),
         StartsOf(found) = HeadsOf(Slice(source, s.start, s.end)),
         NEW t, t.start = s.start, t.end = s.end, t.clauses = Clauses(s, found)
  PROVE  ExactIn(source, t)
<1> DEFINE heads == HeadsOf(Slice(source, s.start, s.end))
           cs == Clauses(s, found)
<1>1. CASE found = <<>>
  <2>1. heads = {}
    BY <1>1 DEF StartsOf
  <2>2. Len(cs) = 1 /\ DOMAIN cs = {1} /\ cs[1].start = s.start /\ cs[1].end = s.end
    BY <1>1 DEF Clauses
  <2> HIDE DEF cs, heads
  <2>a. cs # <<>>
    <3>1. DOMAIN <<>> = {} /\ DOMAIN cs # {}
      BY <2>2
    <3>2. QED
      BY <3>1
  <2>b. Spans(cs) = {<<cs[k].start, cs[k].end>> : k \in {1}}
    BY <2>2 DEF Spans
  <2>3. cs # <<>> /\ Spans(cs) = {<<s.start, s.end>>}
    BY <2>2, <2>a, <2>b
  <2>4. \A c \in DOMAIN cs : cs[c].end = IF c < Len(cs) THEN cs[c + 1].start ELSE s.end
    BY <2>2
  <2>5. QED
    BY <2>1, <2>3, <2>4 DEF ExactIn, heads, cs
<1>2. CASE found # <<>>
  <2> DEFINE n == Len(found)
  <2>1. /\ Within(cs, s) /\ Len(cs) = n
        /\ \A k \in 1..n : /\ cs[k].start = s.start + found[k].start
                           /\ cs[k].end = IF k < n THEN s.start + found[k + 1].start ELSE s.end
    BY <1>2, FoundClauses
  <2> HIDE DEF cs, heads
  <2>2. n \in Nat /\ n # 0 /\ DOMAIN found = 1..n /\ DOMAIN cs = 1..n /\ cs # <<>>
    BY <1>2, <2>1 DEF Within
  <2>3. StartsOf(found) = {found[k].start : k \in 1..n} /\ 1 \in 1..n
    BY <2>2 DEF StartsOf
  <2>4. heads # {}
    BY <2>3 DEF heads
  <2>5. \A c \in 1..n : cs[c].end = IF c < n THEN cs[c + 1].start ELSE s.end
    <3>1. \A c \in 1..n : c < n => c + 1 \in 1..n
      BY <2>2
    <3>2. QED
      BY <2>1, <3>1
  <2>6. StartsOf(cs) = {s.start + i : i \in heads}
    <3>1. StartsOf(cs) = {s.start + found[k].start : k \in 1..n}
      BY <2>1, <2>2 DEF StartsOf
    <3>2. {s.start + i : i \in {found[k].start : k \in 1..n}} = {s.start + found[k].start : k \in 1..n}
      OBVIOUS
    <3>3. heads = {found[k].start : k \in 1..n}
      BY <2>3 DEF heads
    <3>4. QED
      BY <3>1, <3>2, <3>3
  <2>7. QED
    BY <2>1, <2>2, <2>4, <2>5, <2>6 DEF ExactIn, heads, cs
<1>3. QED
  BY <1>1, <1>2

\* Before the first symbol of a text there is nothing to find.
LEMMA NothingFound ==
  ASSUME NEW text \in Texts
  PROVE  LET m == ModesOf(text)
             o == OpensOf(text, m)
         IN  /\ Ready(m, text, 0) /\ o[1] = <<>>
             /\ Heads(m, o, text, 0) = {} /\ Cleared(m, o, text, 0)
<1> DEFINE m == ModesOf(text)
           o == OpensOf(text, m)
<1>1. m[1] = "code" /\ o[1] = <<>>
  BY ModesRead, OpensAreRead DEF OpensRead
<1> HIDE DEF m, o
<1>2. \A j : j \notin 0..(0 - 1)
  OBVIOUS
<1>3. Ready(m, text, 0)
  BY <1>1 DEF Ready
<1>4. Heads(m, o, text, 0) = {} /\ Cleared(m, o, text, 0)
  BY <1>2 DEF Heads, Cleared
<1>5. QED
  BY <1>1, <1>3, <1>4 DEF m, o

\* The second scanner begins with a statement.
LEMMA SearchBegins ==
  ASSUME Inv', at' = 0, stack' = <<>>, matches' = <<>>
  PROVE  SearchInv'
<1> SUFFICES ASSUME phase' = "clauses"
             PROVE  SearchInv'
  BY DEF SearchInv
<1> DEFINE text == Raw'
           list == statements'
           s == list[current']
<1>1. source' \in Texts /\ Len(source') \in Nat
  <2>1. source' \in Seq(STRING) /\ STRING \subseteq Symbols
    BY DEF Inv, Symbols
  <2>2. source' \in Texts
    BY <2>1, SeqGrows DEF Texts
  <2>3. QED
    BY <2>2, LenType
<1>2. list \in Seq(Statement) /\ InLine(list, Len(source'))
  BY DEF Inv, StatementsInv, CutTo
<1>3. current' \in Nat \ {0} /\ current' <= Len(list)
  BY DEF Inv, PhaseInv
<1>4. text = Slice(source', s.start, s.end)
  BY DEF Raw, TextOf
<1> HIDE DEF list
<1>5. s \in Statement /\ s.start < s.end /\ s.end <= Len(source')
  BY <1>2, <1>3 DEF InLine
<1>6. s.start \in Nat /\ s.end \in Nat /\ s.start <= s.end
  BY <1>5 DEF Statement
<1> HIDE DEF s
<1>7. text \in Texts
  <2> HIDE DEF text
  <2>1. QED
    BY <1>1, <1>4, <1>5, <1>6, SliceParts
<1> DEFINE m == ModesOf(text)
           o == OpensOf(text, m)
<1>8. m = RawModes' /\ o = RawNesting'
  BY DEF RawModes, RawNesting
<1>t. text = Raw'
  OBVIOUS
<1>9. /\ Ready(m, text, 0) /\ o[1] = <<>>
      /\ Heads(m, o, text, 0) = {} /\ Cleared(m, o, text, 0)
  <2> HIDE DEF text
  <2>1. QED
    BY <1>7, NothingFound
<1>10. StartsOf(matches') = {}
  BY DEF StartsOf
<1> HIDE DEF text, m, o
<1>11. /\ Ready(RawModes', Raw', at') /\ stack' = RawNesting'[at' + 1]
       /\ StartsOf(matches') = Heads(RawModes', RawNesting', Raw', at')
       /\ Cleared(RawModes', RawNesting', Raw', at')
  BY <1>8, <1>t, <1>9, <1>10
<1>12. QED
  BY <1>11 DEF SearchInv

\* Other clauses with the same spans are as exact.
LEMMA SameClauses ==
  ASSUME NEW text, NEW s, ExactIn(text, s), NEW t, t.start = s.start, t.end = s.end,
         s.clauses \in Seq(Clause), t.clauses \in Seq(Clause),
         Len(t.clauses) = Len(s.clauses),
         \A k \in 1..Len(s.clauses) : SameText(t.clauses[k], s.clauses[k])
  PROVE  ExactIn(text, t)
<1> DEFINE old == s.clauses
           new == t.clauses
           n == Len(old)
           heads == HeadsOf(Slice(text, s.start, s.end))
<1>1. /\ old \in Seq(Clause) /\ new \in Seq(Clause) /\ n \in Nat
      /\ DOMAIN old = 1..n /\ DOMAIN new = 1..n /\ Len(new) = n
  OBVIOUS
<1>2. \A k \in 1..n : new[k].start = old[k].start /\ new[k].end = old[k].end
  BY DEF SameText
<1>3. /\ old # <<>>
      /\ \A c \in 1..n : old[c].end = IF c < n THEN old[c + 1].start ELSE s.end
      /\ heads = {} => Spans(old) = {<<s.start, s.end>>}
      /\ heads # {} => StartsOf(old) = {s.start + i : i \in heads}
  BY <1>1 DEF ExactIn
<1>h. heads = HeadsOf(Slice(text, t.start, t.end))
  OBVIOUS
<1>n. old = s.clauses /\ new = t.clauses
  OBVIOUS
<1> HIDE DEF old, new, n, heads
<1>4. new # <<>>
  <2>1. n # 0
    BY <1>1, <1>3 DEF n
  <2>2. QED
    BY <1>1, <2>1
<1>5. \A c \in 1..n : new[c].end = IF c < n THEN new[c + 1].start ELSE s.end
  <2>1. \A c \in 1..n : c < n => c + 1 \in 1..n
    BY <1>1
  <2>2. QED
    BY <1>2, <1>3, <2>1
<1>6. Spans(new) = Spans(old)
  BY <1>1, <1>2 DEF Spans
<1>7. StartsOf(new) = StartsOf(old)
  BY <1>1, <1>2 DEF StartsOf
<1>8. QED
  BY <1>1, <1>3, <1>4, <1>5, <1>6, <1>7, <1>h, <1>n DEF ExactIn

\* No statement is scanned while the first scanner runs.
LEMMA InitExact ==
  ASSUME Init
  PROVE  SearchInv /\ ExactInv
<1>1. phase = "fragments" /\ statements = <<>>
  BY DEF Init
<1>2. QED
  BY <1>1 DEF SearchInv, ExactInv

\* The statements scanned stay as they are.
LEMMA ExactStays ==
  ASSUME ExactInv, UNCHANGED <<source, phase, statements, current>>
  PROVE  ExactInv'
<1>1. \A k : Scanned(k)' <=> Scanned(k)
  BY DEF Scanned
<1>2. QED
  BY <1>1 DEF ExactInv

\* At the end of its text a statement has the clauses of its keywords.
LEMMA StatementExact ==
  ASSUME Inv, SearchInv, ExactInv, EndOfStatement
  PROVE  ExactInv'
<1> DEFINE s == statements[current]
           cs == Clauses(s, matches)
           new == WithClauses(statements, current, cs)
<1>1. phase = "clauses" /\ phase # "fragments" /\ at = Len(Raw)
  BY DEF EndOfStatement
<1>2. /\ source \in Texts /\ Len(source) \in Nat
      /\ current \in DOMAIN statements /\ s \in Statement
      /\ s.start \in Nat /\ s.end \in Nat /\ s.start < s.end /\ s.end <= Len(source)
      /\ Len(Raw) = s.end - s.start /\ Raw = Slice(source, s.start, s.end)
  BY <1>1, RawParts
<1>3. matches \in Seq(Match) /\ InLine(matches, s.end - s.start)
  BY <1>1, <1>2 DEF Inv, PhaseInv
<1>4. StartsOf(matches) = HeadsOf(Slice(source, s.start, s.end))
  <2>1. StartsOf(matches) = Heads(RawModes, RawNesting, Raw, Len(Raw))
    BY <1>1 DEF SearchInv
  <2>2. HeadsOf(Raw) = Heads(RawModes, RawNesting, Raw, Len(Raw))
    BY DEF HeadsOf, RawModes, RawNesting
  <2>3. QED
    BY <1>2, <2>1, <2>2
<1>5. /\ statements' = new /\ current' = current + 1 /\ source' = source
      /\ phase' = IF current = Len(statements) THEN "preview" ELSE "clauses"
  BY DEF EndOfStatement, WithClauses
<1>6. statements \in Seq(Statement)
  BY DEF Inv, StatementsInv
<1>7. /\ new[current].start = s.start /\ new[current].end = s.end
      /\ DOMAIN new = DOMAIN statements
  <2> HIDE DEF cs
  <2>1. QED
    BY <1>2, <1>6, ClausesKeepSpans
<1>8. /\ new[current].clauses = cs
      /\ \A k \in DOMAIN statements : k # current => new[k] = statements[k]
  <2>1. new = [statements EXCEPT ![current].clauses = cs]
    BY DEF WithClauses
  <2> HIDE DEF cs, new
  <2>2. QED
    BY <1>2, <1>6, <2>1 DEF Statement
<1>9. ExactIn(source, new[current])
  BY <1>2, <1>3, <1>4, <1>7, <1>8, ClausesAreExact
<1> HIDE DEF s, cs, new
<1>10. ASSUME NEW k \in DOMAIN statements, k # current, Scanned(k)'
       PROVE  ExactIn(source, statements[k])
  <2>1. k \in Nat /\ current \in Nat /\ Len(statements) \in Nat /\ k <= Len(statements)
    BY <1>2, <1>6
  <2>2. k <= current
    <3>1. CASE current = Len(statements)
      BY <2>1, <3>1
    <3>2. CASE current # Len(statements)
      <4>1. phase' = "clauses" /\ "clauses" \notin {"preview", "done"}
        BY <1>5, <3>2
      <4>2. k < current + 1
        BY <1>5, <1>10, <4>1 DEF Scanned
      <4>3. QED
        BY <2>1, <4>2
    <3>3. QED
      BY <3>1, <3>2
  <2>3. k < current
    BY <1>10, <2>1, <2>2
  <2>4. QED
    BY <1>1, <2>3 DEF Scanned, ExactInv
<1>11. ASSUME NEW k \in DOMAIN new, Scanned(k)'
       PROVE  ExactIn(source, new[k])
  <2>1. CASE k = current
    BY <1>9, <2>1
  <2>2. CASE k # current
    BY <1>7, <1>8, <1>10, <1>11, <2>2
  <2>3. QED
    BY <2>1, <2>2
<1>12. QED
  BY <1>5, <1>11 DEF ExactInv

\* The preview leaves the spans of clauses.
LEMMA PreviewExact ==
  ASSUME Inv, ExactInv, BuildIrPreview
  PROVE  ExactInv'
<1> DEFINE s == statements[1]
           cs == s.clauses
           new == AnnotateIrPreviewSupport(cs, preview')
           list == WithClauses(statements, 1, new)
<1>1. phase = "preview" /\ Previewed
  BY DEF BuildIrPreview
<1>2. statements \in Seq(Statement) /\ Len(statements) = 1
  BY <1>1 DEF Inv, StatementsInv, Previewed
<1>3. DOMAIN statements = {1} /\ s \in Statement /\ cs \in Seq(Clause)
  <2>1. DOMAIN statements = {1}
    BY <1>2
  <2>2. s \in Statement
    BY <1>2, <2>1
  <2> HIDE DEF s
  <2>3. QED
    BY <2>1, <2>2 DEF Statement
<1>4. preview' = LiftRawCypherToIr(LiftSource(cs)) /\ statements' = list /\ source' = source
  BY DEF BuildIrPreview, WithClauses
<1>5. list[1].start = s.start /\ list[1].end = s.end /\ DOMAIN list = {1}
  <2> HIDE DEF new, cs
  <2>1. 1 \in DOMAIN statements
    BY <1>3
  <2>2. /\ DOMAIN list = DOMAIN statements
        /\ list[1].start = statements[1].start /\ list[1].end = statements[1].end
    BY <1>2, <2>1, ClausesKeepSpans
  <2>3. QED
    BY <1>3, <2>2
<1>6. list[1].clauses = new
  <2>1. list = [statements EXCEPT ![1].clauses = new]
    BY DEF WithClauses
  <2> HIDE DEF new, list
  <2>2. QED
    BY <1>2, <1>3, <2>1 DEF Statement
<1>7. new \in Seq(Clause) /\ Len(new) = Len(cs) /\ \A k \in 1..Len(cs) : SameText(new[k], cs[k])
  <2> HIDE DEF cs, new
  <2>1. PICK n \in Nat : DOMAIN preview' = 1..n
    BY <1>3, <1>4, LiftSourceType, LiftedParts
  <2>2. PICK t \in Annotating : t.clauses = new /\ KeepsOrder(t, cs, preview', n)
    BY <1>3, <2>1, AnnotatedKeepsOrder DEF new
  <2>3. QED
    BY <2>2 DEF KeepsOrder, Annotating
<1>8. ExactIn(source, s)
  BY <1>1, <1>3 DEF ExactInv, Scanned
<1> HIDE DEF new, list
<1>9. ExactIn(source, list[1])
  <2> HIDE DEF s
  <2>1. QED
    BY <1>3, <1>5, <1>6, <1>7, <1>8, SameClauses
<1>10. QED
  BY <1>4, <1>5, <1>9 DEF ExactInv

\* Every step keeps the clauses exact.
LEMMA NextExact ==
  ASSUME Inv, Inv', SearchInv, ExactInv, [Next]_vars
  PROVE  SearchInv' /\ ExactInv'
<1>1. CASE UNCHANGED vars
  <2>1. UNCHANGED <<source, phase, at, stack, statements, current, matches>>
    BY <1>1 DEF vars
  <2>2. Raw' = Raw /\ RawModes' = RawModes /\ RawNesting' = RawNesting
    BY <2>1, RawStays
  <2>3. SearchInv'
    BY <2>1, <2>2 DEF SearchInv
  <2>4. QED
    BY <2>1, <2>3, ExactStays
<1>2. CASE LineComment \/ BlockComment \/ Quoted \/ Open \/ Close \/ Terminator \/ OtherSymbol
  <2>1. phase' = "fragments"
    BY <1>2 DEF LineComment, BlockComment, Quoted, Open, Close, Terminator, OtherSymbol, Scanning
  <2>2. QED
    BY <2>1 DEF SearchInv, ExactInv, Scanned
<1>3. CASE EndOfSource
  <2>1. /\ phase = "fragments" /\ at' = 0 /\ stack' = <<>> /\ UNCHANGED <<current, matches>>
        /\ phase' = IF statements' = <<>> THEN "preview" ELSE "clauses"
    BY <1>3 DEF EndOfSource
  <2>2. current' = 1 /\ matches' = <<>>
    BY <2>1 DEF Inv, PhaseInv
  <2>3. SearchInv'
    BY <2>1, <2>2, SearchBegins
  <2>4. ASSUME NEW k \in DOMAIN statements'
        PROVE  ~Scanned(k)'
    <3>1. statements' \in Seq(Statement)
      BY DEF Inv, StatementsInv
    <3>2. statements' # <<>> /\ k \in Nat \ {0}
      BY <2>4, <3>1
    <3>3. phase' = "clauses" /\ ~(k < current')
      BY <2>1, <2>2, <3>2
    <3>4. QED
      BY <3>3 DEF Scanned
  <2>5. QED
    BY <2>3, <2>4 DEF ExactInv
<1>4. CASE PassToken \/ PassBracket \/ FindClause \/ PassSymbol
  <2>1. SearchInv'
    BY <1>4, TokenPasses, SymbolPasses, ClauseFound
  <2>2. UNCHANGED <<source, phase, statements, current>>
    BY <1>4 DEF PassToken, PassBracket, FindClause, PassSymbol
  <2>3. QED
    BY <2>1, <2>2, ExactStays
<1>5. CASE EndOfStatement
  <2>1. at' = 0 /\ stack' = <<>> /\ matches' = <<>>
    BY <1>5 DEF EndOfStatement
  <2>2. QED
    BY <1>5, <2>1, SearchBegins, StatementExact
<1>6. CASE BuildIrPreview
  <2>1. phase' = "done"
    BY <1>6 DEF BuildIrPreview
  <2>2. SearchInv'
    BY <2>1 DEF SearchInv
  <2>3. QED
    BY <1>6, <2>2, PreviewExact
<1>7. CASE NoPreview
  <2>1. phase = "preview" /\ phase' = "done" /\ UNCHANGED <<source, statements, current>>
    BY <1>7 DEF NoPreview
  <2>2. SearchInv' /\ \A k : Scanned(k)' => Scanned(k)
    BY <2>1 DEF SearchInv, Scanned
  <2>3. QED
    BY <2>1, <2>2 DEF ExactInv
<1>8. QED
  BY <1>1, <1>2, <1>3, <1>4, <1>5, <1>6, <1>7 DEF Next

-----------------------------------------------------------------------------
(***************************************************************************)
(* A reader of a statement alone finds what one of the whole source does.  *)
(***************************************************************************)
\* A text is read in one way.
LEMMA OneReading ==
  ASSUME NEW text \in Texts, NEW m, Reads(m, text), NEW n, Reads(n, text), m[1] = n[1]
  PROVE  \A i \in 0..Len(text) : m[i + 1] = n[i + 1]
<1> DEFINE Same == {i \in Nat : i <= Len(text) => m[i + 1] = n[i + 1]}
<1>0. Len(text) \in Nat
  BY LenType
<1>1. 0 \in Same
  OBVIOUS
<1>2. ASSUME NEW i \in Nat, i \in Same
      PROVE  i + 1 \in Same
  <2>1. SUFFICES ASSUME i + 1 <= Len(text)
                 PROVE  m[(i + 1) + 1] = n[(i + 1) + 1]
    OBVIOUS
  <2>2. i \in 0..(Len(text) - 1) /\ i <= Len(text) /\ (i + 1) + 1 = i + 2
    BY <1>0, <2>1
  <2>3. m[i + 1] = n[i + 1]
    BY <1>2, <2>2
  <2>4. /\ m[i + 2] = NextMode(m[i + 1], CharAt(text, i), CharAt(text, i + 1))
        /\ n[i + 2] = NextMode(n[i + 1], CharAt(text, i), CharAt(text, i + 1))
    BY <2>2 DEF Reads
  <2>5. QED
    BY <2>2, <2>3, <2>4
<1>3. Nat \subseteq Same
  <2> HIDE DEF Same
  <2>1. QED
    BY <1>1, <1>2, Joining!NaturalInduction
<1>4. QED
  BY <1>0, <1>3

\* A part of a text that begins in code, outside brackets.
PartFromCode(text, m, o, a, b) ==
  /\ IsPart(text, a, b) /\ a < b /\ Reads(m, text) /\ OpensRead(o, m, text)
  /\ m[a + 1] = "code" /\ o[a + 1] = <<>>
  /\ b = Len(text) \/ CharAt(text, b) \notin {"/", "*"}

\* Its keywords are those of the text.
LEMMA PartKeywords ==
  ASSUME NEW text, NEW m, NEW o, NEW a, NEW b, PartFromCode(text, m, o, a, b),
         NEW i \in 0..(b - a - 1)
  PROVE  LET part == Slice(text, a, b)
             n == ModesOf(part)
             p == OpensOf(part, n)
         IN  /\ KeywordIn(n, p, part, i) <=> KeywordIn(m, o, text, a + i)
             /\ KeywordIn(n, p, part, i) => EndAt(text, a + i) = a + EndAt(part, i)
<1> DEFINE part == Slice(text, a, b)
           n == ModesOf(part)
           p == OpensOf(part, n)
<1>1. /\ IsPart(text, a, b) /\ a < b /\ Reads(m, text) /\ OpensRead(o, m, text)
      /\ m[a + 1] = "code" /\ o[a + 1] = <<>>
      /\ b = Len(text) \/ CharAt(text, b) \notin {"/", "*"}
  BY DEF PartFromCode
<1>2. /\ text \in Texts /\ a \in Nat /\ b \in Nat /\ a <= b /\ b <= Len(text)
  BY <1>1 DEF IsPart
<1>3. part \in Texts /\ Len(part) = b - a
  BY <1>2, SliceParts
<1>4. /\ Reads(Shifted(m, a, b), part)
      /\ \A j \in 0..(b - a) : Shifted(m, a, b)[j + 1] = m[a + j + 1]
  BY <1>1, <1>2, SliceReads
<1> HIDE DEF part
<1>5. Reads(n, part) /\ n[1] = "code" /\ OpensRead(p, n, part)
  BY <1>3, ModesRead, OpensAreRead
<1> HIDE DEF n, p
<1>6. \A j \in 0..(b - a) : n[j + 1] = m[a + j + 1]
  <2> DEFINE sh == Shifted(m, a, b)
  <2>1. Reads(sh, part) /\ \A j \in 0..(b - a) : sh[j + 1] = m[a + j + 1]
    BY <1>4
  <2> HIDE DEF sh
  <2>2. sh[1] = "code"
    <3>1. 0 \in 0..(b - a) /\ 0 + 1 = 1 /\ a + 0 + 1 = a + 1
      BY <1>2
    <3>2. sh[0 + 1] = m[a + 0 + 1]
      BY <2>1, <3>1
    <3>3. QED
      BY <1>1, <3>1, <3>2
  <2>3. \A j \in 0..Len(part) : sh[j + 1] = n[j + 1]
    BY <1>3, <1>5, <2>1, <2>2, OneReading
  <2>4. QED
    BY <1>3, <2>1, <2>3
<1>7. \A j \in 0..(b - a) : SameBrackets(p[j + 1], o[a + j + 1])
  BY <1>1, <1>2, <1>5, <1>6, PartOpens DEF part
<1>8. /\ i \in Nat /\ i \in 0..(b - a) /\ i + 1 \in 0..(b - a)
      /\ (i + 1) + 1 = i + 2 /\ a + (i + 1) + 1 = (a + i) + 2 /\ a + i + 1 = (a + i) + 1
  BY <1>2
<1>9. n[i + 1] = m[(a + i) + 1] /\ n[i + 2] = m[(a + i) + 2]
  <2>1. n[i + 1] = m[a + i + 1]
    BY <1>6, <1>8
  <2>2. n[(i + 1) + 1] = m[a + (i + 1) + 1]
    BY <1>6, <1>8
  <2>3. QED
    BY <1>8, <2>1, <2>2
<1>10. IsCode(n, i) <=> IsCode(m, a + i)
  BY <1>9 DEF IsCode
<1>11. p[i + 1] = <<>> <=> o[(a + i) + 1] = <<>>
  <2>1. SameBrackets(p[i + 1], o[a + i + 1])
    BY <1>7, <1>8
  <2>2. p[i + 1] \in Opens /\ o[a + i + 1] \in Opens
    <3>1. i + 1 \in 1..Len(p) /\ a + i + 1 \in 1..Len(o)
      <4>1. Len(p) = (b - a) + 1 /\ Len(o) = Len(text) + 1 /\ Len(text) \in Nat
        BY <1>1, <1>2, <1>3, <1>5, LenType DEF OpensRead
      <4>2. QED
        BY <1>2, <1>8, <4>1
    <3>2. QED
      BY <1>1, <1>5, <3>1 DEF OpensRead
  <2>3. Len(p[i + 1]) = Len(o[a + i + 1])
    BY <2>1 DEF SameBrackets
  <2>4. QED
    BY <1>8, <2>2, <2>3 DEF Opens
<1>12. /\ KeywordAt(part, i) # <<>> <=> KeywordAt(text, a + i) # <<>>
       /\ KeywordAt(part, i) # <<>> => KeywordAt(text, a + i)[1].end = a + KeywordAt(part, i)[1].end
  BY <1>1, KeywordOfPart DEF part
<1>13. /\ KeywordIn(n, p, part, i) <=> KeywordIn(m, o, text, a + i)
       /\ KeywordIn(n, p, part, i) => EndAt(text, a + i) = a + EndAt(part, i)
  BY <1>10, <1>11, <1>12 DEF KeywordIn, EndAt
<1>14. QED
  BY <1>13 DEF part, n, p

\* A keyword of a text that is in no other one is that also in a part of it.
LEMMA PartHead ==
  ASSUME NEW text, NEW m, NEW o, NEW a, NEW b, PartFromCode(text, m, o, a, b),
         NEW i \in 0..(b - a - 1)
  PROVE  LET part == Slice(text, a, b)
             n == ModesOf(part)
             p == OpensOf(part, n)
         IN  IsHead(n, p, part, i) <=> IsHead(m, o, text, a + i)
<1> DEFINE part == Slice(text, a, b)
           n == ModesOf(part)
           p == OpensOf(part, n)
           In(j) == KeywordIn(n, p, part, j)
           Whole(j) == KeywordIn(m, o, text, j)
<1>1. IsPart(text, a, b)
  BY DEF PartFromCode
<1>2. /\ text \in Texts /\ a \in Nat /\ b \in Nat /\ a <= b /\ b <= Len(text) /\ Len(text) \in Nat
      /\ CharAt(text, a - 1) \notin Words \cup Blank
  BY <1>1, LenType DEF IsPart
<1>3. part \in Texts /\ Len(part) = b - a
  BY <1>2, SliceParts
<1>4. \A j \in 0..(b - a - 1) :
        /\ In(j) <=> Whole(a + j)
        /\ In(j) => EndAt(text, a + j) = a + EndAt(part, j)
  BY PartKeywords
<1>5. \A j \in 0..(b - a - 1) : In(j) => EndAt(part, j) \in Nat
  <2> HIDE DEF n, p
  <2>1. \A j \in 0..(b - a - 1) : In(j) => j \in 0..(Len(part) - 1) /\ KeywordAt(part, j) # <<>>
    BY <1>3 DEF KeywordIn
  <2> HIDE DEF part, In
  <2>2. QED
    BY <1>3, <2>1, KeywordText DEF EndAt
<1>h. /\ IsHead(n, p, part, i) <=> In(i) /\ \A j \in 0..(i - 1) : In(j) => EndAt(part, j) <= i
      /\ IsHead(m, o, text, a + i) <=>
           Whole(a + i) /\ \A j \in 0..((a + i) - 1) : Whole(j) => EndAt(text, j) <= a + i
  BY DEF IsHead
<1>6. \A j \in 0..(a - 1) : Whole(j) => EndAt(text, j) <= a + i
  <2>1. SUFFICES ASSUME NEW j \in 0..(a - 1), KeywordAt(text, j) # <<>>
                 PROVE  EndAt(text, j) <= a + i
    BY DEF KeywordIn
  <2> DEFINE before == a - 1
  <2>2. before \in Nat /\ before < Len(text) /\ j \in Nat /\ j <= before /\ j \in 0..(Len(text) - 1)
        /\ before <= a + i
    <3>1. a # 0 /\ a <= Len(text) /\ i \in Nat
      BY <1>2
    <3>2. QED
      BY <1>2, <3>1
  <2>3. CharAt(text, before) \notin Words \cup Blank
    BY <1>2
  <2> HIDE DEF before
  <2>4. EndAt(text, j) <= before
    BY <1>2, <2>1, <2>2, <2>3, KeywordBefore DEF EndAt
  <2>5. EndAt(text, j) \in Nat
    BY <1>2, <2>1, <2>2, KeywordText DEF EndAt
  <2>6. QED
    BY <1>2, <2>2, <2>4, <2>5
<1> HIDE DEF In, Whole, part, n, p
<1>7. ASSUME In(i)
      PROVE  (\A j \in 0..(i - 1) : In(j) => EndAt(part, j) <= i)
               <=> (\A j \in 0..((a + i) - 1) : Whole(j) => EndAt(text, j) <= a + i)
  <2>1. ASSUME \A j \in 0..(i - 1) : In(j) => EndAt(part, j) <= i,
               NEW j \in 0..((a + i) - 1), Whole(j)
        PROVE  EndAt(text, j) <= a + i
    <3>1. CASE j \in 0..(a - 1)
      BY <1>6, <2>1, <3>1
    <3>2. CASE j \notin 0..(a - 1)
      <4> DEFINE k == j - a
      <4>1. k \in 0..(i - 1) /\ k \in 0..(b - a - 1) /\ j = a + k /\ i \in Nat
        BY <1>2, <3>2
      <4> HIDE DEF k
      <4>2. In(k)
        BY <1>4, <2>1, <4>1
      <4>3. EndAt(part, k) <= i /\ EndAt(part, k) \in Nat /\ EndAt(text, j) = a + EndAt(part, k)
        BY <1>4, <1>5, <2>1, <4>1, <4>2
      <4>4. QED
        BY <1>2, <4>1, <4>3
    <3>3. QED
      BY <3>1, <3>2
  <2>2. ASSUME \A j \in 0..((a + i) - 1) : Whole(j) => EndAt(text, j) <= a + i,
               NEW k \in 0..(i - 1), In(k)
        PROVE  EndAt(part, k) <= i
    <3>1. k \in 0..(b - a - 1) /\ a + k \in 0..((a + i) - 1) /\ i \in Nat
      BY <1>2
    <3>2. /\ EndAt(text, a + k) <= a + i
          /\ EndAt(text, a + k) = a + EndAt(part, k) /\ EndAt(part, k) \in Nat
      BY <1>4, <1>5, <2>2, <3>1
    <3>3. QED
      BY <1>2, <3>1, <3>2
  <2>3. QED
    BY <2>1, <2>2
<1>8. In(i) <=> Whole(a + i)
  BY <1>4
<1>9. IsHead(n, p, part, i) <=> IsHead(m, o, text, a + i)
  BY <1>7, <1>8, <1>h
<1>10. QED
  BY <1>9 DEF part, n, p

\* A keyword of the source in no other one, in the words of the property.
LEMMA HeadStarts ==
  ASSUME Inv, NEW i \in Offsets
  PROVE  IsHead(Modes, Nesting, source, i)
           <=> Starts(Modes, Nesting, i) /\ ~Second(Modes, Nesting, i)
<1>1. source \in Texts /\ Len(source) \in Nat /\ Offsets = 0..(Len(source) - 1)
  BY ReferenceRead DEF Offsets
<1>2. \A j \in Offsets : KeywordIn(Modes, Nesting, source, j) <=> Starts(Modes, Nesting, j)
  <2>1. \A j \in Offsets : KeywordAt(source, j) # <<>> =>
          CharAt(source, j - 1) \notin Words /\ CharAt(source, j + 1) \notin Words
    BY <1>1, KeywordText
  <2>2. QED
    BY <2>1 DEF KeywordIn, Starts
<1>3. i \in Nat /\ \A j \in 0..(i - 1) : j \in Offsets
  BY <1>1
<1>4. \A j \in 0..(i - 1) : Starts(Modes, Nesting, j) => EndAt(source, j) \in Nat
  <2>1. \A j \in 0..(i - 1) : Starts(Modes, Nesting, j) => KeywordAt(source, j) # <<>>
    BY DEF Starts
  <2>2. QED
    BY <1>1, <1>3, <2>1, KeywordText DEF EndAt
<1>5. \A j \in 0..(i - 1) : Starts(Modes, Nesting, j) =>
        (EndAt(source, j) <= i <=> ~(i < EndAt(source, j)))
  BY <1>3, <1>4
<1>6. Second(Modes, Nesting, i) <=>
        \E j \in 0..(i - 1) : Starts(Modes, Nesting, j) /\ i < EndAt(source, j)
  BY DEF Second, EndAt
<1>7. IsHead(Modes, Nesting, source, i) <=>
        /\ Starts(Modes, Nesting, i)
        /\ \A j \in 0..(i - 1) : Starts(Modes, Nesting, j) => EndAt(source, j) <= i
  BY <1>2, <1>3 DEF IsHead
<1>8. QED
  BY <1>5, <1>6, <1>7

\* The keywords of a statement are those of the source in it.
LEMMA StatementHeads ==
  ASSUME Inv, NEW s \in Statement, s.start < s.end, s.end <= Len(source), IsCut(s)
  PROVE  {i \in s.start..(s.end - 1) :
            Starts(Modes, Nesting, i) /\ ~Second(Modes, Nesting, i)}
           = {s.start + i : i \in HeadsOf(Slice(source, s.start, s.end))}
<1> DEFINE a == s.start
           b == s.end
           part == Slice(source, a, b)
           n == ModesOf(part)
           p == OpensOf(part, n)
           heads == HeadsOf(part)
           Mine(i) == IsHead(Modes, Nesting, source, i)
<1>1. /\ source \in Texts /\ Len(source) \in Nat /\ Reads(Modes, source)
      /\ OpensRead(Nesting, Modes, source)
  BY ReferenceRead
<1>2. a \in Nat /\ b \in Nat /\ a < b /\ a <= b /\ b <= Len(source)
  BY SpansTyped DEF Statement
<1>3. /\ Modes[a + 1] = "code" /\ Nesting[a + 1] = <<>>
      /\ a = 0 \/ CharAt(source, a - 1) = ";"
      /\ b = Len(source) \/ CharAt(source, b) = ";"
  BY DEF IsCut
<1> HIDE DEF a, b
<1>4. EndOfText \notin Words \cup Blank /\ ";" \notin Words \cup Blank /\ ";" \notin {"/", "*"}
  BY WordsApart, Zenon
<1>5. CharAt(source, a - 1) \notin Words \cup Blank
  <2>1. a = 0 => CharAt(source, a - 1) = EndOfText
    BY <1>1 DEF CharAt
  <2>2. QED
    BY <1>3, <1>4, <2>1
<1>6. CharAt(source, b) \notin Words \cup Blank
  <2>1. b = Len(source) => CharAt(source, b) = EndOfText
    BY <1>1 DEF CharAt
  <2>2. QED
    BY <1>3, <1>4, <2>1
<1>7. PartFromCode(source, Modes, Nesting, a, b)
  <2>1. b = Len(source) \/ CharAt(source, b) \notin {"/", "*"}
    BY <1>3, <1>4
  <2>2. QED
    BY <1>1, <1>2, <1>3, <1>5, <1>6, <2>1 DEF PartFromCode, IsPart
<1>8. \A i \in 0..(b - a - 1) : IsHead(n, p, part, i) <=> Mine(a + i)
  BY <1>7, PartHead
<1>9. heads = {i \in 0..(b - a - 1) : IsHead(n, p, part, i)}
  <2>1. Len(part) = b - a
    BY <1>1, <1>2, SliceParts
  <2>2. QED
    BY <2>1 DEF HeadsOf, Heads
<1>10. \A i \in a..(b - 1) : Mine(i) <=> Starts(Modes, Nesting, i) /\ ~Second(Modes, Nesting, i)
  <2>1. \A i \in a..(b - 1) : i \in Offsets
    BY <1>1, <1>2 DEF Offsets
  <2>2. QED
    BY <2>1, HeadStarts
<1> HIDE DEF part, n, p, heads, Mine
<1>11. ASSUME NEW i
       PROVE  i \in {a + j : j \in heads} <=> i \in a..(b - 1) /\ Mine(i)
  <2>1. ASSUME NEW j \in heads
        PROVE  a + j \in a..(b - 1) /\ Mine(a + j)
    BY <1>2, <1>8, <1>9
  <2>2. ASSUME i \in a..(b - 1), Mine(i)
        PROVE  \E j \in heads : i = a + j
    <3> DEFINE j == i - a
    <3>1. j \in 0..(b - a - 1) /\ i = a + j
      BY <1>2, <2>2
    <3> HIDE DEF j
    <3>2. j \in heads
      BY <1>8, <1>9, <2>2, <3>1
    <3>3. QED
      BY <3>1, <3>2
  <2>3. QED
    BY <2>1, <2>2
<1>12. {a + j : j \in heads} = {i \in a..(b - 1) : Starts(Modes, Nesting, i) /\ ~Second(Modes, Nesting, i)}
  BY <1>10, <1>11
<1>13. QED
  BY <1>12 DEF a, b, part, heads

\* The clauses of every statement of every text begin at the keywords a reader
\* of the whole source finds in code, outside brackets and words, and each
\* reaches to the next or to the end (findClauseStarts, parseClauses).
THEOREM ClausesExact == Spec => []ClausesStartInCode
<1>1. Init => SearchInv /\ ExactInv
  BY InitExact
<1>2. Inv /\ Inv' /\ SearchInv /\ ExactInv /\ [Next]_vars => SearchInv' /\ ExactInv'
  BY NextExact
<1>3. Inv /\ ReadInv /\ ExactInv => ClausesStartInCode
  <2> SUFFICES ASSUME Inv, ReadInv, ExactInv, phase = "done", NEW k \in DOMAIN statements
               PROVE  LET s == statements[k]
                          cs == s.clauses
                          keywords == {i \in s.start..(s.end - 1) :
                                         Starts(Modes, Nesting, i) /\ ~Second(Modes, Nesting, i)}
                      IN  /\ cs # <<>>
                          /\ \A c \in DOMAIN cs : cs[c].end = IF c < Len(cs) THEN cs[c + 1].start ELSE s.end
                          /\ IF keywords = {} THEN Spans(cs) = {<<s.start, s.end>>}
                             ELSE {cs[c].start : c \in DOMAIN cs} = keywords
    BY DEF ClausesStartInCode, Done, Modes, Nesting
  <2> DEFINE s == statements[k]
             heads == HeadsOf(Slice(source, s.start, s.end))
             keywords == {i \in s.start..(s.end - 1) :
                            Starts(Modes, Nesting, i) /\ ~Second(Modes, Nesting, i)}
  <2>1. CutTo = Len(source)
    BY DEF CutTo
  <2>2. s \in Statement /\ s.start < s.end /\ s.end <= Len(source)
    BY <2>1 DEF Inv, StatementsInv, InLine
  <2>3. IsCut(s)
    BY DEF ReadInv, CutsInv, CutsExact
  <2>4. ExactIn(source, s)
    BY DEF ExactInv, Scanned
  <2> HIDE DEF s
  <2>5. keywords = {s.start + i : i \in heads}
    BY <2>2, <2>3, StatementHeads
  <2>6. /\ s.clauses # <<>>
        /\ \A c \in DOMAIN s.clauses : s.clauses[c].end =
             IF c < Len(s.clauses) THEN s.clauses[c + 1].start ELSE s.end
        /\ heads = {} => Spans(s.clauses) = {<<s.start, s.end>>}
        /\ heads # {} => {s.clauses[c].start : c \in DOMAIN s.clauses} = {s.start + i : i \in heads}
    BY <2>4 DEF ExactIn, StartsOf
  <2> HIDE DEF heads
  <2>7. keywords = {} <=> heads = {}
    BY <2>5
  <2>8. IF keywords = {} THEN Spans(s.clauses) = {<<s.start, s.end>>}
        ELSE {s.clauses[c].start : c \in DOMAIN s.clauses} = keywords
    BY <2>5, <2>6, <2>7
  <2>9. QED
    BY <2>6, <2>8 DEF s
<1>4. QED
  BY <1>1, <1>2, <1>3, Invariance, ReadAsReference, PTL DEF Spec

=============================================================================
