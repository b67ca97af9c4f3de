-------------------------- MODULE PolicyReviewProofs --------------------------
(***************************************************************************)
(* Proofs about the static policy: PolicyReview's invariants, for every    *)
(* query, every set of rules and every caller.  What a fold over a query   *)
(* or a sum over a plan comes to is taken from Folding, one instance for   *)
(* each operator that is folded.                                           *)
(***************************************************************************)
EXTENDS PolicyReview, FiniteSetTheorems, TLAPS

Naming   == INSTANCE Folding WITH Op <- RegisterBinding
Matching == INSTANCE Folding WITH Op <- RegisterMatch
Walking  == INSTANCE Folding WITH Op <- RegisterClause
Adding   == INSTANCE Folding WITH Op <- LAMBDA x, y : x + y

LEMMA MemberOfSeq ==
  ASSUME NEW S, NEW s \in Seq(S)
  PROVE  /\ Len(s) \in Nat /\ DOMAIN s = 1..Len(s)
         /\ \A i \in DOMAIN s : s[i] \in S
OBVIOUS

-----------------------------------------------------------------------------
(***************************************************************************)
(* What a query says of its names, and what is remembered of it.  A name   *)
(* that was never mentioned is unbound and has no names of its own.        *)
(***************************************************************************)
Kinds == {"node", "relationship"}

Mention == [var: Var \cup {NoVar}, kind: Kinds, names: SUBSET (Label \cup Type)]

Binding == {Unbound} \cup [kind: Kinds, names: SUBSET (Label \cup Type)]

Bindings == [Var -> Binding]

BodyClause == ClauseOver({<<>>})

LEMMA NoBindingsType == NoBindings \in Bindings
BY DEF NoBindings, Bindings, Binding

LEMMA BindingParts ==
  ASSUME NEW b \in Bindings, NEW v \in Var
  PROVE  /\ b[v].kind \in {"none", "node", "relationship"}
         /\ b[v].names \in SUBSET (Label \cup Type)
         /\ b[v] = Unbound \/ b[v].kind \in Kinds
         /\ b[v].kind = "none" => b[v].names = {}
<1>1. b[v] \in Binding
  BY DEF Bindings
<1>2. Unbound.kind = "none" /\ Unbound.names = {}
  BY DEF Unbound
<1>3. CASE b[v] = Unbound
  BY <1>2, <1>3
<1>4. CASE b[v] \in [kind: Kinds, names: SUBSET (Label \cup Type)]
  BY <1>4 DEF Kinds
<1>5. QED
  BY <1>1, <1>3, <1>4 DEF Binding

LEMMA RegisterBindingType ==
  ASSUME NEW b \in Bindings, NEW m \in Mention
  PROVE  RegisterBinding(b, m) \in Bindings
<1> DEFINE known == m.names \cup (IF b[m.var].kind = m.kind THEN b[m.var].names ELSE {})
           new == [kind |-> m.kind, names |-> known]
<1>1. CASE m.var = NoVar
  BY <1>1 DEF RegisterBinding
<1>2. CASE m.var # NoVar
  <2>1. m.var \in Var /\ m.kind \in Kinds /\ m.names \in SUBSET (Label \cup Type)
    BY <1>2 DEF Mention
  <2>2. known \in SUBSET (Label \cup Type)
    BY <2>1, BindingParts
  <2>3. new \in Binding
    BY <2>1, <2>2 DEF Binding
  <2>4. RegisterBinding(b, m) = [b EXCEPT ![m.var] = new]
    BY <1>2 DEF RegisterBinding
  <2> HIDE DEF new, known
  <2>5. QED
    BY <2>1, <2>3, <2>4 DEF Bindings
<1>3. QED
  BY <1>1, <1>2

LEMMA NamingFolds == Naming!Folds(Bindings, Mention)
BY RegisterBindingType DEF Naming!Folds

LEMMA NamingFold ==
  ASSUME NEW b, NEW s
  PROVE  FoldLeft(RegisterBinding, b, s) = Naming!Fold(b, s)
BY DEF Naming!Fold, FoldLeft, MapThenFoldSet, Max, Naming!FoldLeft, Naming!MapThenFoldSet,
       Naming!Max

LEMMA FlattenedType ==
  ASSUME NEW S, NEW ss \in Seq(Seq(S))
  PROVE  FlattenSeq(ss) \in Seq(S)
<1>1. Adding!FlattenSeq(ss) \in Seq(S)
  BY Adding!FlattenSeqType
<1>2. QED
  BY <1>1 DEF FlattenSeq, Adding!FlattenSeq

LEMMA NodeMentionType ==
  ASSUME NEW node \in NodePattern
  PROVE  NodeMention(node) \in Mention
<1>1. node.var \in Var \cup {NoVar} /\ node.labels \in Seq(Label)
  BY DEF NodePattern
<1>2. {CanonicalLabel[l] : l \in ToSet(node.labels)} \in SUBSET (Label \cup Type)
  BY <1>1, PolicyRulesAssumption DEF ToSet
<1>3. QED
  BY <1>1, <1>2 DEF NodeMention, Mention, Kinds

LEMMA RelMentionType ==
  ASSUME NEW rel \in RelPattern
  PROVE  RelMention(rel) \in Mention
<1>1. rel.var \in Var \cup {NoVar} /\ rel.types \in Seq(Type)
  BY DEF RelPattern
<1>2. {CanonicalType[t] : t \in ToSet(rel.types)} \in SUBSET (Label \cup Type)
  BY <1>1, PolicyRulesAssumption DEF ToSet
<1>3. QED
  BY <1>1, <1>2 DEF RelMention, Mention, Kinds

LEMMA PatternParts ==
  ASSUME NEW pattern \in Pattern
  PROVE  /\ pattern.head \in NodePattern
         /\ DOMAIN pattern.tail = 1..Len(pattern.tail) /\ Len(pattern.tail) \in Nat
         /\ \A s \in DOMAIN pattern.tail :
              /\ pattern.tail[s].rel \in RelPattern
              /\ pattern.tail[s].node \in NodePattern
<1>1. /\ pattern.head \in NodePattern
      /\ pattern.tail \in Seq([rel: RelPattern, node: NodePattern])
  BY DEF Pattern
<1>2. \A s \in DOMAIN pattern.tail : pattern.tail[s] \in [rel: RelPattern, node: NodePattern]
  BY <1>1, MemberOfSeq
<1>3. QED
  BY <1>1, <1>2, MemberOfSeq

LEMMA PatternMentionsType ==
  ASSUME NEW pattern \in Pattern
  PROVE  PatternMentions(pattern) \in Seq(Mention)
<1> DEFINE pair(s) == <<RelMention(pattern.tail[s].rel), NodeMention(pattern.tail[s].node)>>
           pairs == [s \in DOMAIN pattern.tail |-> pair(s)]
<1>1. ASSUME NEW s \in DOMAIN pattern.tail
      PROVE  pair(s) \in Seq(Mention)
  <2>1. /\ RelMention(pattern.tail[s].rel) \in Mention
        /\ NodeMention(pattern.tail[s].node) \in Mention
    BY PatternParts, RelMentionType, NodeMentionType
  <2>2. QED
    BY <2>1
<1>2. pairs \in Seq(Seq(Mention))
  <2> HIDE DEF pair
  <2>1. QED
    BY <1>1, PatternParts
<1>3. FlattenSeq(pairs) \in Seq(Mention)
  <2> HIDE DEF pairs
  <2>1. QED
    BY <1>2, FlattenedType
<1>4. <<NodeMention(pattern.head)>> \in Seq(Mention)
  <2>1. NodeMention(pattern.head) \in Mention
    BY PatternParts, NodeMentionType
  <2>2. QED
    BY <2>1
<1>5. PatternMentions(pattern) = <<NodeMention(pattern.head)>> \o FlattenSeq(pairs)
  BY DEF PatternMentions
<1> HIDE DEF pairs
<1>6. QED
  BY <1>3, <1>4, <1>5

LEMMA ClauseParts ==
  ASSUME NEW B, NEW clause \in ClauseOver(B)
  PROVE  /\ clause.patterns \in Seq(Pattern)
         /\ DOMAIN clause.patterns = 1..Len(clause.patterns)
         /\ Len(clause.patterns) \in Nat
         /\ \A p \in DOMAIN clause.patterns : clause.patterns[p] \in Pattern
         /\ clause.where \in Predicate /\ clause.items \in Seq(Item)
         /\ clause.limit \in Nat \cup {Absent, Dynamic} /\ clause.limit \in Int
         /\ clause.body \in B
         /\ clause = [kind |-> clause.kind, patterns |-> clause.patterns,
                      where |-> clause.where, items |-> clause.items,
                      limit |-> clause.limit, body |-> clause.body]
<1>1. /\ clause.patterns \in Seq(Pattern) /\ clause.where \in Predicate
      /\ clause.items \in Seq(Item) /\ clause.body \in B
      /\ clause.limit \in Nat \cup {Absent, Dynamic}
      /\ clause = [kind |-> clause.kind, patterns |-> clause.patterns,
                   where |-> clause.where, items |-> clause.items,
                   limit |-> clause.limit, body |-> clause.body]
  BY DEF ClauseOver
<1>2. clause.limit \in Int
  BY <1>1 DEF Absent, Dynamic
<1>3. QED
  BY <1>1, <1>2, MemberOfSeq

LEMMA MatchMentionsType ==
  ASSUME NEW B, NEW clause \in ClauseOver(B)
  PROVE  MatchMentions(clause) \in Seq(Mention)
<1> DEFINE all == [p \in DOMAIN clause.patterns |-> PatternMentions(clause.patterns[p])]
<1>1. all \in Seq(Seq(Mention))
  BY ClauseParts, PatternMentionsType
<1>2. MatchMentions(clause) = FlattenSeq(all)
  BY DEF MatchMentions
<1> HIDE DEF all
<1>3. QED
  BY <1>1, <1>2, FlattenedType

LEMMA RegisterMatchType ==
  ASSUME NEW B, NEW clause \in ClauseOver(B), NEW b \in Bindings
  PROVE  RegisterMatch(b, clause) \in Bindings
<1>1. MatchMentions(clause) \in Seq(Mention)
  BY MatchMentionsType
<1>2. Naming!Fold(b, MatchMentions(clause)) \in Bindings
  BY <1>1, NamingFolds, Naming!FoldLeftType
<1>3. QED
  BY <1>2, NamingFold DEF RegisterMatch

LEMMA SubqueryMentionsType ==
  ASSUME NEW body \in Seq(BodyClause)
  PROVE  SubqueryMentions(body) \in Seq(Mention)
<1> DEFINE inner == FoldLeft(RegisterMatch, NoBindings, body)
           bound == {w \in Var : inner[w] # Unbound}
           told(v) == [var |-> v, kind |-> inner[v].kind, names |-> inner[v].names]
           S == {told(v) : v \in bound}
<1>1. inner = Matching!Fold(NoBindings, body)
  BY DEF Matching!Fold, FoldLeft, MapThenFoldSet, Max, Matching!FoldLeft,
     Matching!MapThenFoldSet, Matching!Max
<1>2. Matching!Folds(Bindings, BodyClause)
  BY RegisterMatchType DEF Matching!Folds, BodyClause
<1>3. inner \in Bindings
  BY <1>1, <1>2, NoBindingsType, Matching!FoldLeftType
<1>4. SubqueryMentions(body) = SetToSeq(S)
  BY DEF SubqueryMentions
<1> HIDE DEF inner
<1>5. ASSUME NEW v \in bound
      PROVE  told(v) \in Mention
  <2>1. inner[v].kind \in Kinds /\ inner[v].names \in SUBSET (Label \cup Type)
    BY <1>3, BindingParts
  <2>2. QED
    BY <2>1 DEF Mention
<1>6. IsFiniteSet(bound)
  BY PolicyRulesAssumption, FS_Subset
<1>7. [v \in bound |-> told(v)] \in Surjection(bound, S)
  BY DEF Surjection
<1> HIDE DEF bound, told
<1>8. IsFiniteSet(S) /\ S \subseteq Mention
  BY <1>5, <1>6, <1>7, FS_Surjection
<1> HIDE DEF S
<1>9. SetToSeq(S) \in Seq(S)
  <2>1. Adding!IsFiniteSet(S)
    BY <1>8 DEF IsFiniteSet, Adding!IsFiniteSet
  <2>2. Adding!SetToSeq(S) \in Seq(S)
    BY <2>1, Adding!SetToSeqType
  <2>3. Adding!SetToSeq(S) = SetToSeq(S)
    BY DEF SetToSeq, Adding!SetToSeq, Cardinality, Adding!Cardinality,
           IsInjective, Adding!IsInjective
  <2>4. QED
    BY <2>2, <2>3
<1>10. SetToSeq(S) \in Seq(Mention)
  BY <1>8, <1>9
<1>11. QED
  BY <1>4, <1>10

LEMMA ClauseMentionsType ==
  ASSUME NEW clause \in Clause
  PROVE  ClauseMentions(clause) \in Seq(Mention)
<1>1. clause.body \in Seq(BodyClause)
  BY ClauseParts DEF Clause, BodyClause
<1>2. MatchMentions(clause) \in Seq(Mention)
  BY MatchMentionsType DEF Clause
<1>3. SubqueryMentions(clause.body) \in Seq(Mention)
  BY <1>1, SubqueryMentionsType
<1>4. <<>> \in Seq(Mention)
  OBVIOUS
<1>5. QED
  BY <1>2, <1>3, <1>4 DEF ClauseMentions

LEMMA RegisterClauseType ==
  ASSUME NEW b \in Bindings, NEW clause \in Clause
  PROVE  /\ RegisterClause(b, clause) = Naming!Fold(b, ClauseMentions(clause))
         /\ RegisterClause(b, clause) \in Bindings
<1>1. RegisterClause(b, clause) = Naming!Fold(b, ClauseMentions(clause))
  BY NamingFold DEF RegisterClause
<1>2. Naming!Fold(b, ClauseMentions(clause)) \in Bindings
  BY ClauseMentionsType, NamingFolds, Naming!FoldLeftType
<1>3. QED
  BY <1>1, <1>2

LEMMA WalkingFolds == Walking!Folds(Bindings, Clause)
BY RegisterClauseType DEF Walking!Folds

LEMMA VariableBindingsFold ==
  ASSUME NEW q \in Seq(Clause)
  PROVE  /\ VariableBindings(q) = Walking!Fold(NoBindings, q)
         /\ VariableBindings(q) \in Bindings
         /\ q = <<>> => VariableBindings(q) = NoBindings
<1>1. VariableBindings(q) = Walking!Fold(NoBindings, q)
  BY DEF VariableBindings, Walking!Fold, FoldLeft, MapThenFoldSet, Max,
     Walking!FoldLeft, Walking!MapThenFoldSet, Walking!Max
<1>2. QED
  BY <1>1, NoBindingsType, WalkingFolds, Walking!FoldLeftType

-----------------------------------------------------------------------------
(***************************************************************************)
(* The walk over a query.  While it binds, the bindings are those of the   *)
(* clauses behind it; while it assesses, so are the findings; a query that *)
(* is judged has the findings of assessCypherPolicy, no more and no less.  *)
(***************************************************************************)
FoundIn(q, n, c, b) ==
  UNION {ClauseFindings(q[i], i, EffectiveOptions(c.given), c.evidence, b) : i \in 1..n}

QueryInv ==
  /\ query \in Seq(Clauses) /\ at \in 1..(Len(query) + 1)
  /\ stage \in {"draft", "done"} => bindings = NoBindings /\ at = 1
  /\ stage = "bind" => bindings = VariableBindings(SubSeq(query, 1, at - 1))
  /\ stage \in {"assess", "judge"} => bindings = VariableBindings(query)

FindingsInv ==
  /\ stage \in {"draft", "bind", "done"} => findings = {}
  /\ stage = "assess" => findings = FoundIn(query, at - 1, call, bindings)
  /\ stage = "judge" => findings = AssessCypherPolicy(query, call.given, call.evidence)

ResultsInv ==
  /\ \E R : results \in Seq(R)
  /\ Len(results) <= Len(MaxClauses)
  /\ stage \in {"bind", "assess", "judge"} => Len(results) < Len(MaxClauses)

WalkInv ==
  /\ call \in Calls /\ kind \in {"ir", "raw"}
  /\ stage \in {"draft", "bind", "assess", "judge", "done"}
  /\ QueryInv /\ FindingsInv /\ ResultsInv

LEMMA QueryTyped ==
  ASSUME NEW q \in Seq(Clauses)
  PROVE  /\ q \in Seq(Clause) /\ Len(q) \in Nat /\ DOMAIN q = 1..Len(q)
         /\ \A i \in DOMAIN q : q[i] \in Clauses /\ q[i] \in Clause
<1>1. Clauses \subseteq Clause
  BY PolicyReviewAssumption
<1> HIDE DEF Clause
<1>2. QED
  BY <1>1

LEMMA PrefixGrows ==
  ASSUME NEW q \in Seq(Clauses), NEW i \in DOMAIN q
  PROVE  VariableBindings(SubSeq(q, 1, i)) =
           RegisterClause(VariableBindings(SubSeq(q, 1, i - 1)), q[i])
<1> DEFINE before == SubSeq(q, 1, i - 1)
<1>1. /\ before \in Seq(Clauses) /\ SubSeq(q, 1, i) = Append(before, q[i])
      /\ q[i] \in Clauses
  OBVIOUS
<1> HIDE DEF before
<1>2. before \in Seq(Clause) /\ Append(before, q[i]) \in Seq(Clause) /\ q[i] \in Clause
  <2>1. Append(before, q[i]) \in Seq(Clauses)
    BY <1>1
  <2>2. QED
    BY <1>1, <2>1, QueryTyped
<1>3. Walking!Fold(NoBindings, Append(before, q[i])) =
        RegisterClause(Walking!Fold(NoBindings, before), q[i])
  BY <1>2, NoBindingsType, WalkingFolds, Walking!FoldLeftAppend
<1>4. QED
  BY <1>1, <1>2, <1>3, VariableBindingsFold DEF before

LEMMA InitWalk == Init => WalkInv
<1> SUFFICES ASSUME Init
             PROVE  WalkInv
  OBVIOUS
<1>1. QueryInv
  BY DEF Init, QueryInv
<1>2. FindingsInv
  BY DEF Init, FindingsInv
<1>3. ResultsInv
  <2>1. results \in Seq({}) /\ Len(results) = 0
    BY DEF Init
  <2>2. Len(MaxClauses) \in Nat
    BY PolicyReviewAssumption
  <2>3. QED
    BY <2>1, <2>2 DEF Init, ResultsInv
<1>4. QED
  BY <1>1, <1>2, <1>3 DEF Init, WalkInv

LEMMA OneMoreResult ==
  ASSUME ResultsInv, NEW x, results' = Append(results, x), stage' = "draft",
         Len(results) < Len(MaxClauses)
  PROVE  ResultsInv'
<1>1. PICK R : results \in Seq(R)
  BY DEF ResultsInv
<1>2. results' \in Seq(R \cup {x}) /\ Len(results') = Len(results) + 1
  BY <1>1
<1>3. Len(MaxClauses) \in Nat /\ Len(results) \in Nat
  BY <1>1, PolicyReviewAssumption
<1>4. QED
  BY <1>2, <1>3 DEF ResultsInv

LEMMA NextTaskWalk ==
  ASSUME WalkInv, NEW x, NextTask(x), Len(results) < Len(MaxClauses)
  PROVE  WalkInv'
<1>1. /\ results' = Append(results, x) /\ stage' = "draft" /\ kind' = "ir"
      /\ query' = <<>> /\ at' = 1 /\ bindings' = NoBindings /\ findings' = {}
      /\ call' = call
  BY DEF NextTask
<1>2. QueryInv'
  BY <1>1 DEF QueryInv
<1>3. FindingsInv'
  BY <1>1 DEF FindingsInv
<1>4. ResultsInv'
  BY <1>1, OneMoreResult DEF WalkInv
<1>5. QED
  BY <1>1, <1>2, <1>3, <1>4 DEF WalkInv

LEMMA ResultsKept ==
  ASSUME ResultsInv, UNCHANGED results, Len(results) < Len(MaxClauses)
  PROVE  ResultsInv'
BY DEF ResultsInv

LEMMA DraftWalk ==
  ASSUME WalkInv, NEW c \in Clauses, Draft(c)
  PROVE  WalkInv'
<1>1. /\ stage = "draft" /\ Len(results) < Len(MaxClauses)
      /\ query' = Append(query, c)
      /\ UNCHANGED <<call, stage, kind, at, bindings, findings, results>>
  BY DEF Draft, Drafting
<1>2. query \in Seq(Clauses) /\ at = 1 /\ bindings = NoBindings
  BY <1>1 DEF WalkInv, QueryInv
<1>3. query' \in Seq(Clauses) /\ Len(query') = Len(query) + 1 /\ Len(query) \in Nat
  BY <1>1, <1>2
<1>4. QueryInv'
  BY <1>1, <1>2, <1>3 DEF QueryInv
<1>5. FindingsInv'
  BY <1>1 DEF WalkInv, FindingsInv
<1>6. ResultsInv'
  BY <1>1, ResultsKept DEF WalkInv
<1>7. QED
  BY <1>1, <1>4, <1>5, <1>6 DEF WalkInv

LEMMA SubmitWalk ==
  ASSUME WalkInv, NEW k \in {"ir", "raw"}, Submit(k)
  PROVE  WalkInv'
<1>1. /\ stage = "draft" /\ stage' = "bind" /\ kind' = k
      /\ Len(results) < Len(MaxClauses)
      /\ UNCHANGED <<call, query, at, bindings, findings, results>>
  BY DEF Submit, Drafting
<1>2. query \in Seq(Clauses) /\ at = 1 /\ bindings = NoBindings /\ findings = {}
  BY <1>1 DEF WalkInv, QueryInv, FindingsInv
<1>3. SubSeq(query, 1, at - 1) = <<>> /\ <<>> \in Seq(Clause)
  BY <1>2
<1>4. VariableBindings(SubSeq(query, 1, at - 1)) = NoBindings
  BY <1>3, VariableBindingsFold
<1>5. Len(query) \in Nat
  BY <1>2
<1>6. QueryInv'
  BY <1>1, <1>2, <1>4, <1>5 DEF QueryInv
<1>7. FindingsInv'
  BY <1>1, <1>2 DEF FindingsInv
<1>8. ResultsInv'
  BY <1>1, ResultsKept DEF WalkInv
<1>9. QED
  BY <1>1, <1>6, <1>7, <1>8 DEF WalkInv

LEMMA BindClauseWalk ==
  ASSUME WalkInv, BindClause
  PROVE  WalkInv'
<1>1. /\ stage = "bind" /\ at \in DOMAIN query
      /\ bindings' = RegisterClause(bindings, query[at])
      /\ at' = at + 1
      /\ UNCHANGED <<call, stage, kind, query, findings, results>>
  BY DEF BindClause
<1>2. query \in Seq(Clauses) /\ bindings = VariableBindings(SubSeq(query, 1, at - 1))
  BY <1>1 DEF WalkInv, QueryInv
<1>3. Len(query) \in Nat /\ DOMAIN query = 1..Len(query)
  BY <1>2
<1>4. at' \in 1..(Len(query) + 1) /\ at' - 1 = at
  BY <1>1, <1>3
<1>5. bindings' = VariableBindings(SubSeq(query, 1, at))
  BY <1>1, <1>2, PrefixGrows
<1>6. QueryInv'
  BY <1>1, <1>2, <1>4, <1>5 DEF QueryInv
<1>7. FindingsInv'
  BY <1>1 DEF WalkInv, FindingsInv
<1>8. ResultsInv'
  BY <1>1 DEF WalkInv, ResultsInv
<1>9. QED
  BY <1>1, <1>6, <1>7, <1>8 DEF WalkInv

LEMMA AllBoundWalk ==
  ASSUME WalkInv, AllBound
  PROVE  WalkInv'
<1>1. /\ stage = "bind" /\ at \notin DOMAIN query /\ stage' = "assess" /\ at' = 1
      /\ UNCHANGED <<call, kind, query, bindings, findings, results>>
  BY DEF AllBound
<1>2. /\ query \in Seq(Clauses) /\ at \in 1..(Len(query) + 1)
      /\ bindings = VariableBindings(SubSeq(query, 1, at - 1)) /\ findings = {}
  BY <1>1 DEF WalkInv, QueryInv, FindingsInv
<1>3. Len(query) \in Nat /\ at - 1 = Len(query)
  BY <1>1, <1>2
<1>4. SubSeq(query, 1, at - 1) = query
  BY <1>2, <1>3
<1>a. bindings' = VariableBindings(query') /\ query' = query
  BY <1>1, <1>2, <1>4
<1>b. at' \in 1..(Len(query) + 1)
  BY <1>1, <1>3
<1>5. QueryInv'
  BY <1>1, <1>2, <1>a, <1>b DEF QueryInv
<1>6. FoundIn(query, at' - 1, call, bindings) = {}
  BY <1>1 DEF FoundIn
<1>7. FindingsInv'
  BY <1>1, <1>2, <1>6 DEF FindingsInv, FoundIn
<1>8. ResultsInv'
  BY <1>1 DEF WalkInv, ResultsInv
<1>9. QED
  BY <1>1, <1>5, <1>7, <1>8 DEF WalkInv

LEMMA AssessClauseWalk ==
  ASSUME WalkInv, AssessClause
  PROVE  WalkInv'
<1> DEFINE here == ClauseFindings(query[at], at, EffectiveOptions(call.given),
                                  call.evidence, bindings)
<1>1. /\ stage = "assess" /\ at \in DOMAIN query
      /\ findings' = findings \cup here
      /\ at' = at + 1
      /\ UNCHANGED <<call, stage, kind, query, bindings, results>>
  BY DEF AssessClause
<1>2. /\ query \in Seq(Clauses) /\ bindings = VariableBindings(query)
      /\ findings = FoundIn(query, at - 1, call, bindings)
  BY <1>1 DEF WalkInv, QueryInv, FindingsInv
<1>3. Len(query) \in Nat /\ DOMAIN query = 1..Len(query)
  BY <1>2
<1>4. at' \in 1..(Len(query) + 1) /\ at' - 1 = at /\ 1..at = 1..(at - 1) \cup {at}
  BY <1>1, <1>3
<1>5. FoundIn(query, at, call, bindings) = FoundIn(query, at - 1, call, bindings) \cup here
  BY <1>4 DEF FoundIn
<1>6. FindingsInv'
  <2>1. findings' = FoundIn(query, at, call, bindings)
    BY <1>1, <1>2, <1>5
  <2>2. FoundIn(query', at' - 1, call', bindings') = FoundIn(query, at, call, bindings)
    BY <1>1, <1>4
  <2>3. QED
    BY <1>1, <2>1, <2>2 DEF FindingsInv
<1>7. QueryInv'
  BY <1>1, <1>2, <1>4 DEF QueryInv
<1>8. ResultsInv'
  BY <1>1 DEF WalkInv, ResultsInv
<1>9. QED
  BY <1>1, <1>6, <1>7, <1>8 DEF WalkInv

LEMMA AssessPlannerWalk ==
  ASSUME WalkInv, AssessPlanner
  PROVE  WalkInv'
<1>1. /\ stage = "assess" /\ at \notin DOMAIN query /\ stage' = "judge"
      /\ findings' = findings \cup PlannerFindings(call.evidence.planner,
                                                  EffectiveOptions(call.given))
      /\ UNCHANGED <<call, kind, query, at, bindings, results>>
  BY DEF AssessPlanner
<1>2. /\ query \in Seq(Clauses) /\ at \in 1..(Len(query) + 1)
      /\ bindings = VariableBindings(query)
      /\ findings = FoundIn(query, at - 1, call, bindings)
  BY <1>1 DEF WalkInv, QueryInv, FindingsInv
<1>3. DOMAIN query = 1..(at - 1)
  BY <1>1, <1>2
<1>a. AssessCypherPolicy(query, call.given, call.evidence) =
        FoundIn(query, at - 1, call, bindings)
          \cup PlannerFindings(call.evidence.planner, EffectiveOptions(call.given))
  <2> DEFINE part(i) == ClauseFindings(query[i], i, EffectiveOptions(call.given),
                                       call.evidence, VariableBindings(query))
             inAll == UNION {part(i) : i \in DOMAIN query}
             behind == UNION {part(i) : i \in 1..(at - 1)}
             planned == PlannerFindings(call.evidence.planner, EffectiveOptions(call.given))
  <2>1. AssessCypherPolicy(query, call.given, call.evidence) = planned \cup inAll
    BY DEF AssessCypherPolicy
  <2>2. inAll = behind
    BY <1>3
  <2>3. FoundIn(query, at - 1, call, VariableBindings(query)) = behind
    BY DEF FoundIn
  <2> HIDE DEF inAll, behind, planned
  <2>4. AssessCypherPolicy(query, call.given, call.evidence) =
          FoundIn(query, at - 1, call, bindings) \cup planned
    BY <1>2, <2>1, <2>2, <2>3
  <2>5. QED
    BY <2>4 DEF planned
<1>4. findings' = AssessCypherPolicy(query, call.given, call.evidence)
  BY <1>1, <1>2, <1>a
<1>5. FindingsInv'
  BY <1>1, <1>4 DEF FindingsInv
<1>6. QueryInv'
  BY <1>1, <1>2 DEF QueryInv
<1>7. ResultsInv'
  BY <1>1 DEF WalkInv, ResultsInv
<1>8. QED
  BY <1>1, <1>5, <1>6, <1>7 DEF WalkInv

LEMMA SummarizeWalk ==
  ASSUME WalkInv, Summarize
  PROVE  WalkInv'
<1>1. /\ stage = "draft" /\ stage' = "done"
      /\ UNCHANGED <<call, kind, query, at, bindings, findings, results>>
  BY DEF Summarize
<1>2. QueryInv' /\ FindingsInv' /\ ResultsInv'
  BY <1>1 DEF WalkInv, QueryInv, FindingsInv, ResultsInv
<1>3. QED
  BY <1>1, <1>2 DEF WalkInv

LEMMA NextWalk == WalkInv /\ [Next]_vars => WalkInv'
<1> SUFFICES ASSUME WalkInv, [Next]_vars
             PROVE  WalkInv'
  OBVIOUS
<1>1. ASSUME NEW k, NoQuery(k)
      PROVE  WalkInv'
  BY <1>1, NextTaskWalk DEF NoQuery, Drafting
<1>2. CASE SubmitUnlifted
  BY <1>2, NextTaskWalk DEF SubmitUnlifted, Drafting
<1>3. ASSUME NEW valid \in BOOLEAN, Judge(valid)
      PROVE  WalkInv'
  BY <1>3, NextTaskWalk DEF Judge, WalkInv, ResultsInv
<1>4. CASE UNCHANGED vars
  BY <1>4 DEF vars, WalkInv, QueryInv, FindingsInv, ResultsInv, FoundIn
<1>5. QED
  BY <1>1, <1>2, <1>3, <1>4, DraftWalk, SubmitWalk, BindClauseWalk, AllBoundWalk,
     AssessClauseWalk, AssessPlannerWalk, SummarizeWalk DEF Next

LEMMA Walk == Spec => []WalkInv
<1>1. Init => WalkInv
  BY InitWalk
<1>2. WalkInv /\ [Next]_vars => WalkInv'
  BY NextWalk
<1>3. QED
  BY <1>1, <1>2, PTL DEF Spec

-----------------------------------------------------------------------------
(***************************************************************************)
(* Who is among the findings: each set of findings as a condition.         *)
(***************************************************************************)
LEMMA Warned ==
  ASSUME NEW f, NEW condition \in BOOLEAN, NEW code, NEW path, NEW what
  PROVE  f \in Warn(condition, code, path, what)
           <=> condition /\ f = Finding(code, "warning", path, what)
BY DEF Warn

Crowded(node, opts, statistics) ==
  {l \in OnlyLabels(node) \cap DOMAIN statistics.nodes :
     statistics.nodes[l].count > opts.maxLabelScanRows}

ScanCode(node) == IF node.labels = <<>> THEN "policy-unfiltered-node-scan"
                                        ELSE "policy-unfiltered-label-scan"

HeadReason(f, node, clause, path, opts, statistics) ==
  \/ /\ HasPredicate(node, clause)
     /\ \E p \in DOMAIN node.properties :
          /\ \E l \in Crowded(node, opts, statistics) :
               p \notin statistics.nodes[l].indexed
          /\ f = Finding("policy-unindexed-high-cardinality-predicate",
                         "warning", path, p)
  \/ /\ ~HasPredicate(node, clause)
     /\ f = Finding(ScanCode(node), "warning", path, "")
  \/ /\ ~HasPredicate(node, clause) /\ Crowded(node, opts, statistics) # {}
     /\ f = Finding("policy-high-cardinality-label-scan", "warning", path, "")

LEMMA HeadFound ==
  ASSUME NEW f, NEW node, NEW clause, NEW path, NEW opts, NEW statistics
  PROVE  f \in HeadNodeFindings(node, clause, path, opts, statistics)
           <=> HeadReason(f, node, clause, path, opts, statistics)
<1> DEFINE crowded == Crowded(node, opts, statistics)
           unindexed == {Finding("policy-unindexed-high-cardinality-predicate", "warning",
                                 path, p) :
                         p \in {k \in DOMAIN node.properties :
                                  \E l \in crowded : k \notin statistics.nodes[l].indexed}}
           scans == Warn(TRUE, ScanCode(node), path, "")
                      \cup Warn(crowded # {}, "policy-high-cardinality-label-scan", path, "")
<1>1. HeadNodeFindings(node, clause, path, opts, statistics) =
        IF HasPredicate(node, clause) THEN unindexed ELSE scans
  BY DEF HeadNodeFindings, Crowded, ScanCode
<1>2. f \in unindexed <=>
        \E p \in DOMAIN node.properties :
          /\ \E l \in crowded : p \notin statistics.nodes[l].indexed
          /\ f = Finding("policy-unindexed-high-cardinality-predicate", "warning", path, p)
  OBVIOUS
<1>3. f \in scans <=>
        \/ f = Finding(ScanCode(node), "warning", path, "")
        \/ /\ crowded # {}
           /\ f = Finding("policy-high-cardinality-label-scan", "warning", path, "")
  <2> HIDE DEF crowded
  <2>1. QED
    BY DEF Warn
<1> HIDE DEF crowded, unindexed, scans
<1>4. QED
  BY <1>1, <1>2, <1>3 DEF crowded, HeadReason

RelationshipReason(f, rel, path, opts, statistics, rules) ==
  \/ /\ rel.maxHops = Dynamic
     /\ f = Finding("policy-unbounded-traversal", "error", path, "")
  \/ /\ rel.maxHops > opts.maxRelationshipHops
     /\ f = Finding("policy-high-hop-traversal", "warning", path, "")
  \/ \E r \in rules.sensitiveRelationships :
       /\ CanonicalType[r.type] \in OnlyTypes(rel)
       /\ f = Finding("policy-sensitive-relationship-access",
                      RuleSeverity(r, "warning"), path, r.type)
  \/ /\ \E t \in OnlyTypes(rel) \cap DOMAIN statistics.relationships :
          statistics.relationships[t] > opts.maxRelationshipFanout
     /\ f = Finding("policy-high-fanout-relationship", "warning", path, "")

LEMMA RelationshipFound ==
  ASSUME NEW f, NEW rel, NEW path, NEW opts, NEW statistics, NEW rules
  PROVE  f \in RelationshipFindings(rel, path, opts, statistics, rules)
           <=> RelationshipReason(f, rel, path, opts, statistics, rules)
<1> DEFINE fans == \E t \in OnlyTypes(rel) \cap DOMAIN statistics.relationships :
                      statistics.relationships[t] > opts.maxRelationshipFanout
<1>1. f \in Warn(rel.maxHops > opts.maxRelationshipHops,
                "policy-high-hop-traversal", path, "")
        <=> /\ rel.maxHops > opts.maxRelationshipHops
            /\ f = Finding("policy-high-hop-traversal", "warning", path, "")
  BY DEF Warn
<1>2. f \in Warn(fans, "policy-high-fanout-relationship", path, "")
        <=> fans /\ f = Finding("policy-high-fanout-relationship", "warning", path, "")
  BY DEF Warn
<1>3. RelationshipFindings(rel, path, opts, statistics, rules) =
        {x \in {Finding("policy-unbounded-traversal", "error", path, "")} :
           rel.maxHops = Dynamic}
          \cup Warn(rel.maxHops > opts.maxRelationshipHops,
                    "policy-high-hop-traversal", path, "")
          \cup {Finding("policy-sensitive-relationship-access",
                        RuleSeverity(r, "warning"), path, r.type) :
                r \in {s \in rules.sensitiveRelationships :
                         CanonicalType[s.type] \in OnlyTypes(rel)}}
          \cup Warn(fans, "policy-high-fanout-relationship", path, "")
  BY DEF RelationshipFindings
<1> HIDE DEF fans
<1>4. QED
  BY <1>1, <1>2, <1>3 DEF fans, RelationshipReason

NodeRuleReason(f, node, clause, path, rules) ==
  \E l \in ToSet(node.labels) :
    \/ \E r \in RulesForLabel(rules.sensitiveLabels, l) :
         f = Finding("policy-sensitive-label-access",
                     RuleSeverity(r, "warning"), path, l)
    \/ \E r \in RulesForLabel(rules.tenantScopes, l) :
         /\ ~NodeSatisfiesTenantScope(node, clause, r)
         /\ f = Finding("policy-missing-tenant-scope",
                        RuleSeverity(r, "error"), path, l)

LEMMA NodeRuleFound ==
  ASSUME NEW f, NEW node, NEW clause, NEW path, NEW rules
  PROVE  f \in NodeRuleFindings(node, clause, path, rules)
           <=> NodeRuleReason(f, node, clause, path, rules)
BY DEF NodeRuleFindings, NodeRuleReason

PatternReason(f, pattern, clause, path, opts, evidence) ==
  \/ f \in HeadNodeFindings(pattern.head, clause, path \o <<0>>, opts,
                            evidence.statistics)
  \/ f \in NodeRuleFindings(pattern.head, clause, path \o <<0>>, evidence.rules)
  \/ \E s \in DOMAIN pattern.tail :
       \/ f \in RelationshipFindings(pattern.tail[s].rel, path \o <<s>>, opts,
                                     evidence.statistics, evidence.rules)
       \/ f \in NodeRuleFindings(pattern.tail[s].node, clause, path \o <<s>>,
                                 evidence.rules)

LEMMA PatternFound ==
  ASSUME NEW f, NEW pattern, NEW clause, NEW path, NEW opts, NEW evidence
  PROVE  f \in PatternFindings(pattern, clause, path, opts, evidence)
           <=> PatternReason(f, pattern, clause, path, opts, evidence)
BY DEF PatternFindings, PatternReason

MatchReason(f, clause, i, opts, evidence) ==
  \/ /\ Len(clause.patterns) > 1
     /\ f = Finding("policy-cartesian-pattern-risk", "warning", <<i>>, "")
  \/ \E p \in DOMAIN clause.patterns :
       f \in PatternFindings(clause.patterns[p], clause, <<i, p>>, opts, evidence)

LEMMA MatchFound ==
  ASSUME NEW f, NEW clause, NEW i, NEW opts, NEW evidence
  PROVE  f \in MatchFindings(clause, i, opts, evidence)
           <=> MatchReason(f, clause, i, opts, evidence)
<1>1. f \in Warn(Len(clause.patterns) > 1, "policy-cartesian-pattern-risk", <<i>>, "")
        <=> /\ Len(clause.patterns) > 1
            /\ f = Finding("policy-cartesian-pattern-risk", "warning", <<i>>, "")
  BY DEF Warn
<1>2. QED
  BY <1>1 DEF MatchFindings, MatchReason

ReturnReason(f, clause, i, opts, evidence, b) ==
  \/ \E k \in DOMAIN clause.items : \E read \in clause.items[k].reads :
       \E r \in evidence.rules.sensitiveProperties :
         /\ SensitivePropertyRuleMatches(r, read[2], BindingOf(read[1], b))
         /\ f = Finding("policy-sensitive-property-return",
                        RuleSeverity(r, "error"), <<i, k>>, read[2])
  \/ /\ clause.limit = Absent /\ opts.requireLimit
     /\ f = Finding("policy-missing-limit", "warning", <<i>>, "")
  \/ /\ clause.limit > opts.maxReturnLimit
     /\ f = Finding("policy-high-return-limit", "warning", <<i>>, "")

LEMMA ReturnFound ==
  ASSUME NEW f, NEW clause, NEW i, NEW opts, opts.requireLimit \in BOOLEAN,
         NEW evidence, NEW b
  PROVE  f \in ReturnFindings(clause, i, opts, evidence, b)
           <=> ReturnReason(f, clause, i, opts, evidence, b)
<1>1. f \in Warn(clause.limit = Absent /\ opts.requireLimit, "policy-missing-limit", <<i>>, "")
        <=> /\ clause.limit = Absent /\ opts.requireLimit
            /\ f = Finding("policy-missing-limit", "warning", <<i>>, "")
  BY DEF Warn
<1>2. f \in Warn(clause.limit > opts.maxReturnLimit, "policy-high-return-limit", <<i>>, "")
        <=> /\ clause.limit > opts.maxReturnLimit
            /\ f = Finding("policy-high-return-limit", "warning", <<i>>, "")
  BY DEF Warn
<1>3. ASSUME NEW item, NEW path
      PROVE  f \in ItemRuleFindings(item, path, evidence.rules, b) <=>
               \E read \in item.reads : \E r \in evidence.rules.sensitiveProperties :
                 /\ SensitivePropertyRuleMatches(r, read[2], BindingOf(read[1], b))
                 /\ f = Finding("policy-sensitive-property-return",
                                RuleSeverity(r, "error"), path, read[2])
  BY DEF ItemRuleFindings
<1>4. f \in ReturnRuleFindings(clause, i, evidence.rules, b) <=>
        \E k \in DOMAIN clause.items :
          f \in ItemRuleFindings(clause.items[k], <<i, k>>, evidence.rules, b)
  BY DEF ReturnRuleFindings
<1>5. f \in ReturnRuleFindings(clause, i, evidence.rules, b) <=>
        \E k \in DOMAIN clause.items : \E read \in clause.items[k].reads :
          \E r \in evidence.rules.sensitiveProperties :
            /\ SensitivePropertyRuleMatches(r, read[2], BindingOf(read[1], b))
            /\ f = Finding("policy-sensitive-property-return",
                           RuleSeverity(r, "error"), <<i, k>>, read[2])
  BY <1>3, <1>4
<1>6. QED
  BY <1>1, <1>2, <1>5 DEF ReturnFindings, ReturnReason

ClauseReason(f, clause, i, opts, evidence, b) ==
  \/ /\ clause.kind \in WriteKinds /\ ~opts.allowWrites
     /\ f = Finding("policy-write-risk", "error", <<i>>, "")
  \/ clause.kind = "match" /\ f \in MatchFindings(clause, i, opts, evidence)
  \/ clause.kind = "return" /\ f \in ReturnFindings(clause, i, opts, evidence, b)

LEMMA ClauseFound ==
  ASSUME NEW f, NEW clause, NEW i, NEW opts, opts.allowWrites \in BOOLEAN,
         NEW evidence, NEW b
  PROVE  f \in ClauseFindings(clause, i, opts, evidence, b)
           <=> ClauseReason(f, clause, i, opts, evidence, b)
BY DEF ClauseFindings, ClauseReason

PlannerReason(f, estimate, opts) ==
  \/ /\ estimate.estimatedRows > opts.maxEstimatedRows
     /\ f = Finding("policy-high-estimated-rows", "warning", <<0>>, "")
  \/ /\ estimate.dbHits > opts.maxDbHits
     /\ f = Finding("policy-high-db-hits", "warning", <<0>>, "")
  \/ \E a \in DOMAIN estimate.operators :
       /\ estimate.operators[a].name \in opts.warnOnPlanOperators
       /\ f = Finding("policy-expensive-plan-operator", "warning", <<0>> \o a, "")
  \/ \E w \in 1..estimate.warnings :
       f = Finding("policy-planner-estimate-warning", "info", <<0, w>>, "")

LEMMA PlannerFound ==
  ASSUME NEW f, NEW estimate, NEW opts
  PROVE  f \in PlannerFindings(estimate, opts)
           <=> PlannerReason(f, estimate, opts)
<1>1. f \in Warn(estimate.estimatedRows > opts.maxEstimatedRows,
                "policy-high-estimated-rows", <<0>>, "")
        <=> /\ estimate.estimatedRows > opts.maxEstimatedRows
            /\ f = Finding("policy-high-estimated-rows", "warning", <<0>>, "")
  BY DEF Warn
<1>2. f \in Warn(estimate.dbHits > opts.maxDbHits, "policy-high-db-hits", <<0>>, "")
        <=> /\ estimate.dbHits > opts.maxDbHits
            /\ f = Finding("policy-high-db-hits", "warning", <<0>>, "")
  BY DEF Warn
<1>3. QED
  BY <1>1, <1>2 DEF PlannerFindings, PlannerReason

PolicyReason(f, q, given, evidence) ==
  \/ f \in PlannerFindings(evidence.planner, EffectiveOptions(given))
  \/ \E i \in DOMAIN q : f \in ClauseFindings(q[i], i, EffectiveOptions(given),
                                             evidence, VariableBindings(q))

LEMMA PolicyFound ==
  ASSUME NEW f, NEW q, NEW given, NEW evidence
  PROVE  f \in AssessCypherPolicy(q, given, evidence)
           <=> PolicyReason(f, q, given, evidence)
BY DEF AssessCypherPolicy, PolicyReason

-----------------------------------------------------------------------------
(***************************************************************************)
(* Types of what the findings depend on.                                   *)
(***************************************************************************)
Thresholds == {"maxReturnLimit", "maxRelationshipHops", "maxEstimatedRows",
               "maxDbHits", "maxLabelScanRows", "maxRelationshipFanout"}

LEMMA OptionNames ==
  DOMAIN DefaultOptions = {"allowWrites", "requireLimit", "warnOnPlanOperators"}
                            \cup Thresholds
BY DEF DefaultOptions, Thresholds

LEMMA DefaultsTyped ==
  ASSUME NEW f \in {"allowWrites", "requireLimit"} \cup Thresholds
  PROVE  DefaultOptions[f] \in OptionType[f]
<1>a. f \in DOMAIN DefaultOptions
  BY OptionNames
<1>1. OptionType[f] = CASE f \in {"allowWrites", "requireLimit"} -> BOOLEAN
                        [] f = "warnOnPlanOperators"             -> SUBSET STRING
                        [] OTHER                                 -> Nat
  BY <1>a DEF OptionType
<1>2. CASE f \in Thresholds
  <2>1. OptionType[f] = Nat
    BY <1>1, <1>2 DEF Thresholds
  <2>2. DefaultOptions[f] \in Nat
    BY <1>2 DEF DefaultOptions, Thresholds
  <2>3. QED
    BY <2>1, <2>2
<1>3. CASE f \in {"allowWrites", "requireLimit"}
  <2>1. OptionType[f] = BOOLEAN
    BY <1>1, <1>3
  <2>2. DefaultOptions.allowWrites = FALSE /\ DefaultOptions.requireLimit = TRUE
    BY DEF DefaultOptions
  <2>3. QED
    BY <1>3, <2>1, <2>2
<1>4. QED
  BY <1>2, <1>3

LEMMA OptionsTyped ==
  ASSUME NEW given, IsGiven(given)
  PROVE  LET opts == EffectiveOptions(given)
         IN  /\ DOMAIN opts = DOMAIN DefaultOptions
             /\ \A f \in DOMAIN DefaultOptions :
                  opts[f] = IF f \in DOMAIN given THEN given[f] ELSE DefaultOptions[f]
             /\ opts.allowWrites \in BOOLEAN /\ opts.requireLimit \in BOOLEAN
             /\ \A f \in Thresholds : opts[f] \in Nat
<1> DEFINE opts == EffectiveOptions(given)
<1>1. DOMAIN given \subseteq DOMAIN DefaultOptions
  BY DEF IsGiven
<1>2. opts = [f \in DOMAIN given \cup DOMAIN DefaultOptions |->
                IF f \in DOMAIN given THEN given[f] ELSE DefaultOptions[f]]
  BY DEF EffectiveOptions, Overriding
<1>3. DOMAIN given \cup DOMAIN DefaultOptions = DOMAIN DefaultOptions
  BY <1>1
<1>4. /\ DOMAIN opts = DOMAIN DefaultOptions
      /\ \A f \in DOMAIN DefaultOptions :
           opts[f] = IF f \in DOMAIN given THEN given[f] ELSE DefaultOptions[f]
  BY <1>2, <1>3
<1> HIDE DEF opts
<1>5. ASSUME NEW f \in {"allowWrites", "requireLimit"} \cup Thresholds
      PROVE  opts[f] \in OptionType[f]
  <2>a. f \in DOMAIN DefaultOptions
    BY OptionNames
  <2>1. CASE f \in DOMAIN given
    BY <1>4, <2>1, <2>a DEF IsGiven
  <2>2. CASE f \notin DOMAIN given
    <3>1. DefaultOptions[f] \in OptionType[f]
      BY DefaultsTyped
    <3>2. QED
      BY <1>4, <2>2, <2>a, <3>1
  <2>3. QED
    BY <2>1, <2>2
<1>6. /\ OptionType["allowWrites"] = BOOLEAN /\ OptionType["requireLimit"] = BOOLEAN
      /\ \A f \in Thresholds : OptionType[f] = Nat
  BY OptionNames DEF OptionType, Thresholds
<1>7. opts.allowWrites \in BOOLEAN /\ opts.requireLimit \in BOOLEAN
  BY <1>5, <1>6, OptionNames
<1>8. \A f \in Thresholds : opts[f] \in Nat
  BY <1>5, <1>6, OptionNames
<1>9. QED
  BY <1>4, <1>7, <1>8 DEF opts

LEMMA ThresholdTypes ==
  ASSUME NEW given, IsGiven(given)
  PROVE  LET opts == EffectiveOptions(given)
         IN  /\ opts.maxReturnLimit \in Nat /\ opts.maxRelationshipHops \in Nat
             /\ opts.maxEstimatedRows \in Nat /\ opts.maxDbHits \in Nat
             /\ opts.maxLabelScanRows \in Nat /\ opts.maxRelationshipFanout \in Nat
BY OptionsTyped DEF Thresholds

LEMMA RulesTyped ==
  ASSUME NEW rules \in RuleSets
  PROVE  /\ \A r \in rules.sensitiveLabels : r.severity \in Severities \cup {"unset"}
         /\ \A r \in rules.sensitiveRelationships : r.severity \in Severities \cup {"unset"}
         /\ \A r \in rules.sensitiveProperties :
              /\ r.severity \in Severities \cup {"unset"}
              /\ r.ownerKind \in {"any", "node", "relationship"}
         /\ \A r \in rules.tenantScopes :
              r.severity \in Severities \cup {"unset"} /\ r.label \in Label
BY DEF RuleSets

LEMMA SeverityTyped ==
  ASSUME NEW r, r.severity \in Severities \cup {"unset"}, NEW fallback \in Severities
  PROVE  RuleSeverity(r, fallback) \in Severities
BY DEF RuleSeverity

LEMMA FindingParts ==
  ASSUME NEW code, NEW severity, NEW path, NEW what
  PROVE  /\ Finding(code, severity, path, what).code = code
         /\ Finding(code, severity, path, what).severity = severity
         /\ Finding(code, severity, path, what).path = path
         /\ Finding(code, severity, path, what).what = what
BY DEF Finding

LEMMA FoundAt ==
  ASSUME NEW code, NEW severity, NEW path, NEW what,
         Finding(code, severity, path, what) \in findings
  PROVE  Found(code, path, what)
<1> DEFINE f == Finding(code, severity, path, what)
<1>1. f.code = code /\ f.path = path /\ f.what = what /\ f \in findings
  BY FindingParts
<1> HIDE DEF f
<1>2. QED
  BY <1>1 DEF Found

Severe(f) ==
  \E code, path, what : \E severity \in Severities : f = Finding(code, severity, path, what)

LEMMA SevereHas ==
  ASSUME NEW f, Severe(f)
  PROVE  f.severity \in Severities
BY FindingParts DEF Severe

\* Every finding has one of the three severities.
LEMMA ClauseSeverities ==
  ASSUME NEW clause, NEW i, NEW opts, NEW evidence, evidence.rules \in RuleSets, NEW b,
         opts.allowWrites \in BOOLEAN, opts.requireLimit \in BOOLEAN,
         NEW f \in ClauseFindings(clause, i, opts, evidence, b)
  PROVE  Severe(f)
<1> DEFINE rules == evidence.rules
<1>1. "warning" \in Severities /\ "error" \in Severities
  BY DEF Severities
<1>2. ASSUME NEW node, NEW path, f \in HeadNodeFindings(node, clause, path, opts,
                                                        evidence.statistics)
      PROVE  Severe(f)
  <2>1. HeadReason(f, node, clause, path, opts, evidence.statistics)
    BY <1>2, HeadFound
  <2>2. QED
    BY <1>1, <2>1 DEF Severe, HeadReason
<1>3. ASSUME NEW node, NEW path, f \in NodeRuleFindings(node, clause, path, rules)
      PROVE  Severe(f)
  <2>1. \A l : /\ \A r \in RulesForLabel(rules.sensitiveLabels, l) :
                   r \in rules.sensitiveLabels
              /\ \A r \in RulesForLabel(rules.tenantScopes, l) : r \in rules.tenantScopes
    BY DEF RulesForLabel
  <2> HIDE DEF rules
  <2>a. NodeRuleReason(f, node, clause, path, rules)
    BY <1>3, NodeRuleFound
  <2>2. PICK r \in rules.sensitiveLabels \cup rules.tenantScopes :
          \E code, what :
            \/ f = Finding(code, RuleSeverity(r, "warning"), path, what)
            \/ f = Finding(code, RuleSeverity(r, "error"), path, what)
    BY <2>a, <2>1 DEF NodeRuleReason
  <2>3. r.severity \in Severities \cup {"unset"}
    BY <2>2, RulesTyped DEF rules
  <2>4. QED
    <3>1. RuleSeverity(r, "warning") \in Severities /\ RuleSeverity(r, "error") \in Severities
      BY <1>1, <2>3, SeverityTyped
    <3>2. QED
      BY <2>2, <3>1 DEF Severe
<1>4. ASSUME NEW rel, NEW path, f \in RelationshipFindings(rel, path, opts,
                                                           evidence.statistics, rules)
      PROVE  Severe(f)
  <2>1. \A r \in rules.sensitiveRelationships : RuleSeverity(r, "warning") \in Severities
    BY <1>1, RulesTyped, SeverityTyped
  <2>2. RelationshipReason(f, rel, path, opts, evidence.statistics, rules)
    BY <1>4, RelationshipFound
  <2>3. QED
    BY <1>1, <2>1, <2>2 DEF Severe, RelationshipReason
<1>5. ASSUME f \in MatchFindings(clause, i, opts, evidence)
      PROVE  Severe(f)
  <2>1. ASSUME NEW p \in DOMAIN clause.patterns,
               f \in PatternFindings(clause.patterns[p], clause, <<i, p>>, opts, evidence)
        PROVE  Severe(f)
    <3>1. PatternReason(f, clause.patterns[p], clause, <<i, p>>, opts, evidence)
      BY <2>1, PatternFound
    <3>2. QED
      BY <1>2, <1>3, <1>4, <3>1 DEF PatternReason
  <2>2. MatchReason(f, clause, i, opts, evidence)
    BY <1>5, MatchFound
  <2>3. QED
    BY <1>1, <2>1, <2>2 DEF Severe, MatchReason
<1>6. ASSUME f \in ReturnFindings(clause, i, opts, evidence, b)
      PROVE  Severe(f)
  <2>1. \A r \in rules.sensitiveProperties : RuleSeverity(r, "error") \in Severities
    BY <1>1, RulesTyped, SeverityTyped
  <2>2. ReturnReason(f, clause, i, opts, evidence, b)
    BY <1>6, ReturnFound
  <2>3. QED
    BY <1>1, <2>1, <2>2 DEF Severe, ReturnReason
<1>7. ClauseReason(f, clause, i, opts, evidence, b)
  BY ClauseFound
<1>8. QED
  BY <1>1, <1>5, <1>6, <1>7 DEF Severe, ClauseReason

LEMMA PlannerSeverities ==
  ASSUME NEW estimate, NEW opts, NEW f \in PlannerFindings(estimate, opts)
  PROVE  Severe(f)
<1>1. PlannerReason(f, estimate, opts)
  BY PlannerFound
<1>2. QED
  BY <1>1 DEF Severe, PlannerReason, Severities

LEMMA CallTyped ==
  ASSUME NEW c \in Calls
  PROVE  /\ IsGiven(c.given) /\ IsEvidence(c.evidence)
         /\ c.evidence.rules \in RuleSets
         /\ c.defaultLimit \in Nat \cup {Absent} /\ c.defaultMaxHops \in Nat \cup {Absent}
<1>1. IsGiven(c.given) /\ IsEvidence(c.evidence) /\ c \in CallRecord
  BY PolicyReviewAssumption
<1>2. QED
  BY <1>1 DEF IsEvidence, CallRecord

LEMMA FindingsTyped ==
  ASSUME WalkInv
  PROVE  \A f \in findings : f.severity \in Severities
<1> SUFFICES ASSUME NEW f \in findings
             PROVE  f.severity \in Severities
  OBVIOUS
<1> DEFINE opts == EffectiveOptions(call.given)
<1>1. /\ opts.allowWrites \in BOOLEAN /\ opts.requireLimit \in BOOLEAN
      /\ call.evidence.rules \in RuleSets
  BY CallTyped, OptionsTyped DEF WalkInv
<1>2. stage \in {"draft", "bind", "done"} => findings = {}
  BY DEF WalkInv, FindingsInv
<1>3. CASE stage = "assess"
  <2>1. f \in FoundIn(query, at - 1, call, bindings)
    BY <1>3 DEF WalkInv, FindingsInv
  <2>2. PICK i \in 1..(at - 1) : f \in ClauseFindings(query[i], i, opts, call.evidence, bindings)
    BY <2>1 DEF FoundIn
  <2>3. QED
    BY <1>1, <2>2, ClauseSeverities, SevereHas
<1>4. CASE stage = "judge"
  <2>1. f \in AssessCypherPolicy(query, call.given, call.evidence)
    BY <1>4 DEF WalkInv, FindingsInv
  <2>2. \/ f \in PlannerFindings(call.evidence.planner, opts)
        \/ \E i \in DOMAIN query : f \in ClauseFindings(query[i], i, opts, call.evidence,
                                                      VariableBindings(query))
    BY <2>1, PolicyFound DEF PolicyReason
  <2>3. QED
    BY <1>1, <2>2, ClauseSeverities, PlannerSeverities, SevereHas
<1>5. QED
  BY <1>2, <1>3, <1>4 DEF WalkInv

LEMMA BindingsTyped ==
  ASSUME WalkInv
  PROVE  bindings \in Bindings
<1>1. query \in Seq(Clauses) /\ at \in 1..(Len(query) + 1)
  BY DEF WalkInv, QueryInv
<1>2. SubSeq(query, 1, at - 1) \in Seq(Clauses)
  BY <1>1
<1>3. query \in Seq(Clause) /\ SubSeq(query, 1, at - 1) \in Seq(Clause)
  BY <1>1, <1>2, QueryTyped
<1>4. QED
  BY <1>3, NoBindingsType, VariableBindingsFold DEF WalkInv, QueryInv

\* The type invariant, for any number of tasks and queries of any length.
THEOREM TypeCorrect == Spec => []TypeOK
<1>1. WalkInv => TypeOK
  <2> SUFFICES ASSUME WalkInv
               PROVE  TypeOK
    OBVIOUS
  <2>1. bindings \in [Var -> [kind: {"none", "node", "relationship"},
                              names: SUBSET (Label \cup Type)]]
    <3>1. \A x \in Binding : x \in [kind: {"none", "node", "relationship"},
                                    names: SUBSET (Label \cup Type)]
      BY DEF Binding, Unbound, Kinds
    <3>2. QED
      BY <3>1, BindingsTyped DEF Bindings
  <2>2. QED
    BY <2>1, FindingsTyped DEF WalkInv, QueryInv, ResultsInv, TypeOK, Severities
<1>2. QED
  BY <1>1, Walk, PTL

-----------------------------------------------------------------------------
(***************************************************************************)
(* AskingLessFindsLess: every finding has a reason, and each reason holds  *)
(* of the stricter caller when it holds of the looser one.                 *)
(***************************************************************************)
\* What a name is known to be here is known of it there as well.
KnowsLess(b, c) ==
  \A v \in Var : \/ b[v].kind = "none"
                 \/ b[v].kind = c[v].kind /\ b[v].names \subseteq c[v].names

FewerRules(rules, others) ==
  /\ rules.sensitiveLabels \subseteq others.sensitiveLabels
  /\ rules.sensitiveRelationships \subseteq others.sensitiveRelationships
  /\ rules.sensitiveProperties \subseteq others.sensitiveProperties
  /\ rules.tenantScopes \subseteq others.tenantScopes

OptionsLike(opts) ==
  /\ opts.allowWrites \in BOOLEAN /\ opts.requireLimit \in BOOLEAN
  /\ opts.maxReturnLimit \in Nat /\ opts.maxRelationshipHops \in Nat
  /\ opts.maxEstimatedRows \in Nat /\ opts.maxDbHits \in Nat
  /\ opts.maxLabelScanRows \in Nat /\ opts.maxRelationshipFanout \in Nat

FewerStatistics(statistics, others) ==
  /\ \A l \in DOMAIN statistics.nodes :
       /\ l \in DOMAIN others.nodes /\ statistics.nodes[l] = others.nodes[l]
       /\ statistics.nodes[l].count \in Nat
  /\ \A t \in DOMAIN statistics.relationships :
       /\ t \in DOMAIN others.relationships
       /\ statistics.relationships[t] = others.relationships[t]
       /\ statistics.relationships[t] \in Nat

LEMMA EffectiveOptionsLike ==
  ASSUME NEW given, IsGiven(given)
  PROVE  /\ OptionsLike(EffectiveOptions(given))
         /\ Completed(given) = EffectiveOptions(given)
<1>1. OptionsLike(EffectiveOptions(given))
  BY OptionsTyped, ThresholdTypes DEF OptionsLike
<1>2. DOMAIN given \cup DOMAIN DefaultOptions = DOMAIN DefaultOptions
  BY DEF IsGiven
<1>3. QED
  BY <1>1, <1>2 DEF Completed, EffectiveOptions, Overriding

LEMMA LooserParts ==
  ASSUME NEW o, NEW p, LooserThan(o, p)
  PROVE  /\ p.allowWrites => o.allowWrites
         /\ o.requireLimit => p.requireLimit
         /\ o.warnOnPlanOperators \subseteq p.warnOnPlanOperators
         /\ o.maxReturnLimit >= p.maxReturnLimit
         /\ o.maxRelationshipHops >= p.maxRelationshipHops
         /\ o.maxEstimatedRows >= p.maxEstimatedRows
         /\ o.maxDbHits >= p.maxDbHits
         /\ o.maxLabelScanRows >= p.maxLabelScanRows
         /\ o.maxRelationshipFanout >= p.maxRelationshipFanout
BY DEF LooserThan

LEMMA CrowdedLess ==
  ASSUME NEW node, NEW o, NEW p, OptionsLike(o), OptionsLike(p), LooserThan(o, p),
         NEW s, NEW t, FewerStatistics(s, t)
  PROVE  /\ Crowded(node, o, s) \subseteq Crowded(node, p, t)
         /\ \A l \in Crowded(node, o, s) : s.nodes[l].indexed = t.nodes[l].indexed
<1>1. o.maxLabelScanRows \in Nat /\ p.maxLabelScanRows \in Nat
      /\ o.maxLabelScanRows >= p.maxLabelScanRows
  BY LooserParts DEF OptionsLike
<1>2. ASSUME NEW l \in Crowded(node, o, s)
      PROVE  /\ l \in Crowded(node, p, t)
             /\ s.nodes[l].indexed = t.nodes[l].indexed
  <2>1. /\ l \in OnlyLabels(node) /\ l \in DOMAIN s.nodes
        /\ s.nodes[l].count > o.maxLabelScanRows
    BY <1>2 DEF Crowded
  <2>2. /\ l \in DOMAIN t.nodes /\ s.nodes[l] = t.nodes[l] /\ s.nodes[l].count \in Nat
    BY <2>1 DEF FewerStatistics
  <2>3. t.nodes[l].count > p.maxLabelScanRows
    BY <1>1, <2>1, <2>2
  <2>4. QED
    BY <2>1, <2>2, <2>3 DEF Crowded
<1>3. QED
  BY <1>2

LEMMA HeadLess ==
  ASSUME NEW f, NEW node, NEW clause, NEW path,
         NEW o, NEW p, OptionsLike(o), OptionsLike(p), LooserThan(o, p),
         NEW s, NEW t, FewerStatistics(s, t),
         HeadReason(f, node, clause, path, o, s)
  PROVE  HeadReason(f, node, clause, path, p, t)
<1>1. /\ Crowded(node, o, s) \subseteq Crowded(node, p, t)
      /\ \A l \in Crowded(node, o, s) : s.nodes[l].indexed = t.nodes[l].indexed
  BY CrowdedLess
<1>2. Crowded(node, o, s) # {} => Crowded(node, p, t) # {}
  BY <1>1
<1>3. ASSUME NEW k, \E l \in Crowded(node, o, s) : k \notin s.nodes[l].indexed
      PROVE  \E l \in Crowded(node, p, t) : k \notin t.nodes[l].indexed
  BY <1>1, <1>3
<1>4. QED
  BY <1>2, <1>3 DEF HeadReason

LEMMA RelationshipLess ==
  ASSUME NEW f, NEW rel \in RelPattern, NEW path,
         NEW o, NEW p, OptionsLike(o), OptionsLike(p), LooserThan(o, p),
         NEW s, NEW t, FewerStatistics(s, t),
         NEW rules, NEW others, FewerRules(rules, others),
         RelationshipReason(f, rel, path, o, s, rules)
  PROVE  RelationshipReason(f, rel, path, p, t, others)
<1>1. rel.maxHops \in Int
  BY DEF RelPattern, Absent, Dynamic
<1>2. /\ o.maxRelationshipHops \in Nat /\ p.maxRelationshipHops \in Nat
      /\ o.maxRelationshipHops >= p.maxRelationshipHops
      /\ o.maxRelationshipFanout \in Nat /\ p.maxRelationshipFanout \in Nat
      /\ o.maxRelationshipFanout >= p.maxRelationshipFanout
  BY LooserParts DEF OptionsLike
<1>3. rel.maxHops > o.maxRelationshipHops => rel.maxHops > p.maxRelationshipHops
  BY <1>1, <1>2
<1>4. rules.sensitiveRelationships \subseteq others.sensitiveRelationships
  BY DEF FewerRules
<1>5. ASSUME NEW x \in OnlyTypes(rel) \cap DOMAIN s.relationships,
             s.relationships[x] > o.maxRelationshipFanout
      PROVE  /\ x \in OnlyTypes(rel) \cap DOMAIN t.relationships
             /\ t.relationships[x] > p.maxRelationshipFanout
  <2>1. /\ x \in DOMAIN t.relationships /\ s.relationships[x] = t.relationships[x]
        /\ s.relationships[x] \in Nat
    BY <1>5 DEF FewerStatistics
  <2>2. QED
    BY <1>2, <1>5, <2>1
<1>6. QED
  BY <1>3, <1>4, <1>5 DEF RelationshipReason

LEMMA NodeRuleLess ==
  ASSUME NEW f, NEW node, NEW clause, NEW path,
         NEW rules, NEW others, FewerRules(rules, others),
         NodeRuleReason(f, node, clause, path, rules)
  PROVE  NodeRuleReason(f, node, clause, path, others)
<1>1. \A l : /\ RulesForLabel(rules.sensitiveLabels, l)
                  \subseteq RulesForLabel(others.sensitiveLabels, l)
             /\ RulesForLabel(rules.tenantScopes, l)
                  \subseteq RulesForLabel(others.tenantScopes, l)
  BY DEF FewerRules, RulesForLabel
<1>2. QED
  BY <1>1 DEF NodeRuleReason

LesserThan(e, d) ==
  /\ FewerRules(e.rules, d.rules) /\ FewerStatistics(e.statistics, d.statistics)
  /\ d.rules \in RuleSets /\ e.rules \in RuleSets

LEMMA PatternLess ==
  ASSUME NEW f, NEW pattern \in Pattern, NEW clause, NEW path,
         NEW o, NEW p, OptionsLike(o), OptionsLike(p), LooserThan(o, p),
         NEW e, NEW d, LesserThan(e, d),
         f \in PatternFindings(pattern, clause, path, o, e)
  PROVE  f \in PatternFindings(pattern, clause, path, p, d)
<1>1. FewerRules(e.rules, d.rules) /\ FewerStatistics(e.statistics, d.statistics)
  BY DEF LesserThan
<1>2. PatternReason(f, pattern, clause, path, o, e)
  BY PatternFound
<1>3. ASSUME NEW node, NEW place,
             f \in HeadNodeFindings(node, clause, place, o, e.statistics)
      PROVE  f \in HeadNodeFindings(node, clause, place, p, d.statistics)
  BY <1>1, <1>3, HeadFound, HeadLess
<1>4. ASSUME NEW node, NEW place, f \in NodeRuleFindings(node, clause, place, e.rules)
      PROVE  f \in NodeRuleFindings(node, clause, place, d.rules)
  BY <1>1, <1>4, NodeRuleFound, NodeRuleLess
<1>5. ASSUME NEW rel \in RelPattern, NEW place,
             f \in RelationshipFindings(rel, place, o, e.statistics, e.rules)
      PROVE  f \in RelationshipFindings(rel, place, p, d.statistics, d.rules)
  BY <1>1, <1>5, RelationshipFound, RelationshipLess
<1>6. PatternReason(f, pattern, clause, path, p, d)
  BY <1>2, <1>3, <1>4, <1>5, PatternParts DEF PatternReason
<1>7. QED
  BY <1>6, PatternFound

LEMMA MatchLess ==
  ASSUME NEW f, NEW clause \in Clause, NEW i,
         NEW o, NEW p, OptionsLike(o), OptionsLike(p), LooserThan(o, p),
         NEW e, NEW d, LesserThan(e, d),
         f \in MatchFindings(clause, i, o, e)
  PROVE  f \in MatchFindings(clause, i, p, d)
<1>1. MatchReason(f, clause, i, o, e)
  BY MatchFound
<1>2. \A k \in DOMAIN clause.patterns : clause.patterns[k] \in Pattern
  BY ClauseParts DEF Clause
<1>3. MatchReason(f, clause, i, p, d)
  BY <1>1, <1>2, PatternLess DEF MatchReason
<1>4. QED
  BY <1>3, MatchFound

LEMMA RuleMatchesMore ==
  ASSUME NEW r, r.ownerKind \in {"any", "node", "relationship"}, NEW k,
         NEW v \in Var \cup {NoVar}, NEW b, NEW c, KnowsLess(b, c),
         SensitivePropertyRuleMatches(r, k, BindingOf(v, b))
  PROVE  SensitivePropertyRuleMatches(r, k, BindingOf(v, c))
<1>1. CASE v = NoVar
  BY <1>1 DEF BindingOf
<1>2. CASE v # NoVar
  <2>1. BindingOf(v, b) = b[v] /\ BindingOf(v, c) = c[v] /\ v \in Var
    BY <1>2 DEF BindingOf
  <2>2. \/ b[v].kind = "none"
        \/ b[v].kind = c[v].kind /\ b[v].names \subseteq c[v].names
    BY <2>1 DEF KnowsLess
  <2>3. QED
    BY <2>1, <2>2 DEF SensitivePropertyRuleMatches
<1>3. QED
  BY <1>1, <1>2

LEMMA ReturnLess ==
  ASSUME NEW f, NEW clause \in Clause, NEW i,
         NEW o, NEW p, OptionsLike(o), OptionsLike(p), LooserThan(o, p),
         NEW e, NEW d, LesserThan(e, d), NEW b, NEW c, KnowsLess(b, c),
         f \in ReturnFindings(clause, i, o, e, b)
  PROVE  f \in ReturnFindings(clause, i, p, d, c)
<1>1. /\ clause.limit \in Int
      /\ \A k \in DOMAIN clause.items : \A read \in clause.items[k].reads :
           read[1] \in Var \cup {NoVar}
  <2>1. clause.items \in Seq(Item) /\ clause.limit \in Int
    BY ClauseParts DEF Clause
  <2>2. \A k \in DOMAIN clause.items : clause.items[k] \in Item
    BY <2>1, MemberOfSeq
  <2>3. QED
    BY <2>1, <2>2 DEF Item
<1>2. /\ o.maxReturnLimit \in Nat /\ p.maxReturnLimit \in Nat
      /\ o.maxReturnLimit >= p.maxReturnLimit
      /\ o.requireLimit \in BOOLEAN /\ p.requireLimit \in BOOLEAN
      /\ o.requireLimit => p.requireLimit
  BY LooserParts DEF OptionsLike
<1>3. /\ e.rules.sensitiveProperties \subseteq d.rules.sensitiveProperties
      /\ \A r \in e.rules.sensitiveProperties :
           r.ownerKind \in {"any", "node", "relationship"}
  BY RulesTyped DEF LesserThan, FewerRules
<1>4. ReturnReason(f, clause, i, o, e, b)
  BY <1>2, ReturnFound
<1>5. clause.limit > o.maxReturnLimit => clause.limit > p.maxReturnLimit
  BY <1>1, <1>2
<1>6. ASSUME NEW k \in DOMAIN clause.items, NEW read \in clause.items[k].reads,
             NEW r \in e.rules.sensitiveProperties,
             SensitivePropertyRuleMatches(r, read[2], BindingOf(read[1], b))
      PROVE  /\ r \in d.rules.sensitiveProperties
             /\ SensitivePropertyRuleMatches(r, read[2], BindingOf(read[1], c))
  BY <1>1, <1>3, <1>6, RuleMatchesMore
<1>7. ReturnReason(f, clause, i, p, d, c)
  BY <1>2, <1>4, <1>5, <1>6 DEF ReturnReason
<1>8. QED
  BY <1>2, <1>7, ReturnFound

LEMMA ClauseLess ==
  ASSUME NEW f, NEW clause \in Clause, NEW i,
         NEW o, NEW p, OptionsLike(o), OptionsLike(p), LooserThan(o, p),
         NEW e, NEW d, LesserThan(e, d), NEW b, NEW c, KnowsLess(b, c),
         f \in ClauseFindings(clause, i, o, e, b)
  PROVE  f \in ClauseFindings(clause, i, p, d, c)
<1>1. /\ o.allowWrites \in BOOLEAN /\ p.allowWrites \in BOOLEAN
      /\ p.allowWrites => o.allowWrites
  BY LooserParts DEF OptionsLike
<1>2. ClauseReason(f, clause, i, o, e, b)
  BY <1>1, ClauseFound
<1>3. ClauseReason(f, clause, i, p, d, c)
  BY <1>1, <1>2, MatchLess, ReturnLess DEF ClauseReason
<1>4. QED
  BY <1>1, <1>3, ClauseFound

-----------------------------------------------------------------------------
(***************************************************************************)
(* The estimate of a plan covers the whole plan.                           *)
(***************************************************************************)
LEMMA PlanTyped ==
  ASSUME NEW plan, IsPlan(plan)
  PROVE  /\ IsFiniteSet(DOMAIN plan) /\ IsFiniteSet(Counted(plan))
         /\ \A a \in DOMAIN plan : plan[a].estimatedRows \in Nat \cup {Absent}
         /\ \A a \in Counted(plan) : a \in DOMAIN plan /\ plan[a].dbHits \in Nat
<1>1. /\ IsFiniteSet(DOMAIN plan)
      /\ \A a \in DOMAIN plan : /\ plan[a].estimatedRows \in Nat \cup {Absent}
                                /\ plan[a].dbHits \in Nat \cup {Absent}
  BY DEF IsPlan
<1>2. Counted(plan) \subseteq DOMAIN plan /\ \A a \in Counted(plan) : plan[a].dbHits # Absent
  BY DEF Counted
<1>3. IsFiniteSet(Counted(plan))
  BY <1>1, <1>2, FS_Subset
<1>4. QED
  BY <1>1, <1>2, <1>3

LEMMA RowsCovered ==
  ASSUME NEW plan, IsPlan(plan)
  PROVE  /\ EstimatedRows(plan) \in Nat \cup {Absent}
         /\ \A a \in DOMAIN plan : plan[a].estimatedRows <= EstimatedRows(plan)
<1> DEFINE all == {plan[a].estimatedRows : a \in DOMAIN plan}
           rows == Given(all)
<1>1. \A a \in DOMAIN plan : plan[a].estimatedRows \in Nat \cup {Absent}
  BY PlanTyped
<1>2. rows \subseteq Nat
  BY <1>1 DEF Given
<1>3. IsFiniteSet(rows)
  <2>1. [a \in DOMAIN plan |-> plan[a].estimatedRows] \in Surjection(DOMAIN plan, all)
    BY DEF Surjection
  <2>2. IsFiniteSet(all)
    BY <2>1, PlanTyped, FS_Surjection
  <2>3. rows \subseteq all
    BY DEF Given
  <2>4. QED
    BY <2>2, <2>3, FS_Subset
<1>4. EstimatedRows(plan) = IF rows = {} THEN Absent ELSE Max(rows)
  BY DEF EstimatedRows
<1>5. ASSUME NEW a \in DOMAIN plan, plan[a].estimatedRows # Absent
      PROVE  plan[a].estimatedRows \in rows
  BY <1>5 DEF Given
<1> HIDE DEF rows
<1>6. rows # {} => Max(rows) \in rows /\ \A x \in rows : x <= Max(rows)
  <2>1. Adding!IsFiniteSet(rows)
    BY <1>3 DEF IsFiniteSet, Adding!IsFiniteSet
  <2>2. rows # {} => Adding!Max(rows) \in rows /\ \A x \in rows : x <= Adding!Max(rows)
    <3>1. rows \subseteq Int
      BY <1>2
    <3>2. QED
      BY <2>1, <3>1, Adding!GreatestOfFinite
  <2>3. Adding!Max(rows) = Max(rows)
    BY DEF Adding!Max, Max
  <2>4. QED
    BY <2>2, <2>3
<1>7. EstimatedRows(plan) \in Nat \cup {Absent}
  BY <1>2, <1>4, <1>6
<1>8. ASSUME NEW a \in DOMAIN plan
      PROVE  plan[a].estimatedRows <= EstimatedRows(plan)
  <2>1. CASE plan[a].estimatedRows = Absent
    BY <1>7, <2>1 DEF Absent
  <2>2. CASE plan[a].estimatedRows # Absent
    BY <1>4, <1>5, <1>6, <2>2
  <2>3. QED
    BY <2>1, <2>2
<1>9. QED
  BY <1>7, <1>8

LEMMA HitsCovered ==
  ASSUME NEW plan, IsPlan(plan)
  PROVE  /\ SumOfDbHits(plan) \in Nat \cup {Absent}
         /\ \A some \in SUBSET Counted(plan) : HitsOf(plan, some) \in Nat
         /\ \A some \in SUBSET Counted(plan) :
              IF some = {} THEN HitsOf(plan, some) = 0
                           ELSE HitsOf(plan, some) <= SumOfDbHits(plan)
<1> DEFINE S == Counted(plan)
           hits == [a \in DOMAIN plan |-> plan[a].dbHits]
<1>1. Adding!Adds
  BY DEF Adding!Adds
<1>2. /\ \A a \in S : hits[a] \in Nat
      /\ Adding!IsFiniteSet(S)
  BY PlanTyped DEF IsFiniteSet, Adding!IsFiniteSet
<1>3. \A some : HitsOf(plan, some) = Adding!SumOver(hits, some)
  BY DEF HitsOf, Adding!SumOver, FoldFunctionOnSet, MapThenFoldSet,
         Adding!FoldFunctionOnSet, Adding!MapThenFoldSet
<1> HIDE DEF hits
<1>4. /\ Adding!SumOver(hits, S) \in Nat /\ Adding!SumOver(hits, {}) = 0
  BY <1>1, <1>2, Adding!SumWithout
<1>5. \A some \in SUBSET S : Adding!SumOver(hits, some) <= Adding!SumOver(hits, S)
  BY <1>1, <1>2, Adding!SumMonotone
<1>a. ASSUME NEW some \in SUBSET S
      PROVE  Adding!SumOver(hits, some) \in Nat
  <2>1. IsFiniteSet(some) /\ \A a \in some : hits[a] \in Nat
    BY <1>2, PlanTyped, FS_Subset
  <2>2. Adding!IsFiniteSet(some)
    BY <2>1 DEF IsFiniteSet, Adding!IsFiniteSet
  <2>3. QED
    BY <1>1, <2>1, <2>2, Adding!SumWithout
<1>6. SumOfDbHits(plan) = IF S = {} THEN Absent ELSE HitsOf(plan, S)
  BY DEF SumOfDbHits
<1>7. QED
  BY <1>3, <1>4, <1>5, <1>6, <1>a

\* An evidence's estimate is that of its plan, or there is none.
LEMMA PlannerTyped ==
  ASSUME NEW evidence, IsEvidence(evidence)
  PROVE  LET planner == evidence.planner
         IN  /\ planner.estimatedRows \in Nat \cup {Absent}
             /\ planner.dbHits \in Nat \cup {Absent}
             /\ IsPlan(planner.operators)
             /\ \/ DOMAIN planner.operators = {}
                \/ /\ planner.estimatedRows = EstimatedRows(planner.operators)
                   /\ planner.dbHits = SumOfDbHits(planner.operators)
<1> DEFINE planner == evidence.planner
           plan == planner.operators
<1>1. /\ IsPlan(plan)
      /\ planner = NoEstimate \/ planner = BuildPlannerEstimate(plan)
  BY DEF IsEvidence
<1> HIDE DEF planner
<1>2. CASE planner = NoEstimate
  BY <1>1, <1>2 DEF NoEstimate, planner
<1>3. CASE planner = BuildPlannerEstimate(plan)
  <2>1. CASE plan = NoEstimate.operators
    <3>1. planner = [NoEstimate EXCEPT !.warnings = 1]
      BY <1>3, <2>1 DEF BuildPlannerEstimate
    <3>2. QED
      BY <1>1, <3>1 DEF NoEstimate, planner
  <2>2. CASE plan # NoEstimate.operators
    <3>1. planner.estimatedRows = EstimatedRows(plan) /\ planner.dbHits = SumOfDbHits(plan)
      BY <1>3, <2>2 DEF BuildPlannerEstimate
    <3>2. QED
      BY <1>1, <3>1, RowsCovered, HitsCovered DEF planner
  <2>3. QED
    BY <2>1, <2>2
<1>4. QED
  BY <1>1, <1>2, <1>3

LEMMA WithinTransitive ==
  \A x, y, z \in Int : x <= y /\ ~(y > z) => x <= z
OBVIOUS

\* A plan nothing is said about is as cheap as the thresholds ask, whatever
\* the tree and however its hits are spread (planner-estimate.ts:20-49).
THEOREM QuietPlans == Spec => []QuietPlansAreCheap
<1>1. WalkInv => QuietPlansAreCheap
  <2> DEFINE opts == EffectiveOptions(call.given)
             planner == call.evidence.planner
             plan == planner.operators
  <2> SUFFICES ASSUME WalkInv, Judged, NEW a \in DOMAIN plan
               PROVE  /\ \/ Found("policy-high-estimated-rows", <<0>>, "")
                         \/ plan[a].estimatedRows <= opts.maxEstimatedRows
                      /\ \/ Found("policy-high-db-hits", <<0>>, "")
                         \/ HitsOf(plan, Under(plan, a) \cap Counted(plan)) <= opts.maxDbHits
                      /\ \/ \E f \in findings : f.code = "policy-expensive-plan-operator"
                         \/ plan[a].name \notin opts.warnOnPlanOperators
    BY DEF QuietPlansAreCheap
  <2>1. /\ findings = AssessCypherPolicy(query, call.given, call.evidence)
        /\ call \in Calls
    BY DEF Judged, WalkInv, FindingsInv
  <2>2. IsGiven(call.given) /\ IsEvidence(call.evidence)
    BY <2>1, CallTyped
  <2>3. /\ opts.maxEstimatedRows \in Nat /\ opts.maxDbHits \in Nat
    BY <2>2, EffectiveOptionsLike DEF OptionsLike
  <2>4. /\ IsPlan(plan)
        /\ planner.estimatedRows = EstimatedRows(plan) /\ planner.dbHits = SumOfDbHits(plan)
        /\ planner.estimatedRows \in Nat \cup {Absent} /\ planner.dbHits \in Nat \cup {Absent}
    BY <2>2, PlannerTyped
  <2>5. ASSUME NEW f, PlannerReason(f, planner, opts)
        PROVE  f \in findings
    BY <2>1, <2>5, PlannerFound, PolicyFound DEF PolicyReason
  <2>6. \/ Found("policy-high-estimated-rows", <<0>>, "")
        \/ plan[a].estimatedRows <= opts.maxEstimatedRows
    <3>1. CASE planner.estimatedRows > opts.maxEstimatedRows
      <4> DEFINE f == Finding("policy-high-estimated-rows", "warning", <<0>>, "")
      <4>1. f \in findings
        BY <2>5, <3>1 DEF PlannerReason
      <4>2. QED
        BY <4>1, FoundAt
    <3>2. CASE ~(planner.estimatedRows > opts.maxEstimatedRows)
      <4>1. /\ plan[a].estimatedRows <= EstimatedRows(plan)
            /\ plan[a].estimatedRows \in Nat \cup {Absent}
        BY <2>4, PlanTyped, RowsCovered
      <4>2. QED
        <5>1. /\ planner.estimatedRows \in Int /\ opts.maxEstimatedRows \in Int
              /\ plan[a].estimatedRows \in Int
              /\ plan[a].estimatedRows <= planner.estimatedRows
          BY <2>3, <2>4, <4>1 DEF Absent
        <5> HIDE DEF plan, planner, opts
        <5>2. QED
          BY <3>2, <5>1, WithinTransitive
    <3>3. QED
      BY <3>1, <3>2
  <2>7. \/ Found("policy-high-db-hits", <<0>>, "")
        \/ HitsOf(plan, Under(plan, a) \cap Counted(plan)) <= opts.maxDbHits
    <3>1. CASE planner.dbHits > opts.maxDbHits
      <4> DEFINE f == Finding("policy-high-db-hits", "warning", <<0>>, "")
      <4>1. f \in findings
        BY <2>5, <3>1 DEF PlannerReason
      <4>2. QED
        BY <4>1, FoundAt
    <3>2. CASE ~(planner.dbHits > opts.maxDbHits)
      <4> DEFINE some == Under(plan, a) \cap Counted(plan)
      <4>1. /\ some = {} => HitsOf(plan, some) = 0
            /\ some # {} => HitsOf(plan, some) <= SumOfDbHits(plan)
        BY <2>4, HitsCovered
      <4>2. HitsOf(plan, some) \in Int
        BY <2>4, HitsCovered
      <4>3. QED
        <5>1. /\ planner.dbHits \in Int /\ opts.maxDbHits \in Nat
              /\ some # {} => HitsOf(plan, some) <= planner.dbHits
          BY <2>3, <2>4, <4>1 DEF Absent
        <5> HIDE DEF plan, planner, opts, some
        <5>2. HitsOf(plan, some) <= opts.maxDbHits
          <6>1. CASE some = {}
            BY <4>1, <5>1, <6>1
          <6>2. CASE some # {}
            BY <3>2, <4>2, <5>1, <6>2, WithinTransitive
          <6>3. QED
            BY <6>1, <6>2
        <5>3. QED
          BY <5>2 DEF some
    <3>3. QED
      BY <3>1, <3>2
  <2>8. \/ \E f \in findings : f.code = "policy-expensive-plan-operator"
        \/ plan[a].name \notin opts.warnOnPlanOperators
    <3> SUFFICES ASSUME plan[a].name \in opts.warnOnPlanOperators
                 PROVE  \E f \in findings : f.code = "policy-expensive-plan-operator"
      OBVIOUS
    <3> DEFINE f == Finding("policy-expensive-plan-operator", "warning", <<0>> \o a, "")
    <3>1. f \in findings
      BY <2>5 DEF PlannerReason
    <3>2. QED
      BY <3>1, FoundAt DEF Found
  <2>9. QED
    BY <2>6, <2>7, <2>8
<1>2. QED
  BY <1>1, Walk, PTL

LEMMA NoEstimateIsQuiet ==
  ASSUME NEW f, NEW o, OptionsLike(o)
  PROVE  ~PlannerReason(f, NoEstimate, o)
<1>1. /\ NoEstimate.estimatedRows = -1 /\ NoEstimate.dbHits = -1
      /\ DOMAIN NoEstimate.operators = {} /\ NoEstimate.warnings = 0
  BY DEF NoEstimate, Absent
<1>2. ~(-1 > o.maxEstimatedRows) /\ ~(-1 > o.maxDbHits) /\ 1..0 = {}
  BY DEF OptionsLike
<1>3. QED
  BY <1>1, <1>2 DEF PlannerReason

LEMMA PlannerLess ==
  ASSUME NEW f, NEW o, NEW p, OptionsLike(o), OptionsLike(p), LooserThan(o, p),
         NEW estimate, estimate.estimatedRows \in Nat \cup {Absent},
         estimate.dbHits \in Nat \cup {Absent}, PlannerReason(f, estimate, o)
  PROVE  PlannerReason(f, estimate, p)
<1>1. /\ o.maxEstimatedRows \in Nat /\ p.maxEstimatedRows \in Nat
      /\ o.maxDbHits \in Nat /\ p.maxDbHits \in Nat
      /\ o.maxEstimatedRows >= p.maxEstimatedRows /\ o.maxDbHits >= p.maxDbHits
      /\ o.warnOnPlanOperators \subseteq p.warnOnPlanOperators
  BY LooserParts DEF OptionsLike
<1>2. /\ estimate.estimatedRows > o.maxEstimatedRows
           => estimate.estimatedRows > p.maxEstimatedRows
      /\ estimate.dbHits > o.maxDbHits => estimate.dbHits > p.maxDbHits
  BY <1>1 DEF Absent
<1>3. QED
  BY <1>1, <1>2 DEF PlannerReason

\* A piece of evidence that is taken away leaves nothing of its kind.
LEMMA LesserEvidenceParts ==
  ASSUME NEW d, IsEvidence(d), NEW e \in LesserEvidence(d)
  PROVE  /\ LesserThan(e, d)
         /\ e.planner = NoEstimate \/ e.planner = d.planner
<1>1. /\ d = [rules |-> d.rules, statistics |-> d.statistics, planner |-> d.planner]
      /\ d.rules \in RuleSets /\ IsStatistics(d.statistics)
  BY DEF IsEvidence
<1>2. /\ e.rules = NoRules \/ e.rules = d.rules
      /\ e.statistics = NoStatistics \/ e.statistics = d.statistics
      /\ e.planner = NoEstimate \/ e.planner = d.planner
  BY <1>1 DEF LesserEvidence
<1>3. NoRules \in RuleSets
  BY DEF NoRules, RuleSets
<1>4. FewerRules(e.rules, d.rules)
  BY <1>2 DEF FewerRules, NoRules
<1>5. FewerStatistics(d.statistics, d.statistics)
  BY <1>1 DEF IsStatistics, FewerStatistics
<1>6. FewerStatistics(NoStatistics, d.statistics)
  BY DEF NoStatistics, FewerStatistics
<1>7. QED
  BY <1>1, <1>2, <1>3, <1>4, <1>5, <1>6 DEF LesserThan

\* Looser thresholds and less evidence never bring up a finding, for any
\* query and any two callers (policy.ts:106-167).
THEOREM AskingLess == Spec => []AskingLessFindsLess
<1>1. WalkInv => AskingLessFindsLess
  <2> DEFINE d == call.evidence
             p == EffectiveOptions(call.given)
             b == VariableBindings(query)
  <2> SUFFICES ASSUME WalkInv, Judged, NEW c \in Calls, NEW e \in LesserEvidence(d),
                      LooserThan(Completed(c.given), Completed(call.given)),
                      NEW f \in AssessCypherPolicy(query, c.given, e)
               PROVE  f \in findings
    BY DEF AskingLessFindsLess
  <2> DEFINE o == EffectiveOptions(c.given)
  <2>1. /\ findings = AssessCypherPolicy(query, call.given, d)
        /\ call \in Calls /\ query \in Seq(Clauses)
    BY DEF Judged, WalkInv, FindingsInv, QueryInv
  <2>2. IsGiven(call.given) /\ IsGiven(c.given) /\ IsEvidence(d)
    BY <2>1, CallTyped
  <2>3. OptionsLike(o) /\ OptionsLike(p) /\ LooserThan(o, p)
    BY <2>2, EffectiveOptionsLike
  <2>4. LesserThan(e, d) /\ (e.planner = NoEstimate \/ e.planner = d.planner)
    BY <2>2, LesserEvidenceParts
  <2>5. PolicyReason(f, query, c.given, e)
    BY PolicyFound
  <2>6. KnowsLess(b, b)
    BY DEF KnowsLess
  <2>7. ASSUME NEW i \in DOMAIN query, f \in ClauseFindings(query[i], i, o, e, b)
        PROVE  f \in ClauseFindings(query[i], i, p, d, b)
    <3>1. query[i] \in Clause
      BY <2>1, QueryTyped
    <3> HIDE DEF o, p, d, b
    <3>2. QED
      BY <2>3, <2>4, <2>6, <2>7, <3>1, ClauseLess
  <2>8. ASSUME f \in PlannerFindings(e.planner, o)
        PROVE  f \in PlannerFindings(d.planner, p)
    <3>1. PlannerReason(f, e.planner, o)
      BY <2>8, PlannerFound
    <3>2. d.planner.estimatedRows \in Nat \cup {Absent} /\ d.planner.dbHits \in Nat \cup {Absent}
      BY <2>2, PlannerTyped
    <3>3. e.planner = d.planner
      BY <2>3, <2>4, <3>1, NoEstimateIsQuiet
    <3> HIDE DEF o, p, d
    <3>4. PlannerReason(f, d.planner, p)
      BY <2>3, <3>1, <3>2, <3>3, PlannerLess
    <3>5. QED
      BY <3>4, PlannerFound
  <2>9. PolicyReason(f, query, call.given, d)
    BY <2>5, <2>7, <2>8 DEF PolicyReason
  <2>10. QED
    BY <2>1, <2>9, PolicyFound
<1>2. QED
  BY <1>1, Walk, PTL

-----------------------------------------------------------------------------
(***************************************************************************)
(* What the bindings know of a query whose mentions of a name agree in     *)
(* kind: the kind, and all the names of all the mentions, in any order.    *)
(***************************************************************************)
Kindred(M) == \A m, n \in M : m.var = n.var /\ m.var # NoVar => m.kind = n.kind

Knows(b, M) ==
  \A v \in Var :
    /\ (\A m \in M : m.var # v) => b[v] = Unbound
    /\ \A m \in M : m.var = v => b[v].kind = m.kind /\ m.names \subseteq b[v].names
    /\ \A x \in b[v].names : \E m \in M : m.var = v /\ x \in m.names

LEMMA KnowingMoreMentions ==
  ASSUME NEW b, NEW c, NEW M, NEW N, Knows(b, M), Knows(c, N), M \subseteq N
  PROVE  KnowsLess(b, c)
<1> SUFFICES ASSUME NEW v \in Var
             PROVE  \/ b[v].kind = "none"
                    \/ b[v].kind = c[v].kind /\ b[v].names \subseteq c[v].names
  BY DEF KnowsLess
<1>1. CASE \A m \in M : m.var # v
  BY <1>1 DEF Knows, Unbound
<1>2. CASE \E m \in M : m.var = v
  <2>1. PICK m \in M : m.var = v
    BY <1>2
  <2>2. b[v].kind = m.kind /\ c[v].kind = m.kind
    BY <2>1 DEF Knows
  <2>3. ASSUME NEW x \in b[v].names
        PROVE  x \in c[v].names
    <3>1. PICK n \in M : n.var = v /\ x \in n.names
      BY DEF Knows
    <3>2. n \in N /\ n.names \subseteq c[v].names
      BY <3>1 DEF Knows
    <3>3. QED
      BY <3>1, <3>2
  <2>4. QED
    BY <2>2, <2>3
<1>3. QED
  BY <1>1, <1>2

LEMMA OneMoreMention ==
  ASSUME NEW M \in SUBSET Mention, NEW m \in Mention, Kindred(M \cup {m}),
         NEW b \in Bindings, Knows(b, M)
  PROVE  Knows(RegisterBinding(b, m), M \cup {m})
<1> DEFINE c == RegisterBinding(b, m)
           known == m.names \cup (IF b[m.var].kind = m.kind THEN b[m.var].names ELSE {})
<1> SUFFICES ASSUME NEW v \in Var
             PROVE  /\ (\A n \in M \cup {m} : n.var # v) => c[v] = Unbound
                    /\ \A n \in M \cup {m} : n.var = v =>
                         c[v].kind = n.kind /\ n.names \subseteq c[v].names
                    /\ \A x \in c[v].names : \E n \in M \cup {m} : n.var = v /\ x \in n.names
  BY DEF Knows
<1>1. /\ (\A n \in M : n.var # v) => b[v] = Unbound
      /\ \A n \in M : n.var = v => b[v].kind = n.kind /\ n.names \subseteq b[v].names
      /\ \A x \in b[v].names : \E n \in M : n.var = v /\ x \in n.names
  BY DEF Knows
<1>2. CASE m.var # v
  <2>1. c[v] = b[v]
    BY <1>2 DEF RegisterBinding, Bindings
  <2> HIDE DEF c
  <2>2. QED
    BY <1>1, <1>2, <2>1
<1>3. CASE m.var = v
  <2>1. m.var # NoVar
    BY <1>3, PolicyRulesAssumption
  <2>2. c[v].kind = m.kind /\ c[v].names = known
    BY <1>3, <2>1 DEF RegisterBinding, Bindings
  <2>3. m.kind \in Kinds /\ "none" \notin Kinds
    BY DEF Mention, Kinds
  <2>4. \A n \in M : n.var = v => n.kind = m.kind
    BY <1>3, <2>1 DEF Kindred
  <2> HIDE DEF c
  <2>5. CASE \A n \in M : n.var # v
    <3>1. b[v].kind # m.kind
      BY <1>1, <2>3, <2>5 DEF Unbound
    <3>2. known = m.names
      BY <1>3, <3>1
    <3> HIDE DEF known
    <3>3. QED
      BY <1>3, <2>2, <2>5, <3>2
  <2>6. CASE \E n \in M : n.var = v
    <3>1. b[v].kind = m.kind
      BY <1>1, <2>4, <2>6
    <3>2. known = m.names \cup b[v].names
      BY <1>3, <3>1
    <3> HIDE DEF known
    <3>3. QED
      BY <1>1, <1>3, <2>2, <2>4, <3>2
  <2>7. QED
    BY <2>5, <2>6
<1>4. QED
  BY <1>2, <1>3

LEMMA ClauseKnows ==
  ASSUME NEW M \in SUBSET Mention, NEW clause \in Clause,
         Kindred(M \cup ToSet(ClauseMentions(clause))),
         NEW b \in Bindings, Knows(b, M)
  PROVE  Knows(RegisterClause(b, clause), M \cup ToSet(ClauseMentions(clause)))
<1> DEFINE s == ClauseMentions(clause)
           heard(k) == M \cup {s[j] : j \in 1..k}
           I == [k \in 0..Len(s) |-> {c \in Bindings : Knows(c, heard(k))}]
<1>1. s \in Seq(Mention) /\ Len(s) \in Nat /\ ToSet(s) = {s[j] : j \in 1..Len(s)}
  BY ClauseMentionsType DEF ToSet
<1> HIDE DEF s
<1>2. ASSUME NEW k \in 1..Len(s), NEW c \in I[k - 1]
      PROVE  RegisterBinding(c, s[k]) \in I[k]
  <2>1. /\ k - 1 \in 0..Len(s) /\ k \in 0..Len(s) /\ s[k] \in Mention
        /\ heard(k) = heard(k - 1) \cup {s[k]}
        /\ heard(k - 1) \in SUBSET Mention
        /\ heard(k) \subseteq M \cup ToSet(s)
    <3>1. 1..k = 1..(k - 1) \cup {k} /\ k \in Int
      OBVIOUS
    <3>2. \A j \in 1..Len(s) : s[j] \in Mention
      BY <1>1
    <3>3. \A j \in 1..(k - 1) : j \in 1..Len(s)
      BY <1>1
    <3>4. QED
      BY <1>1, <3>1, <3>2, <3>3
  <2>2. Kindred(heard(k))
    BY <2>1 DEF Kindred, s
  <2> HIDE DEF heard
  <2>3. c \in Bindings /\ Knows(c, heard(k - 1))
    BY <2>1
  <2>4. Knows(RegisterBinding(c, s[k]), heard(k))
    BY <2>1, <2>2, <2>3, OneMoreMention
  <2>5. RegisterBinding(c, s[k]) \in Bindings
    BY <2>1, <2>3, RegisterBindingType
  <2>6. QED
    BY <2>1, <2>4, <2>5
<1>3. Naming!Invariant(I, s)
  <2> HIDE DEF I
  <2>1. QED
    BY <1>2 DEF Naming!Invariant
<1>4. b \in I[0]
  <2>1. heard(0) = M
    OBVIOUS
  <2>2. 0 \in 0..Len(s)
    BY <1>1
  <2> HIDE DEF heard
  <2>3. QED
    BY <2>1, <2>2
<1>5. Naming!Fold(b, s) \in I[Len(s)]
  <2> HIDE DEF I
  <2>1. QED
    BY <1>1, <1>3, <1>4, NamingFolds, Naming!FoldLeftInvariant
<1>6. heard(Len(s)) = M \cup ToSet(s) /\ Len(s) \in 0..Len(s)
  BY <1>1
<1>7. Knows(Naming!Fold(b, s), M \cup ToSet(s))
  <2> HIDE DEF heard
  <2>1. QED
    BY <1>5, <1>6
<1>8. QED
  BY <1>7, RegisterClauseType DEF s

\* All that a query mentions.
MentionsOf(q) == UNION {ToSet(ClauseMentions(q[i])) : i \in DOMAIN q}

LEMMA QueryKnows ==
  ASSUME NEW q \in Seq(Clause), Kindred(MentionsOf(q))
  PROVE  Knows(VariableBindings(q), MentionsOf(q))
<1> DEFINE told(i) == ToSet(ClauseMentions(q[i]))
           heard(k) == UNION {told(i) : i \in 1..k}
           I == [k \in 0..Len(q) |-> {c \in Bindings : Knows(c, heard(k))}]
<1>1. Len(q) \in Nat /\ DOMAIN q = 1..Len(q) /\ \A i \in 1..Len(q) : q[i] \in Clause
  <2> HIDE DEF Clause
  <2>1. QED
    OBVIOUS
<1>2. \A i \in 1..Len(q) : told(i) \subseteq Mention
  BY <1>1, ClauseMentionsType DEF ToSet
<1>3. MentionsOf(q) = heard(Len(q))
  BY <1>1 DEF MentionsOf
<1> HIDE DEF told
<1>4. ASSUME NEW k \in 1..Len(q), NEW c \in I[k - 1]
      PROVE  RegisterClause(c, q[k]) \in I[k]
  <2>1. /\ k - 1 \in 0..Len(q) /\ k \in 0..Len(q) /\ q[k] \in Clause
        /\ heard(k) = heard(k - 1) \cup told(k)
        /\ heard(k - 1) \in SUBSET Mention
        /\ heard(k) \subseteq heard(Len(q))
    <3>1. 1..k = 1..(k - 1) \cup {k} /\ k \in Int
      OBVIOUS
    <3>2. \A j \in 1..k : j \in 1..Len(q)
      BY <1>1
    <3>3. \A j \in 1..(k - 1) : j \in 1..Len(q)
      BY <1>1
    <3>4. QED
      BY <1>1, <1>2, <3>1, <3>2, <3>3
  <2>2. Kindred(heard(k))
    BY <1>3, <2>1 DEF Kindred
  <2> HIDE DEF heard
  <2>3. c \in Bindings /\ Knows(c, heard(k - 1))
    BY <2>1
  <2>4. Knows(RegisterClause(c, q[k]), heard(k))
    BY <2>1, <2>2, <2>3, ClauseKnows DEF told
  <2>5. RegisterClause(c, q[k]) \in Bindings
    BY <2>1, <2>3, RegisterClauseType
  <2>6. QED
    BY <2>1, <2>4, <2>5
<1>5. Walking!Invariant(I, q)
  <2> HIDE DEF I
  <2>1. QED
    BY <1>4 DEF Walking!Invariant
<1>6. NoBindings \in I[0]
  <2>1. heard(0) = {}
    OBVIOUS
  <2>2. 0 \in 0..Len(q)
    BY <1>1
  <2>3. Knows(NoBindings, {})
    BY DEF Knows, NoBindings, Unbound
  <2> HIDE DEF heard
  <2>4. QED
    BY <2>1, <2>2, <2>3, NoBindingsType
<1>7. Walking!Fold(NoBindings, q) \in I[Len(q)]
  <2> HIDE DEF I
  <2>1. QED
    BY <1>5, <1>6, NoBindingsType, WalkingFolds, Walking!FoldLeftInvariant
<1>8. Len(q) \in 0..Len(q)
  BY <1>1
<1>9. Knows(Walking!Fold(NoBindings, q), heard(Len(q)))
  <2> HIDE DEF heard
  <2>1. QED
    BY <1>7, <1>8
<1>10. QED
  BY <1>3, <1>9, VariableBindingsFold

-----------------------------------------------------------------------------
(***************************************************************************)
(* A finding says the same wherever in the query its clause stands.        *)
(***************************************************************************)
Alike(f, g) == f.code = g.code /\ f.severity = g.severity /\ f.what = g.what

LEMMA AlikeFindings ==
  ASSUME NEW code, NEW severity, NEW path, NEW place, NEW what
  PROVE  Alike(Finding(code, severity, path, what), Finding(code, severity, place, what))
BY FindingParts DEF Alike

LEMMA UnplacedWithin ==
  ASSUME NEW S, NEW T, \A f \in S : \E g \in T : Alike(f, g)
  PROVE  Unplaced(S) \subseteq Unplaced(T)
BY DEF Unplaced, Alike

LEMMA HeadMoved ==
  ASSUME NEW f, NEW node, NEW clause, NEW path, NEW place, NEW o, NEW s,
         HeadReason(f, node, clause, path, o, s)
  PROVE  \E g : HeadReason(g, node, clause, place, o, s) /\ Alike(f, g)
<1>1. CASE /\ HasPredicate(node, clause)
           /\ \E p \in DOMAIN node.properties :
                /\ \E l \in Crowded(node, o, s) : p \notin s.nodes[l].indexed
                /\ f = Finding("policy-unindexed-high-cardinality-predicate",
                               "warning", path, p)
  <2>1. PICK p \in DOMAIN node.properties :
          /\ \E l \in Crowded(node, o, s) : p \notin s.nodes[l].indexed
          /\ f = Finding("policy-unindexed-high-cardinality-predicate",
                         "warning", path, p)
    BY <1>1
  <2> DEFINE g == Finding("policy-unindexed-high-cardinality-predicate",
                          "warning", place, p)
  <2>2. HeadReason(g, node, clause, place, o, s)
    BY <1>1, <2>1 DEF HeadReason
  <2>3. Alike(f, g)
    BY <2>1, AlikeFindings
  <2>4. QED
    BY <2>2, <2>3
<1>2. CASE /\ ~HasPredicate(node, clause)
           /\ f = Finding(ScanCode(node), "warning", path, "")
  <2> DEFINE g == Finding(ScanCode(node), "warning", place, "")
  <2>1. HeadReason(g, node, clause, place, o, s)
    BY <1>2 DEF HeadReason
  <2>2. Alike(f, g)
    BY <1>2, AlikeFindings
  <2>3. QED
    BY <2>1, <2>2
<1>3. CASE /\ ~HasPredicate(node, clause) /\ Crowded(node, o, s) # {}
           /\ f = Finding("policy-high-cardinality-label-scan", "warning", path, "")
  <2> DEFINE g == Finding("policy-high-cardinality-label-scan", "warning", place, "")
  <2>1. HeadReason(g, node, clause, place, o, s)
    BY <1>3 DEF HeadReason
  <2>2. Alike(f, g)
    BY <1>3, AlikeFindings
  <2>3. QED
    BY <2>1, <2>2
<1>4. QED
  BY <1>1, <1>2, <1>3 DEF HeadReason

LEMMA RelationshipMoved ==
  ASSUME NEW f, NEW rel, NEW path, NEW place, NEW o, NEW s, NEW rules,
         RelationshipReason(f, rel, path, o, s, rules)
  PROVE  \E g : RelationshipReason(g, rel, place, o, s, rules) /\ Alike(f, g)
<1>1. ASSUME NEW code, NEW severity, NEW what, f = Finding(code, severity, path, what),
             RelationshipReason(Finding(code, severity, place, what), rel, place, o, s, rules)
      PROVE  \E g : RelationshipReason(g, rel, place, o, s, rules) /\ Alike(f, g)
  BY <1>1, AlikeFindings
<1>2. CASE /\ rel.maxHops = Dynamic
           /\ f = Finding("policy-unbounded-traversal", "error", path, "")
  <2>1. RelationshipReason(Finding("policy-unbounded-traversal", "error", place, ""),
                           rel, place, o, s, rules)
    BY <1>2 DEF RelationshipReason
  <2>2. QED
    BY <1>1, <1>2, <2>1
<1>3. CASE /\ rel.maxHops > o.maxRelationshipHops
           /\ f = Finding("policy-high-hop-traversal", "warning", path, "")
  <2>1. RelationshipReason(Finding("policy-high-hop-traversal", "warning", place, ""),
                           rel, place, o, s, rules)
    BY <1>3 DEF RelationshipReason
  <2>2. QED
    BY <1>1, <1>3, <2>1
<1>4. CASE \E r \in rules.sensitiveRelationships :
             /\ CanonicalType[r.type] \in OnlyTypes(rel)
             /\ f = Finding("policy-sensitive-relationship-access",
                            RuleSeverity(r, "warning"), path, r.type)
  <2>1. PICK r \in rules.sensitiveRelationships :
          /\ CanonicalType[r.type] \in OnlyTypes(rel)
          /\ f = Finding("policy-sensitive-relationship-access",
                         RuleSeverity(r, "warning"), path, r.type)
    BY <1>4
  <2>2. RelationshipReason(Finding("policy-sensitive-relationship-access",
                                   RuleSeverity(r, "warning"), place, r.type),
                           rel, place, o, s, rules)
    BY <2>1 DEF RelationshipReason
  <2>3. QED
    BY <1>1, <2>1, <2>2
<1>5. CASE /\ \E t \in OnlyTypes(rel) \cap DOMAIN s.relationships :
                s.relationships[t] > o.maxRelationshipFanout
           /\ f = Finding("policy-high-fanout-relationship", "warning", path, "")
  <2>1. RelationshipReason(Finding("policy-high-fanout-relationship", "warning", place, ""),
                           rel, place, o, s, rules)
    BY <1>5 DEF RelationshipReason
  <2>2. QED
    BY <1>1, <1>5, <2>1
<1>6. QED
  BY <1>2, <1>3, <1>4, <1>5 DEF RelationshipReason

LEMMA NodeRuleMoved ==
  ASSUME NEW f, NEW node, NEW clause, NEW path, NEW place, NEW rules,
         NodeRuleReason(f, node, clause, path, rules)
  PROVE  \E g : NodeRuleReason(g, node, clause, place, rules) /\ Alike(f, g)
<1>1. PICK l \in ToSet(node.labels) :
        \/ \E r \in RulesForLabel(rules.sensitiveLabels, l) :
             f = Finding("policy-sensitive-label-access",
                         RuleSeverity(r, "warning"), path, l)
        \/ \E r \in RulesForLabel(rules.tenantScopes, l) :
             /\ ~NodeSatisfiesTenantScope(node, clause, r)
             /\ f = Finding("policy-missing-tenant-scope",
                            RuleSeverity(r, "error"), path, l)
  BY DEF NodeRuleReason
<1>2. ASSUME NEW r \in RulesForLabel(rules.sensitiveLabels, l),
             f = Finding("policy-sensitive-label-access",
                         RuleSeverity(r, "warning"), path, l)
      PROVE  \E g : NodeRuleReason(g, node, clause, place, rules) /\ Alike(f, g)
  <2> DEFINE g == Finding("policy-sensitive-label-access",
                          RuleSeverity(r, "warning"), place, l)
  <2>1. NodeRuleReason(g, node, clause, place, rules)
    BY DEF NodeRuleReason
  <2>2. Alike(f, g)
    BY <1>2, AlikeFindings
  <2>3. QED
    BY <2>1, <2>2
<1>3. ASSUME NEW r \in RulesForLabel(rules.tenantScopes, l),
             ~NodeSatisfiesTenantScope(node, clause, r),
             f = Finding("policy-missing-tenant-scope", RuleSeverity(r, "error"), path, l)
      PROVE  \E g : NodeRuleReason(g, node, clause, place, rules) /\ Alike(f, g)
  <2> DEFINE g == Finding("policy-missing-tenant-scope",
                          RuleSeverity(r, "error"), place, l)
  <2>1. NodeRuleReason(g, node, clause, place, rules)
    BY <1>3 DEF NodeRuleReason
  <2>2. Alike(f, g)
    BY <1>3, AlikeFindings
  <2>3. QED
    BY <2>1, <2>2
<1>4. QED
  BY <1>1, <1>2, <1>3

LEMMA PatternMoved ==
  ASSUME NEW f, NEW pattern, NEW clause, NEW path, NEW place, NEW o, NEW e,
         f \in PatternFindings(pattern, clause, path, o, e)
  PROVE  \E g \in PatternFindings(pattern, clause, place, o, e) : Alike(f, g)
<1>1. PatternReason(f, pattern, clause, path, o, e)
  BY PatternFound
<1>2. ASSUME NEW g, PatternReason(g, pattern, clause, place, o, e), Alike(f, g)
      PROVE  \E h \in PatternFindings(pattern, clause, place, o, e) : Alike(f, h)
  BY <1>2, PatternFound
<1>3. CASE f \in HeadNodeFindings(pattern.head, clause, path \o <<0>>, o, e.statistics)
  <2>1. HeadReason(f, pattern.head, clause, path \o <<0>>, o, e.statistics)
    BY <1>3, HeadFound
  <2>2. PICK g : HeadReason(g, pattern.head, clause, place \o <<0>>, o, e.statistics)
                   /\ Alike(f, g)
    BY <2>1, HeadMoved
  <2>3. g \in HeadNodeFindings(pattern.head, clause, place \o <<0>>, o, e.statistics)
    BY <2>2, HeadFound
  <2>4. PatternReason(g, pattern, clause, place, o, e)
    BY <2>3 DEF PatternReason
  <2>5. QED
    BY <1>2, <2>2, <2>4
<1>4. ASSUME NEW node, NEW here, NEW there,
             f \in NodeRuleFindings(node, clause, here, e.rules)
      PROVE  \E g \in NodeRuleFindings(node, clause, there, e.rules) : Alike(f, g)
  <2>1. NodeRuleReason(f, node, clause, here, e.rules)
    BY <1>4, NodeRuleFound
  <2>2. PICK g : NodeRuleReason(g, node, clause, there, e.rules) /\ Alike(f, g)
    BY <2>1, NodeRuleMoved
  <2>3. QED
    BY <2>2, NodeRuleFound
<1>5. CASE f \in NodeRuleFindings(pattern.head, clause, path \o <<0>>, e.rules)
  <2>1. PICK g \in NodeRuleFindings(pattern.head, clause, place \o <<0>>, e.rules) : Alike(f, g)
    BY <1>4, <1>5
  <2>2. PatternReason(g, pattern, clause, place, o, e)
    BY <2>1 DEF PatternReason
  <2>3. QED
    BY <1>2, <2>1, <2>2
<1>6. ASSUME NEW s \in DOMAIN pattern.tail,
             f \in NodeRuleFindings(pattern.tail[s].node, clause, path \o <<s>>, e.rules)
      PROVE  \E h \in PatternFindings(pattern, clause, place, o, e) : Alike(f, h)
  <2>1. PICK g \in NodeRuleFindings(pattern.tail[s].node, clause, place \o <<s>>, e.rules) :
          Alike(f, g)
    BY <1>4, <1>6
  <2>2. PatternReason(g, pattern, clause, place, o, e)
    BY <2>1 DEF PatternReason
  <2>3. QED
    BY <1>2, <2>1, <2>2
<1>7. ASSUME NEW s \in DOMAIN pattern.tail,
             f \in RelationshipFindings(pattern.tail[s].rel, path \o <<s>>, o,
                                        e.statistics, e.rules)
      PROVE  \E h \in PatternFindings(pattern, clause, place, o, e) : Alike(f, h)
  <2>1. RelationshipReason(f, pattern.tail[s].rel, path \o <<s>>, o, e.statistics, e.rules)
    BY <1>7, RelationshipFound
  <2>2. PICK g : RelationshipReason(g, pattern.tail[s].rel, place \o <<s>>, o,
                                    e.statistics, e.rules) /\ Alike(f, g)
    BY <2>1, RelationshipMoved
  <2>3. g \in RelationshipFindings(pattern.tail[s].rel, place \o <<s>>, o,
                                   e.statistics, e.rules)
    BY <2>2, RelationshipFound
  <2>4. PatternReason(g, pattern, clause, place, o, e)
    BY <2>3 DEF PatternReason
  <2>5. QED
    BY <1>2, <2>2, <2>4
<1>8. QED
  BY <1>1, <1>3, <1>5, <1>6, <1>7 DEF PatternReason

LEMMA MatchMoved ==
  ASSUME NEW f, NEW clause, NEW i, NEW j, NEW o, NEW e, f \in MatchFindings(clause, i, o, e)
  PROVE  \E g \in MatchFindings(clause, j, o, e) : Alike(f, g)
<1>1. MatchReason(f, clause, i, o, e)
  BY MatchFound
<1>2. CASE /\ Len(clause.patterns) > 1
           /\ f = Finding("policy-cartesian-pattern-risk", "warning", <<i>>, "")
  <2> DEFINE g == Finding("policy-cartesian-pattern-risk", "warning", <<j>>, "")
  <2>1. MatchReason(g, clause, j, o, e)
    BY <1>2 DEF MatchReason
  <2>2. Alike(f, g)
    BY <1>2, AlikeFindings
  <2> HIDE DEF g
  <2>3. QED
    BY <2>1, <2>2, MatchFound
<1>3. ASSUME NEW p \in DOMAIN clause.patterns,
             f \in PatternFindings(clause.patterns[p], clause, <<i, p>>, o, e)
      PROVE  \E g \in MatchFindings(clause, j, o, e) : Alike(f, g)
  <2>1. PICK g \in PatternFindings(clause.patterns[p], clause, <<j, p>>, o, e) : Alike(f, g)
    BY <1>3, PatternMoved
  <2>2. MatchReason(g, clause, j, o, e)
    BY <2>1 DEF MatchReason
  <2>3. QED
    BY <2>1, <2>2, MatchFound
<1>4. QED
  BY <1>1, <1>2, <1>3 DEF MatchReason

LEMMA ReturnMoved ==
  ASSUME NEW f, NEW clause, NEW i, NEW j, NEW o, OptionsLike(o), NEW e, NEW b,
         f \in ReturnFindings(clause, i, o, e, b)
  PROVE  \E g \in ReturnFindings(clause, j, o, e, b) : Alike(f, g)
<1>1. o.requireLimit \in BOOLEAN
  BY DEF OptionsLike
<1>2. ReturnReason(f, clause, i, o, e, b)
  BY <1>1, ReturnFound
<1>3. ASSUME NEW g, ReturnReason(g, clause, j, o, e, b), Alike(f, g)
      PROVE  \E h \in ReturnFindings(clause, j, o, e, b) : Alike(f, h)
  BY <1>1, <1>3, ReturnFound
<1>4. CASE /\ clause.limit = Absent /\ o.requireLimit
           /\ f = Finding("policy-missing-limit", "warning", <<i>>, "")
  <2> DEFINE g == Finding("policy-missing-limit", "warning", <<j>>, "")
  <2>1. ReturnReason(g, clause, j, o, e, b)
    BY <1>4 DEF ReturnReason
  <2>2. Alike(f, g)
    BY <1>4, AlikeFindings
  <2> HIDE DEF g
  <2>3. QED
    BY <1>3, <2>1, <2>2
<1>5. CASE /\ clause.limit > o.maxReturnLimit
           /\ f = Finding("policy-high-return-limit", "warning", <<i>>, "")
  <2> DEFINE g == Finding("policy-high-return-limit", "warning", <<j>>, "")
  <2>1. ReturnReason(g, clause, j, o, e, b)
    BY <1>5 DEF ReturnReason
  <2>2. Alike(f, g)
    BY <1>5, AlikeFindings
  <2> HIDE DEF g
  <2>3. QED
    BY <1>3, <2>1, <2>2
<1>6. ASSUME NEW k \in DOMAIN clause.items, NEW read \in clause.items[k].reads,
             NEW r \in e.rules.sensitiveProperties,
             SensitivePropertyRuleMatches(r, read[2], BindingOf(read[1], b)),
             f = Finding("policy-sensitive-property-return",
                         RuleSeverity(r, "error"), <<i, k>>, read[2])
      PROVE  \E g \in ReturnFindings(clause, j, o, e, b) : Alike(f, g)
  <2> DEFINE g == Finding("policy-sensitive-property-return",
                          RuleSeverity(r, "error"), <<j, k>>, read[2])
  <2>1. ReturnReason(g, clause, j, o, e, b)
    BY <1>6 DEF ReturnReason
  <2>2. Alike(f, g)
    BY <1>6, AlikeFindings
  <2> HIDE DEF g
  <2>3. QED
    BY <1>3, <2>1, <2>2
<1>7. QED
  BY <1>2, <1>4, <1>5, <1>6 DEF ReturnReason

LEMMA ClauseMoved ==
  ASSUME NEW f, NEW clause, NEW i, NEW j, NEW o, OptionsLike(o), NEW e, NEW b,
         f \in ClauseFindings(clause, i, o, e, b)
  PROVE  \E g \in ClauseFindings(clause, j, o, e, b) : Alike(f, g)
<1>1. o.allowWrites \in BOOLEAN
  BY DEF OptionsLike
<1>2. ClauseReason(f, clause, i, o, e, b)
  BY <1>1, ClauseFound
<1>3. ASSUME NEW g, ClauseReason(g, clause, j, o, e, b), Alike(f, g)
      PROVE  \E h \in ClauseFindings(clause, j, o, e, b) : Alike(f, h)
  BY <1>1, <1>3, ClauseFound
<1>4. CASE /\ clause.kind \in WriteKinds /\ ~o.allowWrites
           /\ f = Finding("policy-write-risk", "error", <<i>>, "")
  <2> DEFINE g == Finding("policy-write-risk", "error", <<j>>, "")
  <2>1. ClauseReason(g, clause, j, o, e, b)
    BY <1>4 DEF ClauseReason
  <2>2. Alike(f, g)
    BY <1>4, AlikeFindings
  <2> HIDE DEF g
  <2>3. QED
    BY <1>3, <2>1, <2>2
<1>5. CASE clause.kind = "match" /\ f \in MatchFindings(clause, i, o, e)
  BY <1>3, <1>5, MatchMoved DEF ClauseReason
<1>6. CASE clause.kind = "return" /\ f \in ReturnFindings(clause, i, o, e, b)
  BY <1>3, <1>6, ReturnMoved DEF ClauseReason
<1>7. QED
  BY <1>2, <1>4, <1>5, <1>6 DEF ClauseReason

LEMMA JoinedSeq ==
  ASSUME NEW S, NEW s \in Seq(S), NEW t \in Seq(S)
  PROVE  /\ s \o t \in Seq(S) /\ Len(s \o t) = Len(s) + Len(t)
         /\ \A k \in 1..(Len(s) + Len(t)) :
              (s \o t)[k] = IF k <= Len(s) THEN s[k] ELSE t[k - Len(s)]
OBVIOUS

\* What is left of a query without a clause is, clause by clause, what was there.
LEMMA WithoutClause ==
  ASSUME NEW q \in Seq(Clauses), NEW i \in DOMAIN q
  PROVE  /\ Without(q, i) \in Seq(Clauses)
         /\ \A k \in DOMAIN Without(q, i) : \E j \in DOMAIN q : Without(q, i)[k] = q[j]
<1>1. Len(q) \in Nat /\ DOMAIN q = 1..Len(q) /\ i \in 1..Len(q)
  OBVIOUS
<1> DEFINE before == SubSeq(q, 1, i - 1)
           after == SubSeq(q, i + 1, Len(q))
<1>2. /\ before \in Seq(Clauses) /\ Len(before) = i - 1
      /\ \A k \in 1..(i - 1) : before[k] = q[k]
  BY <1>1
<1>3. /\ after \in Seq(Clauses) /\ Len(after) = Len(q) - i
      /\ \A k \in 1..(Len(q) - i) : after[k] = q[i + k]
  BY <1>1
<1>4. Without(q, i) = before \o after
  BY DEF Without
<1> HIDE DEF before, after
<1>a. /\ before \o after \in Seq(Clauses)
      /\ Len(before \o after) = (i - 1) + (Len(q) - i)
      /\ \A k \in 1..((i - 1) + (Len(q) - i)) :
           (before \o after)[k] = IF k <= i - 1 THEN before[k] ELSE after[k - (i - 1)]
  <2>1. /\ before \o after \in Seq(Clauses)
        /\ Len(before \o after) = Len(before) + Len(after)
        /\ \A k \in 1..(Len(before) + Len(after)) :
             (before \o after)[k] = IF k <= Len(before) THEN before[k]
                                                       ELSE after[k - Len(before)]
    BY <1>2, <1>3, JoinedSeq
  <2>2. QED
    BY <1>2, <1>3, <2>1
<1>b. (i - 1) + (Len(q) - i) = Len(q) - 1
  BY <1>1
<1>5. Without(q, i) \in Seq(Clauses) /\ DOMAIN Without(q, i) = 1..(Len(q) - 1)
  BY <1>4, <1>a, <1>b, MemberOfSeq
<1>6. ASSUME NEW k \in 1..(Len(q) - 1)
      PROVE  \E j \in DOMAIN q : Without(q, i)[k] = q[j]
  <2>1. CASE k <= i - 1
    <3>1. Without(q, i)[k] = q[k] /\ k \in DOMAIN q
      BY <1>1, <1>2, <1>3, <1>4, <2>1
    <3>2. QED
      BY <3>1
  <2>2. CASE k > i - 1
    <3>1. k - (i - 1) \in 1..(Len(q) - i) /\ i + (k - (i - 1)) = k + 1 /\ k + 1 \in DOMAIN q
      BY <1>1, <2>2
    <3>2. Without(q, i)[k] = after[k - (i - 1)]
      BY <1>1, <1>4, <1>a, <1>b, <2>2
    <3>3. after[k - (i - 1)] = q[k + 1]
      BY <1>3, <3>1
    <3>4. QED
      BY <3>1, <3>2, <3>3
  <2>3. QED
    BY <1>1, <2>1, <2>2
<1>7. QED
  BY <1>5, <1>6

\* In a query whose mentions of a name agree in kind, of any length, what the
\* policy finds of some clauses it finds of them among the others
\* (policy.ts:436-520): bindings only ever add up.
THEOREM NoClauseHides == Spec => []NoClauseHidesAnother
<1>1. WalkInv => NoClauseHidesAnother
  <2> DEFINE e == call.evidence
             o == EffectiveOptions(call.given)
             b == VariableBindings(query)
  <2> SUFFICES ASSUME WalkInv, Judged, ~KindsClash(query), NEW i \in DOMAIN query,
                      NEW f \in AssessCypherPolicy(Without(query, i), call.given, e)
               PROVE  \E g \in findings : Alike(f, g)
    BY UnplacedWithin DEF NoClauseHidesAnother
  <2> DEFINE rest == Without(query, i)
             c == VariableBindings(rest)
  <2>1. /\ findings = AssessCypherPolicy(query, call.given, e)
        /\ call \in Calls /\ query \in Seq(Clauses)
    BY DEF Judged, WalkInv, FindingsInv, QueryInv
  <2>2. OptionsLike(o) /\ IsEvidence(e)
    BY <2>1, CallTyped, EffectiveOptionsLike
  <2>3. LooserThan(o, o) /\ LesserThan(e, e)
    <3>1. e \in LesserEvidence(e)
      BY DEF LesserEvidence
    <3>2. LesserThan(e, e)
      BY <2>2, <3>1, LesserEvidenceParts
    <3>3. LooserThan(o, o)
      BY <2>2 DEF LooserThan, OptionsLike
    <3>4. QED
      BY <3>2, <3>3
  <2>4. /\ rest \in Seq(Clauses)
        /\ \A k \in DOMAIN rest : \E j \in DOMAIN query : rest[k] = query[j]
    BY <2>1, WithoutClause
  <2>5. rest \in Seq(Clause) /\ query \in Seq(Clause)
    BY <2>1, <2>4, QueryTyped
  <2> HIDE DEF rest
  <2>6. Kindred(MentionsOf(query)) /\ MentionsOf(rest) \subseteq MentionsOf(query)
    BY <2>4 DEF Kindred, KindsClash, MentionsOf
  <2>7. Kindred(MentionsOf(rest))
    BY <2>6 DEF Kindred
  <2>8. KnowsLess(c, b)
    BY <2>5, <2>6, <2>7, QueryKnows, KnowingMoreMentions
  <2>9. PolicyReason(f, rest, call.given, e)
    BY PolicyFound DEF rest
  <2>10. CASE f \in PlannerFindings(e.planner, o)
    <3>1. PolicyReason(f, query, call.given, e)
      BY <2>10 DEF PolicyReason
    <3>2. f \in findings
      BY <2>1, <3>1, PolicyFound
    <3>3. QED
      BY <3>2 DEF Alike
  <2>11. ASSUME NEW k \in DOMAIN rest, f \in ClauseFindings(rest[k], k, o, e, c)
         PROVE  \E g \in findings : Alike(f, g)
    <3>1. PICK j \in DOMAIN query : rest[k] = query[j]
      BY <2>4
    <3>2. query[j] \in Clause
      BY <2>1, QueryTyped
    <3> HIDE DEF o, e, b, c
    <3>3. f \in ClauseFindings(query[j], k, o, e, c)
      BY <2>11, <3>1
    <3>4. f \in ClauseFindings(query[j], k, o, e, b)
      BY <2>2, <2>3, <2>8, <3>2, <3>3, ClauseLess
    <3>5. PICK g \in ClauseFindings(query[j], j, o, e, b) : Alike(f, g)
      BY <2>2, <3>4, ClauseMoved
    <3>6. PolicyReason(g, query, call.given, e)
      BY <3>5 DEF PolicyReason, o, b
    <3>7. g \in findings
      BY <2>1, <3>6, PolicyFound
    <3>8. QED
      BY <3>5, <3>7
  <2>12. QED
    BY <2>9, <2>10, <2>11 DEF PolicyReason
<1>2. QED
  BY <1>1, Walk, PTL

-----------------------------------------------------------------------------
(***************************************************************************)
(* PassedStaysPassed: where a canonical name stands for itself, a repaired *)
(* clause mentions what the clause mentions, and every reason to report it *)
(* is a reason to report the clause.                                       *)
(***************************************************************************)
Fixes(canon, S) == \A x \in S : canon[canon[x]] = canon[x]

Settled == Fixes(CanonicalLabel, Label) /\ Fixes(CanonicalType, Type)

NamesOf(canon, s) == {canon[x] : x \in ToSet(s)}

Renamed(canon, s) == [i \in DOMAIN s |-> canon[s[i]]]

LEMMA SettledNames ==
  ASSUME NEW S, NEW canon \in [S -> S], Fixes(canon, S),
         NEW s \in Seq(S), NEW t, t = Renamed(canon, s)
  PROVE  /\ t \in Seq(S) /\ Len(t) = Len(s) /\ DOMAIN t = DOMAIN s
         /\ \A i \in DOMAIN s : t[i] = canon[s[i]] /\ canon[t[i]] = canon[s[i]]
         /\ NamesOf(canon, t) = NamesOf(canon, s)
         /\ t = <<>> <=> s = <<>>
<1>1. Len(s) \in Nat /\ DOMAIN s = 1..Len(s) /\ \A i \in DOMAIN s : s[i] \in S
  OBVIOUS
<1>2. \A i \in DOMAIN s : canon[s[i]] \in S
  BY <1>1
<1>3. t \in Seq(S) /\ Len(t) = Len(s) /\ DOMAIN t = DOMAIN s
  BY <1>1, <1>2 DEF Renamed
<1>4. \A i \in DOMAIN s : t[i] = canon[s[i]] /\ canon[t[i]] = canon[s[i]]
  BY <1>1 DEF Renamed, Fixes
<1>5. NamesOf(canon, t) = NamesOf(canon, s)
  BY <1>3, <1>4 DEF ToSet, NamesOf
<1>6. t = <<>> <=> s = <<>>
  BY <1>1, <1>3
<1>7. QED
  BY <1>3, <1>4, <1>5, <1>6

LEMMA RepairedNodeParts ==
  ASSUME Settled, NEW node \in NodePattern
  PROVE  LET new == RepairedNode(node)
         IN  /\ new \in NodePattern
             /\ new.var = node.var /\ new.where = node.where
             /\ new.properties = node.properties
             /\ new.labels = Renamed(CanonicalLabel, node.labels)
             /\ node.labels \in Seq(Label)
<1>1. /\ node.labels \in Seq(Label)
      /\ node = [var |-> node.var, labels |-> node.labels,
                 properties |-> node.properties, where |-> node.where]
  BY DEF NodePattern
<1> DEFINE labels == Renamed(CanonicalLabel, node.labels)
<1>2. labels \in Seq(Label)
  BY <1>1, SettledNames, PolicyRulesAssumption DEF Settled
<1>3. RepairedNode(node) = [node EXCEPT !.labels = labels]
  BY DEF RepairedNode, Renamed
<1>4. labels = Renamed(CanonicalLabel, node.labels)
  OBVIOUS
<1> HIDE DEF labels
<1>5. QED
  BY <1>1, <1>2, <1>3, <1>4 DEF NodePattern

LEMMA RepairedNodeSame ==
  ASSUME Settled, NEW node \in NodePattern
  PROVE  /\ NodeMention(RepairedNode(node)) = NodeMention(node)
         /\ OnlyLabels(RepairedNode(node)) = OnlyLabels(node)
         /\ RepairedNode(node).labels = <<>> <=> node.labels = <<>>
         /\ \A m \in ToSet(RepairedNode(node).labels) :
              \E l \in ToSet(node.labels) :
                /\ m = CanonicalLabel[l] /\ CanonicalLabel[m] = CanonicalLabel[l]
<1> DEFINE s == node.labels
           t == RepairedNode(node).labels
<1>1. s \in Seq(Label) /\ t = Renamed(CanonicalLabel, s)
      /\ RepairedNode(node).var = node.var
  BY RepairedNodeParts
<1> HIDE DEF s, t
<1>2. /\ t \in Seq(Label) /\ Len(t) = Len(s) /\ DOMAIN t = DOMAIN s
      /\ \A i \in DOMAIN s : /\ t[i] = CanonicalLabel[s[i]]
                             /\ CanonicalLabel[t[i]] = CanonicalLabel[s[i]]
      /\ NamesOf(CanonicalLabel, t) = NamesOf(CanonicalLabel, s)
      /\ t = <<>> <=> s = <<>>
  <2>1. CanonicalLabel \in [Label -> Label]
    BY PolicyRulesAssumption
  <2>2. Fixes(CanonicalLabel, Label)
    BY DEF Settled
  <2>3. QED
    BY <1>1, <2>1, <2>2, SettledNames
<1>3. NodeMention(RepairedNode(node)) = NodeMention(node)
  <2>1. \A n : NodeMention(n) = [var |-> n.var, kind |-> "node",
                                names |-> NamesOf(CanonicalLabel, n.labels)]
    BY DEF NodeMention, NamesOf
  <2>2. QED
    BY <1>1, <1>2, <2>1 DEF s, t
<1>4. OnlyLabels(RepairedNode(node)) = OnlyLabels(node)
  BY <1>2 DEF OnlyLabels, s, t
<1>5. \A m \in ToSet(t) : \E l \in ToSet(s) :
        m = CanonicalLabel[l] /\ CanonicalLabel[m] = CanonicalLabel[l]
  BY <1>2 DEF ToSet
<1>6. QED
  BY <1>2, <1>3, <1>4, <1>5 DEF s, t

LEMMA RepairedRelSame ==
  ASSUME Settled, call \in Calls, NEW rel \in RelPattern
  PROVE  /\ RepairedRel(rel) \in RelPattern
         /\ RelMention(RepairedRel(rel)) = RelMention(rel)
         /\ OnlyTypes(RepairedRel(rel)) = OnlyTypes(rel)
         /\ rel.maxHops # Dynamic => RepairedRel(rel).maxHops = rel.maxHops
<1> DEFINE s == rel.types
           t == Renamed(CanonicalType, s)
           hops == IF rel.maxHops = Dynamic /\ call.defaultMaxHops # Absent
                     THEN call.defaultMaxHops ELSE rel.maxHops
<1>1. /\ s \in Seq(Type) /\ rel.maxHops \in Nat \cup {Absent, Dynamic}
      /\ rel.var \in Var \cup {NoVar}
      /\ rel = [var |-> rel.var, types |-> s, maxHops |-> rel.maxHops]
  BY DEF RelPattern
<1>2. hops \in Nat \cup {Absent, Dynamic}
  BY <1>1, CallTyped
<1>3. RepairedRel(rel) = [rel EXCEPT !.types = t, !.maxHops = hops]
  BY DEF RepairedRel, Renamed
<1>4. t = Renamed(CanonicalType, s)
      /\ (rel.maxHops # Dynamic => hops = rel.maxHops)
  OBVIOUS
<1> HIDE DEF s, t, hops
<1>5. /\ t \in Seq(Type) /\ Len(t) = Len(s) /\ DOMAIN t = DOMAIN s
      /\ \A i \in DOMAIN s : /\ t[i] = CanonicalType[s[i]]
                             /\ CanonicalType[t[i]] = CanonicalType[s[i]]
      /\ NamesOf(CanonicalType, t) = NamesOf(CanonicalType, s)
  <2>1. CanonicalType \in [Type -> Type]
    BY PolicyRulesAssumption
  <2>2. Fixes(CanonicalType, Type)
    BY DEF Settled
  <2>3. QED
    BY <1>1, <1>4, <2>1, <2>2, SettledNames
<1>6. /\ RepairedRel(rel) = [var |-> rel.var, types |-> t, maxHops |-> hops]
      /\ rel.types = s
  BY <1>1, <1>3 DEF s
<1>7. RepairedRel(rel) \in RelPattern
  BY <1>1, <1>2, <1>5, <1>6 DEF RelPattern
<1>8. RelMention(RepairedRel(rel)) = RelMention(rel)
  <2>1. \A r : RelMention(r) = [var |-> r.var, kind |-> "relationship",
                               names |-> NamesOf(CanonicalType, r.types)]
    BY DEF RelMention, NamesOf
  <2>2. RepairedRel(rel).var = rel.var /\ RepairedRel(rel).types = t /\ rel.types = s
    BY <1>6
  <2>3. QED
    BY <1>5, <2>1, <2>2
<1>9. OnlyTypes(RepairedRel(rel)) = OnlyTypes(rel)
  BY <1>5, <1>6 DEF OnlyTypes
<1>10. QED
  BY <1>4, <1>6, <1>7, <1>8, <1>9

LEMMA RepairedPatternParts ==
  ASSUME Settled, call \in Calls, NEW pattern \in Pattern
  PROVE  LET new == RepairedPattern(pattern)
         IN  /\ new \in Pattern
             /\ new.head = RepairedNode(pattern.head)
             /\ DOMAIN new.tail = DOMAIN pattern.tail
             /\ \A s \in DOMAIN pattern.tail :
                  /\ new.tail[s].rel = RepairedRel(pattern.tail[s].rel)
                  /\ new.tail[s].node = RepairedNode(pattern.tail[s].node)
<1> DEFINE step(s) == [rel  |-> RepairedRel(pattern.tail[s].rel),
                       node |-> RepairedNode(pattern.tail[s].node)]
           tail == [s \in DOMAIN pattern.tail |-> step(s)]
<1>1. RepairedPattern(pattern) = [head |-> RepairedNode(pattern.head), tail |-> tail]
  BY DEF RepairedPattern
<1>2. RepairedNode(pattern.head) \in NodePattern
  BY PatternParts, RepairedNodeParts
<1>3. \A s \in DOMAIN pattern.tail : step(s) \in [rel: RelPattern, node: NodePattern]
  BY PatternParts, RepairedNodeParts, RepairedRelSame
<1>4. tail \in Seq([rel: RelPattern, node: NodePattern])
  <2>1. DOMAIN pattern.tail = 1..Len(pattern.tail) /\ Len(pattern.tail) \in Nat
    BY PatternParts
  <2> HIDE DEF step
  <2>2. QED
    BY <1>3, <2>1
<1>5. /\ DOMAIN tail = DOMAIN pattern.tail
      /\ \A s \in DOMAIN pattern.tail :
           /\ tail[s].rel = RepairedRel(pattern.tail[s].rel)
           /\ tail[s].node = RepairedNode(pattern.tail[s].node)
  OBVIOUS
<1> HIDE DEF tail
<1>6. QED
  BY <1>1, <1>2, <1>4, <1>5 DEF Pattern

LEMMA RepairedPatternMentions ==
  ASSUME Settled, call \in Calls, NEW pattern \in Pattern
  PROVE  PatternMentions(RepairedPattern(pattern)) = PatternMentions(pattern)
<1> DEFINE new == RepairedPattern(pattern)
           pair(s) == <<RelMention(pattern.tail[s].rel), NodeMention(pattern.tail[s].node)>>
           newPair(s) == <<RelMention(new.tail[s].rel), NodeMention(new.tail[s].node)>>
<1>1. NodeMention(new.head) = NodeMention(pattern.head)
  BY PatternParts, RepairedPatternParts, RepairedNodeSame
<1>2. DOMAIN new.tail = DOMAIN pattern.tail
  BY RepairedPatternParts
<1>3. ASSUME NEW s \in DOMAIN pattern.tail
      PROVE  newPair(s) = pair(s)
  <2>1. /\ new.tail[s].rel = RepairedRel(pattern.tail[s].rel)
        /\ new.tail[s].node = RepairedNode(pattern.tail[s].node)
    BY RepairedPatternParts
  <2>2. /\ RelMention(new.tail[s].rel) = RelMention(pattern.tail[s].rel)
        /\ NodeMention(new.tail[s].node) = NodeMention(pattern.tail[s].node)
    BY <2>1, PatternParts, RepairedNodeSame, RepairedRelSame
  <2>3. QED
    BY <2>2
<1> HIDE DEF new
<1>4. [s \in DOMAIN new.tail |-> newPair(s)] = [s \in DOMAIN pattern.tail |-> pair(s)]
  <2> HIDE DEF pair, newPair
  <2>1. QED
    BY <1>2, <1>3
<1>5. PatternMentions(new) =
        <<NodeMention(new.head)>> \o FlattenSeq([s \in DOMAIN new.tail |-> newPair(s)])
  BY DEF PatternMentions
<1>6. PatternMentions(pattern) =
        <<NodeMention(pattern.head)>> \o FlattenSeq([s \in DOMAIN pattern.tail |-> pair(s)])
  BY DEF PatternMentions
<1> HIDE DEF pair, newPair
<1>7. QED
  BY <1>1, <1>4, <1>5, <1>6 DEF new

LEMMA RepairedClauseParts ==
  ASSUME Settled, call \in Calls, NEW clause \in Clause
  PROVE  LET new == RepairedClause(clause)
         IN  /\ new \in Clause
             /\ new.kind = clause.kind /\ new.where = clause.where
             /\ new.items = clause.items /\ new.body = clause.body
             /\ new.limit = IF clause.kind = "return" /\ clause.limit = Absent
                              THEN call.defaultLimit ELSE clause.limit
             /\ DOMAIN new.patterns = DOMAIN clause.patterns
             /\ Len(new.patterns) = Len(clause.patterns)
             /\ \A p \in DOMAIN clause.patterns :
                  new.patterns[p] = RepairedPattern(clause.patterns[p])
<1> DEFINE patterns == [p \in DOMAIN clause.patterns |-> RepairedPattern(clause.patterns[p])]
           limit == IF clause.kind = "return" /\ clause.limit = Absent
                      THEN call.defaultLimit ELSE clause.limit
<1>1. /\ clause.patterns \in Seq(Pattern)
      /\ DOMAIN clause.patterns = 1..Len(clause.patterns) /\ Len(clause.patterns) \in Nat
      /\ \A p \in DOMAIN clause.patterns : clause.patterns[p] \in Pattern
      /\ clause.limit \in Nat \cup {Absent, Dynamic}
      /\ clause = [kind |-> clause.kind, patterns |-> clause.patterns,
                   where |-> clause.where, items |-> clause.items,
                   limit |-> clause.limit, body |-> clause.body]
  BY ClauseParts DEF Clause
<1>2. \A p \in DOMAIN clause.patterns : RepairedPattern(clause.patterns[p]) \in Pattern
  BY <1>1, RepairedPatternParts
<1>3. patterns \in Seq(Pattern) /\ Len(patterns) = Len(clause.patterns)
  BY <1>1, <1>2
<1>4. limit \in Nat \cup {Absent, Dynamic}
  BY <1>1, CallTyped
<1>5. RepairedClause(clause) = [clause EXCEPT !.patterns = patterns, !.limit = limit]
  BY DEF RepairedClause
<1>6. /\ DOMAIN patterns = DOMAIN clause.patterns
      /\ \A p \in DOMAIN clause.patterns : patterns[p] = RepairedPattern(clause.patterns[p])
  OBVIOUS
<1> HIDE DEF patterns, limit
<1>7. RepairedClause(clause) =
        [kind |-> clause.kind, patterns |-> patterns, where |-> clause.where,
         items |-> clause.items, limit |-> limit, body |-> clause.body]
  BY <1>1, <1>5
<1>8. RepairedClause(clause) \in Clause
  BY <1>3, <1>4, <1>7 DEF Clause, ClauseOver
<1>9. QED
  BY <1>3, <1>6, <1>7, <1>8 DEF limit

LEMMA RepairedClauseMentions ==
  ASSUME Settled, call \in Calls, NEW clause \in Clause
  PROVE  ClauseMentions(RepairedClause(clause)) = ClauseMentions(clause)
<1> DEFINE new == RepairedClause(clause)
           old(p) == PatternMentions(clause.patterns[p])
           now(p) == PatternMentions(new.patterns[p])
<1>1. /\ new.kind = clause.kind /\ new.body = clause.body
      /\ DOMAIN new.patterns = DOMAIN clause.patterns
      /\ \A p \in DOMAIN clause.patterns :
           /\ clause.patterns[p] \in Pattern
           /\ new.patterns[p] = RepairedPattern(clause.patterns[p])
  BY RepairedClauseParts, ClauseParts DEF Clause
<1> HIDE DEF new
<1>2. \A p \in DOMAIN clause.patterns : now(p) = old(p)
  BY <1>1, RepairedPatternMentions
<1>3. /\ MatchMentions(clause) = FlattenSeq([p \in DOMAIN clause.patterns |-> old(p)])
      /\ MatchMentions(new) = FlattenSeq([p \in DOMAIN new.patterns |-> now(p)])
  BY DEF MatchMentions
<1> HIDE DEF old, now
<1>4. [p \in DOMAIN new.patterns |-> now(p)] = [p \in DOMAIN clause.patterns |-> old(p)]
  BY <1>1, <1>2
<1>5. MatchMentions(new) = MatchMentions(clause)
  BY <1>3, <1>4
<1>6. QED
  BY <1>1, <1>5 DEF ClauseMentions, new

LEMMA HeadRepaired ==
  ASSUME Settled, NEW node \in NodePattern, NEW clause, NEW new, new.where = clause.where,
         NEW f, NEW path, NEW o, NEW s,
         HeadReason(f, RepairedNode(node), new, path, o, s)
  PROVE  HeadReason(f, node, clause, path, o, s)
<1> DEFINE other == RepairedNode(node)
<1>1. /\ other.where = node.where /\ other.properties = node.properties
      /\ OnlyLabels(other) = OnlyLabels(node)
      /\ other.labels = <<>> <=> node.labels = <<>>
  BY RepairedNodeParts, RepairedNodeSame
<1> HIDE DEF other
<1>2. HasPredicate(other, new) <=> HasPredicate(node, clause)
  BY <1>1 DEF HasPredicate
<1>3. Crowded(other, o, s) = Crowded(node, o, s) /\ ScanCode(other) = ScanCode(node)
  BY <1>1 DEF Crowded, ScanCode
<1>4. HeadReason(f, other, new, path, o, s)
  BY DEF other
<1>5. QED
  BY <1>1, <1>2, <1>3, <1>4 DEF HeadReason

LEMMA NodeRuleRepaired ==
  ASSUME Settled, NEW node \in NodePattern, NEW clause, NEW new, new.where = clause.where,
         NEW f, NEW path, NEW rules,
         NodeRuleReason(f, RepairedNode(node), new, path, rules)
  PROVE  \E g : NodeRuleReason(g, node, clause, path, rules)
<1> DEFINE other == RepairedNode(node)
<1>1. /\ other.where = node.where /\ other.properties = node.properties
      /\ other.var = node.var
  BY RepairedNodeParts
<1>2. \A m \in ToSet(other.labels) : \E l \in ToSet(node.labels) :
        m = CanonicalLabel[l] /\ CanonicalLabel[m] = CanonicalLabel[l]
  BY RepairedNodeSame
<1>3. NodeRuleReason(f, other, new, path, rules)
  OBVIOUS
<1> HIDE DEF other
<1>4. \A r : NodeSatisfiesTenantScope(other, new, r) <=> NodeSatisfiesTenantScope(node, clause, r)
  BY <1>1 DEF NodeSatisfiesTenantScope
<1>5. PICK m \in ToSet(other.labels) :
        \/ RulesForLabel(rules.sensitiveLabels, m) # {}
        \/ \E r \in RulesForLabel(rules.tenantScopes, m) : ~NodeSatisfiesTenantScope(other, new, r)
  BY <1>3 DEF NodeRuleReason
<1>6. PICK l \in ToSet(node.labels) : CanonicalLabel[m] = CanonicalLabel[l]
  BY <1>2
<1>7. \A R : RulesForLabel(R, m) = RulesForLabel(R, l)
  BY <1>6 DEF RulesForLabel
<1>8. CASE RulesForLabel(rules.sensitiveLabels, m) # {}
  <2>1. PICK r \in RulesForLabel(rules.sensitiveLabels, l) : TRUE
    BY <1>7, <1>8
  <2>2. NodeRuleReason(Finding("policy-sensitive-label-access",
                               RuleSeverity(r, "warning"), path, l),
                       node, clause, path, rules)
    BY DEF NodeRuleReason
  <2>3. QED
    BY <2>2
<1>9. CASE \E r \in RulesForLabel(rules.tenantScopes, m) : ~NodeSatisfiesTenantScope(other, new, r)
  <2>1. PICK r \in RulesForLabel(rules.tenantScopes, l) : ~NodeSatisfiesTenantScope(node, clause, r)
    BY <1>4, <1>7, <1>9
  <2>2. NodeRuleReason(Finding("policy-missing-tenant-scope",
                               RuleSeverity(r, "error"), path, l),
                       node, clause, path, rules)
    BY <2>1 DEF NodeRuleReason
  <2>3. QED
    BY <2>2
<1>10. QED
  BY <1>5, <1>8, <1>9

LEMMA RelationshipRepaired ==
  ASSUME Settled, call \in Calls, NEW rel \in RelPattern,
         NEW f, NEW path, NEW o, NEW s, NEW rules,
         RelationshipReason(f, RepairedRel(rel), path, o, s, rules)
  PROVE  \E g : RelationshipReason(g, rel, path, o, s, rules)
<1>1. CASE rel.maxHops = Dynamic
  <2>1. RelationshipReason(Finding("policy-unbounded-traversal", "error", path, ""),
                           rel, path, o, s, rules)
    BY <1>1 DEF RelationshipReason
  <2>2. QED
    BY <2>1
<1>2. CASE rel.maxHops # Dynamic
  <2> DEFINE other == RepairedRel(rel)
  <2>1. other.maxHops = rel.maxHops /\ OnlyTypes(other) = OnlyTypes(rel)
    BY <1>2, RepairedRelSame
  <2>2. RelationshipReason(f, other, path, o, s, rules)
    OBVIOUS
  <2> HIDE DEF other
  <2>3. RelationshipReason(f, rel, path, o, s, rules)
    BY <2>1, <2>2 DEF RelationshipReason
  <2>4. QED
    BY <2>3
<1>3. QED
  BY <1>1, <1>2

LEMMA PatternRepaired ==
  ASSUME Settled, call \in Calls, NEW pattern \in Pattern, NEW clause, NEW new,
         new.where = clause.where, NEW path, NEW o, NEW e,
         PatternFindings(pattern, clause, path, o, e) = {}
  PROVE  PatternFindings(RepairedPattern(pattern), new, path, o, e) = {}
<1> DEFINE other == RepairedPattern(pattern)
<1> SUFFICES ASSUME NEW f, f \in PatternFindings(other, new, path, o, e)
             PROVE  FALSE
  OBVIOUS
<1>1. \A g : ~PatternReason(g, pattern, clause, path, o, e)
  BY PatternFound
<1>2. /\ pattern.head \in NodePattern
      /\ other.head = RepairedNode(pattern.head)
      /\ DOMAIN other.tail = DOMAIN pattern.tail
      /\ \A s \in DOMAIN pattern.tail :
           /\ pattern.tail[s].rel \in RelPattern /\ pattern.tail[s].node \in NodePattern
           /\ other.tail[s].rel = RepairedRel(pattern.tail[s].rel)
           /\ other.tail[s].node = RepairedNode(pattern.tail[s].node)
  BY PatternParts, RepairedPatternParts
<1>3. PatternReason(f, other, new, path, o, e)
  BY PatternFound
<1> HIDE DEF other
<1>4. CASE f \in HeadNodeFindings(other.head, new, path \o <<0>>, o, e.statistics)
  <2>1. HeadReason(f, RepairedNode(pattern.head), new, path \o <<0>>, o, e.statistics)
    BY <1>2, <1>4, HeadFound
  <2>2. HeadReason(f, pattern.head, clause, path \o <<0>>, o, e.statistics)
    BY <1>2, <2>1, HeadRepaired
  <2>3. f \in HeadNodeFindings(pattern.head, clause, path \o <<0>>, o, e.statistics)
    BY <2>2, HeadFound
  <2>4. QED
    BY <1>1, <2>3 DEF PatternReason
<1>5. ASSUME NEW node \in NodePattern, NEW place,
             f \in NodeRuleFindings(RepairedNode(node), new, place, e.rules)
      PROVE  \E g : g \in NodeRuleFindings(node, clause, place, e.rules)
  <2>1. NodeRuleReason(f, RepairedNode(node), new, place, e.rules)
    BY <1>5, NodeRuleFound
  <2>2. PICK g : NodeRuleReason(g, node, clause, place, e.rules)
    BY <2>1, NodeRuleRepaired
  <2>3. QED
    BY <2>2, NodeRuleFound
<1>6. CASE f \in NodeRuleFindings(other.head, new, path \o <<0>>, e.rules)
  <2>1. PICK g : g \in NodeRuleFindings(pattern.head, clause, path \o <<0>>, e.rules)
    BY <1>2, <1>5, <1>6
  <2>2. QED
    BY <1>1, <2>1 DEF PatternReason
<1>7. ASSUME NEW s \in DOMAIN pattern.tail,
             f \in NodeRuleFindings(other.tail[s].node, new, path \o <<s>>, e.rules)
      PROVE  FALSE
  <2>1. PICK g : g \in NodeRuleFindings(pattern.tail[s].node, clause, path \o <<s>>, e.rules)
    BY <1>2, <1>5, <1>7
  <2>2. QED
    BY <1>1, <2>1 DEF PatternReason
<1>8. ASSUME NEW s \in DOMAIN pattern.tail,
             f \in RelationshipFindings(other.tail[s].rel, path \o <<s>>, o,
                                        e.statistics, e.rules)
      PROVE  FALSE
  <2>1. RelationshipReason(f, RepairedRel(pattern.tail[s].rel), path \o <<s>>, o,
                           e.statistics, e.rules)
    BY <1>2, <1>8, RelationshipFound
  <2>2. PICK g : RelationshipReason(g, pattern.tail[s].rel, path \o <<s>>, o,
                                    e.statistics, e.rules)
    BY <1>2, <2>1, RelationshipRepaired
  <2>3. g \in RelationshipFindings(pattern.tail[s].rel, path \o <<s>>, o,
                                   e.statistics, e.rules)
    BY <2>2, RelationshipFound
  <2>4. QED
    BY <1>1, <2>3 DEF PatternReason
<1>9. QED
  BY <1>2, <1>3, <1>4, <1>6, <1>7, <1>8 DEF PatternReason

LEMMA ClauseRepaired ==
  ASSUME Settled, call \in Calls, NEW clause \in Clause, NEW i, NEW o, OptionsLike(o),
         call.defaultLimit <= o.maxReturnLimit, NEW e, NEW b,
         ClauseFindings(clause, i, o, e, b) = {}
  PROVE  ClauseFindings(RepairedClause(clause), i, o, e, b) = {}
<1> DEFINE new == RepairedClause(clause)
<1> SUFFICES ASSUME NEW f, f \in ClauseFindings(new, i, o, e, b)
             PROVE  FALSE
  OBVIOUS
<1>1. /\ new.kind = clause.kind /\ new.where = clause.where /\ new.items = clause.items
      /\ new.limit = IF clause.kind = "return" /\ clause.limit = Absent
                       THEN call.defaultLimit ELSE clause.limit
      /\ DOMAIN new.patterns = DOMAIN clause.patterns
      /\ Len(new.patterns) = Len(clause.patterns)
      /\ \A p \in DOMAIN clause.patterns :
           /\ clause.patterns[p] \in Pattern
           /\ new.patterns[p] = RepairedPattern(clause.patterns[p])
  BY RepairedClauseParts, ClauseParts DEF Clause
<1>2. o.allowWrites \in BOOLEAN /\ o.requireLimit \in BOOLEAN /\ o.maxReturnLimit \in Nat
  BY DEF OptionsLike
<1>3. \A g : ~ClauseReason(g, clause, i, o, e, b)
  BY <1>2, ClauseFound
<1>4. ClauseReason(f, new, i, o, e, b)
  BY <1>2, ClauseFound
<1> HIDE DEF new
<1>5. CASE new.kind \in WriteKinds /\ ~o.allowWrites
  <2>1. ClauseReason(Finding("policy-write-risk", "error", <<i>>, ""), clause, i, o, e, b)
    BY <1>1, <1>5 DEF ClauseReason
  <2>2. QED
    BY <1>3, <2>1
<1>6. CASE new.kind = "match" /\ f \in MatchFindings(new, i, o, e)
  <2>1. \A g : g \notin MatchFindings(clause, i, o, e)
    BY <1>1, <1>3, <1>6 DEF ClauseReason
  <2>2. \A g : ~MatchReason(g, clause, i, o, e)
    BY <2>1, MatchFound
  <2>3. MatchReason(f, new, i, o, e)
    BY <1>6, MatchFound
  <2>4. CASE Len(new.patterns) > 1
    <3>1. MatchReason(Finding("policy-cartesian-pattern-risk", "warning", <<i>>, ""),
                      clause, i, o, e)
      BY <1>1, <2>4 DEF MatchReason
    <3>2. QED
      BY <2>2, <3>1
  <2>5. ASSUME NEW p \in DOMAIN clause.patterns,
               f \in PatternFindings(new.patterns[p], new, <<i, p>>, o, e)
        PROVE  FALSE
    <3>1. \A g : g \notin PatternFindings(clause.patterns[p], clause, <<i, p>>, o, e)
      BY <2>2 DEF MatchReason
    <3>2. PatternFindings(clause.patterns[p], clause, <<i, p>>, o, e) = {}
      BY <3>1
    <3>3. PatternFindings(RepairedPattern(clause.patterns[p]), new, <<i, p>>, o, e) = {}
      BY <1>1, <3>2, PatternRepaired
    <3>4. QED
      BY <1>1, <2>5, <3>3
  <2>6. QED
    BY <1>1, <2>3, <2>4, <2>5 DEF MatchReason
<1>7. CASE new.kind = "return" /\ f \in ReturnFindings(new, i, o, e, b)
  <2>1. \A g : g \notin ReturnFindings(clause, i, o, e, b)
    BY <1>1, <1>3, <1>7 DEF ClauseReason
  <2>2. \A g : ~ReturnReason(g, clause, i, o, e, b)
    BY <1>2, <2>1, ReturnFound
  <2>3. ReturnReason(f, new, i, o, e, b)
    BY <1>2, <1>7, ReturnFound
  <2>4. ~(clause.limit = Absent /\ o.requireLimit)
    <3>1. clause.limit = Absent /\ o.requireLimit =>
            ReturnReason(Finding("policy-missing-limit", "warning", <<i>>, ""),
                         clause, i, o, e, b)
      BY DEF ReturnReason
    <3>2. QED
      BY <2>2, <3>1
  <2>5. ~(clause.limit > o.maxReturnLimit)
    <3>1. clause.limit > o.maxReturnLimit =>
            ReturnReason(Finding("policy-high-return-limit", "warning", <<i>>, ""),
                         clause, i, o, e, b)
      BY DEF ReturnReason
    <3>2. QED
      BY <2>2, <3>1
  <2>6. ~(new.limit = Absent /\ o.requireLimit)
    <3>1. clause.limit = Absent => ~o.requireLimit
      BY <2>4
    <3>2. new.limit = Absent => clause.limit = Absent
      BY <1>1
    <3>3. QED
      BY <3>1, <3>2
  <2>7. ~(new.limit > o.maxReturnLimit)
    <3>1. call.defaultLimit \in Int
      BY CallTyped DEF Absent
    <3>2. clause.limit \in Int
      BY ClauseParts DEF Clause
    <3>3. new.limit = call.defaultLimit \/ new.limit = clause.limit
      BY <1>1
    <3>4. QED
      BY <1>2, <2>5, <3>1, <3>2, <3>3
  <2>8. \E k \in DOMAIN new.items : \E read \in new.items[k].reads :
          \E r \in e.rules.sensitiveProperties :
            /\ SensitivePropertyRuleMatches(r, read[2], BindingOf(read[1], b))
            /\ f = Finding("policy-sensitive-property-return",
                           RuleSeverity(r, "error"), <<i, k>>, read[2])
    BY <2>3, <2>6, <2>7 DEF ReturnReason
  <2>9. ReturnReason(f, clause, i, o, e, b)
    BY <1>1, <2>8 DEF ReturnReason
  <2>10. QED
    BY <2>2, <2>9
<1>8. QED
  BY <1>4, <1>5, <1>6, <1>7 DEF ClauseReason

LEMMA RepairedQuery ==
  ASSUME Settled, call \in Calls, NEW q \in Seq(Clause)
  PROVE  /\ Repaired(q) \in Seq(Clause) /\ DOMAIN Repaired(q) = DOMAIN q
         /\ \A i \in DOMAIN q : Repaired(q)[i] = RepairedClause(q[i]) /\ q[i] \in Clause
         /\ VariableBindings(Repaired(q)) = VariableBindings(q)
<1> DEFINE r == Repaired(q)
<1>1. Len(q) \in Nat /\ DOMAIN q = 1..Len(q) /\ \A i \in DOMAIN q : q[i] \in Clause
  BY MemberOfSeq
<1>2. DOMAIN r = DOMAIN q /\ \A i \in DOMAIN q : r[i] = RepairedClause(q[i])
  BY DEF Repaired
<1>3. \A i \in DOMAIN q : RepairedClause(q[i]) \in Clause
  BY <1>1, RepairedClauseParts
<1>4. r = [i \in 1..Len(q) |-> RepairedClause(q[i])]
  BY <1>1 DEF Repaired
<1> HIDE DEF Clause
<1>5. r \in Seq(Clause) /\ Len(r) = Len(q)
  BY <1>1, <1>3, <1>4
<1> HIDE DEF r
<1>6. \A k \in 1..Len(q) : \A b \in Bindings : RegisterClause(b, r[k]) = RegisterClause(b, q[k])
  BY <1>1, <1>2, RepairedClauseMentions DEF RegisterClause
<1>7. Walking!SameSteps(Bindings, r, q)
  BY <1>5, <1>6 DEF Walking!SameSteps
<1>8. Walking!Fold(NoBindings, r) = Walking!Fold(NoBindings, q)
  BY <1>5, <1>7, NoBindingsType, WalkingFolds, Walking!FoldLeftAgrees
<1>9. VariableBindings(r) = VariableBindings(q)
  BY <1>5, <1>8, VariableBindingsFold
<1>10. QED
  BY <1>1, <1>2, <1>5, <1>9 DEF r

LEMMA PassedRepaired ==
  ASSUME Settled, call \in Calls, NEW q \in Seq(Clause),
         call.defaultLimit <= EffectiveOptions(call.given).maxReturnLimit,
         AssessCypherPolicy(q, call.given, call.evidence) = {}
  PROVE  AssessCypherPolicy(Repaired(q), call.given, call.evidence) = {}
<1> DEFINE o == EffectiveOptions(call.given)
           e == call.evidence
           b == VariableBindings(q)
           r == Repaired(q)
<1>1. OptionsLike(o)
  BY CallTyped, EffectiveOptionsLike
<1>2. /\ DOMAIN r = DOMAIN q /\ VariableBindings(r) = b
      /\ \A i \in DOMAIN q : r[i] = RepairedClause(q[i]) /\ q[i] \in Clause
  BY RepairedQuery
<1>3. \A g : ~PolicyReason(g, q, call.given, e)
  BY PolicyFound
<1>4. ASSUME NEW i \in DOMAIN q
      PROVE  ClauseFindings(r[i], i, o, e, b) = {}
  <2>1. \A g : g \notin ClauseFindings(q[i], i, o, e, b)
    BY <1>3 DEF PolicyReason
  <2>2. ClauseFindings(q[i], i, o, e, b) = {} /\ q[i] \in Clause /\ r[i] = RepairedClause(q[i])
    BY <1>2, <2>1
  <2>3. call.defaultLimit <= o.maxReturnLimit
    OBVIOUS
  <2> HIDE DEF o, e, b, r
  <2>4. QED
    BY <1>1, <2>2, <2>3, ClauseRepaired
<1>5. ASSUME NEW f \in AssessCypherPolicy(r, call.given, e)
      PROVE  FALSE
  <2>1. PolicyReason(f, r, call.given, e)
    BY PolicyFound
  <2>2. f \notin PlannerFindings(e.planner, o)
    BY <1>3 DEF PolicyReason
  <2> HIDE DEF r
  <2>3. QED
    BY <1>2, <1>4, <2>1, <2>2 DEF PolicyReason
<1>6. QED
  BY <1>5

\* What the policy passes without a finding it still passes once the compiler
\* has repaired it, once or twice, for any schema whose canonical names stand
\* for themselves (policy-eval.ts:124-143).
THEOREM PassedStays == Spec => []PassedStaysPassed
<1>1. WalkInv => PassedStaysPassed
  <2> SUFFICES ASSUME WalkInv, Judged, findings = {},
                      call.defaultLimit <= EffectiveOptions(call.given).maxReturnLimit,
                      \A l \in Label : CanonicalLabel[CanonicalLabel[l]] = CanonicalLabel[l],
                      \A t \in Type : CanonicalType[CanonicalType[t]] = CanonicalType[t]
               PROVE  AssessCypherPolicy(Executed, call.given, call.evidence) = {}
    BY DEF PassedStaysPassed
  <2>1. Settled
    BY DEF Settled, Fixes
  <2>2. /\ AssessCypherPolicy(query, call.given, call.evidence) = {}
        /\ call \in Calls /\ query \in Seq(Clauses)
    BY DEF Judged, WalkInv, FindingsInv, QueryInv
  <2>3. query \in Seq(Clause)
    BY <2>2, QueryTyped
  <2>4. /\ Repaired(query) \in Seq(Clause)
        /\ AssessCypherPolicy(Repaired(query), call.given, call.evidence) = {}
    BY <2>1, <2>2, <2>3, RepairedQuery, PassedRepaired
  <2>5. AssessCypherPolicy(Repaired(Repaired(query)), call.given, call.evidence) = {}
    BY <2>1, <2>2, <2>4, PassedRepaired
  <2>6. QED
    BY <2>4, <2>5 DEF Executed
<1>2. QED
  BY <1>1, Walk, PTL

-----------------------------------------------------------------------------
(***************************************************************************)
(* TenantScopeIsSound: over predicates of any shape and depth.  Both       *)
(* recursions go from a predicate to its parts, which are smaller.         *)
(***************************************************************************)
ScopesStep(f, e, variable, rule) ==
  CASE e.kind = "junction"   -> e.op = "AND" /\ (f[e.first] \/ f[e.second])
    [] e.kind = "comparison" -> ComparisonScopes(e, variable, rule)
    [] OTHER                 -> FALSE

HoldsStep(f, e, true) ==
  CASE e.kind = "junction" /\ e.op = "AND" -> f[e.first] /\ f[e.second]
    [] e.kind = "junction" /\ e.op = "OR"  -> f[e.first] \/ f[e.second]
    [] e.kind = "junction" /\ e.op = "XOR" -> ~(f[e.first] <=> f[e.second])
    [] e.kind = "negation"                 -> ~f[e.first]
    [] OTHER                               -> e \in true

LEMMA PredicateParts ==
  ASSUME NEW e \in Expression
  PROVE  /\ e.kind = "junction" => /\ e.first \in Expression /\ Size[e.first] < Size[e]
                                   /\ e.second \in Expression /\ Size[e.second] < Size[e]
         /\ e.kind = "negation" => e.first \in Expression /\ Size[e.first] < Size[e]
         /\ Size[e] \in Nat
         /\ e.kind = "comparison" => Parts(e) = {}
BY ExpressionAssumption DEF Parts

LEMMA ScopesSolved ==
  ASSUME NEW variable, NEW rule
  PROVE  \E f : f = [e \in Expression |-> ScopesStep(f, e, variable, rule)]
<1> DEFINE Step(f, e) == ScopesStep(f, e, variable, rule)
           G == [f \in [Expression -> BOOLEAN] |-> [e \in Expression |-> Step(f, e)]]
<1>1. ASSUME NEW f \in [Expression -> BOOLEAN], NEW e \in Expression
      PROVE  Step(f, e) \in BOOLEAN
  BY DEF ScopesStep, ComparisonScopes
<1>2. Adding!Unfolds(G, Expression, BOOLEAN)
  <2> HIDE DEF Step
  <2>1. QED
    BY <1>1 DEF Adding!Unfolds
<1>3. ASSUME NEW g \in [Expression -> BOOLEAN], NEW h \in [Expression -> BOOLEAN],
             NEW e \in Expression,
             \A d \in Expression : Size[d] < Size[e] => g[d] = h[d]
      PROVE  Step(g, e) = Step(h, e)
  <2>1. CASE e.kind = "junction"
    <3>1. g[e.first] = h[e.first] /\ g[e.second] = h[e.second]
      BY <1>3, <2>1, PredicateParts
    <3>2. QED
      BY <2>1, <3>1 DEF ScopesStep
  <2>2. CASE e.kind # "junction"
    BY <2>2 DEF ScopesStep
  <2>3. QED
    BY <2>1, <2>2
<1>4. Adding!RestsOnLower(G, Expression, BOOLEAN, Size)
  <2> HIDE DEF Step
  <2>1. QED
    BY <1>3 DEF Adding!RestsOnLower
<1>5. \E f \in [Expression -> BOOLEAN] : f = G[f]
  <2> DEFINE V == BOOLEAN
             default == FALSE
  <2> HIDE DEF G
  <2>1. Size \in [Expression -> Nat] /\ default \in V
    BY ExpressionAssumption
  <2>2. Adding!Unfolds(G, Expression, V) /\ Adding!RestsOnLower(G, Expression, V, Size)
    BY <1>2, <1>4
  <2>3. \E f \in [Expression -> V] : f = G[f]
    <3> HIDE DEF V, default
    <3>1. QED
      BY <2>1, <2>2, Adding!RankRecursion
  <2>4. QED
    BY <2>3
<1>6. QED
  <2> HIDE DEF Step
  <2>1. \E f : f = [e \in Expression |-> Step(f, e)]
    BY <1>5
  <2>2. QED
    BY <2>1 DEF Step

LEMMA HoldsSolved ==
  ASSUME NEW true
  PROVE  \E f : f = [e \in Expression |-> HoldsStep(f, e, true)]
<1> DEFINE Step(f, e) == HoldsStep(f, e, true)
           G == [f \in [Expression -> BOOLEAN] |-> [e \in Expression |-> Step(f, e)]]
<1>1. ASSUME NEW f \in [Expression -> BOOLEAN], NEW e \in Expression
      PROVE  Step(f, e) \in BOOLEAN
  <2>1. CASE e.kind = "junction"
    <3> HIDE DEF Step
    <3>2. CASE e.op = "AND"
      <4>1. HoldsStep(f, e, true) = (f[e.first] /\ f[e.second])
        BY <2>1, <3>2 DEF HoldsStep
      <4>2. QED
        BY <4>1 DEF Step
    <3>3. CASE e.op = "OR"
      <4>1. HoldsStep(f, e, true) = (f[e.first] \/ f[e.second])
        BY <2>1, <3>3 DEF HoldsStep
      <4>2. QED
        BY <4>1 DEF Step
    <3>4. CASE e.op = "XOR"
      <4>1. HoldsStep(f, e, true) = ~(f[e.first] <=> f[e.second])
        BY <2>1, <3>4 DEF HoldsStep
      <4>2. QED
        BY <4>1 DEF Step
    <3>5. CASE e.op \notin {"AND", "OR", "XOR"}
      <4>1. e \in true => HoldsStep(f, e, true) = TRUE
        BY <2>1, <3>5 DEF HoldsStep
      <4>2. e \notin true => HoldsStep(f, e, true) = FALSE
        BY <2>1, <3>5 DEF HoldsStep
      <4>3. QED
        BY <4>1, <4>2 DEF Step
    <3>6. QED
      BY <3>2, <3>3, <3>4, <3>5
  <2>2. CASE e.kind = "negation"
    <3>1. HoldsStep(f, e, true) = ~f[e.first]
      BY <2>2 DEF HoldsStep
    <3>2. QED
      BY <3>1
  <2>3. CASE e.kind \notin {"junction", "negation"}
    <3>1. e \in true => HoldsStep(f, e, true) = TRUE
      BY <2>3 DEF HoldsStep
    <3>2. e \notin true => HoldsStep(f, e, true) = FALSE
      BY <2>3 DEF HoldsStep
    <3>3. QED
      BY <3>1, <3>2
  <2>4. QED
    BY <2>1, <2>2, <2>3
<1>2. Adding!Unfolds(G, Expression, BOOLEAN)
  <2> HIDE DEF Step
  <2>1. QED
    BY <1>1 DEF Adding!Unfolds
<1>3. ASSUME NEW g \in [Expression -> BOOLEAN], NEW h \in [Expression -> BOOLEAN],
             NEW e \in Expression,
             \A d \in Expression : Size[d] < Size[e] => g[d] = h[d]
      PROVE  Step(g, e) = Step(h, e)
  <2>1. CASE e.kind = "junction"
    <3>1. g[e.first] = h[e.first] /\ g[e.second] = h[e.second]
      BY <1>3, <2>1, PredicateParts
    <3>2. QED
      BY <2>1, <3>1 DEF HoldsStep
  <2>2. CASE e.kind = "negation"
    <3>1. g[e.first] = h[e.first]
      BY <1>3, <2>2, PredicateParts
    <3>2. QED
      BY <2>2, <3>1 DEF HoldsStep
  <2>3. CASE e.kind \notin {"junction", "negation"}
    BY <2>3 DEF HoldsStep
  <2>4. QED
    BY <2>1, <2>2, <2>3
<1>4. Adding!RestsOnLower(G, Expression, BOOLEAN, Size)
  <2> HIDE DEF Step
  <2>1. QED
    BY <1>3 DEF Adding!RestsOnLower
<1>5. \E f \in [Expression -> BOOLEAN] : f = G[f]
  <2> DEFINE V == BOOLEAN
             default == FALSE
  <2> HIDE DEF G
  <2>1. Size \in [Expression -> Nat] /\ default \in V
    BY ExpressionAssumption
  <2>2. Adding!Unfolds(G, Expression, V) /\ Adding!RestsOnLower(G, Expression, V, Size)
    BY <1>2, <1>4
  <2>3. \E f \in [Expression -> V] : f = G[f]
    <3> HIDE DEF V, default
    <3>1. QED
      BY <2>1, <2>2, Adding!RankRecursion
  <2>4. QED
    BY <2>3
<1>6. QED
  <2> HIDE DEF Step
  <2>1. \E f : f = [e \in Expression |-> Step(f, e)]
    BY <1>5
  <2>2. QED
    BY <2>1 DEF Step

\* A predicate that is found to scope lets no row through without one of the
\* comparisons that scope being true of it.
LEMMA ScopesHold ==
  ASSUME NEW variable, NEW rule, NEW true, NEW expression \in Expression,
         ContainsTenantScope(expression, variable, rule), Holds(expression, true)
  PROVE  \E e \in true : e.kind = "comparison" /\ ComparisonScopes(e, variable, rule)
<1> DEFINE scopes == CHOOSE f : f = [e \in Expression |-> ScopesStep(f, e, variable, rule)]
           holds == CHOOSE f : f = [e \in Expression |-> HoldsStep(f, e, true)]
           Scoped == \E c \in true : c.kind = "comparison" /\ ComparisonScopes(c, variable, rule)
           Sound == {n \in Nat : \A e \in Expression :
                       Size[e] < n /\ scopes[e] /\ holds[e] => Scoped}
<1>1. scopes[expression]
  BY DEF ContainsTenantScope, ScopesStep
<1>2. holds[expression]
  BY PolicyRulesAssumption DEF Holds, HoldsStep
<1>3. scopes = [e \in Expression |-> ScopesStep(scopes, e, variable, rule)]
  BY ScopesSolved
<1>4. holds = [e \in Expression |-> HoldsStep(holds, e, true)]
  BY HoldsSolved
<1> HIDE DEF scopes, holds
<1>5. 0 \in Sound
  BY PredicateParts
<1>6. ASSUME NEW n \in Nat, n \in Sound
      PROVE  n + 1 \in Sound
  <2>1. SUFFICES ASSUME NEW e \in Expression, Size[e] < n + 1, scopes[e], holds[e]
                 PROVE  Scoped
    OBVIOUS
  <2>2. ScopesStep(scopes, e, variable, rule) /\ HoldsStep(holds, e, true)
    BY <1>3, <1>4, <2>1
  <2>3. ASSUME NEW d \in Expression, Size[d] < Size[e], scopes[d], holds[d]
        PROVE  Scoped
    <3>1. Size[d] < n
      BY <2>1, <2>3, PredicateParts
    <3>2. QED
      BY <1>6, <2>3, <3>1
  <2> HIDE DEF Scoped
  <2>4. CASE e.kind = "junction"
    <3>1. e.op = "AND" /\ (scopes[e.first] \/ scopes[e.second])
      BY <2>2, <2>4 DEF ScopesStep
    <3>2. holds[e.first] /\ holds[e.second]
      BY <2>2, <2>4, <3>1 DEF HoldsStep
    <3>3. QED
      BY <2>3, <2>4, <3>1, <3>2, PredicateParts
  <2>5. CASE e.kind = "comparison"
    <3>1. ComparisonScopes(e, variable, rule)
      BY <2>2, <2>5 DEF ScopesStep
    <3>2. e \in true
      BY <2>2, <2>5 DEF HoldsStep
    <3>3. QED
      BY <2>5, <3>1, <3>2 DEF Scoped
  <2>6. CASE e.kind \notin {"junction", "comparison"}
    BY <2>2, <2>6 DEF ScopesStep
  <2>7. QED
    BY <2>4, <2>5, <2>6
<1>7. Nat \subseteq Sound
  <2> HIDE DEF Sound
  <2>1. QED
    BY <1>5, <1>6, Adding!NaturalInduction
<1>8. Size[expression] + 1 \in Sound /\ Size[expression] < Size[expression] + 1
  BY <1>7, PredicateParts
<1>9. QED
  BY <1>1, <1>2, <1>8

LEMMA SatisfiedConstrains ==
  ASSUME NEW node \in NodePattern, NEW clause \in Clause, NEW rule,
         NodeSatisfiesTenantScope(node, clause, rule)
  PROVE  Constrained(node, clause, rule)
<1>1. CASE /\ rule.property \in DOMAIN node.properties
           /\ ValueSatisfies(node.properties[rule.property], rule)
  BY <1>1 DEF Constrained
<1>2. ASSUME NEW expression \in {node.where, clause.where},
             ContainsTenantScope(expression, node.var, rule)
      PROVE  Constrained(node, clause, rule)
  <2>1. SUFFICES ASSUME NEW true \in SUBSET Atoms,
                        Holds(node.where, true), Holds(clause.where, true)
                 PROVE  \E e \in true : /\ e.kind = "comparison"
                                        /\ ComparisonScopes(e, node.var, rule)
    BY DEF Constrained
  <2>2. Holds(expression, true)
    BY <2>1
  <2>3. expression \in Predicate
    BY ClauseParts DEF Clause, NodePattern
  <2>4. expression \in Expression
    BY <1>2, <2>3 DEF ContainsTenantScope, Predicate
  <2>5. QED
    BY <1>2, <2>2, <2>4, ScopesHold
<1>3. QED
  BY <1>1, <1>2 DEF NodeSatisfiesTenantScope

\* A node of a MATCH that a tenant rule is about is reported where it stands,
\* or held to the tenant in every row, whatever its predicates are
\* (policy.ts:420-558).
THEOREM TenantScopes == Spec => []TenantScopeIsSound
<1>1. WalkInv => TenantScopeIsSound
  <2> DEFINE e == call.evidence
             o == EffectiveOptions(call.given)
  <2> SUFFICES ASSUME WalkInv, Judged, NEW i \in DOMAIN query, query[i].kind = "match",
                      NEW n \in NodesOf(query[i]), NEW l \in ToSet(n[2].labels),
                      NEW r \in RulesForLabel(e.rules.tenantScopes, l)
               PROVE  \/ Found("policy-missing-tenant-scope", <<i>> \o n[1], l)
                      \/ Constrained(n[2], query[i], r)
    BY DEF TenantScopeIsSound
  <2> DEFINE clause == query[i]
  <2>1. /\ findings = AssessCypherPolicy(query, call.given, e)
        /\ call \in Calls /\ clause \in Clause
    BY QueryTyped DEF Judged, WalkInv, FindingsInv, QueryInv
  <2>2. OptionsLike(o)
    BY <2>1, CallTyped, EffectiveOptionsLike
  <2>3. /\ \A p \in DOMAIN clause.patterns : clause.patterns[p] \in Pattern
    BY <2>1, ClauseParts DEF Clause
  <2> HIDE DEF clause
  <2>4. PICK p \in DOMAIN clause.patterns :
          \/ n = <<<<p, 0>>, clause.patterns[p].head>>
          \/ \E s \in DOMAIN clause.patterns[p].tail :
               n = <<<<p, s>>, clause.patterns[p].tail[s].node>>
    BY DEF NodesOf, clause
  <2> DEFINE pattern == clause.patterns[p]
  <2>5. pattern \in Pattern
    BY <2>3
  <2>6. ASSUME NEW f, f \in PatternFindings(pattern, clause, <<i, p>>, o, e)
        PROVE  f \in findings
    <3>1. MatchReason(f, clause, i, o, e)
      BY <2>6 DEF MatchReason
    <3>2. f \in MatchFindings(clause, i, o, e)
      BY <3>1, MatchFound
    <3>3. ClauseReason(f, clause, i, o, e, VariableBindings(query))
      BY <3>2 DEF ClauseReason, clause
    <3>4. f \in ClauseFindings(query[i], i, o, e, VariableBindings(query))
      BY <2>2, <3>3, ClauseFound DEF OptionsLike, clause
    <3>5. PolicyReason(f, query, call.given, e)
      BY <3>4 DEF PolicyReason
    <3>6. QED
      BY <2>1, <3>5, PolicyFound
  <2>7. ASSUME NEW node \in NodePattern, NEW s, n = <<<<p, s>>, node>>,
               \A f : f \in NodeRuleFindings(node, clause, <<i, p>> \o <<s>>, e.rules)
                        => f \in findings
        PROVE  \/ Found("policy-missing-tenant-scope", <<i>> \o n[1], l)
               \/ Constrained(n[2], clause, r)
    <3>1. n[1] = <<p, s>> /\ n[2] = node
      BY <2>7
    <3>2. <<i>> \o <<p, s>> = <<i, p>> \o <<s>>
      BY JoinedSeq
    <3>3. CASE NodeSatisfiesTenantScope(node, clause, r)
      BY <2>1, <3>1, <3>3, SatisfiedConstrains DEF clause
    <3>4. CASE ~NodeSatisfiesTenantScope(node, clause, r)
      <4> DEFINE place == <<i, p>> \o <<s>>
                 f == Finding("policy-missing-tenant-scope", RuleSeverity(r, "error"), place, l)
      <4>1. l \in ToSet(node.labels)
        BY <3>1
      <4>2. NodeRuleReason(f, node, clause, place, e.rules)
        BY <3>4, <4>1 DEF NodeRuleReason
      <4>3. f \in findings
        BY <2>7, <4>2, NodeRuleFound
      <4>4. Found("policy-missing-tenant-scope", place, l)
        BY <4>3, FoundAt
      <4>5. QED
        BY <3>1, <3>2, <4>4
    <3>5. QED
      BY <3>3, <3>4
  <2>8. CASE n = <<<<p, 0>>, pattern.head>>
    <3>1. \A f : f \in NodeRuleFindings(pattern.head, clause, <<i, p>> \o << 0 >>, e.rules)
                   => f \in findings
      <4>1. SUFFICES ASSUME NEW f, f \in NodeRuleFindings(pattern.head, clause,
                                                        <<i, p>> \o << 0 >>, e.rules)
                     PROVE  f \in findings
        OBVIOUS
      <4>2. PatternReason(f, pattern, clause, <<i, p>>, o, e)
        BY <4>1 DEF PatternReason
      <4>3. QED
        BY <2>6, <4>2, PatternFound
    <3>2. pattern.head \in NodePattern
      BY <2>5, PatternParts
    <3>3. QED
      BY <2>7, <2>8, <3>1, <3>2 DEF clause
  <2>9. ASSUME NEW s \in DOMAIN pattern.tail, n = <<<<p, s>>, pattern.tail[s].node>>
        PROVE  \/ Found("policy-missing-tenant-scope", <<i>> \o n[1], l)
               \/ Constrained(n[2], query[i], r)
    <3>1. \A f : f \in NodeRuleFindings(pattern.tail[s].node, clause, <<i, p>> \o <<s>>, e.rules)
                   => f \in findings
      <4>1. SUFFICES ASSUME NEW f, f \in NodeRuleFindings(pattern.tail[s].node, clause,
                                                        <<i, p>> \o <<s>>, e.rules)
                     PROVE  f \in findings
        OBVIOUS
      <4>2. PatternReason(f, pattern, clause, <<i, p>>, o, e)
        BY <4>1 DEF PatternReason
      <4>3. QED
        BY <2>6, <4>2, PatternFound
    <3>2. pattern.tail[s].node \in NodePattern
      BY <2>5, PatternParts
    <3>3. QED
      BY <2>7, <2>9, <3>1, <3>2 DEF clause
  <2>10. QED
    BY <2>4, <2>8, <2>9
<1>2. QED
  BY <1>1, Walk, PTL

=============================================================================
