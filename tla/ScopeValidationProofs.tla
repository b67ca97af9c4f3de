------------------------ MODULE ScopeValidationProofs ------------------------
(***************************************************************************)
(* Proofs about ScopeValidation, for any variables, clauses and bounds.    *)
(***************************************************************************)
EXTENDS ScopeValidation, SequenceTheorems, WellFoundedInduction, TLAPS

-----------------------------------------------------------------------------
(***************************************************************************)
(* The last of the settings of a variable.                                 *)
(***************************************************************************)
\* Every nonempty set of positions has a greatest one.
LEMMA GreatestExists ==
  ASSUME NEW n \in Nat, NEW S \in SUBSET (1..n), S # {}
  PROVE  Max(S) \in S
<1> DEFINE R == {p \in Nat \X Nat : p[1] < p[2]}
           T == {n - i : i \in S}
<1>1. IsWellFoundedOn(R, Nat)
  BY NatLessThanWellFounded DEF OpToRel
<1>2. T \subseteq Nat /\ T # {}
  <2>1. \A i \in S : n - i \in Nat
    OBVIOUS
  <2>2. QED
    BY <2>1
<1>3. PICK x \in T : \A y \in T : ~ (<<y, x>> \in R)
  <2> HIDE DEF R, T
  <2>1. QED
    BY <1>1, <1>2, WFMin
<1>4. PICK i \in S : x = n - i
  BY <1>3
<1>5. ASSUME NEW j \in S
      PROVE  i >= j
  <2>1. n - j \in T /\ n - j \in Nat /\ x \in Nat
    BY <1>2
  <2>2. <<n - j, x>> \in Nat \X Nat /\ ~(n - j < x)
    BY <1>3, <2>1
  <2>3. i \in Int /\ j \in Int
    OBVIOUS
  <2>4. QED
    BY <1>4, <2>2, <2>3
<1>6. QED
  BY <1>5 DEF Max

-----------------------------------------------------------------------------
(***************************************************************************)
(* Scopes and reports have their types.                                    *)
(***************************************************************************)
LEMMA ScopeIsFunction ==
  ASSUME NEW scope \in Scope
  PROVE  DOMAIN scope \in SUBSET Var /\ scope \in [DOMAIN scope -> Binding]
BY DEF Scope

LEMMA FunctionIsScope ==
  ASSUME NEW names \in SUBSET Var, NEW scope \in [names -> Binding]
  PROVE  scope \in Scope /\ DOMAIN scope = names
BY DEF Scope

LEMMA EmptyIsScope == Empty \in Scope /\ DOMAIN Empty = {}
BY DEF Empty, Scope

\* Binding some variables more, whether or not they have a name.
LEMMA ExtendedType ==
  ASSUME NEW scope \in Scope, NEW n \in Nat, NEW bs, DOMAIN bs = 1..n,
         \A i \in 1..n : /\ bs[i].var \in Var \cup {NoVar}
                         /\ bs[i].binding \in Binding
  PROVE  /\ Extended(scope, bs) \in Scope
         /\ DOMAIN Extended(scope, bs)
              = DOMAIN scope \cup ({bs[i].var : i \in 1..n} \ {NoVar})
<1> DEFINE names == (DOMAIN scope \cup {bs[i].var : i \in DOMAIN bs}) \ {NoVar}
           value(v) == IF Settings(bs, v) = {} THEN scope[v]
                       ELSE bs[Max(Settings(bs, v))].binding
<1>1. names \in SUBSET Var
  BY ScopeIsFunction
<1>2. names = DOMAIN scope \cup ({bs[i].var : i \in 1..n} \ {NoVar})
  BY ScopeIsFunction, ScopeAssumption DEF ScopeAssumption
<1>3. ASSUME NEW v \in names
      PROVE  value(v) \in Binding
  <2>1. CASE Settings(bs, v) = {}
    <3>1. v \in DOMAIN scope
      BY <2>1 DEF Settings
    <3>2. QED
      BY <2>1, <3>1, ScopeIsFunction
  <2>2. CASE Settings(bs, v) # {}
    <3>1. Max(Settings(bs, v)) \in 1..n
      BY <2>2, GreatestExists DEF Settings
    <3>2. QED
      BY <2>2, <3>1
  <2>3. QED
    BY <2>1, <2>2
<1>4. Extended(scope, bs) = [v \in names |-> value(v)]
  BY DEF Extended
<1> HIDE DEF names, value
<1>5. Extended(scope, bs) \in [names -> Binding]
  BY <1>3, <1>4
<1>6. QED
  BY <1>1, <1>2, <1>5, FunctionIsScope

\* What is reported does not depend on the scopes it is read in for its type.
LEMMA ReportedType ==
  ASSUME NEW uses, \A u \in uses : u[1] \in Expression,
         NEW codes \in SUBSET ScopeCodes
  PROVE  Reported(uses, codes) \in Report
<1>1. \A u \in uses : u[1].vars \in SUBSET Var /\ u[1].reads \in SUBSET (Var \X Key)
  BY DEF Expression
<1>2. UNION {u[1].vars \ DOMAIN u[2] : u \in uses} \in SUBSET Var
  BY <1>1
<1>3. UNION {UnknownReads(u[1], u[2]) : u \in uses} \in SUBSET (Var \X Key)
  BY <1>1 DEF UnknownReads
<1>4. QED
  BY <1>2, <1>3 DEF Reported, Report

LEMMA CodesType ==
  /\ \A items : ItemCodes(items) \in SUBSET ScopeCodes
  /\ \A e, items : PredicateCodes(e, items) \in SUBSET ScopeCodes
  /\ \A scope, exports : ExportCodes(scope, exports) \in SUBSET ScopeCodes
BY DEF ItemCodes, PredicateCodes, ExportCodes, If, ScopeCodes

-----------------------------------------------------------------------------
(***************************************************************************)
(* Clauses.                                                                *)
(***************************************************************************)
LEMMA ClauseOfKind ==
  ASSUME NEW c \in Clause
  PROVE  /\ c.kind \in {"match", "create", "merge"} => c \in PatternClause
         /\ c.kind = "unwind"    => c \in UnwindClause
         /\ c.kind = "let"       => c \in LetClause
         /\ c.kind = "with"      => c \in WithClause
         /\ c.kind = "return"    => c \in ReturnClause
         /\ c.kind = "procedure" => c \in ProcedureClause
         /\ c.kind \in {"set", "delete"} => c \in UpdateClause
         /\ c.kind = "subquery"  => c \in SubqueryClause
BY DEF Clause, PatternClause, UnwindClause, LetClause, WithClause, ReturnClause,
       ProcedureClause, UpdateClause, RawClause, SubqueryClause

LEMMA ItemType ==
  ASSUME NEW items \in Seq(Item), NEW i \in DOMAIN items
  PROVE  /\ NameOf(items[i]) \in Var \cup {NoVar}
         /\ items[i].expression \in Expression
<1>1. items[i] \in Item
  BY LenProperties
<1>2. items[i].expression \in Expression /\ items[i].alias \in Var \cup {NoVar}
  BY <1>1 DEF Item
<1>3. QED
  BY <1>2 DEF NameOf, Expression

LEMMA MemberOfSeq ==
  ASSUME NEW S, NEW s \in Seq(S), NEW i \in DOMAIN s
  PROVE  s[i] \in S
BY LenProperties

\* What a clause introduces, kind by kind.
LEMMA IntroducesPattern ==
  ASSUME NEW c, c.kind \in {"match", "create", "merge"}
  PROVE  Introduces(c) = {c.elements[i].var : i \in DOMAIN c.elements} \ {NoVar}
BY DEF Introduces

LEMMA IntroducesUnwind ==
  ASSUME NEW c, c.kind = "unwind"
  PROVE  Introduces(c) = {c.alias}
BY DEF Introduces

LEMMA IntroducesLet ==
  ASSUME NEW c, c.kind = "let"
  PROVE  Introduces(c) = {c.items[i].alias : i \in DOMAIN c.items}
BY DEF Introduces

LEMMA IntroducesWith ==
  ASSUME NEW c, c.kind = "with"
  PROVE  Introduces(c) = {NameOf(c.items[i]) : i \in DOMAIN c.items} \ {NoVar}
BY DEF Introduces

LEMMA IntroducesProcedure ==
  ASSUME NEW c, c.kind = "procedure"
  PROVE  Introduces(c) = IF c.named THEN Range(c.yields) \ {NoVar} ELSE {}
BY DEF Introduces

LEMMA IntroducesSubquery ==
  ASSUME NEW c, c.kind = "subquery"
  PROVE  Introduces(c) = c.returned
BY DEF Introduces

LEMMA IntroducesNothing ==
  ASSUME NEW c, c.kind \in {"return", "set", "delete", "raw"}
  PROVE  Introduces(c) = {}
BY DEF Introduces

LEMMA IntroducesVariables ==
  ASSUME NEW c \in Clause
  PROVE  Introduces(c) \in SUBSET Var
<1>1. CASE c.kind \in {"match", "create", "merge"}
  <2>1. c.elements \in Seq(Element)
    BY <1>1, ClauseOfKind DEF PatternClause
  <2>2. \A i \in DOMAIN c.elements : c.elements[i] \in Element
    BY <2>1, MemberOfSeq
  <2>3. QED
    BY <1>1, <2>2, IntroducesPattern DEF Element
<1>2. CASE c.kind = "unwind"
  BY <1>2, ClauseOfKind, IntroducesUnwind DEF UnwindClause
<1>3. CASE c.kind = "let"
  <2>1. c.items \in Seq([alias: Var, expression: Expression])
    BY <1>3, ClauseOfKind DEF LetClause
  <2>2. \A i \in DOMAIN c.items : c.items[i] \in [alias: Var, expression: Expression]
    BY <2>1, MemberOfSeq
  <2>3. QED
    BY <1>3, <2>2, IntroducesLet
<1>4. CASE c.kind = "with"
  <2>1. c.items \in Seq(Item)
    BY <1>4, ClauseOfKind DEF WithClause
  <2>2. QED
    BY <1>4, <2>1, ItemType, IntroducesWith
<1>5. CASE c.kind = "procedure"
  <2>1. c.yields \in Seq(Var \cup {NoVar})
    BY <1>5, ClauseOfKind DEF ProcedureClause
  <2>2. Range(c.yields) \subseteq Var \cup {NoVar}
    BY <2>1, LenProperties DEF Range
  <2>3. QED
    BY <1>5, <2>2, IntroducesProcedure
<1>6. CASE c.kind = "subquery"
  BY <1>6, ClauseOfKind, IntroducesSubquery DEF SubqueryClause
<1>7. CASE c.kind \in {"return", "set", "delete", "raw"}
  BY <1>7, IntroducesNothing
<1>8. QED
  BY <1>1, <1>2, <1>3, <1>4, <1>5, <1>6, <1>7
     DEF Clause, PatternClause, UnwindClause, LetClause, WithClause, ReturnClause,
         ProcedureClause, UpdateClause, RawClause, SubqueryClause

-----------------------------------------------------------------------------
(***************************************************************************)
(* What the text makes visible.                                            *)
(***************************************************************************)
\* After one more clause: what it introduces, and what it does not hide.
LEMMA VisibleAfter ==
  ASSUME NEW f, f.clauses \in Seq(Clause), f.imported \in SUBSET Var,
         NEW c \in Clause, NEW g, g.imported = f.imported,
         g.clauses = Append(f.clauses, c)
  PROVE  Visible(g, Len(g.clauses))
           = (IF Hides(c) THEN {} ELSE Visible(f, Len(f.clauses))) \cup Introduces(c)
<1> DEFINE n == Len(f.clauses)
<1>1. n \in Nat /\ Len(g.clauses) = n + 1 /\ g.clauses[n + 1] = c
  BY AppendProperties, LenProperties
<1>2. \A i \in 1..n : g.clauses[i] = f.clauses[i]
  BY AppendProperties
<1>3. Introduces(c) \in SUBSET Var
  BY IntroducesVariables
<1> HIDE DEF n
<1>4. ASSUME NEW v
      PROVE  Reaches(g, v, n + 1, n + 1) <=> v \in Introduces(c)
  BY <1>1 DEF Reaches
<1>5. ASSUME NEW v, NEW i \in 0..n
      PROVE  Reaches(g, v, i, n + 1) <=> Reaches(f, v, i, n) /\ ~Hides(c)
  <2>1. (i + 1)..(n + 1) = ((i + 1)..n) \cup {n + 1}
    BY <1>1
  <2>2. (i + 1)..n \subseteq 1..n
    BY <1>1
  <2>3. (\A j \in (i + 1)..(n + 1) : ~Hides(g.clauses[j]))
          <=> (\A j \in (i + 1)..n : ~Hides(f.clauses[j])) /\ ~Hides(c)
    BY <1>1, <1>2, <2>1, <2>2
  <2>4. (IF i = 0 THEN v \in g.imported ELSE v \in Introduces(g.clauses[i]))
          <=> (IF i = 0 THEN v \in f.imported ELSE v \in Introduces(f.clauses[i]))
    BY <1>1, <1>2
  <2>5. QED
    BY <2>3, <2>4 DEF Reaches
<1>6. 0..(n + 1) = (0..n) \cup {n + 1}
  BY <1>1
<1>7. ASSUME NEW v \in Var
      PROVE  (\E i \in 0..(n + 1) : Reaches(g, v, i, n + 1))
               <=> \/ (\E i \in 0..n : Reaches(f, v, i, n)) /\ ~Hides(c)
                   \/ v \in Introduces(c)
  BY <1>4, <1>5, <1>6
<1>8. QED
  BY <1>1, <1>3, <1>7 DEF Visible, n

\* After a subquery is closed: what it returned as well.
LEMMA VisibleReturned ==
  ASSUME NEW f, NEW n \in Nat \ {0},
         f.clauses[n].kind = "subquery", f.clauses[n].returned = {},
         NEW names, NEW g, g.imported = f.imported, names \in SUBSET Var,
         g.clauses[n].kind = "subquery", g.clauses[n].returned = names,
         \A i \in 1..n : i # n => g.clauses[i] = f.clauses[i]
  PROVE  Visible(g, n) = Visible(f, n) \cup names
<1>1. \A i \in 1..n : Hides(g.clauses[i]) <=> Hides(f.clauses[i])
  BY DEF Hides
<1>2. ASSUME NEW v, NEW i \in 0..n, i # n
      PROVE  Reaches(g, v, i, n) <=> Reaches(f, v, i, n)
  <2>1. (i + 1)..n \subseteq 1..n
    OBVIOUS
  <2>2. i # 0 => g.clauses[i] = f.clauses[i]
    BY <1>2
  <2>3. QED
    BY <1>1, <2>1, <2>2 DEF Reaches
<1>3. ASSUME NEW v
      PROVE  /\ Reaches(g, v, n, n) <=> v \in names
             /\ ~Reaches(f, v, n, n)
  <2>1. (n + 1)..n = {}
    OBVIOUS
  <2>2. QED
    BY <2>1, IntroducesSubquery DEF Reaches
<1>4. ASSUME NEW v \in Var
      PROVE  (\E i \in 0..n : Reaches(g, v, i, n))
               <=> (\E i \in 0..n : Reaches(f, v, i, n)) \/ v \in names
  BY <1>2, <1>3
<1>5. QED
  BY <1>4 DEF Visible

-----------------------------------------------------------------------------
(***************************************************************************)
(* What clauses bind.                                                      *)
(***************************************************************************)
LEMMA UnknownType == Unknown \in Binding
BY DEF Unknown, Binding

LEMMA ProjectedType ==
  ASSUME NEW items \in Seq(Item), NEW scope \in Scope, NEW bs,
         bs = Projected(items, scope)
  PROVE  /\ DOMAIN bs = 1..Len(items)
         /\ Len(items) \in Nat
         /\ \A i \in 1..Len(items) : /\ bs[i].var = NameOf(items[i])
                                     /\ bs[i].var \in Var \cup {NoVar}
                                     /\ bs[i].binding \in Binding
<1>1. DOMAIN items = 1..Len(items) /\ Len(items) \in Nat
  BY LenProperties
<1>2. \A e : BindingOf(e, scope) \in Binding
  BY UnknownType, ScopeIsFunction DEF BindingOf
<1>3. QED
  BY <1>1, <1>2, ItemType DEF Projected

\* A projection binds the names of its items.
LEMMA ExtendedByItems ==
  ASSUME NEW base \in Scope, NEW scope \in Scope, NEW items \in Seq(Item)
  PROVE  /\ Extended(base, Projected(items, scope)) \in Scope
         /\ DOMAIN Extended(base, Projected(items, scope))
              = DOMAIN base
                  \cup ({NameOf(items[i]) : i \in DOMAIN items} \ {NoVar})
<1> DEFINE bs == Projected(items, scope)
           n == Len(items)
<1>1. /\ DOMAIN bs = 1..n
      /\ n \in Nat
      /\ \A i \in 1..n : /\ bs[i].var = NameOf(items[i])
                         /\ bs[i].var \in Var \cup {NoVar}
                         /\ bs[i].binding \in Binding
  BY ProjectedType
<1>2. DOMAIN items = 1..n
  BY LenProperties
<1> HIDE DEF bs, n
<1>3. /\ Extended(base, bs) \in Scope
      /\ DOMAIN Extended(base, bs)
           = DOMAIN base \cup ({bs[i].var : i \in 1..n} \ {NoVar})
  BY <1>1, ExtendedType
<1>4. {bs[i].var : i \in 1..n} = {NameOf(items[i]) : i \in DOMAIN items}
  BY <1>1, <1>2
<1>5. QED
  BY <1>3, <1>4 DEF bs

LEMMA UnnamedType ==
  ASSUME NEW vars \in Seq(Var \cup {NoVar}), NEW bs, bs = Unnamed(vars)
  PROVE  /\ DOMAIN bs = 1..Len(vars)
         /\ Len(vars) \in Nat
         /\ \A i \in 1..Len(vars) : /\ bs[i].var = vars[i]
                                    /\ bs[i].var \in Var \cup {NoVar}
                                    /\ bs[i].binding \in Binding
BY UnknownType, LenProperties, MemberOfSeq DEF Unnamed

\* A subquery returns a scope, of names its final RETURN projects.
LEMMA ExportsType ==
  ASSUME NEW f, f.clauses \in Seq(Clause), f.scope \in Scope
  PROVE  /\ Exports(f) \in Scope
         /\ DOMAIN Exports(f) \subseteq Returned(f)
<1> DEFINE n == Len(f.clauses)
           final == f.clauses[n]
<1>1. CASE f.clauses # <<>> /\ final.kind = "return"
  <2>1. n \in Nat \ {0} /\ final \in Clause
    BY <1>1, EmptySeq, ElementOfSeq
  <2>2. final.items \in Seq(Item)
    BY <1>1, <2>1, ClauseOfKind DEF ReturnClause
  <2>3. Exports(f) = Extended(Empty, Projected(final.items, f.scope))
    BY <1>1 DEF Exports
  <2>4. /\ Exports(f) \in Scope
        /\ DOMAIN Exports(f) \subseteq {NameOf(final.items[i]) : i \in DOMAIN final.items}
    <3> DEFINE items == final.items
    <3>1. items \in Seq(Item) /\ Exports(f) = Extended(Empty, Projected(items, f.scope))
      BY <2>2, <2>3
    <3> HIDE DEF items
    <3>2. /\ Extended(Empty, Projected(items, f.scope)) \in Scope
          /\ DOMAIN Extended(Empty, Projected(items, f.scope))
               = DOMAIN Empty \cup ({NameOf(items[i]) : i \in DOMAIN items} \ {NoVar})
      BY <3>1, EmptyIsScope, ExtendedByItems
    <3>3. DOMAIN Exports(f) \subseteq {NameOf(items[i]) : i \in DOMAIN items}
      BY <3>1, <3>2, EmptyIsScope
    <3>4. QED
      BY <3>1, <3>2, <3>3 DEF items
  <2>5. {NameOf(final.items[i]) : i \in DOMAIN final.items} \subseteq Returned(f)
    BY <1>1, <2>1 DEF Returned
  <2>6. QED
    BY <2>4, <2>5
<1>2. CASE ~(f.clauses # <<>> /\ final.kind = "return")
  BY <1>2, EmptyIsScope DEF Exports
<1>3. QED
  BY <1>1, <1>2

LEMMA ImportedType ==
  ASSUME NEW scope \in Scope, NEW exports \in Scope
  PROVE  /\ Imported(scope, exports) \in Scope
         /\ DOMAIN Imported(scope, exports) = DOMAIN scope \cup DOMAIN exports
         /\ \A v \in DOMAIN scope : Imported(scope, exports)[v] = scope[v]
<1> DEFINE names == DOMAIN scope \cup DOMAIN exports
<1>1. names \in SUBSET Var
  BY ScopeIsFunction
<1>2. \A v \in names : (IF v \in DOMAIN scope THEN scope[v] ELSE exports[v]) \in Binding
  BY ScopeIsFunction
<1>3. Imported(scope, exports) \in [names -> Binding]
  BY <1>2 DEF Imported
<1>4. QED
  BY <1>1, <1>3, FunctionIsScope DEF Imported

-----------------------------------------------------------------------------
(***************************************************************************)
(* The invariant: a query around an open subquery ends, so far, with it.   *)
(***************************************************************************)
Opens(f) ==
  /\ f.clauses # <<>>
  /\ f.clauses[Len(f.clauses)].kind = "subquery"
  /\ f.clauses[Len(f.clauses)].returned = {}

OpenIsLast == \A k \in DOMAIN frames : k # Len(frames) => Opens(frames[k])

IInv == TypeOK /\ ScopeIsLexical /\ OpenIsLast

\* What the type says of one frame.
FrameOK(f, k) ==
  /\ f \in Frame
  /\ Len(f.reports) = Len(f.clauses)
  /\ Len(f.clauses) <= MaxClauses[k]

LexicalFrame(f) == DOMAIN f.scope = Visible(f, Len(f.clauses))

LEMMA CurrentOK ==
  ASSUME IInv
  PROVE  /\ frames \in Seq(Frame)
         /\ Len(frames) \in Nat \ {0}
         /\ Len(frames) <= Len(MaxClauses)
         /\ Len(MaxClauses) \in Nat
         /\ DOMAIN frames = 1..Len(frames)
         /\ \A k \in DOMAIN frames : FrameOK(frames[k], k) /\ LexicalFrame(frames[k])
         /\ Current \in Frame
<1>1. frames \in Seq(Frame) /\ Len(frames) \in 1..Len(MaxClauses)
  BY DEF IInv, TypeOK
<1>2. Len(MaxClauses) \in Nat
  BY ScopeAssumption, LenProperties DEF ScopeAssumption
<1>3. DOMAIN frames = 1..Len(frames) /\ Len(frames) \in Nat
  BY <1>1, LenProperties
<1>4. ASSUME NEW k \in DOMAIN frames
      PROVE  FrameOK(frames[k], k) /\ LexicalFrame(frames[k])
  BY <1>1, MemberOfSeq DEF IInv, TypeOK, ScopeIsLexical, FrameOK, LexicalFrame
<1>5. QED
  BY <1>1, <1>2, <1>3, <1>4 DEF Current, FrameOK

\* Frames one by one make the invariant.
LEMMA FramesMakeInvariant ==
  ASSUME NEW n \in Nat \ {0}, n <= Len(MaxClauses),
         frames' \in Seq(Frame), Len(frames') = n,
         \A k \in 1..n : FrameOK(frames'[k], k) /\ LexicalFrame(frames'[k]),
         \A k \in 1..n : k # n => Opens(frames'[k])
  PROVE  IInv'
<1>1. DOMAIN frames' = 1..n /\ Len(MaxClauses) \in Nat
  BY LenProperties, ScopeAssumption DEF ScopeAssumption
<1>2. TypeOK'
  BY <1>1 DEF TypeOK, FrameOK
<1>3. ScopeIsLexical'
  BY <1>1 DEF ScopeIsLexical, LexicalFrame
<1>4. OpenIsLast'
  BY <1>1 DEF OpenIsLast
<1>5. QED
  BY <1>2, <1>3, <1>4 DEF IInv

LEMMA InitInvariant ==
  ASSUME Init
  PROVE  IInv
<1> DEFINE f == Opened({}, Empty)
<1>1. f \in Frame /\ f.clauses = <<>> /\ f.reports = <<>>
  BY EmptySeq, EmptyIsScope DEF Opened, Frame
<1>2. frames = <<f>> /\ Len(frames) = 1 /\ DOMAIN frames = {1} /\ frames[1] = f
  BY DEF Init
<1>3. Len(<<>>) = 0
  BY EmptySeq
<1>4. Len(MaxClauses) \in Nat \ {0} /\ MaxClauses[1] \in Nat
  BY ScopeAssumption, EmptySeq, ElementOfSeq DEF ScopeAssumption
<1>5. f.imported = {} /\ f.scope = Empty
  BY DEF Opened
<1>6. Visible(f, 0) = {}
  BY <1>5 DEF Visible, Reaches
<1> HIDE DEF f
<1>7. frames \in Seq(Frame)
  BY <1>1, <1>2
<1>8. TypeOK
  BY <1>1, <1>2, <1>3, <1>4, <1>7 DEF TypeOK
<1>9. ScopeIsLexical
  BY <1>1, <1>2, <1>3, <1>5, <1>6, EmptyIsScope DEF ScopeIsLexical
<1>10. QED
  BY <1>2, <1>8, <1>9 DEF IInv, OpenIsLast

-----------------------------------------------------------------------------
(***************************************************************************)
(* Every clause keeps the invariant.                                       *)
(***************************************************************************)
\* A frame with one more clause.
LEMMA GrownFrame ==
  ASSUME NEW f, NEW k, FrameOK(f, k), LexicalFrame(f), NEW c \in Clause,
         Len(f.clauses) < MaxClauses[k], MaxClauses[k] \in Nat,
         NEW scope \in Scope, NEW report \in Report,
         DOMAIN scope = (IF Hides(c) THEN {} ELSE DOMAIN f.scope) \cup Introduces(c),
         NEW g, g = [f EXCEPT !.clauses = Append(f.clauses, c),
                              !.reports = Append(f.reports, report),
                              !.scope = scope]
  PROVE  FrameOK(g, k) /\ LexicalFrame(g)
<1>1. f \in Frame /\ Len(f.reports) = Len(f.clauses)
  BY DEF FrameOK
<1>2. f.clauses \in Seq(Clause) /\ f.reports \in Seq(Report) /\ f.imported \in SUBSET Var
  BY <1>1 DEF Frame
<1>3. /\ g.clauses = Append(f.clauses, c) /\ g.reports = Append(f.reports, report)
      /\ g.scope = scope /\ g.imported = f.imported
  BY <1>1 DEF Frame
<1>4. /\ g.clauses \in Seq(Clause) /\ Len(g.clauses) = Len(f.clauses) + 1
      /\ g.reports \in Seq(Report) /\ Len(g.reports) = Len(f.reports) + 1
      /\ Len(f.clauses) \in Nat
  BY <1>2, <1>3, AppendProperties, LenProperties
<1>5. g \in Frame
  BY <1>1, <1>2, <1>3, <1>4 DEF Frame
<1>6. Visible(g, Len(g.clauses))
        = (IF Hides(c) THEN {} ELSE Visible(f, Len(f.clauses))) \cup Introduces(c)
  BY <1>2, <1>3, VisibleAfter
<1>7. DOMAIN f.scope = Visible(f, Len(f.clauses))
  BY DEF LexicalFrame
<1>8. LexicalFrame(g)
  BY <1>3, <1>6, <1>7 DEF LexicalFrame
<1>9. FrameOK(g, k)
  BY <1>1, <1>4, <1>5 DEF FrameOK
<1>10. QED
  BY <1>8, <1>9

LEMMA NextClauseType ==
  ASSUME IInv, NEW kinds, NEW c \in NextClause(kinds)
  PROVE  /\ c \in Clause /\ c.kind \in kinds
         /\ Len(Current.clauses) < MaxClauses[Len(frames)]
         /\ MaxClauses[Len(frames)] \in Nat
         /\ c.kind = "subquery" => c.returned = {}
<1>1. c \in Clauses /\ c.kind \in kinds /\ Len(Current.clauses) < MaxClauses[Len(frames)]
  BY DEF NextClause
<1>2. Len(frames) \in 1..Len(MaxClauses)
  BY DEF IInv, TypeOK
<1>3. MaxClauses[Len(frames)] \in Nat
  BY <1>2, ScopeAssumption, ElementOfSeq DEF ScopeAssumption
<1>4. QED
  BY <1>1, <1>3, ScopeAssumption DEF ScopeAssumption

LEMMA ValidatedStep ==
  ASSUME IInv, NEW kinds, NEW c \in NextClause(kinds),
         NEW scope \in Scope, NEW report \in Report,
         DOMAIN scope = (IF Hides(c) THEN {} ELSE DOMAIN Current.scope) \cup Introduces(c),
         Validated(c, scope, report)
  PROVE  IInv' /\ Len(frames') = Len(frames)
<1> DEFINE n == Len(frames)
           f == frames[n]
           g == [Grown(f, c, report) EXCEPT !.scope = scope]
<1>1. /\ frames \in Seq(Frame) /\ n \in Nat \ {0} /\ n <= Len(MaxClauses)
      /\ Len(MaxClauses) \in Nat /\ DOMAIN frames = 1..n
      /\ \A k \in 1..n : FrameOK(frames[k], k) /\ LexicalFrame(frames[k])
  BY CurrentOK
<1>2. frames' = [frames EXCEPT ![n] = g]
  BY DEF Validated, Current
<1>3. FrameOK(g, n) /\ LexicalFrame(g) /\ g \in Frame
  <2>1. /\ c \in Clause /\ Len(f.clauses) < MaxClauses[n] /\ MaxClauses[n] \in Nat
        /\ FrameOK(f, n) /\ LexicalFrame(f)
    BY <1>1, NextClauseType DEF Current
  <2>2. DOMAIN scope = (IF Hides(c) THEN {} ELSE DOMAIN f.scope) \cup Introduces(c)
    BY DEF Current
  <2> HIDE DEF n, f
  <2>3. FrameOK(g, n) /\ LexicalFrame(g)
    BY <2>1, <2>2, GrownFrame DEF Grown
  <2>4. QED
    BY <2>3 DEF FrameOK
<1>4. \A k \in 1..n : k # n => Opens(frames[k])
  BY <1>1 DEF IInv, OpenIsLast
<1> HIDE DEF g
<1>5. /\ frames' \in Seq(Frame) /\ Len(frames') = n /\ frames'[n] = g
      /\ \A k \in 1..n : k # n => frames'[k] = frames[k]
  <2> HIDE DEF n
  <2>1. n \in 1..n /\ n = Len(frames)
    BY <1>1 DEF n
  <2>2. n \in 1..Len(frames)
    BY <2>1
  <2>3. /\ [frames EXCEPT ![n] = g] \in Seq(Frame)
        /\ Len([frames EXCEPT ![n] = g]) = Len(frames)
        /\ \A k \in 1..Len(frames) :
             [frames EXCEPT ![n] = g][k] = IF k = n THEN g ELSE frames[k]
    BY <1>1, <1>3, <2>2, ExceptSeq
  <2>4. QED
    BY <1>2, <2>1, <2>3
<1>6. \A k \in 1..n : FrameOK(frames'[k], k) /\ LexicalFrame(frames'[k])
  BY <1>1, <1>3, <1>5
<1>7. \A k \in 1..n : k # n => Opens(frames'[k])
  BY <1>4, <1>5
<1> HIDE DEF n
<1>8. IInv'
  BY <1>1, <1>5, <1>6, <1>7, FramesMakeInvariant
<1>9. QED
  BY <1>5, <1>8 DEF n

LEMMA CurrentScope ==
  ASSUME IInv
  PROVE  Current.scope \in Scope
BY CurrentOK DEF Frame

LEMMA PatternStep ==
  ASSUME IInv, Pattern
  PROVE  IInv' /\ Len(frames') = Len(frames)
<1> DEFINE kinds == {"match", "create", "merge"}
<1>1. PICK c \in NextClause(kinds) :
        Validated(c, Extended(Current.scope, c.elements),
          Reported({<<c.where, Extended(Current.scope, c.elements)>>}
                     \cup UNION {{<<c.elements[i].properties,
                                    Before(c, i, Current.scope)>>,
                                  <<c.elements[i].where,
                                    Before(c, i, Current.scope)>>} :
                                    i \in DOMAIN c.elements},
                   If(c.kind = "match" /\ c.where.aggregate,
                      "aggregate-in-match-where")))
  BY DEF Pattern
<1> DEFINE scope == Current.scope
           bs == c.elements
           n == Len(c.elements)
           after == Extended(scope, bs)
           uses(i) == {<<bs[i].properties, Before(c, i, scope)>>,
                       <<bs[i].where, Before(c, i, scope)>>}
           all == {<<c.where, after>>} \cup UNION {uses(i) : i \in DOMAIN bs}
           codes == If(c.kind = "match" /\ c.where.aggregate,
                       "aggregate-in-match-where")
<1>2. c \in PatternClause /\ c.kind \in kinds
  BY NextClauseType, ClauseOfKind
<1>3. bs \in Seq(Element) /\ c.where \in Expression
  BY <1>2 DEF PatternClause
<1>4. DOMAIN bs = 1..n /\ n \in Nat /\ \A i \in 1..n : bs[i] \in Element
  BY <1>3, LenProperties, MemberOfSeq
<1>5. \A i \in 1..n : /\ bs[i].var \in Var \cup {NoVar} /\ bs[i].binding \in Binding
                      /\ bs[i].properties \in Expression /\ bs[i].where \in Expression
  BY <1>4 DEF Element
<1>6. scope \in Scope
  BY CurrentScope
<1>7. ~Hides(c) /\ Introduces(c) = {bs[i].var : i \in 1..n} \ {NoVar}
  BY <1>2, <1>4, IntroducesPattern DEF Hides
<1> HIDE DEF bs, n, scope
<1>8. /\ after \in Scope
      /\ DOMAIN after = DOMAIN scope \cup ({bs[i].var : i \in 1..n} \ {NoVar})
  BY <1>4, <1>5, <1>6, ExtendedType
<1> HIDE DEF after
<1>9. ASSUME NEW u \in all
      PROVE  u[1] \in Expression
  <2>1. \A i \in DOMAIN bs : \A w \in uses(i) : w[1] \in Expression
    BY <1>4, <1>5
  <2>2. u = <<c.where, after>> \/ \E i \in DOMAIN bs : u \in uses(i)
    <3> HIDE DEF uses
    <3>1. QED
      OBVIOUS
  <2>3. QED
    <3> HIDE DEF uses
    <3>1. QED
      BY <1>3, <2>1, <2>2
<1>10. codes \in SUBSET ScopeCodes
  BY DEF If, ScopeCodes
<1> HIDE DEF all, codes, kinds
<1>11. Reported(all, codes) \in Report
  BY <1>9, <1>10, ReportedType
<1>12. Validated(c, after, Reported(all, codes))
  BY <1>1 DEF after, all, codes, bs, scope
<1>13. DOMAIN after = (IF Hides(c) THEN {} ELSE DOMAIN Current.scope) \cup Introduces(c)
  BY <1>7, <1>8 DEF scope
<1>14. QED
  BY <1>8, <1>11, <1>12, <1>13, ValidatedStep

\* Binding names of which nothing is known.
LEMMA ExtendedByNames ==
  ASSUME NEW base \in Scope, NEW vars \in Seq(Var \cup {NoVar})
  PROVE  /\ Extended(base, Unnamed(vars)) \in Scope
         /\ DOMAIN Extended(base, Unnamed(vars)) = DOMAIN base \cup (Range(vars) \ {NoVar})
<1> DEFINE bs == Unnamed(vars)
           n == Len(vars)
<1>1. /\ DOMAIN bs = 1..n
      /\ n \in Nat
      /\ \A i \in 1..n : /\ bs[i].var = vars[i]
                         /\ bs[i].var \in Var \cup {NoVar}
                         /\ bs[i].binding \in Binding
  BY UnnamedType
<1>2. DOMAIN vars = 1..n
  BY LenProperties
<1> HIDE DEF bs, n
<1>3. /\ Extended(base, bs) \in Scope
      /\ DOMAIN Extended(base, bs)
           = DOMAIN base \cup ({bs[i].var : i \in 1..n} \ {NoVar})
  BY <1>1, ExtendedType
<1>4. {bs[i].var : i \in 1..n} = Range(vars)
  BY <1>1, <1>2 DEF Range
<1>5. QED
  BY <1>3, <1>4 DEF bs

LEMMA UnwindStep ==
  ASSUME IInv, Unwind
  PROVE  IInv' /\ Len(frames') = Len(frames)
<1> DEFINE kinds == {"unwind"}
           after(c) == Extended(Current.scope, Unnamed(<<c.alias>>))
           report(c) == Reported({<<c.expression, Current.scope>>}, {})
<1>1. PICK c \in NextClause(kinds) : Validated(c, after(c), report(c))
  BY DEF Unwind
<1>2. c.kind = "unwind" /\ c \in UnwindClause
  BY NextClauseType, ClauseOfKind
<1>3. c.alias \in Var /\ c.expression \in Expression
  BY <1>2 DEF UnwindClause
<1>4. <<c.alias>> \in Seq(Var \cup {NoVar}) /\ Range(<<c.alias>>) = {c.alias}
  BY <1>3 DEF Range
<1>5. c.alias # NoVar
  BY <1>3, ScopeAssumption DEF ScopeAssumption
<1>6. after(c) \in Scope /\ DOMAIN after(c) = DOMAIN Current.scope \cup {c.alias}
  BY <1>4, <1>5, CurrentScope, ExtendedByNames
<1>7. ~Hides(c) /\ Introduces(c) = {c.alias}
  BY <1>2, IntroducesUnwind DEF Hides
<1>8. report(c) \in Report
  BY <1>3, ReportedType
<1> HIDE DEF after, report, kinds
<1>9. QED
  BY <1>1, <1>6, <1>7, <1>8, ValidatedStep

LEMMA LetStep ==
  ASSUME IInv, Let
  PROVE  IInv' /\ Len(frames') = Len(frames)
<1> DEFINE kinds == {"let"}
           aliases(c) == [i \in DOMAIN c.items |-> c.items[i].alias]
           after(c) == Extended(Current.scope, Unnamed(aliases(c)))
           report(c) == Reported(InScope(c.items, Current.scope), {})
<1>1. PICK c \in NextClause(kinds) : Validated(c, after(c), report(c))
  BY DEF Let
<1>2. c.kind = "let" /\ c \in LetClause
  BY NextClauseType, ClauseOfKind
<1>3. c.items \in Seq([alias: Var, expression: Expression])
  BY <1>2 DEF LetClause
<1>4. \A i \in DOMAIN c.items : c.items[i].alias \in Var /\ c.items[i].expression \in Expression
  <2>1. \A i \in DOMAIN c.items : c.items[i] \in [alias: Var, expression: Expression]
    BY <1>3, MemberOfSeq
  <2>2. QED
    BY <2>1
<1>5. DOMAIN c.items = 1..Len(c.items) /\ Len(c.items) \in Nat
  BY <1>3, LenProperties
<1>6. /\ aliases(c) \in Seq(Var \cup {NoVar})
      /\ Range(aliases(c)) = {c.items[i].alias : i \in DOMAIN c.items}
      /\ NoVar \notin Range(aliases(c))
  <2>1. aliases(c) \in [1..Len(c.items) -> Var]
    BY <1>4, <1>5
  <2>2. aliases(c) \in Seq(Var)
    BY <1>5, <2>1
  <2>3. aliases(c) \in Seq(Var \cup {NoVar})
    BY <2>2, SeqMonotonic
  <2>4. Range(aliases(c)) = {c.items[i].alias : i \in DOMAIN c.items}
    BY DEF Range
  <2>5. QED
    BY <1>4, <2>3, <2>4, ScopeAssumption DEF ScopeAssumption
<1>7. ~Hides(c) /\ Introduces(c) = {c.items[i].alias : i \in DOMAIN c.items}
  BY <1>2, IntroducesLet DEF Hides
<1>8. report(c) \in Report
  BY <1>4, ReportedType DEF InScope
<1> HIDE DEF aliases
<1>9. after(c) \in Scope /\ DOMAIN after(c) = DOMAIN Current.scope \cup Range(aliases(c))
  BY <1>6, CurrentScope, ExtendedByNames
<1> HIDE DEF after, report, kinds
<1>10. QED
  BY <1>1, <1>6, <1>7, <1>8, <1>9, ValidatedStep

LEMMA ItemsAreExpressions ==
  ASSUME NEW items \in Seq(Item), NEW scope, NEW u \in InScope(items, scope)
  PROVE  u[1] \in Expression
BY ItemType DEF InScope

LEMMA WithStep ==
  ASSUME IInv, With
  PROVE  IInv' /\ Len(frames') = Len(frames)
<1> DEFINE kinds == {"with"}
           scope == Current.scope
           base(c) == IF c.includeExisting THEN scope ELSE Empty
           after(c) == Extended(base(c), Projected(c.items, scope))
           uses(c) == InScope(c.items, scope)
                        \cup {<<c.where, after(c)>>, <<c.order, after(c)>>}
           codes(c) == ItemCodes(c.items) \cup PredicateCodes(c.where, c.items)
<1>1. PICK c \in NextClause(kinds) :
        Validated(c, after(c), Reported(uses(c), codes(c)))
  BY DEF With
<1>2. c.kind = "with" /\ c \in WithClause
  BY NextClauseType, ClauseOfKind
<1>3. c.items \in Seq(Item) /\ c.where \in Expression /\ c.order \in Expression
  BY <1>2 DEF WithClause
<1>4. base(c) \in Scope /\ DOMAIN base(c) = IF Hides(c) THEN {} ELSE DOMAIN scope
  BY <1>2, CurrentScope, EmptyIsScope DEF Hides
<1>5. Introduces(c) = {NameOf(c.items[i]) : i \in DOMAIN c.items} \ {NoVar}
  BY <1>2, IntroducesWith
<1>6. \A u \in uses(c) : u[1] \in Expression
  BY <1>3, ItemsAreExpressions
<1>7. codes(c) \in SUBSET ScopeCodes
  BY CodesType
<1> HIDE DEF base
<1>8. /\ after(c) \in Scope
      /\ DOMAIN after(c) = (IF Hides(c) THEN {} ELSE DOMAIN scope) \cup Introduces(c)
  BY <1>3, <1>4, <1>5, CurrentScope, ExtendedByItems
<1> HIDE DEF after, uses, codes, kinds
<1>9. Reported(uses(c), codes(c)) \in Report
  BY <1>6, <1>7, ReportedType
<1>10. QED
  BY <1>1, <1>8, <1>9, ValidatedStep

LEMMA ReturnStep ==
  ASSUME IInv, Return
  PROVE  IInv' /\ Len(frames') = Len(frames)
<1> DEFINE kinds == {"return"}
           scope == Current.scope
           uses(c) == InScope(c.items, scope) \cup {<<c.order, scope>>}
           codes(c) == ItemCodes(c.items) \cup PredicateCodes(c.order, c.items)
<1>1. PICK c \in NextClause(kinds) : Validated(c, scope, Reported(uses(c), codes(c)))
  BY DEF Return
<1>2. c.kind = "return" /\ c \in ReturnClause
  BY NextClauseType, ClauseOfKind
<1>3. c.items \in Seq(Item) /\ c.order \in Expression
  BY <1>2 DEF ReturnClause
<1>4. \A u \in uses(c) : u[1] \in Expression
  BY <1>3, ItemsAreExpressions
<1>5. codes(c) \in SUBSET ScopeCodes
  BY CodesType
<1>6. ~Hides(c) /\ Introduces(c) = {}
  BY <1>2, IntroducesNothing DEF Hides
<1> HIDE DEF uses, codes, kinds
<1>7. Reported(uses(c), codes(c)) \in Report
  BY <1>4, <1>5, ReportedType
<1>8. QED
  BY <1>1, <1>6, <1>7, CurrentScope, ValidatedStep

LEMMA ProcedureStep ==
  ASSUME IInv, Procedure
  PROVE  IInv' /\ Len(frames') = Len(frames)
<1> DEFINE kinds == {"procedure"}
           scope == Current.scope
           after(c) == Extended(scope, Unnamed(c.yields))
           report(c) == Reported({<<c.arguments, scope>>, <<c.where, after(c)>>}, {})
<1>1. PICK c \in NextClause(kinds) :
        IF c.named THEN Validated(c, after(c), report(c))
                   ELSE Validated(c, scope, Reported({}, {"missing-procedure"}))
  BY DEF Procedure
<1>2. c.kind = "procedure" /\ c \in ProcedureClause
  BY NextClauseType, ClauseOfKind
<1>3. /\ c.yields \in Seq(Var \cup {NoVar})
      /\ c.arguments \in Expression /\ c.where \in Expression
  BY <1>2 DEF ProcedureClause
<1>4. ~Hides(c) /\ Introduces(c) = IF c.named THEN Range(c.yields) \ {NoVar} ELSE {}
  BY <1>2, IntroducesProcedure DEF Hides
<1>5. after(c) \in Scope /\ DOMAIN after(c) = DOMAIN scope \cup (Range(c.yields) \ {NoVar})
  BY <1>3, CurrentScope, ExtendedByNames
<1> HIDE DEF after
<1>6. report(c) \in Report
  BY <1>3, ReportedType
<1>7. Reported({}, {"missing-procedure"}) \in Report
  BY ReportedType DEF ScopeCodes
<1> HIDE DEF report, kinds
<1>8. CASE c.named
  BY <1>1, <1>4, <1>5, <1>6, <1>8, ValidatedStep
<1>9. CASE ~c.named
  BY <1>1, <1>4, <1>7, <1>9, CurrentScope, ValidatedStep
<1>10. QED
  BY <1>8, <1>9

LEMMA UpdateStep ==
  ASSUME IInv, Update
  PROVE  IInv' /\ Len(frames') = Len(frames)
<1> DEFINE kinds == {"set", "delete"}
           report(c) == Reported({<<c.uses, Current.scope>>}, {})
<1>1. PICK c \in NextClause(kinds) : Validated(c, Current.scope, report(c))
  BY DEF Update
<1>2. c.kind \in {"set", "delete"} /\ c \in UpdateClause
  BY NextClauseType, ClauseOfKind
<1>3. ~Hides(c) /\ Introduces(c) = {}
  BY <1>2, IntroducesNothing DEF Hides
<1>4. report(c) \in Report
  BY <1>2, ReportedType DEF UpdateClause
<1> HIDE DEF report, kinds
<1>5. QED
  BY <1>1, <1>3, <1>4, CurrentScope, ValidatedStep

LEMMA RawStep ==
  ASSUME IInv, Raw
  PROVE  IInv' /\ Len(frames') = Len(frames)
<1> DEFINE kinds == {"raw"}
<1>1. PICK c \in NextClause(kinds) : Validated(c, Current.scope, Reported({}, {}))
  BY DEF Raw
<1>2. ~Hides(c) /\ Introduces(c) = {}
  BY NextClauseType, IntroducesNothing DEF Hides
<1>3. Reported({}, {}) \in Report
  BY ReportedType
<1> HIDE DEF kinds
<1>4. QED
  BY <1>1, <1>2, <1>3, CurrentScope, ValidatedStep

-----------------------------------------------------------------------------
(***************************************************************************)
(* Entering and leaving a subquery.                                        *)
(***************************************************************************)
LEMMA EnterStep ==
  ASSUME IInv, EnterSubquery
  PROVE  IInv' /\ Len(frames') = Len(frames) + 1
<1> DEFINE n == Len(frames)
           f == frames[n]
<1>1. PICK c \in NextClause({"subquery"}) :
        /\ Len(frames) < Len(MaxClauses)
        /\ frames' =
             Append([frames EXCEPT ![n] =
                       Grown(Current, c,
                         Reported({}, If(c.import \cap DOMAIN Current.scope # c.import,
                                         "subquery-import-undefined")))],
                    Opened(c.import \cap DOMAIN Current.scope,
                           Restrict(Current.scope, c.import \cap DOMAIN Current.scope)))
  BY DEF EnterSubquery
<1> DEFINE imported == c.import \cap DOMAIN Current.scope
           report == Reported({}, If(imported # c.import, "subquery-import-undefined"))
           g == Grown(Current, c, report)
           body == Opened(imported, Restrict(Current.scope, imported))
<1>2. /\ frames \in Seq(Frame) /\ n \in Nat \ {0} /\ Len(MaxClauses) \in Nat
      /\ DOMAIN frames = 1..n
      /\ \A k \in 1..n : FrameOK(frames[k], k) /\ LexicalFrame(frames[k])
  BY CurrentOK
<1>3. /\ c \in Clause /\ c.kind = "subquery" /\ c.returned = {}
      /\ Len(f.clauses) < MaxClauses[n] /\ MaxClauses[n] \in Nat
  BY NextClauseType DEF Current
<1>4. ~Hides(c) /\ Introduces(c) = {}
  BY <1>3, IntroducesSubquery DEF Hides
<1>5. report \in Report
  BY ReportedType DEF If, ScopeCodes
<1>6. FrameOK(g, n) /\ LexicalFrame(g) /\ Opens(g)
  <2>1. f \in Frame /\ f.scope \in Scope /\ FrameOK(f, n) /\ LexicalFrame(f)
    BY <1>2 DEF FrameOK, Frame
  <2>2. g = [f EXCEPT !.clauses = Append(f.clauses, c),
                         !.reports = Append(f.reports, report),
                         !.scope = f.scope]
    BY <2>1 DEF Grown, Current, Frame
  <2>3. g.clauses = Append(f.clauses, c) /\ f.clauses \in Seq(Clause)
    BY <2>1, <2>2 DEF Frame
  <2>4. /\ g.clauses # <<>>
        /\ g.clauses[Len(g.clauses)] = c
    BY <1>3, <2>3, AppendProperties
  <2>5. Opens(g)
    BY <1>3, <2>4 DEF Opens
  <2> HIDE DEF f, g, n, report
  <2>6. DOMAIN f.scope = (IF Hides(c) THEN {} ELSE DOMAIN f.scope) \cup Introduces(c)
    BY <1>4
  <2>7. FrameOK(g, n) /\ LexicalFrame(g)
    BY <1>3, <1>5, <2>1, <2>2, <2>6, GrownFrame
  <2>8. QED
    BY <2>5, <2>7
<1>7. FrameOK(body, n + 1) /\ LexicalFrame(body)
  <2>1. Current.scope \in Scope
    BY CurrentScope
  <2>2. imported \in SUBSET Var
    BY <2>1, ScopeIsFunction
  <2>3. Restrict(Current.scope, imported) \in [imported -> Binding]
    BY <2>1, ScopeIsFunction DEF Restrict
  <2>4. /\ Restrict(Current.scope, imported) \in Scope
        /\ DOMAIN Restrict(Current.scope, imported) = imported
    BY <2>2, <2>3, FunctionIsScope
  <2>5. /\ body.clauses = <<>> /\ body.reports = <<>>
        /\ body.imported = imported /\ DOMAIN body.scope = imported
    BY <2>4 DEF Opened
  <2>6. body \in Frame
    BY <2>2, <2>4, EmptySeq DEF Opened, Frame
  <2>7. n + 1 \in 1..Len(MaxClauses)
    BY <1>1, <1>2
  <2>8. MaxClauses[n + 1] \in Nat
    BY <2>7, ScopeAssumption, ElementOfSeq DEF ScopeAssumption
  <2> HIDE DEF body, imported, n
  <2>9. Len(body.clauses) = 0 /\ Len(body.reports) = 0
    BY <2>5, EmptySeq
  <2>10. Visible(body, 0) = imported
    BY <2>2, <2>5 DEF Visible, Reaches
  <2>11. QED
    BY <2>5, <2>6, <2>8, <2>9, <2>10 DEF FrameOK, LexicalFrame
<1>8. \A k \in 1..n : k # n => Opens(frames[k])
  BY <1>2 DEF IInv, OpenIsLast
<1> DEFINE outer == [frames EXCEPT ![n] = g]
<1>9. /\ outer \in Seq(Frame) /\ Len(outer) = n
      /\ \A k \in 1..n : outer[k] = IF k = n THEN g ELSE frames[k]
  <2> HIDE DEF g
  <2>1. n \in 1..Len(frames) /\ g \in Frame
    BY <1>2, <1>6 DEF FrameOK
  <2>2. QED
    BY <1>2, <2>1, ExceptSeq
<1>10. frames' = Append(outer, body)
  BY <1>1
<1> HIDE DEF outer, body, g
<1>11. body \in Frame
  BY <1>7 DEF FrameOK
<1>12. /\ frames' \in Seq(Frame) /\ Len(frames') = n + 1 /\ frames'[n + 1] = body
       /\ \A k \in 1..n : frames'[k] = outer[k]
  <2> HIDE DEF n
  <2>1. QED
    BY <1>9, <1>10, <1>11, AppendProperties
<1>13. \A k \in 1..(n + 1) : FrameOK(frames'[k], k) /\ LexicalFrame(frames'[k])
  <2> HIDE DEF n
  <2>1. QED
    BY <1>2, <1>6, <1>7, <1>9, <1>12
<1>14. \A k \in 1..(n + 1) : k # n + 1 => Opens(frames'[k])
  <2> HIDE DEF n
  <2>1. QED
    BY <1>2, <1>6, <1>8, <1>9, <1>12
<1>15. n + 1 \in Nat \ {0} /\ n + 1 <= Len(MaxClauses)
  BY <1>1, <1>2
<1> HIDE DEF n
<1>16. IInv'
  BY <1>12, <1>13, <1>14, <1>15, FramesMakeInvariant
<1>17. QED
  BY <1>12, <1>16 DEF n

\* A frame whose subquery was closed.
LEMMA ClosedFrame ==
  ASSUME NEW f, NEW k, FrameOK(f, k), LexicalFrame(f), Opens(f),
         NEW exports \in Scope, NEW g, g = Closed(f, exports)
  PROVE  /\ FrameOK(g, k) /\ LexicalFrame(g)
         /\ g.scope = Imported(f.scope, exports)
<1> DEFINE n == Len(f.clauses)
           c == [f.clauses[n] EXCEPT !.returned = DOMAIN exports]
           codes == f.reports[n].codes \cup ExportCodes(f.scope, exports)
           report == [f.reports[n] EXCEPT !.codes = codes]
<1>1. f \in Frame /\ Len(f.reports) = n
  BY DEF FrameOK
<1>2. /\ f.clauses \in Seq(Clause) /\ f.reports \in Seq(Report)
      /\ f.imported \in SUBSET Var /\ f.scope \in Scope
  BY <1>1 DEF Frame
<1>3. n \in Nat \ {0} /\ f.clauses[n] \in Clause /\ f.reports[n] \in Report
  BY <1>1, <1>2, EmptySeq, ElementOfSeq DEF Opens
<1>4. DOMAIN exports \in SUBSET Var
  BY ScopeIsFunction
<1>5. c \in Clause
  <2>1. f.clauses[n] \in SubqueryClause
    BY <1>3, ClauseOfKind DEF Opens
  <2>2. c \in SubqueryClause
    BY <1>4, <2>1 DEF SubqueryClause
  <2>3. QED
    BY <2>2 DEF Clause
<1>6. report \in Report
  <2>1. codes \in SUBSET ScopeCodes
    BY <1>3, CodesType DEF Report
  <2> HIDE DEF codes
  <2>2. QED
    BY <1>3, <2>1 DEF Report
<1>7. /\ g.scope = Imported(f.scope, exports)
      /\ g.clauses = [f.clauses EXCEPT ![n] = c]
      /\ g.reports = [f.reports EXCEPT ![n] = report]
      /\ g.imported = f.imported
  BY <1>1 DEF Closed, Frame
<1>8. Visible(g, n) = Visible(f, n) \cup DOMAIN exports
  <2>1. f.clauses[n] \in SubqueryClause
    BY <1>3, ClauseOfKind DEF Opens
  <2>2. c.kind = "subquery" /\ c.returned = DOMAIN exports
    BY <2>1 DEF SubqueryClause, Opens
  <2>3. f.clauses[n].kind = "subquery" /\ f.clauses[n].returned = {}
    BY DEF Opens
  <2> HIDE DEF c
  <2>4. g.clauses[n] = c /\ \A i \in 1..n : i # n => g.clauses[i] = f.clauses[i]
    BY <1>2, <1>3, <1>7, LenProperties
  <2>5. g.imported = f.imported
    BY <1>7
  <2> HIDE DEF n
  <2>6. QED
    BY <1>3, <1>4, <2>2, <2>3, <2>4, <2>5, VisibleReturned
<1> HIDE DEF c, report
<1>9. g.clauses \in Seq(Clause) /\ Len(g.clauses) = n
  <2>1. n \in 1..Len(f.clauses)
    BY <1>3
  <2>2. QED
    BY <1>2, <1>5, <1>7, <2>1, ExceptSeq
<1>10. g.reports \in Seq(Report) /\ Len(g.reports) = n
  <2>1. n \in 1..Len(f.reports)
    BY <1>1, <1>3
  <2>2. QED
    BY <1>1, <1>2, <1>6, <1>7, <2>1, ExceptSeq
<1>11. g.scope \in Scope /\ DOMAIN g.scope = DOMAIN f.scope \cup DOMAIN exports
  <2>1. /\ Imported(f.scope, exports) \in Scope
        /\ DOMAIN Imported(f.scope, exports) = DOMAIN f.scope \cup DOMAIN exports
    BY <1>2, ImportedType
  <2>2. g.scope = Imported(f.scope, exports)
    BY <1>7
  <2>3. QED
    BY <2>1, <2>2
<1>12. g \in Frame
  <2>1. g = [clauses |-> g.clauses, imported |-> g.imported, scope |-> g.scope,
             reports |-> g.reports]
    BY <1>1 DEF Closed, Frame
  <2>2. QED
    BY <1>2, <1>7, <1>9, <1>10, <1>11, <2>1 DEF Frame
<1>13. LexicalFrame(g)
  BY <1>8, <1>9, <1>11 DEF LexicalFrame
<1>14. FrameOK(g, k)
  BY <1>9, <1>10, <1>12 DEF FrameOK
<1>15. QED
  BY <1>7, <1>13, <1>14

LEMMA LeaveStep ==
  ASSUME IInv, LeaveSubquery
  PROVE  /\ IInv'
         /\ Len(frames') = Len(frames) - 1 /\ Len(frames) - 1 \in DOMAIN frames
         /\ frames'[Len(frames')].scope
              = Imported(frames[Len(frames) - 1].scope, Exports(Current))
<1> DEFINE n == Len(frames) - 1
           exports == Exports(Current)
           g == Closed(frames[n], exports)
<1>1. /\ frames \in Seq(Frame) /\ Len(frames) \in Nat \ {0}
      /\ Len(frames) <= Len(MaxClauses) /\ Len(MaxClauses) \in Nat
      /\ DOMAIN frames = 1..Len(frames)
      /\ \A k \in DOMAIN frames : FrameOK(frames[k], k) /\ LexicalFrame(frames[k])
      /\ Current \in Frame
  BY CurrentOK
<1>2. n \in Nat \ {0} /\ n \in DOMAIN frames /\ n # Len(frames) /\ Len(frames) = n + 1
  <2>1. Len(frames) > 1
    BY DEF LeaveSubquery
  <2>2. \A m \in Nat : m > 1 => /\ m - 1 \in Nat \ {0} /\ m - 1 \in 1..m
                                /\ m - 1 # m /\ m = (m - 1) + 1
    OBVIOUS
  <2>3. QED
    BY <1>1, <2>1, <2>2
<1>3. frames' = [k \in 1..n |-> IF k = n THEN g ELSE frames[k]] /\ n = Len(frames) - 1
  BY DEF LeaveSubquery
<1> HIDE DEF n
<1>4. \A k \in 1..n : Opens(frames[k])
  BY <1>1, <1>2 DEF IInv, OpenIsLast
<1>5. exports \in Scope
  BY <1>1, ExportsType DEF Frame
<1> HIDE DEF exports
<1>6. FrameOK(g, n) /\ LexicalFrame(g) /\ g.scope = Imported(frames[n].scope, exports)
  <2>1. FrameOK(frames[n], n) /\ LexicalFrame(frames[n]) /\ Opens(frames[n])
    BY <1>1, <1>2, <1>4
  <2>2. QED
    BY <1>5, <2>1, ClosedFrame
<1> HIDE DEF g
<1>7. \A k \in 1..n : frames'[k] \in Frame
  BY <1>1, <1>2, <1>3, <1>6 DEF FrameOK
<1>8. frames' \in Seq(Frame) /\ Len(frames') = n
  BY <1>2, <1>3, <1>7
<1>9. \A k \in 1..n : FrameOK(frames'[k], k) /\ LexicalFrame(frames'[k])
  BY <1>1, <1>2, <1>3, <1>6
<1>10. \A k \in 1..n : k # n => Opens(frames'[k])
  BY <1>2, <1>3, <1>4
<1>11. n <= Len(MaxClauses)
  BY <1>1, <1>2
<1>12. IInv'
  <2>1. QED
    BY <1>2, <1>8, <1>9, <1>10, <1>11, FramesMakeInvariant
<1>13. frames'[n] = g
  BY <1>2, <1>3
<1>14. QED
  BY <1>2, <1>3, <1>6, <1>8, <1>12, <1>13 DEF exports

-----------------------------------------------------------------------------
(***************************************************************************)
(* What a clause of which nothing is reported uses.                        *)
(***************************************************************************)
Silent(f) ==
  \A n \in DOMAIN f.clauses :
    f.reports[n].undefined = {} => UsedAfter(f.clauses[n]) \subseteq Visible(f, n)

\* What is visible at a place depends on the clauses up to it.
LEMMA VisiblePrefix ==
  ASSUME NEW f, NEW g, NEW n \in Nat, g.imported = f.imported,
         \A i \in 1..n : g.clauses[i] = f.clauses[i]
  PROVE  Visible(g, n) = Visible(f, n)
<1>1. ASSUME NEW v, NEW i \in 0..n
      PROVE  Reaches(g, v, i, n) <=> Reaches(f, v, i, n)
  <2>1. \A j \in (i + 1)..n : g.clauses[j] = f.clauses[j]
    OBVIOUS
  <2>2. i # 0 => g.clauses[i] = f.clauses[i]
    OBVIOUS
  <2>3. QED
    BY <2>1, <2>2 DEF Reaches
<1>2. QED
  BY <1>1 DEF Visible

\* Another clause says nothing new of those before it.
LEMMA SilentGrown ==
  ASSUME NEW f, f.clauses \in Seq(Clause), Len(f.reports) = Len(f.clauses),
         f.reports \in Seq(Report), Silent(f),
         NEW c, NEW report, NEW g, g.imported = f.imported,
         g.clauses = Append(f.clauses, c), g.reports = Append(f.reports, report),
         report.undefined = {} => UsedAfter(c) \subseteq Visible(g, Len(g.clauses))
  PROVE  Silent(g)
<1> DEFINE m == Len(f.clauses)
<1>1. m \in Nat /\ DOMAIN f.clauses = 1..m
  BY LenProperties
<1>2. /\ Len(g.clauses) = m + 1 /\ DOMAIN g.clauses = 1..(m + 1)
      /\ g.clauses[m + 1] = c /\ \A i \in 1..m : g.clauses[i] = f.clauses[i]
  <2>1. f.clauses \in Seq(Clause \cup {c}) /\ c \in Clause \cup {c}
    OBVIOUS
  <2>2. QED
    BY <2>1, AppendProperties, LenProperties
<1>3. g.reports[m + 1] = report /\ \A i \in 1..m : g.reports[i] = f.reports[i]
  <2>1. f.reports \in Seq(Report \cup {report}) /\ report \in Report \cup {report}
    OBVIOUS
  <2>2. QED
    BY <2>1, AppendProperties
<1> HIDE DEF m
<1>4. ASSUME NEW n \in 1..m, g.reports[n].undefined = {}
      PROVE  UsedAfter(g.clauses[n]) \subseteq Visible(g, n)
  <2>1. n \in Nat /\ \A i \in 1..n : g.clauses[i] = f.clauses[i]
    BY <1>1, <1>2
  <2>2. Visible(g, n) = Visible(f, n)
    BY <2>1, VisiblePrefix
  <2>3. UsedAfter(f.clauses[n]) \subseteq Visible(f, n)
    BY <1>1, <1>3, <1>4 DEF Silent
  <2>4. QED
    BY <1>2, <2>2, <2>3
<1>5. \A n \in 1..(m + 1) : n \in 1..m \/ n = m + 1
  BY <1>1
<1>6. QED
  BY <1>2, <1>3, <1>4, <1>5 DEF Silent

\* The frame that is validated, before and after.
LEMMA ValidatedFrames ==
  ASSUME IInv, NEW c, NEW scope, NEW report, Validated(c, scope, report)
  PROVE  LET n == Len(frames)
             f == frames[n]
             g == frames'[n]
         IN  /\ DOMAIN frames' = DOMAIN frames /\ n \in DOMAIN frames
             /\ \A k \in DOMAIN frames : k # n => frames'[k] = frames[k]
             /\ g.imported = f.imported /\ g.scope = scope
             /\ g.clauses = Append(f.clauses, c) /\ g.reports = Append(f.reports, report)
<1>1. /\ DOMAIN frames = 1..Len(frames) /\ Len(frames) \in Nat \ {0}
      /\ Current \in Frame
  BY CurrentOK
<1> DEFINE n == Len(frames)
           h == [Grown(Current, c, report) EXCEPT !.scope = scope]
<1>2. frames' = [frames EXCEPT ![n] = h] /\ n \in DOMAIN frames
  BY <1>1 DEF Validated
<1>3. /\ h.imported = Current.imported /\ h.scope = scope
      /\ h.clauses = Append(Current.clauses, c)
      /\ h.reports = Append(Current.reports, report)
  BY <1>1 DEF Grown, Frame
<1> HIDE DEF h
<1>4. /\ DOMAIN frames' = DOMAIN frames /\ frames'[n] = h
      /\ \A k \in DOMAIN frames : k # n => frames'[k] = frames[k]
  BY <1>1, <1>2
<1>5. QED
  BY <1>2, <1>3, <1>4 DEF Current

LEMMA ValidatedIsSilent ==
  ASSUME IInv, IInv', SilentMeansVisible,
         NEW c, NEW scope, NEW report, Validated(c, scope, report),
         report.undefined = {} => UsedAfter(c) \subseteq DOMAIN scope
  PROVE  SilentMeansVisible'
<1> DEFINE n == Len(frames)
           f == frames[n]
           g == frames'[n]
<1>1. /\ DOMAIN frames' = DOMAIN frames /\ n \in DOMAIN frames
      /\ \A k \in DOMAIN frames : k # n => frames'[k] = frames[k]
      /\ g.imported = f.imported /\ g.scope = scope
      /\ g.clauses = Append(f.clauses, c) /\ g.reports = Append(f.reports, report)
  BY ValidatedFrames
<1>2. f.clauses \in Seq(Clause) /\ f.reports \in Seq(Report) /\ Len(f.reports) = Len(f.clauses)
  BY <1>1, CurrentOK DEF FrameOK, Frame
<1>3. Silent(f)
  BY <1>1 DEF SilentMeansVisible, Silent
<1>4. DOMAIN g.scope = Visible(g, Len(g.clauses))
  BY <1>1 DEF IInv, ScopeIsLexical
<1>5. Silent(g)
  <2> HIDE DEF f, g
  <2>1. QED
    BY <1>1, <1>2, <1>3, <1>4, SilentGrown
<1>6. \A k \in DOMAIN frames' : Silent(frames'[k])
  <2> SUFFICES ASSUME NEW k \in DOMAIN frames' PROVE Silent(frames'[k])
    OBVIOUS
  <2>1. CASE k = n
    BY <1>5, <2>1
  <2>2. CASE k # n
    <3>1. frames'[k] = frames[k] /\ k \in DOMAIN frames
      BY <1>1, <2>2
    <3>2. Silent(frames[k])
      BY <3>1 DEF SilentMeansVisible, Silent
    <3>3. QED
      BY <3>1, <3>2
  <2>3. QED
    BY <2>1, <2>2
<1>7. QED
  BY <1>6 DEF SilentMeansVisible, Silent

\* Only a WITH uses names after it has hidden some, and it has reported what
\* it uses by then.
LEMMA WithIsSilent ==
  ASSUME IInv, IInv', SilentMeansVisible, With
  PROVE  SilentMeansVisible'
<1> DEFINE after(c) == Extended(IF c.includeExisting THEN Current.scope ELSE Empty,
                                Projected(c.items, Current.scope))
           uses(c) == InScope(c.items, Current.scope)
                        \cup {<<c.where, after(c)>>, <<c.order, after(c)>>}
           report(c) == Reported(uses(c), ItemCodes(c.items) \cup PredicateCodes(c.where, c.items))
<1>1. PICK c \in NextClause({"with"}) : Validated(c, after(c), report(c))
  BY DEF With
<1>2. c.kind = "with"
  BY NextClauseType
<1>3. ASSUME report(c).undefined = {}
      PROVE  UsedAfter(c) \subseteq DOMAIN after(c)
  <2> DEFINE d == DOMAIN after(c)
  <2>1. UNION {u[1].vars \ DOMAIN u[2] : u \in uses(c)} = {}
    BY <1>3 DEF Reported
  <2>2. <<c.where, after(c)>> \in uses(c) /\ <<c.order, after(c)>> \in uses(c)
    OBVIOUS
  <2> HIDE DEF after, uses
  <2>3. \A u \in uses(c) : u[1].vars \ DOMAIN u[2] = {}
    BY <2>1
  <2>4. c.where.vars \ d = {} /\ c.order.vars \ d = {}
    BY <2>2, <2>3
  <2>5. QED
    BY <1>2, <2>4 DEF UsedAfter
<1> HIDE DEF after, report
<1>4. QED
  BY <1>1, <1>3, ValidatedIsSilent

LEMMA OthersAreSilent ==
  ASSUME IInv, IInv', SilentMeansVisible,
         Pattern \/ Unwind \/ Let \/ Return \/ Procedure \/ Update \/ Raw
  PROVE  SilentMeansVisible'
<1>1. \E kinds \in SUBSET {"match", "create", "merge", "unwind", "let", "return",
                            "procedure", "set", "delete", "raw"} :
        \E c \in NextClause(kinds) : \E scope, report : Validated(c, scope, report)
  <2>1. CASE Pattern
    BY <2>1 DEF Pattern
  <2>2. CASE Unwind
    BY <2>2 DEF Unwind
  <2>3. CASE Let
    BY <2>3 DEF Let
  <2>4. CASE Return
    BY <2>4 DEF Return
  <2>5. CASE Procedure
    BY <2>5 DEF Procedure
  <2>6. CASE Update
    BY <2>6 DEF Update
  <2>7. CASE Raw
    BY <2>7 DEF Raw
  <2>8. QED
    BY <2>1, <2>2, <2>3, <2>4, <2>5, <2>6, <2>7
<1>2. PICK kinds \in SUBSET {"match", "create", "merge", "unwind", "let", "return",
                              "procedure", "set", "delete", "raw"} :
        \E c \in NextClause(kinds) : \E scope, report : Validated(c, scope, report)
  BY <1>1
<1> SUFFICES ASSUME NEW c \in NextClause(kinds), NEW scope, NEW report,
                    Validated(c, scope, report)
             PROVE  SilentMeansVisible'
  BY <1>2
<1>3. c.kind # "with"
  BY <1>2, NextClauseType
<1>4. UsedAfter(c) = {}
  BY <1>3 DEF UsedAfter
<1>5. QED
  BY <1>4, ValidatedIsSilent

LEMMA EnterIsSilent ==
  ASSUME IInv, SilentMeansVisible, EnterSubquery
  PROVE  SilentMeansVisible'
<1> DEFINE n == Len(frames)
           imported(c) == c.import \cap DOMAIN Current.scope
           report(c) == Reported({}, If(imported(c) # c.import, "subquery-import-undefined"))
           body(c) == Opened(imported(c), Restrict(Current.scope, imported(c)))
           g(c) == Grown(Current, c, report(c))
<1>1. PICK c \in NextClause({"subquery"}) :
        frames' = Append([frames EXCEPT ![n] = g(c)], body(c))
  BY DEF EnterSubquery
<1>2. /\ frames \in Seq(Frame) /\ n \in Nat \ {0} /\ DOMAIN frames = 1..n
      /\ Current \in Frame /\ FrameOK(frames[n], n)
  BY CurrentOK
<1>3. UsedAfter(c) = {}
  BY NextClauseType DEF UsedAfter
<1>4. Silent(g(c))
  <2> DEFINE f == Current
             r == report(c)
             h == g(c)
  <2>1. /\ f.clauses \in Seq(Clause) /\ f.reports \in Seq(Report)
        /\ Len(f.reports) = Len(f.clauses)
    BY <1>2 DEF FrameOK, Frame, Current
  <2>2. Silent(f)
    BY <1>2 DEF SilentMeansVisible, Silent, Current
  <2>3. h.imported = f.imported /\ h.clauses = Append(f.clauses, c)
        /\ h.reports = Append(f.reports, r)
    BY <1>2 DEF Grown, Frame
  <2>4. r.undefined = {} => UsedAfter(c) \subseteq Visible(h, Len(h.clauses))
    BY <1>3
  <2> HIDE DEF f, r, h
  <2>5. Silent(h)
    BY <2>1, <2>2, <2>3, <2>4, SilentGrown
  <2>6. QED
    BY <2>5 DEF h
<1>5. Silent(body(c))
  <2>1. body(c).clauses = <<>>
    BY DEF Opened
  <2>2. DOMAIN body(c).clauses = {}
    BY <2>1
  <2>3. QED
    BY <2>2 DEF Silent
<1> HIDE DEF g, body
<1>6. /\ DOMAIN frames' = 1..(n + 1) /\ frames'[n + 1] = body(c) /\ frames'[n] = g(c)
      /\ \A k \in 1..n : k # n => frames'[k] = frames[k]
  <2> DEFINE S == Frame \cup {g(c), body(c)}
             outer == [frames EXCEPT ![n] = g(c)]
  <2>1. /\ outer \in Seq(S) /\ Len(outer) = n
        /\ \A k \in 1..n : outer[k] = IF k = n THEN g(c) ELSE frames[k]
    <3>1. frames \in Seq(S) /\ g(c) \in S /\ n \in 1..Len(frames)
      BY <1>2
    <3> HIDE DEF S
    <3>2. QED
      BY <3>1, ExceptSeq
  <2>2. body(c) \in S /\ frames' = Append(outer, body(c))
    BY <1>1
  <2> HIDE DEF S, outer, n
  <2>3. QED
    BY <1>2, <2>1, <2>2, AppendProperties, LenProperties
<1>7. \A k \in DOMAIN frames' : Silent(frames'[k])
  <2> HIDE DEF n
  <2>1. \A k \in 1..n : k # n => Silent(frames[k])
    BY <1>2 DEF SilentMeansVisible, Silent
  <2>2. \A k \in 1..(n + 1) : k = n + 1 \/ k = n \/ (k \in 1..n /\ k # n)
    BY <1>2
  <2>3. QED
    BY <1>4, <1>5, <1>6, <2>1, <2>2
<1>8. QED
  BY <1>7 DEF SilentMeansVisible, Silent

\* What a subquery returns is bound at its own place, and a subquery uses none
\* of it itself.
LEMMA LeaveIsSilent ==
  ASSUME IInv, SilentMeansVisible, LeaveSubquery
  PROVE  SilentMeansVisible'
<1> DEFINE n == Len(frames) - 1
           f == frames[n]
           g == Closed(f, Exports(Current))
<1>1. /\ frames' = [k \in 1..n |-> IF k = n THEN g ELSE frames[k]]
      /\ n \in DOMAIN frames /\ \A k \in 1..n : k \in DOMAIN frames
      /\ f \in Frame /\ FrameOK(f, n) /\ Opens(f)
  <2>1. /\ Len(frames) \in Nat /\ DOMAIN frames = 1..Len(frames)
        /\ \A k \in DOMAIN frames : FrameOK(frames[k], k)
    BY CurrentOK
  <2>2. Len(frames) > 1 /\ frames' = [k \in 1..n |-> IF k = n THEN g ELSE frames[k]]
    BY DEF LeaveSubquery
  <2>3. n \in DOMAIN frames /\ n # Len(frames) /\ \A k \in 1..n : k \in DOMAIN frames
    <3>1. Len(frames) > 1 /\ Len(frames) \in Nat
      BY <2>1 DEF LeaveSubquery
    <3>2. \A l \in Nat : l > 1 => /\ l - 1 \in 1..l /\ l - 1 # l
                                  /\ \A k \in 1..(l - 1) : k \in 1..l
      OBVIOUS
    <3>3. QED
      BY <2>1, <3>1, <3>2
  <2> HIDE DEF g, n
  <2>4. FrameOK(f, n) /\ Opens(f)
    BY <2>1, <2>3 DEF IInv, OpenIsLast
  <2>5. QED
    BY <2>2, <2>3, <2>4 DEF FrameOK
<1> DEFINE m == Len(f.clauses)
<1>2. /\ f.clauses \in Seq(Clause) /\ m \in Nat /\ DOMAIN f.clauses = 1..m
      /\ DOMAIN f.reports = 1..m
  BY <1>1, LenProperties DEF FrameOK, Frame
<1>3. /\ g.imported = f.imported /\ DOMAIN g.clauses = 1..m
      /\ g.clauses[m] = [f.clauses[m] EXCEPT !.returned = DOMAIN Exports(Current)]
      /\ \A i \in 1..m : i # m => g.clauses[i] = f.clauses[i] /\ g.reports[i] = f.reports[i]
  <2> DEFINE exports == Exports(Current)
             c == [f.clauses[m] EXCEPT !.returned = DOMAIN exports]
             codes == f.reports[m].codes \cup ExportCodes(f.scope, exports)
             report == [f.reports[m] EXCEPT !.codes = codes]
  <2>1. /\ g.clauses = [f.clauses EXCEPT ![m] = c]
        /\ g.reports = [f.reports EXCEPT ![m] = report]
        /\ g.imported = f.imported
    BY <1>1 DEF Closed, Frame
  <2>2. m \in 1..m
    <3>1. m # 0
      BY <1>1, <1>2, EmptySeq DEF Opens
    <3>2. QED
      BY <1>2, <3>1
  <2> HIDE DEF c, report, m, f, g
  <2>3. QED
    BY <1>2, <2>1, <2>2 DEF c
<1>4. UsedAfter(g.clauses[m]) = {}
  <2>1. f.clauses[m].kind = "subquery" /\ f.clauses[m] \in Clause
    BY <1>1, <1>2, EmptySeq, ElementOfSeq DEF Opens
  <2>2. f.clauses[m] \in SubqueryClause
    BY <2>1, ClauseOfKind
  <2>3. g.clauses[m].kind = "subquery"
    BY <1>3, <2>2 DEF SubqueryClause
  <2>4. QED
    BY <2>3 DEF UsedAfter
<1>5. Silent(f)
  BY <1>1 DEF SilentMeansVisible, Silent
<1> HIDE DEF g, f, m
<1>6. Silent(g)
  <2>1. ASSUME NEW k \in 1..m, k # m, g.reports[k].undefined = {}
        PROVE  UsedAfter(g.clauses[k]) \subseteq Visible(g, k)
    <3>1. k \in Nat /\ \A i \in 1..k : g.clauses[i] = f.clauses[i]
      BY <1>2, <1>3, <2>1
    <3>2. Visible(g, k) = Visible(f, k)
      BY <1>3, <3>1, VisiblePrefix
    <3>3. UsedAfter(f.clauses[k]) \subseteq Visible(f, k)
      BY <1>2, <1>3, <1>5, <2>1 DEF Silent
    <3>4. QED
      BY <1>3, <2>1, <3>2, <3>3
  <2>2. QED
    BY <1>3, <1>4, <2>1 DEF Silent
<1>7. \A k \in DOMAIN frames' : Silent(frames'[k])
  <2> HIDE DEF n
  <2>1. \A k \in 1..n : Silent(frames[k])
    BY <1>1 DEF SilentMeansVisible, Silent
  <2>2. DOMAIN frames' = 1..n /\ \A k \in 1..n : frames'[k] = IF k = n THEN g ELSE frames[k]
    BY <1>1
  <2>3. QED
    BY <1>6, <2>1, <2>2
<1>8. QED
  BY <1>7 DEF SilentMeansVisible, Silent

-----------------------------------------------------------------------------
(***************************************************************************)
(* Theorems.                                                               *)
(***************************************************************************)
LEMMA NextInvariant ==
  ASSUME IInv, Next
  PROVE  IInv'
<1>1. CASE Ended
  BY <1>1 DEF Ended, IInv, TypeOK, ScopeIsLexical, OpenIsLast
<1>2. QED
  BY <1>1, PatternStep, UnwindStep, LetStep, WithStep, ReturnStep, ProcedureStep,
     UpdateStep, RawStep, EnterStep, LeaveStep DEF Next

LEMMA Invariant == Spec => []IInv
<1>1. Init => IInv
  BY InitInvariant
<1>2. IInv /\ [Next]_frames => IInv'
  <2> SUFFICES ASSUME IInv, [Next]_frames
               PROVE  IInv'
    OBVIOUS
  <2>1. CASE Next
    BY <2>1, NextInvariant
  <2>2. CASE UNCHANGED frames
    BY <2>2 DEF IInv, TypeOK, ScopeIsLexical, OpenIsLast
  <2>3. QED
    BY <2>1, <2>2
<1>3. QED
  BY <1>1, <1>2, PTL DEF Spec

\* The type of the walk, for any clauses and any depth of subqueries.
THEOREM TypeCorrect == Spec => []TypeOK
<1>1. IInv => TypeOK
  BY DEF IInv
<1>2. QED
  BY <1>1, Invariant, PTL

\* The scope the validator mutates binds exactly the names that the text of
\* the query makes visible, for any query (validateClause, validate.ts).
THEOREM ScopesAreLexical == Spec => []ScopeIsLexical
<1>1. IInv => ScopeIsLexical
  BY DEF IInv
<1>2. QED
  BY <1>1, Invariant, PTL

\* A WITH that filters or orders by a name it has just hidden reports it, after
\* any clauses and in any subquery (validateClause, case "WithClause").
THEOREM SilenceMeansVisible == Spec => []SilentMeansVisible
<1>1. Init => SilentMeansVisible
  <2> SUFFICES ASSUME Init PROVE SilentMeansVisible
    OBVIOUS
  <2>1. frames = <<Opened({}, Empty)>> /\ DOMAIN frames = {1}
    BY DEF Init
  <2>2. \A k \in DOMAIN frames : DOMAIN frames[k].clauses = {}
    BY <2>1 DEF Opened
  <2>3. QED
    BY <2>2 DEF SilentMeansVisible
<1>2. IInv /\ IInv' /\ SilentMeansVisible /\ [Next]_frames => SilentMeansVisible'
  <2> SUFFICES ASSUME IInv, IInv', SilentMeansVisible, [Next]_frames
               PROVE  SilentMeansVisible'
    OBVIOUS
  <2>1. CASE UNCHANGED frames
    BY <2>1 DEF SilentMeansVisible
  <2>2. CASE Ended
    BY <2>2 DEF Ended, SilentMeansVisible
  <2>3. QED
    BY <2>1, <2>2, WithIsSilent, OthersAreSilent, EnterIsSilent, LeaveIsSilent DEF Next
<1>3. QED
  BY <1>1, <1>2, Invariant, PTL DEF Spec

\* The end of a subquery changes nothing that was bound around it and adds no
\* name its final RETURN does not project (validateSubqueryCall).
THEOREM NoLeaks == Spec => SubqueriesDoNotLeak
<1> DEFINE A == Len(frames') < Len(frames)
                  => Keeps(frames[Len(frames) - 1].scope, frames'[Len(frames')].scope,
                           Returned(Current))
<1>1. ASSUME IInv, [Next]_frames
      PROVE  [A]_frames
  <2>1. Len(frames) \in Nat
    BY <1>1, CurrentOK
  <2>2. CASE UNCHANGED frames
    BY <2>2
  <2>3. CASE LeaveSubquery
    <3> DEFINE scope == frames[Len(frames) - 1].scope
               exports == Exports(Current)
    <3>1. scope \in Scope
      BY <1>1, <2>3, CurrentOK, LeaveStep DEF FrameOK, Frame
    <3>2. exports \in Scope /\ DOMAIN exports \subseteq Returned(Current)
      BY <1>1, CurrentOK, ExportsType DEF Frame
    <3>3. frames'[Len(frames')].scope = Imported(scope, exports)
      BY <1>1, <2>3, LeaveStep
    <3> HIDE DEF scope, exports
    <3>4. Keeps(scope, Imported(scope, exports), Returned(Current))
      BY <3>1, <3>2, ImportedType DEF Keeps
    <3>5. QED
      BY <3>3, <3>4 DEF scope
  <2>4. CASE EnterSubquery
    BY <1>1, <2>1, <2>4, EnterStep
  <2>5. CASE Pattern \/ Unwind \/ Let \/ With \/ Return \/ Procedure \/ Update \/ Raw
    BY <1>1, <2>1, <2>5, PatternStep, UnwindStep, LetStep, WithStep, ReturnStep,
       ProcedureStep, UpdateStep, RawStep
  <2>6. CASE Ended
    BY <2>6 DEF Ended
  <2>7. QED
    BY <1>1, <2>2, <2>3, <2>4, <2>5, <2>6 DEF Next
<1>2. IInv /\ [Next]_frames => [A]_frames
  BY <1>1
<1>3. QED
  BY <1>2, Invariant, PTL DEF Spec, SubqueriesDoNotLeak

=============================================================================
