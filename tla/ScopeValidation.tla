--------------------------- MODULE ScopeValidation ---------------------------
(***************************************************************************)
(* How the validator follows variables through a query                     *)
(* (src/src/validate.ts): one scope for the clauses of a query, changed as *)
(* they are walked, and a scope of its own for the body of each CALL       *)
(* subquery.  The query is not given at the start: every step is the next  *)
(* clause of some query, and the handler that validates it.                *)
(*                                                                         *)
(* Of an expression the model keeps what the scope has to say about it.    *)
(* Types, parameters, schema names, procedures and dialects do not change  *)
(* a scope and are left out.                                               *)
(***************************************************************************)
EXTENDS Integers, Sequences, FiniteSetsExt, Functions

CONSTANTS
  Var, NoVar,      \* variables, and the variable or alias that is not given
  Owner, NoOwner,  \* labels and relationship types of the contract
  Key,             \* properties
  KeysOf,          \* owner |-> the properties it declares
  Clauses,         \* the clauses queries are made of
  MaxClauses       \* bound: how many clauses a query has, a subquery in it...

\* VariableBinding; "owner" is the first of its known labels or types.
Binding == [kind: {"node", "relationship", "path", "unknown"},
            owner: Owner \cup {NoOwner}]

Unknown == [kind |-> "unknown", owner |-> NoOwner]

Scope == UNION {[names -> Binding] : names \in SUBSET Var}
Empty == [v \in {} |-> Unknown]

\* "vars" are the variables an expression refers to, "reads" the properties
\* of variables; "name" is the variable it consists of, if it is one;
\* "aggregate" and "free" tell whether it calls an aggregate function and
\* whether it refers to a variable outside of one.
Expression == [vars: SUBSET Var, reads: SUBSET (Var \X Key),
               name: Var \cup {NoVar}, aggregate: BOOLEAN, free: BOOLEAN]

\* The variables of the pattern, in the order of validatePath: the name of
\* the path, its head, then each relationship before the node it leads to.
Element == [var: Var \cup {NoVar}, binding: Binding, properties: Expression,
            where: Expression]
\* A projection.  "order" of the clauses below is ORDER BY; SKIP and LIMIT are
\* taken to refer to no variable.
Item == [alias: Var \cup {NoVar}, expression: Expression]

PatternClause   == [kind: {"match", "create", "merge"}, elements: Seq(Element),
                    where: Expression]
UnwindClause    == [kind: {"unwind"}, expression: Expression, alias: Var]
LetClause       == [kind: {"let"}, items: Seq([alias: Var, expression: Expression])]
WithClause      == [kind: {"with"}, includeExisting: BOOLEAN, items: Seq(Item),
                    where: Expression, order: Expression]
ReturnClause    == [kind: {"return"}, items: Seq(Item), order: Expression]
ProcedureClause == [kind: {"procedure"}, named: BOOLEAN, arguments: Expression,
                    yields: Seq(Var \cup {NoVar}), where: Expression]
UpdateClause    == [kind: {"set", "delete"}, uses: Expression]
RawClause       == [kind: {"raw"}]

\* A subquery, as its outer query knows it: "returned" is filled in when the
\* end of the subquery is reached.
SubqueryClause  == [kind: {"subquery"}, import: SUBSET Var, returned: SUBSET Var]

Clause == PatternClause \cup UnwindClause \cup LetClause \cup WithClause
            \cup ReturnClause \cup ProcedureClause \cup UpdateClause
            \cup RawClause \cup SubqueryClause

ASSUME ScopeAssumption ==
  /\ NoVar \notin Var /\ NoOwner \notin Owner
  /\ KeysOf \in [Owner -> SUBSET Key]
  /\ Clauses \subseteq Clause
  /\ \A c \in Clauses : c.kind = "subquery" => c.returned = {}
  /\ MaxClauses \in Seq(Nat) /\ MaxClauses # <<>>

VARIABLE frames  \* the query and the subqueries open in it, innermost last

ScopeCodes ==
  {"aggregate-in-match-where", "aggregate-alias-required",
   "ambiguous-aggregation-expression", "invalid-aggregation",
   "missing-procedure", "subquery-import-undefined", "subquery-missing-return",
   "subquery-variable-shadowing"}

\* What was reported of a clause: undefined-variable per variable,
\* unknown-property per variable and property, and the other codes.
Report == [undefined: SUBSET Var, unknown: SUBSET (Var \X Key),
           codes: SUBSET ScopeCodes]

Frame == [clauses: Seq(Clause), imported: SUBSET Var, scope: Scope,
          reports: Seq(Report)]

TypeOK ==
  /\ frames \in Seq(Frame)
  /\ Len(frames) \in 1..Len(MaxClauses)
  /\ \A k \in DOMAIN frames :
       /\ Len(frames[k].reports) = Len(frames[k].clauses)
       /\ Len(frames[k].clauses) <= MaxClauses[k]

Opened(imported, scope) ==
  [clauses |-> <<>>, imported |-> imported, scope |-> scope, reports |-> <<>>]

Init == frames = <<Opened({}, Empty)>>

-----------------------------------------------------------------------------
(***************************************************************************)
(* Scopes and what is reported of an expression in a scope.                *)
(***************************************************************************)
Settings(bs, v) == {i \in DOMAIN bs : bs[i].var = v}

\* The scope after scope.set for one binding after the other.
Extended(scope, bs) ==
  [v \in (DOMAIN scope \cup {bs[i].var : i \in DOMAIN bs}) \ {NoVar} |->
     IF Settings(bs, v) = {} THEN scope[v] ELSE bs[Max(Settings(bs, v))].binding]

Unnamed(vars) == [i \in DOMAIN vars |-> [var |-> vars[i], binding |-> Unknown]]

NameOf(item) == IF item.alias # NoVar THEN item.alias ELSE item.expression.name

\* inferExpressionBinding: a variable hands on its binding.
BindingOf(e, scope) ==
  IF e.name \in DOMAIN scope THEN scope[e.name] ELSE Unknown

Projected(items, scope) ==
  [i \in DOMAIN items |-> [var     |-> NameOf(items[i]),
                           binding |-> BindingOf(items[i].expression, scope)]]

UnknownReads(e, scope) ==
  {r \in e.reads : /\ r[1] \in DOMAIN scope
                   /\ scope[r[1]].owner # NoOwner
                   /\ r[2] \notin KeysOf[scope[r[1]].owner]}

\* "uses" are the expressions of a clause, each with the scope it is
\* validated in.
Reported(uses, codes) ==
  [undefined |-> UNION {u[1].vars \ DOMAIN u[2] : u \in uses},
   unknown   |-> UNION {UnknownReads(u[1], u[2]) : u \in uses},
   codes     |-> codes]

If(condition, code) == {c \in {code} : condition}

HasAggregate(items) == \E i \in DOMAIN items : items[i].expression.aggregate

ItemCodes(items) ==
  If(\E i \in DOMAIN items :
       items[i].expression.aggregate /\ items[i].alias = NoVar,
     "aggregate-alias-required")
    \cup If(\E i \in DOMAIN items :
              items[i].expression.aggregate /\ items[i].expression.free,
            "ambiguous-aggregation-expression")

PredicateCodes(e, items) ==
  If(e.aggregate /\ HasAggregate(items), "invalid-aggregation")

InScope(items, scope) == {<<items[i].expression, scope>> : i \in DOMAIN items}

-----------------------------------------------------------------------------
(***************************************************************************)
(* validateClause: one action per kind of clause.                          *)
(***************************************************************************)
Current == frames[Len(frames)]

Grown(f, c, report) ==
  [f EXCEPT !.clauses = Append(f.clauses, c), !.reports = Append(f.reports, report)]

\* A clause of this query is validated: its report, and the scope after it.
Validated(c, scope, report) ==
  frames' = [frames EXCEPT ![Len(frames)] =
               [Grown(Current, c, report) EXCEPT !.scope = scope]]

NextClause(kinds) ==
  {c \in Clauses : c.kind \in kinds /\ Len(Current.clauses) < MaxClauses[Len(frames)]}

Before(c, i, scope) == Extended(scope, SubSeq(c.elements, 1, i - 1))

\* Match, create and merge; "where" of a merge stands for its SET items.  An
\* element is validated before its variable is bound.
Pattern ==
  \E c \in NextClause({"match", "create", "merge"}) :
    LET scope == Current.scope
        after == Extended(scope, c.elements)
    IN  Validated(c, after,
          Reported({<<c.where, after>>}
                     \cup UNION {{<<c.elements[i].properties, Before(c, i, scope)>>,
                                  <<c.elements[i].where, Before(c, i, scope)>>} :
                                    i \in DOMAIN c.elements},
                   If(c.kind = "match" /\ c.where.aggregate,
                      "aggregate-in-match-where")))

Unwind ==
  \E c \in NextClause({"unwind"}) :
    Validated(c, Extended(Current.scope, Unnamed(<<c.alias>>)),
              Reported({<<c.expression, Current.scope>>}, {}))

\* Every expression is validated before any alias is bound.
Let ==
  \E c \in NextClause({"let"}) :
    Validated(c,
      Extended(Current.scope, Unnamed([i \in DOMAIN c.items |-> c.items[i].alias])),
      Reported(InScope(c.items, Current.scope), {}))

\* Mutant: the scope is replaced only after everything was validated.
WithLate ==
  \E c \in NextClause({"with"}) :
    LET scope == Current.scope
        after == Extended(IF c.includeExisting THEN scope ELSE Empty,
                          Projected(c.items, scope))
    IN  Validated(c, after,
          Reported(InScope(c.items, scope) \cup {<<c.where, scope>>, <<c.order, scope>>},
                   ItemCodes(c.items) \cup PredicateCodes(c.where, c.items)))

\* Mutant: a WITH adds to the scope and never clears it.
WithKeepsAll ==
  \E c \in NextClause({"with"}) :
    LET scope == Current.scope
        after == Extended(scope, Projected(c.items, scope))
    IN  Validated(c, after,
          Reported(InScope(c.items, scope) \cup {<<c.where, after>>, <<c.order, after>>},
                   ItemCodes(c.items) \cup PredicateCodes(c.where, c.items)))

\* The scope is replaced before where and orderBy are validated.
With ==
  \E c \in NextClause({"with"}) :
    LET scope == Current.scope
        after == Extended(IF c.includeExisting THEN scope ELSE Empty,
                          Projected(c.items, scope))
    IN  Validated(c, after,
          Reported(InScope(c.items, scope) \cup {<<c.where, after>>, <<c.order, after>>},
                   ItemCodes(c.items) \cup PredicateCodes(c.where, c.items)))

\* orderBy is validated in the scope of the items: what they are called is
\* not in it.
Return ==
  \E c \in NextClause({"return"}) :
    Validated(c, Current.scope,
      Reported(InScope(c.items, Current.scope) \cup {<<c.order, Current.scope>>},
               ItemCodes(c.items) \cup PredicateCodes(c.order, c.items)))

\* A call that names no procedure is not looked at any further.
Procedure ==
  \E c \in NextClause({"procedure"}) :
    IF c.named THEN
    LET after == Extended(Current.scope, Unnamed(c.yields))
    IN  Validated(c, after,
          Reported({<<c.arguments, Current.scope>>, <<c.where, after>>}, {}))
    ELSE Validated(c, Current.scope, Reported({}, {"missing-procedure"}))

Update ==
  \E c \in NextClause({"set", "delete"}) :
    Validated(c, Current.scope, Reported({<<c.uses, Current.scope>>}, {}))

Raw ==
  \E c \in NextClause({"raw"}) :
    Validated(c, Current.scope, Reported({}, {}))

-----------------------------------------------------------------------------
(***************************************************************************)
(* validateSubqueryCall: the imported bindings are all the body sees, and  *)
(* what its final RETURN names is all that comes back.                     *)
(***************************************************************************)
EnterSubquery ==
  \E c \in NextClause({"subquery"}) :
    LET imported == c.import \cap DOMAIN Current.scope
        report   == Reported({}, If(imported # c.import, "subquery-import-undefined"))
    IN  /\ Len(frames) < Len(MaxClauses)
        /\ frames' = Append([frames EXCEPT ![Len(frames)] = Grown(Current, c, report)],
                            Opened(imported, Restrict(Current.scope, imported)))

\* exportedSubqueryBindings.
Exports(frame) ==
  LET final == frame.clauses[Len(frame.clauses)]
  IN  IF frame.clauses # <<>> /\ final.kind = "return"
        THEN Extended(Empty, Projected(final.items, frame.scope)) ELSE Empty

\* Mutant: a name that is bound outside is bound again.
ImportedOver(scope, exports) ==
  [v \in DOMAIN scope \cup DOMAIN exports |->
     IF v \in DOMAIN exports THEN exports[v] ELSE scope[v]]

\* What is returned is bound outside, unless the name is taken.
Imported(scope, exports) ==
  [v \in DOMAIN scope \cup DOMAIN exports |->
     IF v \in DOMAIN scope THEN scope[v] ELSE exports[v]]

ExportCodes(scope, exports) ==
  If(DOMAIN exports = {}, "subquery-missing-return")
    \cup If(DOMAIN exports \cap DOMAIN scope # {}, "subquery-variable-shadowing")

Closed(outer, exports) ==
  LET n      == Len(outer.clauses)
      c      == [outer.clauses[n] EXCEPT !.returned = DOMAIN exports]
      codes  == outer.reports[n].codes \cup ExportCodes(outer.scope, exports)
      report == [outer.reports[n] EXCEPT !.codes = codes]
  IN  [outer EXCEPT !.scope   = Imported(outer.scope, exports),
                    !.clauses = [outer.clauses EXCEPT ![n] = c],
                    !.reports = [outer.reports EXCEPT ![n] = report]]

LeaveSubquery ==
  /\ Len(frames) > 1
  /\ frames' = [k \in 1..(Len(frames) - 1) |->
                  IF k = Len(frames) - 1 THEN Closed(frames[k], Exports(Current))
                                         ELSE frames[k]]

\* The query may end with any clause.
Ended == Len(frames) = 1 /\ UNCHANGED frames

Next ==
  \/ Pattern \/ Unwind \/ Let \/ With \/ Return \/ Procedure \/ Update \/ Raw
  \/ EnterSubquery \/ LeaveSubquery \/ Ended

Spec == Init /\ [][Next]_frames

-----------------------------------------------------------------------------
(***************************************************************************)
(* Properties.                                                             *)
(***************************************************************************)
\* The names a clause introduces, read off the text of the query.
Introduces(c) ==
  CASE c.kind \in {"match", "create", "merge"} ->
         {c.elements[i].var : i \in DOMAIN c.elements} \ {NoVar}
    [] c.kind = "unwind"    -> {c.alias}
    [] c.kind = "let"       -> {c.items[i].alias : i \in DOMAIN c.items}
    [] c.kind = "with"      -> {NameOf(c.items[i]) : i \in DOMAIN c.items} \ {NoVar}
    [] c.kind = "procedure" -> IF c.named THEN Range(c.yields) \ {NoVar} ELSE {}
    [] c.kind = "subquery"  -> c.returned
    [] OTHER                -> {}

\* A WITH hides what was introduced before it, unless it keeps the existing.
Hides(c) == c.kind = "with" /\ ~c.includeExisting

\* Introduced by clause i of the frame (imported, for 0) and not hidden by
\* any clause from i + 1 to n.
Reaches(frame, v, i, n) ==
  /\ IF i = 0 THEN v \in frame.imported ELSE v \in Introduces(frame.clauses[i])
  /\ \A j \in (i + 1)..n : ~Hides(frame.clauses[j])

Visible(frame, n) == {v \in Var : \E i \in 0..n : Reaches(frame, v, i, n)}

\* Whatever was walked before, inside and outside of subqueries, a scope that
\* is changed clause by clause binds exactly the names that the text of its
\* query makes visible at that place.
ScopeIsLexical ==
  \A k \in DOMAIN frames :
    DOMAIN frames[k].scope = Visible(frames[k], Len(frames[k].clauses))

UsedAfter(c) == IF c.kind = "with" THEN c.where.vars \cup c.order.vars ELSE {}

\* A clause of which nothing is reported filters and orders by names alone
\* that the text makes visible after it: a WITH never lets a name through
\* that it has just hidden.
SilentMeansVisible ==
  \A k \in DOMAIN frames : \A n \in DOMAIN frames[k].clauses :
    frames[k].reports[n].undefined = {}
      => UsedAfter(frames[k].clauses[n]) \subseteq Visible(frames[k], n)

Returned(frame) ==
  UNION {{NameOf(c.items[i]) : i \in DOMAIN c.items} :
           c \in {d \in {frame.clauses[n] : n \in {Len(frame.clauses)} \ {0}} :
                    d.kind = "return"}}

Keeps(scope, later, returned) ==
  /\ DOMAIN scope \subseteq DOMAIN later
  /\ \A v \in DOMAIN scope : later[v] = scope[v]
  /\ DOMAIN later \ DOMAIN scope \subseteq returned

\* The end of a subquery changes no binding of the query around it, and adds
\* none but those its final RETURN names: nothing leaks.
SubqueriesDoNotLeak ==
  [][Len(frames') < Len(frames)
       => Keeps(frames[Len(frames) - 1].scope, frames'[Len(frames')].scope,
                Returned(Current))]_frames

=============================================================================
