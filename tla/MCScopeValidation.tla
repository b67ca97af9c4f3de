-------------------------- MODULE MCScopeValidation --------------------------
(***************************************************************************)
(* The clauses of small queries over three variables, for ScopeValidation. *)
(***************************************************************************)
EXTENDS ScopeValidation, TLC

MCKeysOf == "Person" :> {"name"} @@ "KNOWS" :> {"since"}

Expr(vars, reads, name, aggregate, free) ==
  [vars |-> vars, reads |-> reads, name |-> name, aggregate |-> aggregate,
   free |-> free]

Nothing    == Expr({}, {}, NoVar, FALSE, FALSE)
Use(v)     == Expr({v}, {}, v, FALSE, TRUE)
Prop(v, k) == Expr({v}, {<<v, k>>}, NoVar, FALSE, TRUE)
Count(v)   == Expr({v}, {}, NoVar, TRUE, FALSE)

As(e, alias) == [expression |-> e, alias |-> alias]

Bind(kind, owner) == [kind |-> kind, owner |-> owner]

Elem(var, kind, owner, properties, where) ==
  [var |-> var, binding |-> Bind(kind, owner), properties |-> properties,
   where |-> where]

NodeElem(var, owner) == Elem(var, "node", owner, Nothing, Nothing)

Patterned(kind, elements, where) ==
  [kind |-> kind, elements |-> elements, where |-> where]

\* A path whose relationship looks at the node it leads to before that is
\* bound; a node that filters itself; a node without its label.
MCPatterns ==
  {Patterned("match", <<NodeElem("a", "Person")>>, Nothing),
   Patterned("merge", <<NodeElem("a", NoOwner)>>, Prop("a", "age")),
   Patterned("match", <<NodeElem("a", NoOwner)>>, Nothing),
   Patterned("match", <<Elem("a", "node", "Person", Nothing, Prop("a", "name"))>>,
             Nothing),
   Patterned("match",
     <<Elem("c", "path", NoOwner, Nothing, Nothing),
       NodeElem(NoVar, "Person"),
       Elem("b", "relationship", "KNOWS", Prop("a", "name"), Nothing),
       NodeElem("a", "Person")>>, Count("b"))}

With1(existing, item, where) ==
  [kind |-> "with", includeExisting |-> existing, items |-> <<item>>,
   where |-> where, order |-> Nothing]

MCProjections ==
  {With1(FALSE, As(Use("a"), "b"), Use("a")), With1(FALSE, As(Use("a"), NoVar), Nothing),
   With1(TRUE, As(Count("a"), NoVar), Count("b"))}

Return1(item, order) == [kind |-> "return", items |-> <<item>>, order |-> order]

MCReturns ==
  {Return1(As(Prop("a", "age"), NoVar), Nothing), Return1(As(Use("b"), NoVar), Nothing),
   Return1(As(Count("a"), "c"), Use("c"))}

MCOthers ==
  {[kind |-> "unwind", expression |-> Use("a"), alias |-> "b"],
   [kind |-> "let", items |-> <<As(Use("a"), "b"), As(Use("b"), "c")>>],
   [kind |-> "procedure", named |-> TRUE, arguments |-> Use("a"),
    yields |-> <<"c", NoVar>>, where |-> Use("c")],
   [kind |-> "procedure", named |-> FALSE, arguments |-> Use("a"),
    yields |-> <<"c">>, where |-> Nothing],
   [kind |-> "set", uses |-> Prop("b", "name")],
   [kind |-> "raw"]}

MCSubqueries ==
  {[kind |-> "subquery", import |-> vs, returned |-> {}] : vs \in {{"a"}, {"a", "b"}}}

\* A query of three clauses, a subquery of two.
MCMaxClauses == <<3, 2>>

MCClauses ==
  MCPatterns \cup MCProjections \cup MCReturns \cup MCOthers \cup MCSubqueries

=============================================================================
