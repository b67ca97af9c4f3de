--------------------------- MODULE MCPolicyReview ----------------------------
(***************************************************************************)
(* Queries over two variables, a tenant and a secret, for PolicyReview.    *)
(***************************************************************************)
EXTENDS PolicyReview, TLC

MCCanonicalLabel == "Person" :> "Person" @@ "Human" :> "Person" @@ "City" :> "City"
MCCanonicalType  == "KNOWS" :> "KNOWS" @@ "LIKES" :> "LIKES"

Prop(v, k)   == [kind |-> "prop", name |-> v, key |-> k]
Parameter(p) == [kind |-> "param", name |-> p, key |-> ""]
Literal      == [kind |-> "literal", name |-> "", key |-> ""]

Comparison(op, left, right) ==
  [kind |-> "comparison", op |-> op, left |-> left, right |-> right]

Scoped  == Comparison("=", Prop("p", "tenant"), Parameter("t"))
Swapped == Comparison("IN", Parameter("t"), Prop("p", "tenant"))
Fixed   == Comparison("=", Prop("p", "tenant"), Literal)
Unequal == Comparison("<>", Prop("p", "tenant"), Parameter("t"))
Opaque  == [kind |-> "raw"]
Other   == Comparison("=", Prop("q", "tenant"), Parameter("t"))

Junction(op, first, second) ==
  [kind |-> "junction", op |-> op, first |-> first, second |-> second]
Not(e) == [kind |-> "negation", op |-> "NOT", first |-> e, second |-> e]

MCPredicates ==
  {Swapped, Fixed, Unequal, Other, Not(Scoped), Junction("OR", Scoped, Fixed),
   Junction("AND", Other, Junction("AND", Fixed, Scoped)),
   Junction("AND", Opaque, Not(Scoped)), Junction("XOR", Scoped, Fixed)}

MCExpression ==
  {Scoped, Swapped, Fixed, Unequal, Other, Opaque, Not(Scoped),
   Junction("AND", Fixed, Scoped)} \cup MCPredicates

MCSize[e \in MCExpression] ==
  CASE e.kind = "junction" -> 1 + MCSize[e.first] + MCSize[e.second]
    [] e.kind = "negation" -> 1 + MCSize[e.first]
    [] OTHER               -> 0

-----------------------------------------------------------------------------
Node(v, labels, properties) ==
  [var |-> v, labels |-> labels, properties |-> properties,
   where |-> NoExpression]
Empty == [k \in {} |-> Literal]
MCPropertyMaps ==
  {Empty, "tenant" :> Parameter("t"), "name" :> Literal}

Path(node) == [head |-> node, tail |-> <<>>]
Step(from, v, types, maxHops, to) ==
  [head |-> from,
   tail |-> <<[rel |-> [var |-> v, types |-> types, maxHops |-> maxHops],
               node |-> to]>>]

ClauseOf(k, patterns, where, items, limit, body) ==
  [kind |-> k, patterns |-> patterns, where |-> where, items |-> items,
   limit |-> limit, body |-> body]
Match(patterns, where) == ClauseOf("match", patterns, where, <<>>, Absent, <<>>)
ItemOf(reads, whole, alias) == [reads |-> reads, whole |-> whole, alias |-> alias]
Return(items, limit) == ClauseOf("return", <<>>, NoExpression, items, limit, <<>>)

Person == Node("p", <<"Person">>, Empty)

MCClauses ==
  {Match(<<Path(Person)>>, e) : e \in MCPredicates}
  \cup
  {Match(<<Path(Node("p", <<"Human">>, "tenant" :> Parameter("t")))>>, NoExpression),
   Match(<<Path(Node("p", <<"Human">>, "name" :> Literal))>>, NoExpression),
   Match(<<Path([Person EXCEPT !.where = Scoped])>>, Fixed),
   Match(<<Path(Node("p", <<>>, Empty)), Path(Node("q", <<"City">>, "name" :> Literal))>>,
         NoExpression),
   Match(<<Step(Node("q", <<"City">>, Empty), NoVar, <<"KNOWS">>, Dynamic,
                Node("p", <<>>, Empty))>>, NoExpression),
   Match(<<Step(Node(NoVar, <<"City">>, "name" :> Literal), "q", <<"KNOWS">>, 6,
                Person)>>, NoExpression),
   ClauseOf("call",
     <<>>, NoExpression, <<>>, Absent,
     <<Match(<<Step(Node(NoVar, <<>>, Empty), "p", <<"LIKES">>, Absent,
                    Node("q", <<"City">>, Empty))>>, NoExpression),
       Return(<<ItemOf({}, "q", NoVar)>>, Absent)>>),
   ClauseOf("with", <<>>, NoExpression, <<ItemOf({}, "p", "q")>>, Absent, <<>>),
   ClauseOf("set", <<>>, NoExpression, <<>>, Absent, <<>>),
   Return(<<ItemOf({<<"p", "ssn">>}, NoVar, NoVar)>>, Absent),
   Return(<<ItemOf({}, "p", NoVar), ItemOf({<<"q", "ssn">>}, NoVar, NoVar)>>, 80),
   Return(<<ItemOf({<<"q", "name">>}, NoVar, NoVar)>>, 300)}

-----------------------------------------------------------------------------
Rules ==
  [sensitiveLabels |-> {[label |-> "Human", severity |-> "info"]},
   sensitiveRelationships |-> {[type |-> "LIKES", severity |-> "unset"]},
   sensitiveProperties |->
     {[ownerKind |-> "any", owner |-> "Person", property |-> "ssn", severity |-> "unset"],
      [ownerKind |-> "relationship", owner |-> "any", property |-> "name",
       severity |-> "warning"]},
   tenantScopes |->
     {[label |-> "Person", property |-> "tenant", parameter |-> "t", severity |-> "unset"]}]

OpenRules ==
  [Rules EXCEPT !.sensitiveLabels = {}, !.sensitiveProperties = {},
     !.tenantScopes =
       {[label |-> "Person", property |-> "tenant", parameter |-> "any",
         severity |-> "warning"]}]

CityStatistics ==
  [nodes |-> "City" :> [count |-> 20000, indexed |-> {}]
               @@ "Person" :> [count |-> 60, indexed |-> {"tenant"}],
   relationships |-> "KNOWS" :> 500]

Operator(name, rows, hits) ==
  [name |-> name, estimatedRows |-> rows, dbHits |-> hits]

Plan == <<1>> :> Operator("ProduceResults", 10, Absent)
          @@ <<1, 1>> :> Operator("Eager", 9000, 30000)
          @@ <<1, 1, 1>> :> Operator("Expand", 20000, 30000)
SmallPlan == <<1>> :> Operator("NodeIndexSeek", 1, 2)

Evidence(rules, statistics, plan) ==
  [rules |-> rules, statistics |-> statistics, planner |-> plan]

Call(given, evidence, limit, hops) ==
  [given |-> given, evidence |-> evidence, defaultLimit |-> limit,
   defaultMaxHops |-> hops]

Full  == Evidence(Rules, CityStatistics, BuildPlannerEstimate(Plan))
Open == Evidence(OpenRules, CityStatistics, BuildPlannerEstimate(SmallPlan))

MCCalls ==
  {Call(BuiltinProfiles.strict, Full, 100, 5),
   Call(PolicyOptionsFromProfile(BuiltinProfiles.exploration,
          "maxReturnLimit" :> 0 @@ "maxRelationshipHops" :> 4
            @@ "maxLabelScanRows" :> 50), Open, Absent, Absent),
   Call(PolicyOptionsFromProfile(BuiltinProfiles.maintenance,
          "requireLimit" :> FALSE @@ "maxEstimatedRows" :> 50000
            @@ "maxDbHits" :> 50000), Full, 90, Absent),
   Call(BuiltinProfiles.exploration,
        [Full EXCEPT !.planner = BuildPlannerEstimate(NoEstimate.operators)], 400, 7),
   Call([allowWrites |-> TRUE, requireLimit |-> FALSE, maxReturnLimit |-> 60],
        Evidence(OpenRules, NoStatistics, NoEstimate), 60, 5)}

\* A query of three clauses, then one of one clause.
MCMaxClauses == <<3, 1>>

=============================================================================
