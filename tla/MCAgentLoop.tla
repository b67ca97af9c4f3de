---------------------------- MODULE MCAgentLoop ----------------------------
(***************************************************************************)
(* A small contract, the drafts a model makes of it, and the options a     *)
(* caller may pass, for AgentLoop.                                         *)
(***************************************************************************)
EXTENDS AgentLoop, TLC

\* Spellings that differ in case have one key.
MCKeyOf ==
  [s \in {"Person", "person", "human", "Company", "Ghost", "WORKS_AT",
          "employed", "EMPLOYS", "KNOWS"} |-> IF s = "person" THEN "Person" ELSE s]

MCNodes ==
  <<[name |-> "Person", aliases |-> {"human"}, properties |-> {"name"}],
    [name |-> "Company", aliases |-> {}, properties |-> {"name"}]>>

\* "human" is an alias of Person, whose own name the second entry claims.
ChainedNodes ==
  <<[name |-> "Person", aliases |-> {"human"}, properties |-> {"name"}],
    [name |-> "Company", aliases |-> {"Person"}, properties |-> {"name"}]>>

Rel(type, aliases, from, to, directed) ==
  [type |-> type, aliases |-> aliases, from |-> from, to |-> to,
   directed |-> directed]

MCRelationships ==
  <<Rel("WORKS_AT", {"employed"}, {"Person"}, {"Company"}, TRUE),
    Rel("EMPLOYS", {}, {"Company"}, {"Person"}, TRUE),
    Rel("KNOWS", {}, {"Person"}, {"Person"}, FALSE)>>

-----------------------------------------------------------------------------
Node(labels, properties) == [labels |-> labels, properties |-> properties]

Step(types, direction, maxHops, label) ==
  [rel  |-> [types |-> types, direction |-> direction, maxHops |-> maxHops],
   node |-> Node(<<label>>, {})]

Clause(kind, patterns, limit, parses) ==
  [kind |-> kind, patterns |-> patterns, limit |-> limit, parses |-> parses]

Match(patterns) == Clause("match", patterns, Unset, TRUE)
Return(limit)   == Clause("return", <<>>, limit, TRUE)
Raw(parses)     == Clause("raw", <<>>, Unset, parses)
Write(kind, ps) == Clause(kind, ps, Unset, TRUE)
Call(body) == [kind |-> "call", patterns |-> <<>>, limit |-> Unset,
               parses |-> TRUE, body |-> body]

Heads == {Node(<<>>, {}), Node(<<"Person">>, {"name"}), Node(<<"person">>, {}),
          Node(<<"Company">>, {"age"}), Node(<<"Ghost">>, {})}

SinglePaths == {[head |-> h, tail |-> <<>>] : h \in Heads}

Steps == {Step(ts, d, h, l) :
            ts \in {<<>>, <<"WORKS_AT">>, <<"employed">>, <<"KNOWS">>,
                    <<"EMPLOYS", "WORKS_AT">>},
            d \in Directions, h \in {Unset, 3, Unbounded},
            l \in {"human", "Company"}}

StepPaths == {[head |-> h, tail |-> <<s>>] :
                h \in {Node(<<"Person">>, {"name"}), Node(<<"human">>, {})},
                s \in Steps}

LongPath == [head |-> Node(<<"human">>, {}),
             tail |-> <<Step(<<"employed">>, "in", Unbounded, "Company"),
                        Step(<<"EMPLOYS">>, "undirected", 9, "human")>>]

Reads == {<<Match(<<p>>), Return(l)>> :
            p \in SinglePaths \cup StepPaths \cup {LongPath}, l \in {Unset, 500}}
  \cup {<<Match(<<p, LongPath>>), Return(10)>> : p \in SinglePaths}
  \cup {<<Raw(b), Return(10)>> : b \in BOOLEAN}

Mutations == {<<Write(k, <<p>>)>> : k \in {"create", "merge"}, p \in SinglePaths}
  \cup {<<Match(<<p>>), Write(k, <<>>)>> : k \in {"set", "delete"}, p \in SinglePaths}

Subqueries ==
  {<<Call(body), Return(10)>> :
     body \in {<<Match(<<p>>), Return(l)>> : p \in SinglePaths \cup {LongPath},
                                             l \in {Unset, 10}}
        \cup {<<Write("create", <<p>>)>> : p \in SinglePaths}}

MCDrafts == Reads \cup Mutations \cup Subqueries

Opts(limit, hops, allow, approved, parser, params) ==
  [defaultLimit |-> limit, defaultMaxHops |-> hops, allowWrites |-> allow,
   approved |-> approved, includeParser |-> parser, params |-> params]

\* With and without repair defaults; the flags of the approval path apart
\* and together; without the parser claim; without a required parameter.
MCOptions ==
  {Opts(25, 5, FALSE, FALSE, TRUE, {"tenant"}),
   Opts(Unset, Unset, FALSE, FALSE, FALSE, {"tenant"}),
   Opts(Unset, 9, TRUE, FALSE, TRUE, {"tenant"}),
   Opts(25, 5, FALSE, TRUE, TRUE, {"tenant"}),
   Opts(25, 5, TRUE, TRUE, FALSE, {"tenant"}),
   Opts(25, 5, FALSE, FALSE, TRUE, {})}

=============================================================================
