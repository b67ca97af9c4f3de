---------------------------- MODULE CypherRepair ----------------------------
(***************************************************************************)
(* The query IR (src/src/ir.ts) and the deterministic repair pass over it  *)
(* (repairQuery of src/src/repair.ts).  A query is the sequence of its     *)
(* clauses; of a clause the model keeps what repair, validation, policy    *)
(* and the safe plan look at.                                              *)
(***************************************************************************)
EXTENDS SchemaContract

Unset     == -1   \* a field the IR object does not have
Unbounded == -2   \* maxHops: null

Directions  == {"out", "in", "undirected"}
WriteKinds  == {"create", "merge", "delete", "set"}
ReadKinds   == {"match", "return", "raw"}
RepairKinds == {"canonicalize-identifier", "fix-direction", "bound-path", "add-limit"}

NodePattern == [labels: Seq(Spelling), properties: SUBSET Property]

RelationshipPattern ==
  [types: Seq(Spelling), direction: Directions, maxHops: Int]

PathPattern ==
  [head: NodePattern, tail: Seq([rel: RelationshipPattern, node: NodePattern])]

\* A clause as it stands in the body of a CALL subquery.  merge has one
\* pattern, delete, set, return and raw have none; "limit" is that of a
\* return; "parses" tells the raw text the Cypher parser accepts.
FlatClause ==
  [kind: WriteKinds \cup ReadKinds, patterns: Seq(PathPattern), limit: Int,
   parses: BOOLEAN]

CallClause == [kind: {"call"}, patterns: {<<>>}, limit: {Unset},
               parses: {TRUE}, body: Seq(FlatClause)]

Query == Seq(FlatClause \cup CallClause)

\* RepairOptions: the defaults the caller configures, or Unset.
RepairOption == [defaultLimit: Int, defaultMaxHops: Int]

IsWriteClause(c) == c.kind \in WriteKinds

Body(c) == IF c.kind = "call" THEN Range(c.body) ELSE {}

\* Every clause of the query, those of CALL subqueries included.
AllClauses(q) == Range(q) \cup UNION {Body(c) : c \in Range(q)}

-----------------------------------------------------------------------------
(***************************************************************************)
(* repairPath: canonicalize the labels and types, then turn the            *)
(* relationship around where only the other direction fits the contract,   *)
(* then bound a traversal that has no bound.                               *)
(***************************************************************************)
CanonicalNode(node) ==
  [node EXCEPT !.labels = [i \in DOMAIN @ |-> CanonicalLabel(@[i])]]

KnownLabels(node) ==
  {LabelName(l) : l \in {k \in Range(node.labels) : IsKnownLabel(k)}}

\* Mutant: turns the relationship around without asking the contract.
BestDirectionUnchecked(rel, current, left, right) ==
  IF current = "out" THEN "in" ELSE "out"

BestDirection(rel, current, left, right) ==
  IF current # "out" /\ RelationshipAllows(rel, "out", left, right) THEN "out"
  ELSE IF current # "in" /\ RelationshipAllows(rel, "in", left, right) THEN "in"
  ELSE current

\* Only the first type decides, and only when both ends have a known label.
RepairedDirection(types, current, left, right) ==
  IF \/ types = <<>>
     \/ DeclaredTypes(types[1]) = {}
     \/ ~RelationshipByType(types[1]).directed
     \/ left = {} \/ right = {}
     \/ RelationshipAllows(RelationshipByType(types[1]), current, left, right)
    THEN current
    ELSE BestDirection(RelationshipByType(types[1]), current, left, right)

BoundedHops(maxHops, opts) ==
  IF maxHops = Unbounded /\ opts.defaultMaxHops # Unset
    THEN opts.defaultMaxHops ELSE maxHops

RepairedRelationship(rel, left, right, opts) ==
  LET types == [i \in DOMAIN rel.types |-> CanonicalType(rel.types[i])]
  IN  [types     |-> types,
       direction |-> RepairedDirection(types, rel.direction,
                                       KnownLabels(left), KnownLabels(right)),
       maxHops   |-> BoundedHops(rel.maxHops, opts)]

NodeAt(path, i) == IF i = 0 THEN path.head ELSE path.tail[i].node

\* Mutant: the head of the path is not canonicalized.
RepairedPathTailOnly(path, opts) ==
  [head |-> path.head,
   tail |-> [i \in DOMAIN path.tail |->
     [rel  |-> RepairedRelationship(path.tail[i].rel,
                 CanonicalNode(NodeAt(path, i - 1)),
                 CanonicalNode(NodeAt(path, i)), opts),
      node |-> CanonicalNode(path.tail[i].node)]]]

RepairedPath(path, opts) ==
  [head |-> CanonicalNode(path.head),
   tail |-> [i \in DOMAIN path.tail |->
     [rel  |-> RepairedRelationship(path.tail[i].rel,
                 CanonicalNode(NodeAt(path, i - 1)),
                 CanonicalNode(NodeAt(path, i)), opts),
      node |-> CanonicalNode(path.tail[i].node)]]]

\* A CALL clause has no patterns of its own: its body is left as it is.
RepairedClause(c, opts) ==
  [c EXCEPT !.patterns = [j \in DOMAIN @ |-> RepairedPath(@[j], opts)],
            !.limit = IF c.kind = "return" /\ @ = Unset
                        THEN opts.defaultLimit ELSE @]

Repaired(q, opts) == [i \in DOMAIN q |-> RepairedClause(q[i], opts)]

-----------------------------------------------------------------------------
(***************************************************************************)
(* The actions repairQuery reports as applied, by kind.  Each is pushed    *)
(* exactly where the repaired query differs from the query.                *)
(***************************************************************************)
\* Mutant: renamed identifiers are not reported.
PathChangesSilent(p, r) ==
  {k \in RepairKinds :
    \/ /\ k = "fix-direction"
       /\ \E i \in DOMAIN p.tail : p.tail[i].rel.direction # r.tail[i].rel.direction
    \/ /\ k = "bound-path"
       /\ \E i \in DOMAIN p.tail : p.tail[i].rel.maxHops # r.tail[i].rel.maxHops}

PathChanges(p, r) ==
  {k \in RepairKinds :
    \/ /\ k = "canonicalize-identifier"
       /\ \/ p.head # r.head
          \/ \E i \in DOMAIN p.tail : \/ p.tail[i].node # r.tail[i].node
                                      \/ p.tail[i].rel.types # r.tail[i].rel.types
    \/ /\ k = "fix-direction"
       /\ \E i \in DOMAIN p.tail : p.tail[i].rel.direction # r.tail[i].rel.direction
    \/ /\ k = "bound-path"
       /\ \E i \in DOMAIN p.tail : p.tail[i].rel.maxHops # r.tail[i].rel.maxHops}

ClauseChanges(c, opts) ==
  {k \in {"add-limit"} : c.limit # RepairedClause(c, opts).limit}
    \cup UNION {PathChanges(c.patterns[j], RepairedPath(c.patterns[j], opts)) :
                  j \in DOMAIN c.patterns}

Applied(q, opts) == UNION {ClauseChanges(q[i], opts) : i \in DOMAIN q}

=============================================================================
