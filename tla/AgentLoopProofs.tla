--------------------------- MODULE AgentLoopProofs ---------------------------
(***************************************************************************)
(* Proofs about AgentLoop, for every contract, every draft and every       *)
(* caller: what the contract lookups and the repair pass yield, and what   *)
(* an agent that follows its packets can execute.                          *)
(***************************************************************************)
EXTENDS AgentLoop, WellFoundedInduction, SequenceTheorems, TLAPS

-----------------------------------------------------------------------------
(***************************************************************************)
(* Lookups.                                                                *)
(***************************************************************************)
\* A set of positions has a last one.
LEMMA MaxIsLast ==
  ASSUME NEW n \in Nat, NEW S \in SUBSET (1..n), S # {}
  PROVE  Max(S) \in S /\ \A y \in S : Max(S) >= y
<1> DEFINE T == {n - s : s \in S}
           R == OpToRel(<, Nat)
<1>1. T \subseteq Nat
  OBVIOUS
<1>a. T # {}
  OBVIOUS
<1>2. PICK t \in T : \A u \in T : t <= u
  <2>1. PICK t \in T : \A u \in T : <<u, t>> \notin R
    BY <1>1, <1>a, NatLessThanWellFounded, WFMin
  <2>2. \A u \in T : <<u, t>> \in R <=> u < t
    BY <1>1 DEF OpToRel
  <2> HIDE DEF R, T
  <2>3. \A u \in T : t <= u
    <3> TAKE u \in T
    <3>1. ~(u < t)
      BY <2>1, <2>2
    <3>2. u \in Nat /\ t \in Nat
      BY <1>1, <2>1
    <3>3. QED
      BY <3>1, <3>2
  <2>4. QED
    BY <2>1, <2>3
<1>3. PICK s \in S : t = n - s
  OBVIOUS
<1>4. \A y \in S : s >= y
  <2> TAKE y \in S
  <2>1. n - y \in T
    OBVIOUS
  <2>2. t <= n - y
    BY <1>2, <2>1
  <2>3. QED
    BY <1>3, <2>2
<1>5. QED
  BY <1>4 DEF Max

\* A known label is one some node declares.
LEMMA OwnerOfLabel ==
  ASSUME NEW l, IsKnownLabel(l)
  PROVE  /\ Max(LabelOwners(l)) \in DOMAIN Nodes
         /\ KeyOf[l] \in NodeKeys(Max(LabelOwners(l)))
<1>1. /\ Len(Nodes) \in Nat
      /\ LabelOwners(l) \in SUBSET (1..Len(Nodes))
      /\ LabelOwners(l) # {}
  BY ContractAssumption DEF LabelOwners, IsKnownLabel
<1>2. Max(LabelOwners(l)) \in LabelOwners(l)
  BY <1>1, MaxIsLast
<1>3. QED
  BY <1>2 DEF LabelOwners

\* A known type is one some relationship declares.
LEMMA OwnerOfType ==
  ASSUME NEW t, IsKnownType(t)
  PROVE  /\ Max(TypeOwners(t)) \in DOMAIN Relationships
         /\ KeyOf[t] \in RelationshipKeys(Max(TypeOwners(t)))
<1>1. /\ Len(Relationships) \in Nat
      /\ TypeOwners(t) \in SUBSET (1..Len(Relationships))
      /\ TypeOwners(t) # {}
  BY ContractAssumption DEF TypeOwners, IsKnownType
<1>2. Max(TypeOwners(t)) \in TypeOwners(t)
  BY <1>1, MaxIsLast
<1>3. QED
  BY <1>2 DEF TypeOwners

\* The name a known label is replaced by is one the contract declares.
LEMMA LabelNameIsDeclared ==
  ASSUME NEW l, IsKnownLabel(l)
  PROVE  /\ LabelName(l) \in Spelling
         /\ DeclaredAs(LabelName(l)) # {}
         /\ IsKnownLabel(LabelName(l))
<1> DEFINE i == Max(LabelOwners(l))
<1>1. i \in DOMAIN Nodes
  BY OwnerOfLabel
<1> HIDE DEF i
<1>2. Nodes[i].name \in Spelling
  <2>1. Nodes[i] \in NodeContract
    BY <1>1, ContractAssumption
  <2>2. QED
    BY <2>1 DEF NodeContract
<1>3. i \in DeclaredAs(Nodes[i].name)
  BY <1>1 DEF DeclaredAs
<1>4. i \in LabelOwners(Nodes[i].name)
  BY <1>1 DEF LabelOwners, NodeKeys
<1>5. LabelName(l) = Nodes[i].name
  BY DEF LabelName, i
<1>6. QED
  BY <1>2, <1>3, <1>4, <1>5 DEF IsKnownLabel

\* The name a known type has is one the contract spells.
LEMMA TypeNameIsDeclared ==
  ASSUME NEW t, IsKnownType(t)
  PROVE  /\ TypeName(t) \in Spelling
         /\ DeclaredTypes(TypeName(t)) # {}
         /\ IsKnownType(TypeName(t))
<1> DEFINE i == Max(TypeOwners(t))
<1>1. i \in DOMAIN Relationships
  BY OwnerOfType
<1> HIDE DEF i
<1>2. Relationships[i].type \in Spelling
  <2>1. Relationships[i] \in RelationshipContract
    BY <1>1, ContractAssumption
  <2>2. QED
    BY <2>1 DEF RelationshipContract
<1>3. i \in DeclaredTypes(Relationships[i].type)
  BY <1>1 DEF DeclaredTypes
<1>4. i \in TypeOwners(Relationships[i].type)
  BY <1>1 DEF TypeOwners, RelationshipKeys
<1>5. TypeName(t) = Relationships[i].type
  BY DEF TypeName, i
<1>6. QED
  BY <1>2, <1>3, <1>4, <1>5 DEF IsKnownType

\* Where no spelling belongs to two entries, a name stands for itself.
LEMMA CanonicalLabelSettles ==
  ASSUME Unambiguous, NEW l
  PROVE  /\ CanonicalLabel(CanonicalLabel(l)) = CanonicalLabel(l)
         /\ IsKnownLabel(l) => LabelName(LabelName(l)) = LabelName(l)
<1>1. CASE ~IsKnownLabel(l)
  BY <1>1 DEF CanonicalLabel
<1>2. CASE IsKnownLabel(l)
  <2> DEFINE i == Max(LabelOwners(l))
             n == Nodes[i].name
             j == Max(LabelOwners(n))
  <2>1. i \in DOMAIN Nodes /\ LabelName(l) = n
    BY <1>2, OwnerOfLabel DEF LabelName
  <2>2. IsKnownLabel(n)
    BY <1>2, <2>1, LabelNameIsDeclared
  <2>3. j \in DOMAIN Nodes /\ KeyOf[n] \in NodeKeys(j)
    BY <2>2, OwnerOfLabel
  <2> HIDE DEF i, j
  <2>4. KeyOf[n] \in NodeKeys(i)
    BY DEF NodeKeys
  <2>5. i = j
    BY <2>1, <2>3, <2>4 DEF Unambiguous
  <2>6. LabelName(n) = n
    BY <2>5 DEF LabelName, j
  <2>7. QED
    BY <1>2, <2>1, <2>2, <2>6 DEF CanonicalLabel
<1>3. QED
  BY <1>1, <1>2

\* The canonical type of a canonical type is itself.
LEMMA CanonicalTypeSettles ==
  ASSUME Unambiguous, NEW t
  PROVE  CanonicalType(CanonicalType(t)) = CanonicalType(t)
<1>1. CASE ~IsKnownType(t)
  BY <1>1 DEF CanonicalType
<1>2. CASE IsKnownType(t)
  <2> DEFINE i == Max(TypeOwners(t))
             n == Relationships[i].type
             j == Max(TypeOwners(n))
  <2>1. i \in DOMAIN Relationships /\ TypeName(t) = n
    BY <1>2, OwnerOfType DEF TypeName
  <2>2. IsKnownType(n)
    BY <1>2, <2>1, TypeNameIsDeclared
  <2>3. j \in DOMAIN Relationships /\ KeyOf[n] \in RelationshipKeys(j)
    BY <2>2, OwnerOfType
  <2> HIDE DEF i, j
  <2>4. KeyOf[n] \in RelationshipKeys(i)
    BY DEF RelationshipKeys
  <2>5. i = j
    BY <2>1, <2>3, <2>4 DEF Unambiguous
  <2>6. TypeName(n) = n
    BY <2>5 DEF TypeName, j
  <2>7. QED
    BY <1>2, <2>1, <2>2, <2>6 DEF CanonicalType
<1>3. QED
  BY <1>1, <1>2

-----------------------------------------------------------------------------
(***************************************************************************)
(* Types: the repaired query is a query again.                             *)
(***************************************************************************)
LEMMA CanonicalSpelling ==
  ASSUME NEW s \in Spelling
  PROVE  CanonicalLabel(s) \in Spelling /\ CanonicalType(s) \in Spelling
BY LabelNameIsDeclared, TypeNameIsDeclared DEF CanonicalLabel, CanonicalType

\* A function over the positions of a sequence is a sequence as long.
LEMMA MappedSequence ==
  ASSUME NEW S, NEW T, NEW s \in Seq(S), NEW f \in [DOMAIN s -> T]
  PROVE  /\ f \in Seq(T)
         /\ Len(f) = Len(s)
<1>1. DOMAIN s = 1..Len(s) /\ Len(s) \in Nat
  OBVIOUS
<1>2. QED
  BY <1>1, SeqDef

\* A repaired node is a node pattern with the same variable.
LEMMA CanonicalNodeType ==
  ASSUME NEW n \in NodePattern
  PROVE  /\ CanonicalNode(n) \in NodePattern
         /\ CanonicalNode(n).properties = n.properties
         /\ CanonicalNode(n).labels
              = [i \in DOMAIN n.labels |-> CanonicalLabel(n.labels[i])]
<1>1. n.labels \in Seq(Spelling)
  BY DEF NodePattern
<1>2. [i \in DOMAIN n.labels |-> CanonicalLabel(n.labels[i])] \in Seq(Spelling)
  <2>1. DOMAIN n.labels = 1..Len(n.labels) /\ Len(n.labels) \in Nat
    BY <1>1
  <2>2. \A i \in 1..Len(n.labels) : CanonicalLabel(n.labels[i]) \in Spelling
    BY <1>1, CanonicalSpelling
  <2>3. QED
    BY <2>1, <2>2, SeqDef
<1>3. QED
  BY <1>2 DEF CanonicalNode, NodePattern

\* The direction is chosen among those of the contract, or kept.
LEMMA RepairedDirectionType ==
  ASSUME NEW types, NEW d \in Directions, NEW L, NEW R
  PROVE  RepairedDirection(types, d, L, R) \in Directions
BY DEF RepairedDirection, BestDirection, Directions

\* A repaired relationship is a relationship pattern.
LEMMA RepairedRelationshipType ==
  ASSUME NEW rel \in RelationshipPattern, NEW left, NEW right, NEW o,
         o.defaultMaxHops \in Int
  PROVE  RepairedRelationship(rel, left, right, o) \in RelationshipPattern
<1> DEFINE types == [i \in DOMAIN rel.types |-> CanonicalType(rel.types[i])]
<1>1. /\ rel.types \in Seq(Spelling)
      /\ rel.direction \in Directions
      /\ rel.maxHops \in Int
  BY DEF RelationshipPattern
<1>2. types \in Seq(Spelling)
  <2>1. types \in [DOMAIN rel.types -> Spelling]
    BY <1>1, CanonicalSpelling
  <2>2. QED
    BY <1>1, <2>1, MappedSequence
<1>3. BoundedHops(rel.maxHops, o) \in Int
  BY <1>1 DEF BoundedHops
<1> HIDE DEF types
<1>4. RepairedDirection(types, rel.direction, KnownLabels(left), KnownLabels(right))
        \in Directions
  BY <1>1, RepairedDirectionType
<1>5. QED
  BY <1>2, <1>3, <1>4 DEF RepairedRelationship, RelationshipPattern, types

\* A repaired path is a path pattern.
LEMMA RepairedPathType ==
  ASSUME NEW p \in PathPattern, NEW o, o.defaultMaxHops \in Int
  PROVE  RepairedPath(p, o) \in PathPattern
<1> DEFINE Hop == [rel: RelationshipPattern, node: NodePattern]
           tail == RepairedPath(p, o).tail
<1>1. /\ p.head \in NodePattern
      /\ p.tail \in Seq(Hop)
  BY DEF PathPattern
<1>2. tail \in [DOMAIN p.tail -> Hop]
  <2>1. \A i \in DOMAIN p.tail :
          /\ p.tail[i].rel \in RelationshipPattern
          /\ p.tail[i].node \in NodePattern
    <3>1. \A i \in DOMAIN p.tail : p.tail[i] \in Hop
      <4> HIDE DEF Hop
      <4> QED BY <1>1
    <3>2. QED
      BY <3>1
  <2>2. \A i \in DOMAIN p.tail :
          [rel  |-> RepairedRelationship(p.tail[i].rel,
                      CanonicalNode(NodeAt(p, i - 1)),
                      CanonicalNode(NodeAt(p, i)), o),
           node |-> CanonicalNode(p.tail[i].node)] \in Hop
    BY <2>1, RepairedRelationshipType, CanonicalNodeType
  <2>3. QED
    BY <2>2 DEF RepairedPath
<1> HIDE DEF tail
<1>3. tail \in Seq(Hop)
  BY <1>1, <1>2, MappedSequence
<1>4. CanonicalNode(p.head) \in NodePattern
  BY <1>1, CanonicalNodeType
<1>5. QED
  BY <1>3, <1>4 DEF RepairedPath, PathPattern, tail

\* Repair touches the patterns of a clause and the limit of a return.
LEMMA RepairedClauseFields ==
  ASSUME NEW c \in FlatClause \cup CallClause, NEW o
  PROVE  LET r == RepairedClause(c, o) IN
           /\ r.kind = c.kind /\ r.parses = c.parses
           /\ r.patterns = [j \in DOMAIN c.patterns |-> RepairedPath(c.patterns[j], o)]
           /\ r.limit = IF c.kind = "return" /\ c.limit = Unset
                          THEN o.defaultLimit ELSE c.limit
           /\ c \in CallClause => r.body = c.body
BY DEF RepairedClause, FlatClause, CallClause

\* A repaired clause is a clause of the same kind.
LEMMA RepairedClauseType ==
  ASSUME NEW c \in FlatClause \cup CallClause, NEW o,
         o.defaultLimit \in Int, o.defaultMaxHops \in Int
  PROVE  RepairedClause(c, o) \in FlatClause \cup CallClause
<1>1. CASE c \in FlatClause
  <2> DEFINE paths == [j \in DOMAIN c.patterns |-> RepairedPath(c.patterns[j], o)]
             limit == IF c.kind = "return" /\ c.limit = Unset
                        THEN o.defaultLimit ELSE c.limit
  <2>1. /\ c.patterns \in Seq(PathPattern)
        /\ c.limit \in Int
    BY <1>1 DEF FlatClause
  <2>2. paths \in [DOMAIN c.patterns -> PathPattern]
    BY <2>1, RepairedPathType
  <2>3. paths \in Seq(PathPattern)
    BY <2>1, <2>2, MappedSequence
  <2>4. limit \in Int
    BY <2>1
  <2>5. RepairedClause(c, o) = [c EXCEPT !.patterns = paths, !.limit = limit]
    BY DEF RepairedClause
  <2> HIDE DEF paths, limit
  <2>6. RepairedClause(c, o) \in FlatClause
    BY <1>1, <2>3, <2>4, <2>5 DEF FlatClause
  <2>7. QED
    BY <2>6
<1>2. CASE c \in CallClause
  <2> DEFINE paths == [j \in DOMAIN c.patterns |-> RepairedPath(c.patterns[j], o)]
  <2>1. c.patterns = <<>> /\ c.limit = Unset /\ c.kind = "call"
    BY <1>2 DEF CallClause
  <2>2. paths = <<>>
    BY <2>1
  <2>3. RepairedClause(c, o) = [c EXCEPT !.patterns = paths, !.limit = c.limit]
    BY <2>1 DEF RepairedClause
  <2> HIDE DEF paths
  <2>4. RepairedClause(c, o) \in CallClause
    BY <1>2, <2>1, <2>2, <2>3 DEF CallClause
  <2>5. QED
    BY <2>4
<1>3. QED
  BY <1>1, <1>2

\* Repairing a query yields a query with as many clauses.
THEOREM RepairedIsQuery ==
  ASSUME NEW q \in Query, NEW o, o.defaultLimit \in Int, o.defaultMaxHops \in Int
  PROVE  /\ Repaired(q, o) \in Query
         /\ DOMAIN Repaired(q, o) = DOMAIN q
         /\ \A i \in DOMAIN q : Repaired(q, o)[i] = RepairedClause(q[i], o)
<1>1. q \in Seq(FlatClause \cup CallClause)
  BY DEF Query
<1>2. Repaired(q, o) \in [DOMAIN q -> FlatClause \cup CallClause]
  BY <1>1, RepairedClauseType DEF Repaired
<1>3. Repaired(q, o) \in Seq(FlatClause \cup CallClause)
  BY <1>1, <1>2, MappedSequence
<1>4. QED
  BY <1>3 DEF Query, Repaired

-----------------------------------------------------------------------------
(***************************************************************************)
(* Idempotence: under an unambiguous contract a repaired query has nothing *)
(* left to repair.                                                         *)
(***************************************************************************)
LEMMA CanonicalNodeSettles ==
  ASSUME Unambiguous, NEW n \in NodePattern
  PROVE  CanonicalNode(CanonicalNode(n)) = CanonicalNode(n)
<1> DEFINE m == CanonicalNode(n)
<1>1. /\ m \in NodePattern
      /\ m.labels = [i \in DOMAIN n.labels |-> CanonicalLabel(n.labels[i])]
  BY CanonicalNodeType
<1> HIDE DEF m
<1>2. /\ CanonicalNode(m) \in NodePattern
      /\ CanonicalNode(m).properties = m.properties
      /\ CanonicalNode(m).labels
           = [i \in DOMAIN m.labels |-> CanonicalLabel(m.labels[i])]
  BY <1>1, CanonicalNodeType
<1>3. CanonicalNode(m).labels = m.labels
  BY <1>1, <1>2, CanonicalLabelSettles
<1>4. CanonicalNode(m) = m
  BY <1>1, <1>2, <1>3 DEF NodePattern
<1>5. QED
  BY <1>4 DEF m

\* A direction that was turned fits; one that was kept is kept again.
LEMMA DirectionSettles ==
  ASSUME NEW types, NEW d, NEW L, NEW R
  PROVE  RepairedDirection(types, RepairedDirection(types, d, L, R), L, R)
           = RepairedDirection(types, d, L, R)
BY DEF RepairedDirection, BestDirection

\* Repairing a relationship twice is repairing it once.
LEMMA RelationshipSettles ==
  ASSUME Unambiguous, NEW rel \in RelationshipPattern, NEW left, NEW right,
         NEW o, o.defaultMaxHops \in Int
  PROVE  LET r == RepairedRelationship(rel, left, right, o) IN
           RepairedRelationship(r, left, right, o) = r
<1> DEFINE r == RepairedRelationship(rel, left, right, o)
           s == RepairedRelationship(r, left, right, o)
<1>1. r.types = [i \in DOMAIN rel.types |-> CanonicalType(rel.types[i])]
  BY DEF RepairedRelationship
<1>2. /\ r.direction = RepairedDirection(r.types, rel.direction,
                                         KnownLabels(left), KnownLabels(right))
      /\ r.maxHops = BoundedHops(rel.maxHops, o)
  BY DEF RepairedRelationship
<1>3. s = [types     |-> [i \in DOMAIN r.types |-> CanonicalType(r.types[i])],
           direction |-> RepairedDirection(
                           [i \in DOMAIN r.types |-> CanonicalType(r.types[i])],
                           r.direction, KnownLabels(left), KnownLabels(right)),
           maxHops   |-> BoundedHops(r.maxHops, o)]
  BY DEF RepairedRelationship
<1>4. r = [types |-> r.types, direction |-> r.direction, maxHops |-> r.maxHops]
  BY DEF RepairedRelationship
<1> HIDE DEF r, s
<1>5. [i \in DOMAIN r.types |-> CanonicalType(r.types[i])] = r.types
  BY <1>1, CanonicalTypeSettles
<1>6. RepairedDirection(r.types, r.direction, KnownLabels(left), KnownLabels(right))
        = r.direction
  BY <1>2, DirectionSettles
<1>7. BoundedHops(r.maxHops, o) = r.maxHops
  BY <1>2 DEF BoundedHops
<1>8. s = r
  BY <1>3, <1>4, <1>5, <1>6, <1>7
<1>9. QED
  BY <1>8 DEF r, s

\* Repairing a path twice is repairing it once.
LEMMA PathSettles ==
  ASSUME Unambiguous, NEW p \in PathPattern, NEW o, o.defaultMaxHops \in Int
  PROVE  RepairedPath(RepairedPath(p, o), o) = RepairedPath(p, o)
<1> DEFINE Hop == [rel: RelationshipPattern, node: NodePattern]
           r == RepairedPath(p, o)
           Left(i) == CanonicalNode(NodeAt(p, i - 1))
           Right(i) == CanonicalNode(NodeAt(p, i))
<1>1. p.tail \in Seq(Hop)
  BY DEF PathPattern
<1> HIDE DEF Hop
<1>2. DOMAIN p.tail = 1..Len(p.tail) /\ Len(p.tail) \in Nat
  BY <1>1
<1>3. \A i \in DOMAIN p.tail : /\ p.tail[i].rel \in RelationshipPattern
                              /\ p.tail[i].node \in NodePattern
  <2>1. \A i \in DOMAIN p.tail : p.tail[i] \in Hop
    BY <1>1
  <2>2. QED
    BY <2>1 DEF Hop
<1>4. \A i \in 0..Len(p.tail) : NodeAt(p, i) \in NodePattern
  BY <1>2, <1>3 DEF NodeAt, PathPattern
<1>5. /\ r.head = CanonicalNode(p.head)
      /\ DOMAIN r.tail = DOMAIN p.tail
      /\ \A i \in DOMAIN p.tail :
           /\ r.tail[i].rel = RepairedRelationship(p.tail[i].rel, Left(i), Right(i), o)
           /\ r.tail[i].node = CanonicalNode(p.tail[i].node)
           /\ r.tail[i] = [rel |-> r.tail[i].rel, node |-> r.tail[i].node]
  BY DEF RepairedPath
<1>6. RepairedPath(r, o)
        = [head |-> CanonicalNode(r.head),
           tail |-> [i \in DOMAIN r.tail |->
             [rel  |-> RepairedRelationship(r.tail[i].rel,
                         CanonicalNode(NodeAt(r, i - 1)),
                         CanonicalNode(NodeAt(r, i)), o),
              node |-> CanonicalNode(r.tail[i].node)]]]
  BY DEF RepairedPath
<1>7. r = [head |-> r.head, tail |-> [i \in DOMAIN r.tail |-> r.tail[i]]]
  BY DEF RepairedPath
<1> HIDE DEF r
<1>8. ASSUME NEW i \in 0..Len(p.tail)
      PROVE  NodeAt(r, i) = CanonicalNode(NodeAt(p, i))
  <2>1. CASE i = 0
    BY <1>5, <2>1 DEF NodeAt
  <2>2. CASE i # 0
    <3>1. i \in DOMAIN p.tail
      BY <1>2, <2>2
    <3>2. r.tail[i].node = CanonicalNode(p.tail[i].node)
      BY <1>5, <3>1
    <3>3. QED
      BY <2>2, <3>2 DEF NodeAt
  <2>3. QED
    BY <2>1, <2>2
<1>9. \A i \in 0..Len(p.tail) : CanonicalNode(NodeAt(r, i)) = CanonicalNode(NodeAt(p, i))
  BY <1>4, <1>8, CanonicalNodeSettles
<1>10. CanonicalNode(r.head) = r.head
  BY <1>5, CanonicalNodeSettles DEF PathPattern
<1>11. ASSUME NEW i \in DOMAIN p.tail
       PROVE  r.tail[i] = [rel  |-> RepairedRelationship(r.tail[i].rel,
                                      CanonicalNode(NodeAt(r, i - 1)),
                                      CanonicalNode(NodeAt(r, i)), o),
                           node |-> CanonicalNode(r.tail[i].node)]
  <2>1. /\ CanonicalNode(NodeAt(r, i - 1)) = Left(i)
        /\ CanonicalNode(NodeAt(r, i)) = Right(i)
    BY <1>2, <1>9
  <2>2. p.tail[i].rel \in RelationshipPattern /\ p.tail[i].node \in NodePattern
    BY <1>3
  <2> HIDE DEF Left, Right
  <2>3. /\ r.tail[i].rel = RepairedRelationship(p.tail[i].rel, Left(i), Right(i), o)
        /\ r.tail[i].node = CanonicalNode(p.tail[i].node)
        /\ r.tail[i] = [rel |-> r.tail[i].rel, node |-> r.tail[i].node]
    BY <1>5
  <2>4. RepairedRelationship(r.tail[i].rel, Left(i), Right(i), o) = r.tail[i].rel
    BY <2>2, <2>3, RelationshipSettles
  <2>5. CanonicalNode(r.tail[i].node) = r.tail[i].node
    BY <2>2, <2>3, CanonicalNodeSettles
  <2>6. QED
    BY <2>1, <2>3, <2>4, <2>5
<1>12. RepairedPath(r, o) = r
  BY <1>5, <1>6, <1>7, <1>10, <1>11
<1>13. QED
  BY <1>12 DEF r

\* Repairing a clause twice is repairing it once.
LEMMA ClauseSettles ==
  ASSUME Unambiguous, NEW c \in FlatClause \cup CallClause, NEW o,
         o.defaultLimit \in Int, o.defaultMaxHops \in Int
  PROVE  RepairedClause(RepairedClause(c, o), o) = RepairedClause(c, o)
<1> DEFINE r == RepairedClause(c, o)
           s == RepairedClause(r, o)
<1>1. r \in FlatClause \cup CallClause
  BY RepairedClauseType
<1>2. /\ r.kind = c.kind
      /\ r.patterns = [j \in DOMAIN c.patterns |-> RepairedPath(c.patterns[j], o)]
      /\ r.limit = IF c.kind = "return" /\ c.limit = Unset
                     THEN o.defaultLimit ELSE c.limit
  BY RepairedClauseFields
<1>3. s = [r EXCEPT
             !.patterns = [j \in DOMAIN r.patterns |-> RepairedPath(r.patterns[j], o)],
             !.limit = IF r.kind = "return" /\ r.limit = Unset
                         THEN o.defaultLimit ELSE r.limit]
  BY DEF RepairedClause
<1> HIDE DEF r, s
<1>4. c.patterns \in Seq(PathPattern)
  <2>1. CASE c \in FlatClause
    BY <2>1 DEF FlatClause
  <2>2. CASE c \in CallClause
    <3>1. c.patterns = <<>>
      BY <2>2 DEF CallClause
    <3>2. <<>> \in Seq(PathPattern)
      OBVIOUS
    <3>3. QED
      BY <3>1, <3>2
  <2>3. QED
    BY <2>1, <2>2
<1>5. \A j \in DOMAIN c.patterns : c.patterns[j] \in PathPattern
  BY <1>4
<1>6. [j \in DOMAIN r.patterns |-> RepairedPath(r.patterns[j], o)] = r.patterns
  BY <1>2, <1>5, PathSettles
<1>7. (IF r.kind = "return" /\ r.limit = Unset THEN o.defaultLimit ELSE r.limit)
        = r.limit
  BY <1>2
<1>8. s = r
  BY <1>1, <1>3, <1>6, <1>7 DEF FlatClause, CallClause
<1>9. QED
  BY <1>8 DEF r, s

\* Repairing the repaired query changes nothing.
THEOREM RepairIsIdempotent ==
  ASSUME Unambiguous, NEW q \in Query, NEW o,
         o.defaultLimit \in Int, o.defaultMaxHops \in Int
  PROVE  Repaired(Repaired(q, o), o) = Repaired(q, o)
<1> DEFINE r == Repaired(q, o)
<1>1. /\ r \in Query
      /\ DOMAIN r = DOMAIN q
      /\ \A i \in DOMAIN q : r[i] = RepairedClause(q[i], o)
  BY RepairedIsQuery
<1>2. \A i \in DOMAIN q : q[i] \in FlatClause \cup CallClause
  BY DEF Query
<1> HIDE DEF r
<1>3. \A i \in DOMAIN r : RepairedClause(r[i], o) = r[i]
  BY <1>1, <1>2, ClauseSettles
<1>4. Repaired(r, o) = [i \in DOMAIN r |-> r[i]]
  BY <1>3 DEF Repaired
<1>5. QED
  BY <1>1, <1>4 DEF Query, r

\* A query that repair leaves as it is has no repair to report.
THEOREM SettledHasNoRepairs ==
  ASSUME NEW q \in Query, NEW o, Repaired(q, o) = q
  PROVE  Applied(q, o) = {}
<1>1. SUFFICES ASSUME NEW i \in DOMAIN q
               PROVE  ClauseChanges(q[i], o) = {}
  BY DEF Applied
<1>2. RepairedClause(q[i], o) = q[i]
  BY DEF Repaired
<1>3. q[i] \in FlatClause \cup CallClause
  BY DEF Query
<1>4. \A j \in DOMAIN q[i].patterns : RepairedPath(q[i].patterns[j], o) = q[i].patterns[j]
  <2>1. RepairedClause(q[i], o).patterns
          = [j \in DOMAIN q[i].patterns |-> RepairedPath(q[i].patterns[j], o)]
    BY <1>3, RepairedClauseFields
  <2>2. QED
    BY <1>2, <2>1
<1>5. \A p : PathChanges(p, p) = {}
  BY DEF PathChanges
<1>6. QED
  BY <1>2, <1>4, <1>5 DEF ClauseChanges

\* And a query without a repair to report is as repair leaves it: no change
\* goes unreported.
LEMMA UnreportedPathIsSettled ==
  ASSUME NEW p \in PathPattern, NEW o, o.defaultMaxHops \in Int,
         PathChanges(p, RepairedPath(p, o)) = {}
  PROVE  RepairedPath(p, o) = p
<1> DEFINE Hop == [rel: RelationshipPattern, node: NodePattern]
           r == RepairedPath(p, o)
<1>1. r \in PathPattern /\ DOMAIN r.tail = DOMAIN p.tail
  BY RepairedPathType DEF RepairedPath
<1> HIDE DEF r
<1>2. /\ p.tail \in Seq(Hop) /\ p.head \in NodePattern
      /\ r.tail \in Seq(Hop) /\ r.head \in NodePattern
      /\ p = [head |-> p.head, tail |-> p.tail]
      /\ r = [head |-> r.head, tail |-> r.tail]
  BY <1>1 DEF PathPattern
<1> HIDE DEF Hop
<1>3. \A i \in DOMAIN p.tail : p.tail[i] \in Hop /\ r.tail[i] \in Hop
  BY <1>1, <1>2
<1>4. \A k \in RepairKinds : k \notin PathChanges(p, r)
  BY DEF r
<1>5. /\ "canonicalize-identifier" \in RepairKinds
      /\ "fix-direction" \in RepairKinds
      /\ "bound-path" \in RepairKinds
  BY DEF RepairKinds
<1>6. /\ p.head = r.head
      /\ \A i \in DOMAIN p.tail : /\ p.tail[i].node = r.tail[i].node
                                  /\ p.tail[i].rel.types = r.tail[i].rel.types
  BY <1>4, <1>5 DEF PathChanges
<1>7. \A i \in DOMAIN p.tail : p.tail[i].rel.direction = r.tail[i].rel.direction
  BY <1>4, <1>5 DEF PathChanges
<1>8. \A i \in DOMAIN p.tail : p.tail[i].rel.maxHops = r.tail[i].rel.maxHops
  BY <1>4, <1>5 DEF PathChanges
<1>9. ASSUME NEW i \in DOMAIN p.tail
      PROVE  p.tail[i] = r.tail[i]
  <2>1. /\ p.tail[i].rel \in RelationshipPattern
        /\ r.tail[i].rel \in RelationshipPattern
        /\ p.tail[i] = [rel |-> p.tail[i].rel, node |-> p.tail[i].node]
        /\ r.tail[i] = [rel |-> r.tail[i].rel, node |-> r.tail[i].node]
    BY <1>3 DEF Hop
  <2>2. p.tail[i].rel = r.tail[i].rel
    BY <1>6, <1>7, <1>8, <2>1 DEF RelationshipPattern
  <2>3. QED
    BY <1>6, <2>1, <2>2
<1>10. p.tail = r.tail
  BY <1>1, <1>2, <1>9
<1>11. p = r
  BY <1>2, <1>6, <1>10
<1>12. QED
  BY <1>11 DEF r

\* A query repairCypherIR reports no repair for is one it leaves as it is, any
\* contract given: no repair is silent.
THEOREM NoRepairsIsSettled ==
  ASSUME NEW q \in Query, NEW o, o.defaultLimit \in Int, o.defaultMaxHops \in Int,
         Applied(q, o) = {}
  PROVE  Repaired(q, o) = q
<1>1. ASSUME NEW i \in DOMAIN q
      PROVE  RepairedClause(q[i], o) = q[i]
  <2> DEFINE c == q[i]
  <2>1. c \in FlatClause \cup CallClause /\ ClauseChanges(c, o) = {}
    BY DEF Query, Applied
  <2> HIDE DEF c
  <2>2. RepairedClause(c, o).limit = c.limit
    <3>1. {k \in {"add-limit"} : c.limit # RepairedClause(c, o).limit} = {}
      BY <2>1 DEF ClauseChanges
    <3>2. QED
      BY <3>1, Zenon
  <2>3. \A j \in DOMAIN c.patterns : PathChanges(c.patterns[j], RepairedPath(c.patterns[j], o)) = {}
    BY <2>1 DEF ClauseChanges
  <2>4. c.patterns \in Seq(PathPattern)
    <3>1. CASE c \in FlatClause
      BY <3>1 DEF FlatClause
    <3>2. CASE c \in CallClause
      <4>1. c.patterns = <<>>
        BY <3>2 DEF CallClause
      <4>2. <<>> \in Seq(PathPattern)
        OBVIOUS
      <4>3. QED
        BY <4>1, <4>2
    <3>3. QED
      BY <2>1, <3>1, <3>2
  <2>5. \A j \in DOMAIN c.patterns : RepairedPath(c.patterns[j], o) = c.patterns[j]
    <3> TAKE j \in DOMAIN c.patterns
    <3>1. c.patterns[j] \in PathPattern
      BY <2>4
    <3>2. QED
      BY <2>3, <3>1, UnreportedPathIsSettled
  <2>6. [j \in DOMAIN c.patterns |-> RepairedPath(c.patterns[j], o)] = c.patterns
    BY <2>4, <2>5
  <2>7. RepairedClause(c, o) = [c EXCEPT !.patterns = c.patterns,
                                         !.limit = RepairedClause(c, o).limit]
    BY <2>1, <2>6 DEF RepairedClause, FlatClause, CallClause
  <2>8. RepairedClause(c, o) = c
    BY <2>1, <2>2, <2>7 DEF FlatClause, CallClause
  <2>9. QED
    BY <2>8 DEF c
<1>2. Repaired(q, o) = [i \in DOMAIN q |-> q[i]]
  BY <1>1 DEF Repaired
<1>3. QED
  BY <1>2 DEF Query

\* Of the options only the two repair defaults matter.
LEMMA RepairedByDefaults ==
  ASSUME NEW q, NEW o1, NEW o2,
         o1.defaultLimit = o2.defaultLimit, o1.defaultMaxHops = o2.defaultMaxHops
  PROVE  Repaired(q, o1) = Repaired(q, o2)
<1>1. \A h : BoundedHops(h, o1) = BoundedHops(h, o2)
  BY DEF BoundedHops
<1>2. \A rel, l, r : RepairedRelationship(rel, l, r, o1) = RepairedRelationship(rel, l, r, o2)
  BY <1>1 DEF RepairedRelationship
<1>3. \A p : RepairedPath(p, o1) = RepairedPath(p, o2)
  BY <1>2 DEF RepairedPath
<1>4. \A c : RepairedClause(c, o1) = RepairedClause(c, o2)
  BY <1>3 DEF RepairedClause
<1>5. QED
  BY <1>4 DEF Repaired

-----------------------------------------------------------------------------
(***************************************************************************)
(* What a packet that says "execute" has established.                      *)
(***************************************************************************)
Cleared(p, o) ==
  /\ p.canExecute
  /\ ~p.proof.requiresApproval
  /\ p.proof.status # "blocked"
  /\ ~HasErrors(PolicyFindings(p.proof.query, o))
  /\ ~RequiresApproval(p.proof.query, o)

\* Only "ready" lets the agent execute, and no blocked proof is "ready".
LEMMA ExecuteIsReady ==
  ASSUME NEW q, NEW o, Feedback(q, o).nextAction = "execute"
  PROVE  /\ Feedback(q, o).status = "ready"
         /\ Proof(q, o).status # "blocked"
<1> DEFINE p == Feedback(q, o)
<1>1. /\ p.nextAction = NextAction(p.status, p.codes)
      /\ p.status = FeedbackStatus(Proof(q, o), RepairPlan(q, RepairPlanOptions(o)))
  BY DEF Feedback, PacketOf, PacketWith
<1> HIDE DEF p
<1>2. p.status \in {"ready", "repaired", "needs-model", "blocked"}
  BY <1>1 DEF FeedbackStatus
<1>3. p.status = "ready"
  BY <1>1, <1>2 DEF NextAction, p
<1>4. QED
  BY <1>1, <1>3 DEF FeedbackStatus, p

\* A proof that is not blocked has no failed claim: the plan can execute,
\* needs no approval, and the policy found no error.
LEMMA UnblockedIsClear ==
  ASSUME NEW q, NEW o, Proof(q, o).status # "blocked"
  PROVE  LET plan == SafePlan(q, o) IN
           /\ plan.canExecute
           /\ ~plan.requiresApproval
           /\ ~HasErrors(PolicyFindings(plan.query, o))
<1> DEFINE plan == SafePlan(q, o)
<1>1. Proof(q, o).status = ProofStatus(Claims(plan, o), plan.repairs)
  BY DEF Proof, ProofOf
<1> HIDE DEF plan
<1>2. "failed" \notin Claims(plan, o)
  BY <1>1 DEF ProofStatus
<1>3. plan.canExecute /\ ~plan.requiresApproval
  BY <1>2 DEF Claims
<1>4. ClaimStatus(PolicyFindings(plan.query, o)) # "failed"
  BY <1>2 DEF Claims
<1>5. QED
  BY <1>3, <1>4 DEF ClaimStatus, plan

\* "execute" is what NextAction says of a packet that is clear.
LEMMA ExecuteIsClear ==
  ASSUME NEW q, NEW o, Feedback(q, o).nextAction = "execute"
  PROVE  Cleared(Feedback(q, o), o)
<1>1. Proof(q, o).status # "blocked"
  BY ExecuteIsReady
<1>2. /\ SafePlan(q, o).canExecute
      /\ ~SafePlan(q, o).requiresApproval
      /\ ~HasErrors(PolicyFindings(SafePlan(q, o).query, o))
  BY <1>1, UnblockedIsClear
<1>3. SafePlan(q, o).requiresApproval = RequiresApproval(SafePlan(q, o).query, o)
  BY DEF SafePlan, PlanFor
<1>4. /\ Proof(q, o).canExecute = SafePlan(q, o).canExecute
      /\ Proof(q, o).requiresApproval = SafePlan(q, o).requiresApproval
      /\ Proof(q, o).query = SafePlan(q, o).query
  BY DEF Proof, ProofOf
<1>5. /\ Feedback(q, o).proof = Proof(q, o)
      /\ Feedback(q, o).canExecute = Proof(q, o).canExecute
  BY DEF Feedback, PacketOf, PacketWith
<1>6. QED
  BY <1>1, <1>2, <1>3, <1>4, <1>5 DEF Cleared

-----------------------------------------------------------------------------
(***************************************************************************)
(* The inductive invariant.  A packet may be older than the options, but   *)
(* only where it does not say "execute".                                   *)
(***************************************************************************)
PacketIsClear == \A p \in packet : p.nextAction = "execute" => Cleared(p, opts)

ApprovalIsPending ==
  phase = "approval" => \A p \in packet : p.nextAction # "execute"

RunsWereClear ==
  \A run \in executed : /\ ~RequiresApproval(run.query, run.opts)
                        /\ ~HasErrors(PolicyFindings(run.query, run.opts))

OnePacket == \A p1, p2 \in packet : p1 = p2

ClearInv == OnePacket /\ PacketIsClear /\ ApprovalIsPending /\ RunsWereClear

\* ClearInv holds of every reachable state.
THEOREM ClearInvariant == Spec => []ClearInv
<1> USE DEF ClearInv, OnePacket, PacketIsClear, ApprovalIsPending, RunsWereClear
<1>1. Init => ClearInv
  BY DEF Init
<1>2. ClearInv /\ [Next]_vars => ClearInv'
  <2> SUFFICES ASSUME ClearInv, [Next]_vars
               PROVE  ClearInv'
    OBVIOUS
  <2>1. CASE Draft
    BY <2>1 DEF Draft
  <2>2. CASE Compile
    <3>1. /\ packet' = {Feedback(query, opts)}
          /\ opts' = opts /\ executed' = executed /\ phase' = "decide"
      BY <2>2 DEF Compile
    <3>2. \A p \in packet' : p.nextAction = "execute" => Cleared(p, opts')
      BY <3>1, ExecuteIsClear
    <3>3. QED
      BY <3>1, <3>2
  <2>3. CASE ApplyRepairs
    BY <2>3 DEF ApplyRepairs
  <2>4. CASE Regenerate
    BY <2>4 DEF Regenerate
  <2>5. CASE RequestApproval
    BY <2>5 DEF RequestApproval, Decides
  <2>6. CASE Grant
    BY <2>6 DEF Grant
  <2>7. CASE Deny
    BY <2>7 DEF Deny
  <2>8. CASE Blocked
    BY <2>8 DEF Blocked
  <2>9. CASE Execute
    <3>1. PICK p \in packet :
            executed' = executed \cup {[query |-> p.proof.query, opts |-> opts]}
      BY <2>9 DEF Execute
    <3>2. Cleared(p, opts)
      BY <2>9 DEF Execute, Decides
    <3>3. RunsWereClear'
      BY <3>1, <3>2 DEF Cleared
    <3>4. QED
      BY <2>9, <3>3 DEF Execute
  <2>10. CASE Finished
    BY <2>10 DEF Finished, vars
  <2>11. CASE UNCHANGED vars
    BY <2>11 DEF vars
  <2>12. QED
    BY <2>1, <2>2, <2>3, <2>4, <2>5, <2>6, <2>7, <2>8, <2>9, <2>10, <2>11
    DEF Next
<1>3. QED
  BY <1>1, <1>2, PTL DEF Spec

-----------------------------------------------------------------------------
\* No packet, at no point of the loop, says "execute" of a query that has
\* errors, that waits for approval, or that the policy or the proof blocks.
THEOREM ExecuteCleared == Spec => []ExecuteIsCleared
<1>1. ClearInv => ExecuteIsCleared
  BY DEF ClearInv, PacketIsClear, Cleared, ExecuteIsCleared, IsClear
<1>2. QED
  BY <1>1, ClearInvariant, PTL

\* No query with a write at its top level runs without both flags of the
\* approval path, whichever repairs and approvals came before.
THEOREM WritesApproved == Spec => []ExecutedWritesWereApproved
<1>1. ClearInv => ExecutedWritesWereApproved
  BY DEF ClearInv, RunsWereClear, ExecutedWritesWereApproved, RequiresApproval
<1>2. QED
  BY <1>1, ClearInvariant, PTL

\* An unbounded traversal of a MATCH is an error of the policy.
LEMMA UnboundedIsAnError ==
  ASSUME NEW q, NEW o, NEW rel \in MatchedRelationships(q),
         rel.maxHops = Unbounded
  PROVE  HasErrors(PolicyFindings(q, o))
<1> DEFINE d == Error("policy-unbounded-traversal")
<1>1. PICK c \in Range(q) : /\ c.kind = "match"
                            /\ \E p \in Range(c.patterns) :
                                 \E i \in DOMAIN p.tail : rel = p.tail[i].rel
  BY DEF MatchedRelationships
<1>2. PICK p \in Range(c.patterns) : \E i \in DOMAIN p.tail : rel = p.tail[i].rel
  BY <1>1
<1>3. d \in HopFindings(rel)
  BY DEF HopFindings, When
<1>4. d \in PathFindings(p)
  BY <1>2, <1>3 DEF PathFindings
<1>5. d \in MatchFindings(c)
  BY <1>4 DEF MatchFindings
<1>6. d \in PolicyFindings(q, o)
  BY <1>1, <1>5 DEF PolicyFindings
<1>7. d.severity = "error"
  BY DEF Error, Diagnostic
<1>8. QED
  BY <1>6, <1>7 DEF HasErrors

\* No query that runs has a MATCH at its top level that walks relationships
\* without a bound.
THEOREM TraversalsBounded == Spec => []ExecutedTraversalsAreBounded
<1>1. ClearInv => ExecutedTraversalsAreBounded
  BY UnboundedIsAnError DEF ClearInv, RunsWereClear, ExecutedTraversalsAreBounded
<1>2. QED
  BY <1>1, ClearInvariant, PTL

-----------------------------------------------------------------------------
(***************************************************************************)
(* Types.  A packet the agent decides on is that of the query and the      *)
(* options it holds, so the query it is given to go on with is the         *)
(* repaired one.                                                           *)
(***************************************************************************)
PacketIsCurrent == phase = "decide" => packet = {Feedback(query, opts)}

TypeInv == TypeOK /\ PacketIsCurrent

\* The fields of the caller's options.
LEMMA OptionsFields ==
  ASSUME NEW o \in Options
  PROVE  /\ o.defaultLimit \in Int /\ o.defaultMaxHops \in Int
         /\ RepairPlanOptions(o).defaultLimit = o.defaultLimit
         /\ RepairPlanOptions(o).defaultMaxHops = o.defaultMaxHops
BY DEF Options, RepairPlanOptions

\* Both halves of a packet carry the query repaired once.
LEMMA FeedbackQueries ==
  ASSUME NEW q \in Query, NEW o \in Options
  PROVE  /\ Feedback(q, o).proof.query = Repaired(q, o)
         /\ Feedback(q, o).repairPlan.repaired = Repaired(q, o)
         /\ Repaired(q, o) \in Query
<1>1. Feedback(q, o).proof.query = Repaired(q, o)
  BY DEF Feedback, PacketOf, PacketWith, Proof, ProofOf, SafePlan, PlanFor
<1>2. Feedback(q, o).repairPlan.repaired = Repaired(q, RepairPlanOptions(o))
  BY DEF Feedback, PacketOf, PacketWith, RepairPlan, RepairPlanWith, RepairPlanFor
<1>3. Repaired(q, RepairPlanOptions(o)) = Repaired(q, o)
  BY OptionsFields, RepairedByDefaults
<1>4. QED
  BY <1>1, <1>2, <1>3, OptionsFields, RepairedIsQuery

\* Every variable keeps its type, and no decision is taken on a stale packet.
THEOREM TypeInvariant == Spec => []TypeInv
<1>1. Init => TypeInv
  <2>1. <<>> \in Query
    BY DEF Query
  <2>2. QED
    BY <2>1, LoopAssumption DEF Init, TypeInv, TypeOK, PacketIsCurrent, Phases, Final
<1>2. TypeInv /\ [Next]_vars => TypeInv'
  <2> SUFFICES ASSUME TypeInv, [Next]_vars
               PROVE  TypeInv'
    OBVIOUS
  <2> USE DEF TypeInv, TypeOK, PacketIsCurrent, Phases, Final
  <2>1. CASE Draft
    BY <2>1, LoopAssumption DEF Draft
  <2>2. CASE Compile
    BY <2>2 DEF Compile
  <2>3. CASE ApplyRepairs
    <3>1. PICK p \in packet : query' = p.repairPlan.repaired
      BY <2>3 DEF ApplyRepairs
    <3>2. p = Feedback(query, opts)
      BY <2>3, <3>1 DEF ApplyRepairs, Decides
    <3>3. query' \in Query
      BY <3>1, <3>2, FeedbackQueries
    <3>4. rounds' \in 0..MaxRounds
      BY <2>3, LoopAssumption DEF ApplyRepairs
    <3>5. QED
      BY <2>3, <3>3, <3>4 DEF ApplyRepairs
  <2>4. CASE Regenerate
    <3>1. <<>> \in Query
      BY DEF Query
    <3>2. QED
      BY <2>4, <3>1 DEF Regenerate
  <2>5. CASE RequestApproval
    BY <2>5 DEF RequestApproval
  <2>6. CASE Grant
    <3>1. opts' \in Options
      BY <2>6 DEF Grant, Options
    <3>2. QED
      BY <2>6, <3>1, LoopAssumption DEF Grant
  <2>7. CASE Deny
    BY <2>7 DEF Deny
  <2>8. CASE Blocked
    BY <2>8 DEF Blocked
  <2>9. CASE Execute
    <3>1. PICK p \in packet :
            executed' = executed \cup {[query |-> p.proof.query, opts |-> opts]}
      BY <2>9 DEF Execute
    <3>2. p = Feedback(query, opts)
      BY <2>9, <3>1 DEF Execute, Decides
    <3>3. p.proof.query \in Query
      BY <3>2, FeedbackQueries
    <3>4. executed' \subseteq [query: Query, opts: Options]
      BY <3>1, <3>3
    <3>5. QED
      BY <2>9, <3>4 DEF Execute
  <2>10. CASE Finished
    BY <2>10 DEF Finished, vars
  <2>11. CASE UNCHANGED vars
    BY <2>11 DEF vars
  <2>12. QED
    BY <2>1, <2>2, <2>3, <2>4, <2>5, <2>6, <2>7, <2>8, <2>9, <2>10, <2>11
    DEF Next
<1>3. QED
  BY <1>1, <1>2, PTL DEF Spec

\* The variables of the loop have their types in every reachable state.
THEOREM TypeCorrect == Spec => []TypeOK
<1>1. TypeInv => TypeOK
  BY DEF TypeInv
<1>2. QED
  BY <1>1, TypeInvariant, PTL

-----------------------------------------------------------------------------
(***************************************************************************)
(* Repair settles.  What runs had nothing left to repair, by any contract; *)
(* under an unambiguous one, one round of repairs is enough.               *)
(***************************************************************************)
LEMMA ExecuteHasNoRepairs ==
  ASSUME NEW q \in Query, NEW o \in Options,
         Feedback(q, o).nextAction = "execute"
  PROVE  Repaired(q, o) = q
<1>1. Feedback(q, o).status = "ready"
  BY ExecuteIsReady
<1>2. FeedbackStatus(Proof(q, o), RepairPlan(q, RepairPlanOptions(o))) = "ready"
  BY <1>1 DEF Feedback, PacketOf, PacketWith
<1>3. Proof(q, o).repairs = {}
  BY <1>2 DEF FeedbackStatus
<1>4. Applied(q, o) = {}
  BY <1>3 DEF Proof, ProofOf, SafePlan, PlanFor
<1>5. QED
  BY <1>4, NoRepairsIsSettled, OptionsFields

\* A packet that asks for repairs is one of a query that repair changes.
LEMMA RepairsAreLeft ==
  ASSUME NEW q \in Query, NEW o \in Options,
         Feedback(q, o).nextAction = "apply-deterministic-repairs"
  PROVE  Repaired(q, o) # q
<1> DEFINE p == Feedback(q, o)
           plan == RepairPlan(q, RepairPlanOptions(o))
<1>1. /\ p.nextAction = NextAction(p.status, p.codes)
      /\ p.status = FeedbackStatus(Proof(q, o), plan)
  BY DEF Feedback, PacketOf, PacketWith
<1>2. Proof(q, o).repairs = Applied(q, o)
  BY DEF Proof, ProofOf, SafePlan, PlanFor
<1>3. plan.deterministic = Applied(q, RepairPlanOptions(o))
  BY DEF RepairPlan, RepairPlanWith, RepairPlanFor
<1> HIDE DEF p, plan
<1>4. p.status \in {"ready", "repaired", "needs-model", "blocked"}
  BY <1>1 DEF FeedbackStatus
<1>5. p.nextAction = "apply-deterministic-repairs"
  BY DEF p
<1>6. p.status = "repaired"
  BY <1>1, <1>4, <1>5 DEF NextAction
<1>7. Applied(q, o) # {} \/ Applied(q, RepairPlanOptions(o)) # {}
  BY <1>1, <1>2, <1>3, <1>6 DEF FeedbackStatus
<1>8. Repaired(q, RepairPlanOptions(o)) = Repaired(q, o)
  BY OptionsFields, RepairedByDefaults
<1>9. QED
  BY <1>7, <1>8, SettledHasNoRepairs

\* Every query that runs is a fixed point of repair: the text that was
\* validated is the text that runs, and no repair was left out.
THEOREM ExecutedSettled == Spec => []ExecutedIsSettled
<1>1. Init => ExecutedIsSettled
  BY DEF Init, ExecutedIsSettled
<1>2. TypeInv /\ ExecutedIsSettled /\ [Next]_vars => ExecutedIsSettled'
  <2> SUFFICES ASSUME TypeInv, ExecutedIsSettled, [Next]_vars
               PROVE  ExecutedIsSettled'
    OBVIOUS
  <2>1. CASE Execute
    <3>1. PICK p \in packet :
            executed' = executed \cup {[query |-> p.proof.query, opts |-> opts]}
      BY <2>1 DEF Execute
    <3>2. /\ p = Feedback(query, opts) /\ p.nextAction = "execute"
          /\ query \in Query /\ opts \in Options
      BY <2>1, <3>1 DEF Execute, Decides, TypeInv, TypeOK, PacketIsCurrent
    <3>3. p.proof.query = query /\ Repaired(query, opts) = query
      BY <3>2, ExecuteHasNoRepairs, FeedbackQueries
    <3>4. QED
      BY <3>1, <3>3 DEF ExecutedIsSettled
  <2>2. CASE executed' = executed
    BY <2>2 DEF ExecutedIsSettled
  <2>3. QED
    BY <2>1, <2>2 DEF Next, vars, Draft, Compile, ApplyRepairs, Regenerate,
       RequestApproval, Grant, Deny, Blocked, Finished
<1>3. QED
  BY <1>1, <1>2, TypeInvariant, PTL DEF Spec

\* After a round of repairs the query has none left.
SettledInv == /\ rounds <= 1
              /\ rounds > 0 => Repaired(query, opts) = query

\* Where no spelling belongs to two entries of the contract, the agent is
\* asked to apply repairs to a draft at most once.
THEOREM RepairsSettleOnce ==
  ASSUME Unambiguous
  PROVE  Spec => []RepairsSettle
<1>1. Init => SettledInv
  BY DEF Init, SettledInv
<1>2. TypeInv /\ SettledInv /\ [Next]_vars => SettledInv'
  <2> SUFFICES ASSUME TypeInv, SettledInv, [Next]_vars
               PROVE  SettledInv'
    OBVIOUS
  <2>1. query \in Query /\ opts \in Options /\ rounds \in 0..MaxRounds
    BY DEF TypeInv, TypeOK
  <2>2. CASE Draft
    BY <2>2 DEF Draft, SettledInv
  <2>3. CASE ApplyRepairs
    <3>1. PICK p \in packet : query' = p.repairPlan.repaired
      BY <2>3 DEF ApplyRepairs
    <3>2. /\ p = Feedback(query, opts)
          /\ p.nextAction = "apply-deterministic-repairs"
      BY <2>3, <3>1 DEF ApplyRepairs, Decides, TypeInv, PacketIsCurrent
    <3>3. Repaired(query, opts) # query
      BY <2>1, <3>2, RepairsAreLeft
    <3>4. rounds = 0
      BY <2>1, <3>3, LoopAssumption DEF SettledInv
    <3>5. rounds' <= 1
      BY <2>3, <3>4 DEF ApplyRepairs
    <3>6. query' = Repaired(query, opts) /\ opts' = opts
      BY <2>1, <2>3, <3>1, <3>2, FeedbackQueries DEF ApplyRepairs
    <3>7. Repaired(query', opts') = query'
      BY <2>1, <3>6, OptionsFields, RepairIsIdempotent
    <3>8. QED
      BY <3>5, <3>7 DEF SettledInv
  <2>4. CASE Regenerate
    <3>1. query' = <<>> /\ rounds' = rounds
      BY <2>4 DEF Regenerate
    <3>2. Repaired(<<>>, opts') = <<>>
      BY DEF Repaired
    <3>3. QED
      BY <3>1, <3>2 DEF SettledInv
  <2>5. CASE Grant
    <3>1. /\ opts'.defaultLimit = opts.defaultLimit
          /\ opts'.defaultMaxHops = opts.defaultMaxHops
      BY <2>1, <2>5 DEF Grant, Options
    <3>2. Repaired(query, opts') = Repaired(query, opts)
      BY <3>1, RepairedByDefaults
    <3>3. QED
      BY <2>5, <3>2 DEF Grant, SettledInv
  <2>6. CASE UNCHANGED <<query, opts, rounds>>
    BY <2>6 DEF SettledInv
  <2>7. QED
    BY <2>2, <2>3, <2>4, <2>5, <2>6 DEF Next, vars, Compile, RequestApproval,
       Deny, Blocked, Execute, Finished
<1>3. SettledInv => RepairsSettle
  BY DEF SettledInv, RepairsSettle
<1>4. QED
  BY <1>1, <1>2, <1>3, TypeInvariant, PTL DEF Spec

\* There the two halves of a packet agree on the query, in every packet.
THEOREM PacketsAgree ==
  ASSUME Unambiguous
  PROVE  Spec => []PacketAgrees
<1> DEFINE Agrees(p) == /\ p.proof.query = p.repairPlan.query
                        /\ p.proof.query = p.repairPlan.repaired
           Inv == \A p \in packet : Agrees(p)
<1>1. ASSUME NEW q \in Query, NEW o \in Options
      PROVE  Agrees(Feedback(q, o))
  <2> DEFINE p == Feedback(q, o)
  <2>1. /\ p.proof.query = Repaired(q, o)
        /\ p.repairPlan.repaired = Repaired(q, o)
        /\ Repaired(q, o) \in Query
    BY FeedbackQueries
  <2>2. p.repairPlan.query
          = Repaired(Repaired(q, RepairPlanOptions(o)), RepairPlanOptions(o))
    BY DEF Feedback, PacketOf, PacketWith, RepairPlan, RepairPlanWith, RepairPlanFor, SafePlan, PlanFor
  <2>3. Repaired(q, RepairPlanOptions(o)) = Repaired(q, o)
    BY OptionsFields, RepairedByDefaults
  <2>4. Repaired(Repaired(q, o), RepairPlanOptions(o)) = Repaired(Repaired(q, o), o)
    BY OptionsFields, RepairedByDefaults
  <2>5. Repaired(Repaired(q, o), o) = Repaired(q, o)
    BY OptionsFields, RepairIsIdempotent
  <2> HIDE DEF p
  <2>6. Agrees(p)
    BY <2>1, <2>2, <2>3, <2>4, <2>5
  <2>7. QED
    BY <2>6 DEF p
<1> HIDE DEF Agrees
<1>2. Init => Inv
  BY DEF Init
<1>3. TypeInv /\ Inv /\ [Next]_vars => Inv'
  <2> SUFFICES ASSUME TypeInv, Inv, [Next]_vars
               PROVE  Inv'
    OBVIOUS
  <2>1. CASE Compile
    BY <1>1, <2>1 DEF Compile, TypeInv, TypeOK
  <2>2. CASE Regenerate
    BY <2>2 DEF Regenerate
  <2>3. CASE packet' = packet
    BY <2>3
  <2>4. QED
    BY <2>1, <2>2, <2>3 DEF Next, vars, Draft, ApplyRepairs, RequestApproval,
       Grant, Deny, Blocked, Execute, Finished
<1>4. Inv => PacketAgrees
  BY DEF PacketAgrees, Agrees
<1>5. QED
  BY <1>2, <1>3, <1>4, TypeInvariant, PTL DEF Spec

-----------------------------------------------------------------------------
(***************************************************************************)
(* What runs uses names of the contract: validation stopped the unknown    *)
(* ones, and a settled query has no alias left at its top level.           *)
(***************************************************************************)
LEMMA ValidLabelsAreKnown ==
  ASSUME NEW q, ~HasErrors(ValidateByDefault(q)),
         NEW c \in Range(q), NEW p \in Range(c.patterns),
         NEW n \in NodesOf(p), NEW l \in Range(n.labels)
  PROVE  IsKnownLabel(l)
<1> DEFINE d == Error("unknown-label")
<1>1. d.severity = "error"
  BY DEF Error, Diagnostic
<1> HIDE DEF d
<1>2. SUFFICES ASSUME ~IsKnownLabel(l)
               PROVE  d \in ValidateByDefault(q)
  BY <1>1 DEF HasErrors
<1>3. {i \in DOMAIN n.labels : IsKnownLabel(n.labels[i])} # DOMAIN n.labels
  BY <1>2 DEF Range
<1>4. d \in NodeDiagnostics(n)
  BY <1>3 DEF NodeDiagnostics, When, d
<1>5. PICK i \in {0} \cup DOMAIN p.tail : n = NodeAt(p, i)
  BY DEF NodesOf
<1>6. d \in PathDiagnostics(p)
  <2>1. CASE n = p.head
    BY <1>4, <2>1 DEF PathDiagnostics
  <2>2. CASE i \in DOMAIN p.tail /\ n = p.tail[i].node
    BY <1>4, <2>2 DEF PathDiagnostics
  <2>3. QED
    BY <1>5, <2>1, <2>2 DEF NodeAt
<1>7. d \in ClauseDiagnostics(c, DisallowWritesByDefault)
  BY <1>6 DEF ClauseDiagnostics
<1>8. QED
  BY <1>7 DEF ValidateByDefault, Validate, AllClauses

\* A type the validator has no error for is declared, under some spelling.
LEMMA ValidTypesAreKnown ==
  ASSUME NEW q, ~HasErrors(ValidateByDefault(q)),
         NEW c \in Range(q), NEW p \in Range(c.patterns),
         NEW i \in DOMAIN p.tail, NEW t \in Range(p.tail[i].rel.types)
  PROVE  IsKnownType(t)
<1> DEFINE d == Error("unknown-relationship-type")
           rel == p.tail[i].rel
<1>1. d.severity = "error"
  BY DEF Error, Diagnostic
<1> HIDE DEF d
<1>2. SUFFICES ASSUME ~IsKnownType(t)
               PROVE  d \in ValidateByDefault(q)
  BY <1>1 DEF HasErrors
<1>3. d \in RelationshipDiagnostics(rel, NodeAt(p, i - 1), NodeAt(p, i))
  BY <1>2 DEF RelationshipDiagnostics, d
<1>4. d \in PathDiagnostics(p)
  BY <1>3 DEF PathDiagnostics
<1>5. d \in ClauseDiagnostics(c, DisallowWritesByDefault)
  BY <1>4 DEF ClauseDiagnostics
<1>6. QED
  BY <1>5 DEF ValidateByDefault, Validate, AllClauses

\* In a settled query every spelling of a known label or type is its name.
LEMMA SettledNamesAreCanonical ==
  ASSUME NEW q \in Query, NEW o, Repaired(q, o) = q,
         NEW c \in Range(q), NEW p \in Range(c.patterns)
  PROVE  /\ \A n \in NodesOf(p) : \A l \in Range(n.labels) : CanonicalLabel(l) = l
         /\ \A i \in DOMAIN p.tail : \A t \in Range(p.tail[i].rel.types) :
              CanonicalType(t) = t
<1>1. c \in FlatClause \cup CallClause
  BY DEF Query, Range
<1>2. RepairedClause(c, o) = c
  BY DEF Repaired, Range
<1>3. p \in PathPattern
  <2>1. CASE c \in FlatClause
    <3>1. c.patterns \in Seq(PathPattern)
      BY <2>1 DEF FlatClause
    <3>2. QED
      BY <3>1 DEF Range
  <2>2. CASE c \in CallClause
    BY <2>2 DEF CallClause, Range
  <2>3. QED
    BY <1>1, <2>1, <2>2
<1>4. RepairedPath(p, o) = p
  <2>1. c.patterns = [j \in DOMAIN c.patterns |-> RepairedPath(c.patterns[j], o)]
    BY <1>1, <1>2, RepairedClauseFields
  <2>2. QED
    BY <2>1 DEF Range
<1> DEFINE Hop == [rel: RelationshipPattern, node: NodePattern]
<1>5. /\ p.head \in NodePattern /\ p.tail \in Seq(Hop)
  BY <1>3 DEF PathPattern
<1> HIDE DEF Hop
<1>6. \A i \in DOMAIN p.tail : p.tail[i].node \in NodePattern
  <2>1. \A i \in DOMAIN p.tail : p.tail[i] \in Hop
    BY <1>5
  <2>2. QED
    BY <2>1 DEF Hop
<1>7. /\ p.head = CanonicalNode(p.head)
      /\ \A i \in DOMAIN p.tail :
           /\ p.tail[i].node = CanonicalNode(p.tail[i].node)
           /\ p.tail[i].rel.types
                = [k \in DOMAIN p.tail[i].rel.types |-> CanonicalType(p.tail[i].rel.types[k])]
  BY <1>4 DEF RepairedPath, RepairedRelationship
<1>8. ASSUME NEW n \in NodesOf(p), NEW l \in Range(n.labels)
      PROVE  CanonicalLabel(l) = l
  <2>1. n \in NodePattern /\ n = CanonicalNode(n)
    BY <1>5, <1>6, <1>7 DEF NodesOf, NodeAt
  <2>2. n.labels = [i \in DOMAIN n.labels |-> CanonicalLabel(n.labels[i])]
    BY <2>1, CanonicalNodeType
  <2>3. QED
    BY <2>2 DEF Range
<1>9. ASSUME NEW i \in DOMAIN p.tail, NEW t \in Range(p.tail[i].rel.types)
      PROVE  CanonicalType(t) = t
  <2>1. PICK k \in DOMAIN p.tail[i].rel.types : t = p.tail[i].rel.types[k]
    BY DEF Range
  <2>2. p.tail[i].rel.types[k] = CanonicalType(p.tail[i].rel.types[k])
    BY <1>7, <2>1
  <2>3. QED
    BY <2>1, <2>2
<1>10. QED
  BY <1>8, <1>9

\* An executed query was validated without an error.
RunsWereValid == \A run \in executed : ~HasErrors(ValidateByDefault(run.query))

\* "execute" is only said of a query the validator has no error for.
LEMMA ExecuteIsValid ==
  ASSUME NEW q, NEW o, Feedback(q, o).nextAction = "execute"
  PROVE  ~HasErrors(ValidateByDefault(Feedback(q, o).proof.query))
<1>1. SafePlan(q, o).canExecute
  BY ExecuteIsReady, UnblockedIsClear
<1>2. ~HasErrors(PlanDiagnostics(SafePlan(q, o).query, o))
  BY <1>1 DEF SafePlan, PlanFor
<1>3. Feedback(q, o).proof.query = SafePlan(q, o).query
  BY DEF Feedback, PacketOf, PacketWith, Proof, ProofOf
<1>4. QED
  BY <1>2, <1>3 DEF HasErrors, PlanDiagnostics

\* What has been run had no error of the validator.
LEMMA ValidRuns == Spec => []RunsWereValid
<1>1. Init => RunsWereValid
  BY DEF Init, RunsWereValid
<1>2. TypeInv /\ RunsWereValid /\ [Next]_vars => RunsWereValid'
  <2> SUFFICES ASSUME TypeInv, RunsWereValid, [Next]_vars
               PROVE  RunsWereValid'
    OBVIOUS
  <2>1. CASE Execute
    <3>1. PICK p \in packet :
            executed' = executed \cup {[query |-> p.proof.query, opts |-> opts]}
      BY <2>1 DEF Execute
    <3>2. p = Feedback(query, opts) /\ p.nextAction = "execute"
      BY <2>1, <3>1 DEF Execute, Decides, TypeInv, PacketIsCurrent
    <3>3. ~HasErrors(ValidateByDefault(p.proof.query))
      BY <3>2, ExecuteIsValid
    <3>4. QED
      BY <3>1, <3>3 DEF RunsWereValid
  <2>2. CASE executed' = executed
    BY <2>2 DEF RunsWereValid
  <2>3. QED
    BY <2>1, <2>2 DEF Next, vars, Draft, Compile, ApplyRepairs, Regenerate,
       RequestApproval, Grant, Deny, Blocked, Finished
<1>3. QED
  BY <1>1, <1>2, TypeInvariant, PTL DEF Spec

\* Every label and relationship type at the top level of a query that runs
\* is a name the contract declares, by any contract.
THEOREM NamesDeclared == Spec => []ExecutedNamesAreDeclared
<1>1. TypeInv /\ RunsWereValid /\ ExecutedIsSettled => ExecutedNamesAreDeclared
  <2> SUFFICES ASSUME TypeInv, RunsWereValid, ExecutedIsSettled, NEW run \in executed
               PROVE  /\ \A l \in LabelsOf(Range(run.query)) : IsCanonicalLabel(l)
                      /\ \A t \in TypesOf(Range(run.query)) : IsCanonicalType(t)
    BY DEF ExecutedNamesAreDeclared
  <2>1. /\ run.query \in Query
        /\ ~HasErrors(ValidateByDefault(run.query))
        /\ Repaired(run.query, run.opts) = run.query
    BY DEF TypeInv, TypeOK, RunsWereValid, ExecutedIsSettled
  <2>2. ASSUME NEW l \in LabelsOf(Range(run.query))
        PROVE  IsCanonicalLabel(l)
    <3>1. PICK c \in Range(run.query) : \E p \in Range(c.patterns) :
            \E n \in NodesOf(p) : l \in Range(n.labels)
      BY DEF LabelsOf, PatternsOf
    <3>2. IsKnownLabel(l)
      BY <2>1, <3>1, ValidLabelsAreKnown
    <3>3. CanonicalLabel(l) = l
      BY <2>1, <3>1, SettledNamesAreCanonical
    <3>4. QED
      BY <3>2, <3>3, LabelNameIsDeclared DEF CanonicalLabel, IsCanonicalLabel
  <2>3. ASSUME NEW t \in TypesOf(Range(run.query))
        PROVE  IsCanonicalType(t)
    <3>1. PICK c \in Range(run.query) : \E p \in Range(c.patterns) :
            \E i \in DOMAIN p.tail : t \in Range(p.tail[i].rel.types)
      BY DEF TypesOf, PatternsOf
    <3>2. IsKnownType(t)
      BY <2>1, <3>1, ValidTypesAreKnown
    <3>3. CanonicalType(t) = t
      BY <2>1, <3>1, SettledNamesAreCanonical
    <3>4. QED
      BY <3>2, <3>3, TypeNameIsDeclared DEF CanonicalType, IsCanonicalType
  <2>4. QED
    BY <2>2, <2>3
<1>2. QED
  BY <1>1, TypeInvariant, ValidRuns, ExecutedSettled, PTL

-----------------------------------------------------------------------------
(***************************************************************************)
(* Approval settles.  Under a contract that does not forbid writes of its  *)
(* own, nothing but the two flags of the caller makes a packet ask for     *)
(* approval.                                                               *)
(***************************************************************************)
AsksNoApproval(diagnostics) == \A d \in diagnostics : d.code \notin ApprovalCodes

LEMMA ClauseAsksNoApproval ==
  ASSUME NEW c, NEW disallowed, ~disallowed
  PROVE  AsksNoApproval(ClauseDiagnostics(c, disallowed))
<1> USE DEF AsksNoApproval, ApprovalCodes, When, Error, Warning, Hinted, Diagnostic
<1>1. ASSUME NEW node
      PROVE  AsksNoApproval(NodeDiagnostics(node))
  BY DEF NodeDiagnostics
<1>2. ASSUME NEW rel, NEW left, NEW right
      PROVE  AsksNoApproval(RelationshipDiagnostics(rel, left, right))
  BY DEF RelationshipDiagnostics, DirectionDiagnostics
<1> HIDE DEF When, Error, Warning, Hinted, Diagnostic, ApprovalCodes
<1>3. ASSUME NEW path
      PROVE  AsksNoApproval(PathDiagnostics(path))
  BY <1>1, <1>2 DEF PathDiagnostics
<1>4. AsksNoApproval(UNION {PathDiagnostics(p) : p \in Range(c.patterns)})
  BY <1>3
<1>5. QED
  BY <1>4 DEF ClauseDiagnostics, When, Error, Warning, Hinted, Diagnostic, ApprovalCodes

LEMMA ValidationAsksNoApproval ==
  ASSUME NEW q, NEW disallowed, ~disallowed
  PROVE  AsksNoApproval(Validate(q, disallowed))
BY ClauseAsksNoApproval DEF Validate, AsksNoApproval

LEMMA PolicyAsksNoApproval ==
  ASSUME NEW q, NEW o, o.allowWrites
  PROVE  AsksNoApproval(PolicyFindings(q, o))
<1> USE DEF AsksNoApproval
<1>1. ASSUME NEW path
      PROVE  AsksNoApproval(PathFindings(path))
  BY DEF PathFindings, HeadFindings, HopFindings,
         When, Error, Warning, Diagnostic, ApprovalCodes
<1>2. ASSUME NEW c
      PROVE  AsksNoApproval(MatchFindings(c))
  BY <1>1 DEF MatchFindings, When, Warning, Diagnostic, ApprovalCodes
<1>3. ASSUME NEW c
      PROVE  AsksNoApproval(ReturnFindings(c))
  BY DEF ReturnFindings, When, Warning, Diagnostic, ApprovalCodes
<1>4. ASSUME NEW c
      PROVE  When(IsWriteClause(c) /\ ~o.allowWrites, Error("policy-write-risk")) = {}
  BY DEF When
<1>5. QED
  BY <1>2, <1>3, <1>4 DEF PolicyFindings

LEMMA PlanAsksNoApproval ==
  ASSUME ~DisallowWritesByDefault, NEW q, NEW o, o.allowWrites, o.approved
  PROVE  AsksNoApproval(SafePlan(q, o).diagnostics)
<1> DEFINE repaired == Repaired(q, o)
<1>1. SafePlan(q, o).diagnostics = PlanDiagnostics(repaired, o)
  BY DEF SafePlan, PlanFor
<1> HIDE DEF repaired
<1>2. /\ AsksNoApproval(Validate(repaired, DisallowWritesByDefault))
      /\ AsksNoApproval(Validate(repaired, ~o.allowWrites))
  BY ValidationAsksNoApproval
<1>3. AsksNoApproval(MissingParameters(o))
  BY DEF AsksNoApproval, MissingParameters, When, Error, Diagnostic, ApprovalCodes
<1>4. When(RequiresApproval(repaired, o), Error("execution-approval-required")) = {}
  BY DEF When, RequiresApproval
<1>5. AsksNoApproval(PlanDiagnostics(repaired, o))
  BY <1>2, <1>3, <1>4 DEF PlanDiagnostics, AsksNoApproval, ValidateByDefault
<1>6. QED
  BY <1>1, <1>5

\* The packet of a query whose writes are allowed and approved has no code
\* that asks for approval, and so does not ask.
LEMMA FeedbackAsksNoApproval ==
  ASSUME ~DisallowWritesByDefault,
         NEW q, NEW o \in Options, o.allowWrites, o.approved
  PROVE  Feedback(q, o).nextAction # "request-approval"
<1> DEFINE o2     == RepairPlanOptions(o)
           proof  == Proof(q, o)
           plan   == RepairPlan(q, o2)
           status == FeedbackStatus(proof, plan)
           codes  == proof.codes \cup Codes(plan.diagnostics)
<1>1. o2.allowWrites /\ o2.approved
  BY DEF RepairPlanOptions, Options
<1> HIDE DEF o2
<1>2. ASSUME NEW any
      PROVE  AsksNoApproval(ParserDiagnostics(any))
  BY DEF AsksNoApproval, ParserDiagnostics, When, Error, Diagnostic, ApprovalCodes
<1>3. ASSUME NEW any
      PROVE  AsksNoApproval(ValidateByDefault(any))
  BY ValidationAsksNoApproval DEF ValidateByDefault
<1>4. proof.codes \cap ApprovalCodes = {}
  <2>1. proof.codes = ProofCodes(SafePlan(q, o), o)
    BY DEF Proof, ProofOf
  <2>2. QED
    BY <1>2, <2>1, PlanAsksNoApproval, PolicyAsksNoApproval
    DEF ProofCodes, Codes, AsksNoApproval
<1>5. AsksNoApproval(plan.diagnostics)
  <2> DEFINE repaired == Repaired(q, o2)
             safe     == SafePlan(repaired, o2)
  <2>1. plan.diagnostics = RepairPlanDiagnostics(q, repaired, safe, o2)
    BY DEF RepairPlan, RepairPlanWith, RepairPlanFor
  <2>2. AsksNoApproval(safe.diagnostics)
    BY <1>1, PlanAsksNoApproval
  <2> HIDE DEF repaired, safe
  <2>3. AsksNoApproval(PolicyFindings(repaired, o2))
    BY <1>1, PolicyAsksNoApproval
  <2>4. QED
    BY <1>2, <1>3, <2>1, <2>2, <2>3 DEF RepairPlanDiagnostics, AsksNoApproval
<1>6. codes \cap ApprovalCodes = {}
  BY <1>4, <1>5 DEF Codes, AsksNoApproval
<1>7. Feedback(q, o).nextAction = NextAction(status, codes)
  BY DEF Feedback, PacketOf, PacketWith, o2
<1>8. status \in {"ready", "repaired", "needs-model", "blocked"}
  BY DEF FeedbackStatus
<1> HIDE DEF status, codes
<1>9. QED
  BY <1>6, <1>7, <1>8 DEF NextAction

\* An agent whose caller has allowed and approved writes is never sent back
\* to ask for approval, unless the contract itself forbids writes.
THEOREM ApprovalSettlesOnce ==
  ASSUME ~DisallowWritesByDefault
  PROVE  Spec => []ApprovalSettles
<1>1. TypeInv => ApprovalSettles
  BY FeedbackAsksNoApproval
  DEF TypeInv, TypeOK, PacketIsCurrent, ApprovalSettles, Decides
<1>2. QED
  BY <1>1, TypeInvariant, PTL

=============================================================================
