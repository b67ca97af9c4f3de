--------------------------- MODULE SchemaContract ---------------------------
(***************************************************************************)
(* The schema contract every compiler pass reads (src/src/schema.ts): the  *)
(* declared node labels and relationship types, the aliases under which a  *)
(* model may spell them, and the lookup that turns a spelling into the     *)
(* declared name.                                                          *)
(***************************************************************************)
EXTENDS Integers, Sequences, FiniteSetsExt, Functions

CONSTANTS
  Nodes,          \* sequence of [name, aliases, properties], in contract order
  Relationships,  \* sequence of [type, aliases, from, to, directed]
  KeyOf,          \* spelling |-> lookup key (lookupKey: trimmed, lower case)
  Property,       \* every property name that a contract or a query mentions
  RequiredParams, \* parameters the contract declares as required
  DisallowWritesByDefault \* schema.disallowWritesByDefault ?? true

Spelling == DOMAIN KeyOf

NodeContract ==
  [name: Spelling, aliases: SUBSET Spelling, properties: SUBSET Property]

RelationshipContract ==
  [type: Spelling, aliases: SUBSET Spelling, from: SUBSET Spelling,
   to: SUBSET Spelling, directed: BOOLEAN]

ASSUME ContractAssumption ==
  /\ Nodes \in Seq(NodeContract)
  /\ Relationships \in Seq(RelationshipContract)
  /\ DisallowWritesByDefault \in BOOLEAN

-----------------------------------------------------------------------------
(***************************************************************************)
(* normalizeSchema registers, entry by entry, the key of the name and then *)
(* the keys of the aliases, each overwriting what an earlier entry had     *)
(* registered: the entry that owns a key is the last one that spells it.   *)
(***************************************************************************)
NodeKeys(i) == {KeyOf[s] : s \in {Nodes[i].name} \cup Nodes[i].aliases}

RelationshipKeys(i) ==
  {KeyOf[s] : s \in {Relationships[i].type} \cup Relationships[i].aliases}

LabelOwners(l) == {i \in DOMAIN Nodes : KeyOf[l] \in NodeKeys(i)}

TypeOwners(t) == {i \in DOMAIN Relationships : KeyOf[t] \in RelationshipKeys(i)}

IsKnownLabel(l) == LabelOwners(l) # {}
IsKnownType(t)  == TypeOwners(t) # {}

LabelName(l) == Nodes[Max(LabelOwners(l))].name
TypeName(t)  == Relationships[Max(TypeOwners(t))].type

CanonicalLabel(l) == IF IsKnownLabel(l) THEN LabelName(l) ELSE l
CanonicalType(t)  == IF IsKnownType(t)  THEN TypeName(t)  ELSE t

\* nodeByName and relationshipByType: the last entry declared under the name.
DeclaredAs(name) == {i \in DOMAIN Nodes : Nodes[i].name = name}
NodeByName(name) == Nodes[Max(DeclaredAs(name))]

DeclaredTypes(type) ==
  {i \in DOMAIN Relationships : Relationships[i].type = type}
RelationshipByType(type) == Relationships[Max(DeclaredTypes(type))]

\* No spelling belongs to two entries. normalizeSchema does not check it.
Unambiguous ==
  /\ \A i, j \in DOMAIN Nodes : i # j => NodeKeys(i) \cap NodeKeys(j) = {}
  /\ \A i, j \in DOMAIN Relationships :
       i # j => RelationshipKeys(i) \cap RelationshipKeys(j) = {}

-----------------------------------------------------------------------------
(***************************************************************************)
(* Whether a relationship of the contract may be walked in a direction     *)
(* between nodes with these (canonical) labels.  "undirected" is checked   *)
(* like "out".                                                             *)
(***************************************************************************)
RelationshipAllows(rel, direction, left, right) ==
  IF direction = "in"
    THEN left \cap rel.to # {} /\ right \cap rel.from # {}
    ELSE left \cap rel.from # {} /\ right \cap rel.to # {}

=============================================================================
