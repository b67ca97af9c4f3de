CONSTANTS
  Names <- MCNames
  RelationshipTypes <- MCRelationshipTypes
  NodeNames <- MCNodeNames
  Sources <- MCMatches
  Length = 2
  Phrases = 2
SPECIFICATION Spec
CHECK_DEADLOCK FALSE
INVARIANTS
  AnnotationsPointHome
