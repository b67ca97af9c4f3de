CONSTANTS
  Names <- MCNames
  RelationshipTypes <- MCRelationshipTypes
  NodeNames <- MCNodeNames
  Sources <- MCSources
  Length = 5
  Phrases = 3
SPECIFICATION Spec
CHECK_DEADLOCK FALSE
INVARIANTS
  TypeOK
  FragmentsAreCutInCode
  CommentsAndFaultsAreExact
  ClausesStartInCode
  EntriesNameTheirPlace
  SupportedQueriesPointHome
  RawRepairIsAPatch
