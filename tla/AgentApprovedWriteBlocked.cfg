SPECIFICATION Spec
CONSTANTS
  Nodes <- MCNodes
  Relationships <- MCRelationships
  KeyOf <- MCKeyOf
  Property = {"name", "age"}
  RequiredParams = {"tenant"}
  DisallowWritesByDefault = TRUE
  MaxReturnLimit = 100
  MaxRelationshipHops = 5
  Drafts <- MCDrafts
  CallerOptions <- MCOptions
  MaxRounds = 3
INVARIANTS
  ApprovalSettles
