SPECIFICATION FairSpec
CONSTANTS
  Nodes <- ChainedNodes
  Relationships <- MCRelationships
  KeyOf <- MCKeyOf
  Property = {"name", "age"}
  RequiredParams = {"tenant"}
  DisallowWritesByDefault = FALSE
  MaxReturnLimit = 100
  MaxRelationshipHops = 5
  Drafts <- MCDrafts
  CallerOptions <- MCOptions
  MaxRounds = 3
INVARIANTS
  ExecutedWritesWereApproved
  ApprovalSettles
  ExecutedIsSettled
PROPERTIES
  EveryDraftIsDecided
