SPECIFICATION Spec
CONSTANTS
  Var = {"p", "q"}
  NoVar = "none"
  Property = {"tenant", "ssn", "name"}
  Label = {"Person", "Human", "City"}
  Type = {"KNOWS", "LIKES"}
  CanonicalLabel <- MCCanonicalLabel
  CanonicalType <- MCCanonicalType
  PropertyMaps <- MCPropertyMaps
  Param = {"t"}
  Expression <- MCExpression
  Size <- MCSize
  NoExpression = NoExpression
  Calls <- MCCalls
  Clauses <- MCClauses
  MaxClauses <- MCMaxClauses
CHECK_DEADLOCK FALSE
INVARIANTS
  TypeOK
  TenantScopeIsSound
  AskingLessFindsLess
  NoClauseHidesAnother
  PassedStaysPassed
  QuietPlansAreCheap
