SPECIFICATION Spec
CONSTANTS
  Var = {"a", "b", "c"}
  NoVar = "none"
  Owner = {"Person", "KNOWS"}
  NoOwner = "none"
  Key = {"name", "since", "age"}
  KeysOf <- MCKeysOf
  Clauses <- MCClauses
  MaxClauses <- MCMaxClauses
INVARIANTS
  ScopeIsLexical
  SilentMeansVisible
PROPERTIES
  SubqueriesDoNotLeak
