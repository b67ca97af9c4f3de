CONSTANTS
  MaxLines = 3
  Lines <- MCLines
  Scripts <- MCScripts
SPECIFICATION Spec
INVARIANTS
  PublishedCallsAreAccepted
  StatedArgumentsArrive
PROPERTIES
  AnswersInOrder
  EveryLineIsSettled
CHECK_DEADLOCK FALSE
