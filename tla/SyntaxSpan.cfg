SPECIFICATION Spec
CONSTANTS
  Rules <- ListRules
  Start = "S"
  Unexpected = "x"
  Documents <- SomeDocuments
  MaxInsert = 2
  MaxCommands = 2
INVARIANTS
  SpanExact
CHECK_DEADLOCK FALSE
