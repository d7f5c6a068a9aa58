SPECIFICATION Spec
CONSTANTS
  Rules <- ListRules
  Start = "S"
  Unexpected = "x"
  Documents <- SomeDocuments
  MaxInsert = 2
  MaxCommands = 3
INVARIANTS
  ReachExact
  LineageSettled
  OrdersExact
PROPERTIES
  DeltaExact
  IdentityKept
\* A document that has had its commands stays as it is.
CHECK_DEADLOCK FALSE
