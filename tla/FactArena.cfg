CONSTANTS
  a = a
  b = b
  v1 = v1
  v2 = v2
  i1 = i1
  i2 = i2
  ext = ext
  none = none
  map = map
  Fact <- MCFact
  Value <- MCValue
  Writer <- MCWriter
  External = ext
  SharedFact <- MCFact
  NoValue = none
  View <- MCView
  ViewOf <- MCViewOf
  Captures <- MCCaptures
  MaxTxns = 3
  MaxSteps = 2
SPECIFICATION CommandSpec
INVARIANTS IndexesAgree SnapshotExact
PROPERTIES RollbackExact ImplementsFactTxn
