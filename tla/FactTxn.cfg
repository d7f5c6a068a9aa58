CONSTANTS
  a = a
  s = s
  v1 = v1
  v2 = v2
  i1 = i1
  i2 = i2
  ext = ext
  none = none
  Fact <- MCFact
  Value <- MCValue
  Writer <- MCWriter
  External = ext
  SharedFact <- MCSharedFact
  NoValue = none
  Captures <- MCCaptures
SPECIFICATION Spec
INVARIANTS TypeOK CommittedMatchesLive ExclusiveOwnership PreviousReadOfExisting
PROPERTIES RollbackRestores DeltaIsExact
