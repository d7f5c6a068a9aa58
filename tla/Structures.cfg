SPECIFICATION Spec
CONSTANTS
  RadixFan = 2
  RadixDepth = 3
  HamtFan = 2
  HamtMaxDepth = 3
  k1 = k1
  k2 = k2
  k3 = k3
  k4 = k4
  Key <- MCKey
  Hash <- MCHash
  Ordinal <- MCOrdinal
  Val = {0}
  LeafMax = 2
  MaxLen = 7
  MaxNew = 3
  MaxEdits = 2
INVARIANTS
  SnapshotReads
  ReadsAsSequence
  IndexExact
PROPERTY IdsNeverReused
\* Editing stops at the bound on edits.
CHECK_DEADLOCK FALSE
