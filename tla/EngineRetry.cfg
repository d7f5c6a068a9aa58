CONSTANTS
  NoValue = NoValue
  NoResult = NoResult
  Value = {1, 2}
  MaxToken = 6
  Writer <- MCWriter
  External = 0
  Fact <- OscFact
  SharedFact = {}
  View = {"in", "x"}
  ViewOf <- OscViewOf
  Op <- GuardOp
  Root = {"P", "G"}
  Family = {}
  FamilyView <- NoFamilyView
  Commands <- OscCommands
  MaxCalls = 5
  RunLimit = 6
SPECIFICATION InstalledSpec
INVARIANTS OwnersAttached
