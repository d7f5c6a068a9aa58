CONSTANTS
  NoValue = NoValue
  NoResult = NoResult
  Value = {1, 2, 3}
  MaxToken = 6
  Writer <- MCWriter
  External = 0
  Fact <- FamilyFact
  SharedFact = {}
  View = {"k", "e", "s", "y"}
  ViewOf <- FamilyViewOf
  Op <- FailingOp
  Root = {}
  Family = {"F"}
  FamilyView <- KView
  Commands <- FailingCommands
  MaxCalls = 3
  RunLimit = 8
SPECIFICATION InstalledSpec
INVARIANTS OwnersAttached
