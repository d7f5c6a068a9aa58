CONSTANTS
  NoValue = NoValue
  NoResult = NoResult
  Value = {1, 2, 3, 4}
  MaxToken = 12
  Writer <- MCWriter
  External = 0
  Fact <- RootFact
  SharedFact = {"s"}
  View = {"in", "k", "x", "y", "s"}
  ViewOf <- RootViewOf
  Op <- RootsOp
  Root = {"P", "Q"}
  Family = {}
  FamilyView <- NoFamilyView
  Commands <- RootCommands
  MaxCalls = 6
  RunLimit = 9
SPECIFICATION InstalledSpec
INVARIANTS FixedPoint OwnersAttached PreviousCurrent
PROPERTIES FailureRestores
