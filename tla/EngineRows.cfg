CONSTANTS
  NoValue = NoValue
  NoResult = NoResult
  Value = {1, 2}
  MaxToken = 4
  Writer <- MCWriter
  External = 0
  Fact <- TwiceFact
  SharedFact = {}
  View = {"in", "k", "x"}
  ViewOf <- TwiceViewOf
  Op <- TwiceOp
  Root = {"P"}
  Family = {}
  FamilyView <- NoFamilyView
  Commands <- OscCommands
  MaxCalls = 4
  RunLimit = 8
SPECIFICATION InstalledSpec
INVARIANTS RowsJustified
