CONSTANTS
  NoValue = NoValue
  NoResult = NoResult
  Value = {1, 2}
  MaxToken = 4
  Writer <- MCWriter
  External = 0
  Fact <- OscFact
  SharedFact = {}
  View = {"in", "x"}
  ViewOf <- OscViewOf
  Op <- OscOp
  Root = {"P"}
  Family = {}
  FamilyView <- NoFamilyView
  Commands <- OscCommands
  MaxCalls = 4
  RunLimit = 6
SPECIFICATION InstalledSpec
PROPERTIES CallsReturn
