CONSTANTS
  NoValue = NoValue
  NoResult = NoResult
  Value = {1, 2, 3}
  MaxToken = 24
  Writer <- MCWriter
  External = 0
  Fact <- FamilyFact
  SharedFact = {"s"}
  View = {"k", "e", "s", "y"}
  ViewOf <- FamilyViewOf
  Op <- FamilyOp
  Root = {"R"}
  Family = {"F", "H"}
  FamilyView <- ChainView
  Commands <- FamilyCommands
  MaxCalls = 6
  RunLimit = 30
SPECIFICATION Spec
INVARIANTS FamilyMembership FixedPoint OwnersAttached
