CONSTANTS
  Rules <- ListRules
  TerminalSeq <- ListTerminals
  NonTerminalSeq <- ListNonTerminals
  StartSymbol <- ListStart
  Documents <- SomeDocuments
  EditTerminals = {"b", "(", ")"}
  MaxTokens = 4
  MaxEdits = 1
SPECIFICATION Spec
INVARIANTS ReplayExact ParsesExactly NothingLost BoundariesExact AlwaysRecovers
\* A document that is closed or has had its edits stays as it is.
CHECK_DEADLOCK FALSE
