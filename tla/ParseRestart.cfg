CONSTANTS
  Rules <- ListRules
  TerminalSeq <- ListTerminals
  NonTerminalSeq <- ListNonTerminals
  StartSymbol <- ListStart
  Documents <- BrokenDocument
  EditTerminals = {"b"}
  MaxTokens = 4
  MaxEdits = 1
SPECIFICATION Spec
INVARIANTS ReplayMatchesFresh
\* A document that is closed or has had its edits stays as it is.
CHECK_DEADLOCK FALSE
