CONSTANTS
  Absent = Absent
  Root = "root"
  NoSlots = "none"
  Rules <- OperatorRules
  MatchLengths <- OperatorLengths
  EmptyWhen <- MCEmptyWhen
  RecoverChars <- MCRecover
  Hook <- MCHook
  Builds <- MCBuilds
  ErrorValue <- MCErrorValue
  MaxTurns = 30
  Uris = {"u"}
  Texts <- OperatorTexts
  Byte <- MCByte
  Batches <- MCBatches
  Continuation <- MCContinuation
  MaxCommands = 2
SPECIFICATION Spec
PROPERTY ReplayCovers
