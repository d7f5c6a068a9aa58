CONSTANTS
  Absent = Absent
  Root = "root"
  NoSlots = "none"
  Rules <- MCRules
  MatchLengths <- MCMatchLengths
  EmptyWhen <- MCEmptyWhen
  RecoverChars <- MCRecover
  Hook <- MCHook
  Builds <- MCBuilds
  ErrorValue <- MCErrorValue
  MaxTurns = 30
  Uris = {"u"}
  Texts <- WideTexts
  Byte <- MCByte
  Batches <- MCBatches
  Continuation <- MCContinuation
  MaxCommands = 1
SPECIFICATION Spec
INVARIANT EditsApplied
