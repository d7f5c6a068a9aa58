CONSTANTS
  Absent = Absent
  Root = "root"
  NoSlots = "none"
  Rules <- EndRules
  MatchLengths <- MCMatchLengths
  EmptyWhen <- EndWhen
  RecoverChars <- MCRecover
  Hook <- EndHook
  Builds <- MCBuilds
  ErrorValue <- MCErrorValue
  MaxTurns = 30
  Uris = {"u"}
  Texts <- MCTexts
  Byte <- MCByte
  Batches <- MCBatches
  Continuation <- MCContinuation
  MaxCommands = 3
SPECIFICATION Spec
INVARIANT RelexExact
