CONSTANTS
  Absent = Absent
  Root = "root"
  NoSlots = "none"
  Rules <- MCRules
  MatchLengths <- MCMatchLengths
  EmptyWhen <- MCEmptyWhen
  RecoverChars <- MCRecover
  Hook <- MCHook
  Builds <- MCBuilds
  ErrorValue <- MCErrorValue
  MaxTurns = 30
  Uris = {"u", "v"}
  Texts <- PairTexts
  Byte <- MCByte
  Batches <- PairBatches
  Continuation <- MCContinuation
  MaxCommands = 6
SPECIFICATION Spec
INVARIANT NeverStale
