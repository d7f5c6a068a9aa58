CONSTANTS
  Absent = Absent
  Root = "root"
  NoSlots = "none"
  Rules <- MCRules
  MatchLengths <- MCMatchLengths
  EmptyWhen <- MCEmptyWhen
  RecoverChars <- MCRecover
  Hook <- MCHook
  Builds <- MCBuilds
  ErrorValue <- PlacedErrorValue
  MaxTurns = 30
  Uris = {"u"}
  Texts <- MCTexts
  Byte <- MCByte
  Batches <- MCBatches
  Continuation <- MCContinuation
  MaxCommands = 3
SPECIFICATION Spec
INVARIANT RelexExact
