SPECIFICATION FairSpec
CONSTANTS
  Picks = {a, b}
  MaxChain = 4
  MaxStage1Retries = 1
  MaxCocotbRetries = 2
  MaxTlcRetries = 1
  BacktrackSteps = 3
  RecursionLimit = 25
  Unrefined = Unrefined
INVARIANTS
  TypeOK
  ReferenceIsWhatWasCompiled
  SuccessIsRefined
  LimitNotNeeded
PROPERTIES
  Ends
  RecoveryStartsElsewhere
CHECK_DEADLOCK FALSE
