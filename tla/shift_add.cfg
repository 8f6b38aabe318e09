SPECIFICATION FairSpec
CONSTANTS
  LoopVars = {"product", "mcand", "mplier", "count"}
  InitOrder <- MCInitOrder
  InitExpr <- MCInit
  BodyExpr <- MCBody
  Guard <- MCGuard
  Invariant <- MCInvariant
  Variant <- MCVariant
  Post <- MCPost
  Unset = 0
  ProposedInputs <- MCInputs
  Sample = {}
  Threshold = 16
  MaxIters = 2
  Inputs <- MCInputs
  Modulus <- MCModulus
  ResetStore <- MCResetStore
INVARIANTS
  TypeOK
  ResultStands
  LatencyBounded
  OnTrack
PROPERTIES
  JobsEnd
  KeepsPromise
