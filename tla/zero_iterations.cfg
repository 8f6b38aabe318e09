SPECIFICATION Spec
CONSTANTS
  LoopVars = {"r", "d"}
  InitOrder <- RemOrder
  InitExpr <- RemInit
  BodyExpr <- RemBody
  Guard <- RemGuard
  Invariant <- RemInvariant
  Variant <- RemVariant
  Post <- RemPost
  Unset = 0
  ProposedInputs <- MCInputs
  Sample = {}
  Threshold = 16
  MaxIters = 4
  Inputs <- MCInputs
  Modulus <- MCModulus
  ResetStore <- MCResetStore
INVARIANT ResultStands
