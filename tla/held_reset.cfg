SPECIFICATION Spec
CONSTANTS
  None = None
  X = X
  Eval <- MCEval
  Cases = {"held"}
  Refined <- RefinedOf
  Rtl <- RtlOf
  Summary <- SummaryOf
  SoakCycles = 3
INVARIANT NoFalseRedAtAll
CHECK_DEADLOCK FALSE
