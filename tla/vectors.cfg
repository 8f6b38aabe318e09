SPECIFICATION Spec
CONSTANTS
  None = None
  X = X
  Eval <- MCEval
  Cases <- MCCases
  Refined <- RefinedOf
  Rtl <- RtlOf
  Summary <- SummaryOf
  SoakCycles = 3
INVARIANTS
  TypeOK
  NoFalseRed
  PassMeansMatched
  DisagreementSurfaced
CHECK_DEADLOCK FALSE
