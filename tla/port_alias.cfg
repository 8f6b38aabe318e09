SPECIFICATION Spec
CONSTANTS
  None = None
  X = X
  Eval <- MCEval
  Designs = {"twoport"}
  Given <- MCGiven
  Offers <- MCOffers
  Stimuli <- MCStimuli
PROPERTY EdgeFiresEnabled
CHECK_DEADLOCK FALSE
