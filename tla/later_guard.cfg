SPECIFICATION Spec
CONSTANTS
  None = None
  X = X
  Eval <- MCEval
  Designs = {"compare"}
  Given <- MCGiven
  Offers <- MCOffers
  Stimuli <- MCStimuli
PROPERTY FormsMeanWhatTheySay
CHECK_DEADLOCK FALSE
