SPECIFICATION Spec
CONSTANTS
  None = None
  X = X
  Eval <- MCEval
  Designs = {"counter", "regfile", "alu", "toggle"}
  Given <- MCGiven
  Offers <- MCOffers
  Stimuli <- MCStimuli
INVARIANTS
  TypeOK
  WiresSettled
  WiresAndMemoriesStayOut
  KnownAfterReset
PROPERTIES
  EdgeFiresEnabled
  FormsMeanWhatTheySay
  RefinementOnlyAdds
CHECK_DEADLOCK FALSE
