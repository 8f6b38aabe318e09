SPECIFICATION FairSpec
CONSTANTS
  Specs <- MCSpecs
  Rules = {"Alternation", "Initialization"}
  Params = {"p", "q"}
  Applicable <- MCApplicable
  Result <- MCResult
  Raises = Raises
  Escapes = Escapes
  InitialSpec = 0
  Prefixes <- MCPrefixes
  Allowed = {"Alternation", "Initialization"}
  RtlStyle = {5, 6}
  Rejectable = {3}
  MaxSteps = 9
  MaxBacktrackDepth = 2
  MaxStrikes = 3
INVARIANTS
  TypeOK
  SpecIsReplay
  DoneIsReproducible
  DiskReplays
  NoExcludedChoiceInChain
PROPERTIES
  Terminates
  ImplementsContract
CHECK_DEADLOCK FALSE
