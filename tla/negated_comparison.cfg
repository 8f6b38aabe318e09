SPECIFICATION Spec
CONSTANTS
  Word = 4
  Width <- MCWidth
  Registers <- MCRegisters
  Operands <- MCOperands
  Operators <- MCOperators
  Negations <- Bare
  Guards <- MCGuards
  Valuations <- MCValuations
  Phrases <- MCPhrases
  MaxClauses = 3
  MaxWrites = 3
INVARIANT VerifiedIsBuilt
CHECK_DEADLOCK FALSE
