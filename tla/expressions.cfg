SPECIFICATION Spec
CONSTANTS
  Word = 4
  Width <- MCWidth
  Registers <- MCRegisters
  Operands <- MCOperands
  Operators <- MCOperators
  Negations <- Enclosing
  Guards <- MCGuards
  Valuations <- MCValuations
  Phrases <- MCPhrases
  MaxClauses = 3
  MaxWrites = 3
INVARIANTS TypeOK VerifiedIsBuilt BuiltAsSimulated CompositionKeepsMeaning CompositionBuilds
CHECK_DEADLOCK FALSE
