SPECIFICATION Spec
CONSTANTS
  Names <- MCNames
  Pdbs <- VariadicPdbs
  MaxCalls = 1
INVARIANTS
  ArgumentCountMatches
CHECK_DEADLOCK FALSE
