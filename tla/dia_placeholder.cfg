SPECIFICATION Spec
CONSTANTS
  Names <- MCNames
  Pdbs <- PlaceholderPdbs
  MaxCalls = 1
INVARIANTS
  FieldTypesCarryTheirId
CHECK_DEADLOCK FALSE
