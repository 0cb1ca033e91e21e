SPECIFICATION Spec
CONSTANTS
  Names <- MCNames
  Pdbs <- CallPdbs
  MaxCalls = 2
INVARIANTS
  SessionReleased
  PointerNamesDistinct
PROPERTIES
  ConversionReturns
CHECK_DEADLOCK FALSE
