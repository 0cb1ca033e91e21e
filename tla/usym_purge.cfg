SPECIFICATION Spec
CONSTANTS
  TypeIds = {1, 2, 3, 4, 5}
  FunctionIds = {5}
  Names = {"", "int32_t", "float", "S", "T", "a", "b"}
  Contents <- SmallAndCascade
  MaxCalls = 2
INVARIANTS
  TypeOK
  ReferencesPreserved
  PurgeKeepsVerified
  OneTypePerHash
  NamesSurvive
PROPERTIES
  ImplementsDedup
  WrittenFileIsCurrent
CHECK_DEADLOCK FALSE
