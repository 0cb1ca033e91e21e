SPECIFICATION Spec
CONSTANTS
  TypeIds = {1, 2, 3, 4}
  FunctionIds = {5}
  Names = {"", "int32_t", "float", "unnamed-tag", "a", "b", "x", "y"}
  Contents <- Unnamed
  MaxCalls = 1
INVARIANTS
  MergedTypesCompareEqual
CHECK_DEADLOCK FALSE
