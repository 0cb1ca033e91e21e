\* One run of the program on each of the small PDBs.  The program ends.
SPECIFICATION Spec
CONSTANTS
  Names <- MCProgramNames
  Pdbs <- MCPdbs
  TypeIds <- MCTypeIds
  FunctionIds <- MCFunctionIds
INVARIANTS
  FileResolves
  PointersSurvive
  ReferencesKeepTheirNames
CHECK_DEADLOCK FALSE
