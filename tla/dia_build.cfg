\* One call on each of the small PDBs, whose types and functions refer to each
\* other in every way, with every order of listing them.
SPECIFICATION Spec
CONSTANTS
  Names <- MCNames
  Pdbs <- BuildPdbs
  MaxCalls = 1
INVARIANTS
  TypeOK
  ReferencesResolve
  TypesFaithful
  FieldsMatchMembers
  ReentryThroughTypedef
  ArgumentsFaithful
CHECK_DEADLOCK FALSE
