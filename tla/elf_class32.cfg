\* One call for an ELF32 file: the entries of its symbol table are read as if
\* they were those of an ELF64 file.
SPECIFICATION Spec
CONSTANTS
  Half = 16
  MaxReserve = 8
  Unspecified = Unspecified
  SymtabName = 14
  StrtabName = 16
  MaxCalls = 1
  Layouts <- JustElf32
  Files <- MCFiles
INVARIANTS
  LogsTheSymbols
CHECK_DEADLOCK FALSE
