\* ELF64 files, whole, cut off, partly read or not available, read one after
\* another by the same static parser.  After MaxCalls calls, or once the
\* behaviour is undefined, nothing more happens.
SPECIFICATION Spec
CONSTANTS
  Half = 16
  MaxReserve = 8
  Unspecified = Unspecified
  SymtabName = 14
  StrtabName = 16
  MaxCalls = 2
  Layouts <- JustElf64
  Files <- MCFiles
INVARIANTS
  LogsTheSymbols
  LogDependsOnDataOnly
  WellFormedIsSafe
CHECK_DEADLOCK FALSE
