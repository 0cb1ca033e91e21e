\* Buffers around the sizes at which 10% is nothing, one and more, and writes
\* that fit, just fit or need more than the growth.
SPECIFICATION Spec
CONSTANTS
  Bytes = {0, 1, 2}
  Chunks <- MCChunks
  InitialSizes = {0, 1, 3, 8, 10, 11}
  MaxPosition = 12
INVARIANTS
  TypeOK
  WritesInBounds
  WasteIsBounded
PROPERTIES
  ImplementsByteStream
CHECK_DEADLOCK FALSE
