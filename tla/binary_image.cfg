\* Two calls on one serializer, with small symbols that share names and numbers,
\* whose buffer fits or grows at the start, in the middle or at the end of an
\* image.
SPECIFICATION Spec
CONSTANTS
  Bytes = {0, 255}
  InitialSizes = {1, 24}
  MaxPosition = 45
  Inputs <- MCInputs
  MaxCalls = 2
INVARIANTS
  ImagesAreUnambiguous
  BufferEndsWithImage
CHECK_DEADLOCK FALSE
