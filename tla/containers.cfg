\* The tree: all orders of inserting four keys, and lookups at any time.  The
\* array: all of up to MaxSize elements, grown and sorted, and grown again.  The
\* list: all sequences of calls that make up to MaxNodes nodes; once its
\* behaviour is undefined nothing more happens.
SPECIFICATION MCSpec
CONSTANTS
  Keys = {1, 2, 3, 4}
  Values = {v, w}
  Null = Null
  Items = {0, 1, 2}
  Capacity = 2
  MaxSize = 5
  MaxSorts = 1
  MaxNodes = 4
INVARIANTS
  TypeOK
  SearchOrder
  WalkIsRight
  ElementsKept
  SplitsAreFinal
  HoldsExpected
  UndefinedHasCause
PROPERTIES
  ImplementsMap
  CallsReturn
  SortReturns
CHECK_DEADLOCK FALSE
