SPECIFICATION Spec
CONSTANTS
  Depth = 2
  Block = 2
  Want = 8
INVARIANT FileAsLargeAsAsked
CHECK_DEADLOCK FALSE
