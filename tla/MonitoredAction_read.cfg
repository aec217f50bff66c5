SPECIFICATION Spec
CONSTANTS
  Block = 3
  FileSizes = {3, 7, 9}
  Wrap = 256
  MaxCalls = 8
INVARIANT ReadReturns
CHECK_DEADLOCK FALSE
