\* Files of one block, of three blocks, and of two blocks and a third.
SPECIFICATION Spec
CONSTANTS
  Block = 3
  FileSizes = {3, 7, 9}
  Wrap = 256
  MaxCalls = 8
INVARIANTS TypeOK ThreadsEndInTime EveryReadIsWhole WrittenInOrder
PROPERTIES SamplesGrow Ends
\* The action is deleted at the end, or the program has died.
CHECK_DEADLOCK FALSE
