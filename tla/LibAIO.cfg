\* Five requests of two bytes, three of them outstanding.
SPECIFICATION FairSpec
CONSTANTS
  Depth = 3
  Block = 2
  Want = 9
INVARIANTS Outstanding CountedOnce BufferReleased
PROPERTIES KeepsContract Ends
\* The program goes on after the loop, or has died.
CHECK_DEADLOCK FALSE
