SPECIFICATION FairSpec
CONSTANTS
  Files = {f1, f2}
  NoFile = NoFile
  Block = 1
  Align = 2
  Capacity = 14
  OtherData = 2
  Margin = 1
  Overhead = 1
  MinSize = 3
  MaxSize = 7
  NDirs = 1
  MaxDirs = 7
  PunchHole = TRUE
  RapidAging = TRUE
  RapidMaxExtents = 1
  SizeTop = 10
  Iterations = 7
  Cleanup = FALSE
INVARIANTS DrawsSucceed HandlersEnd DirectoryPhase ExtentAccounting
PROPERTIES Terminates FirstFile
