SPECIFICATION Spec
CONSTANTS
  Files = {f1}
  NoFile = NoFile
  Block = 1
  Align = 1
  Capacity = 14
  OtherData = 2
  Margin = 2
  Overhead = 1
  MinSize = 6
  MaxSize = 8
  NDirs = 1
  MaxDirs = 2
  PunchHole = TRUE
  RapidAging = FALSE
  RapidMaxExtents = 3
  SizeTop = 10
  Iterations <- MCTimed
  Cleanup = TRUE
PROPERTY ResultNamesOperation
