SPECIFICATION Spec
CONSTANTS
  Files = {f1}
  NoFile = NoFile
  Block = 2
  Align = 1
  Capacity = 30
  OtherData = 2
  Margin = 3
  Overhead = 4
  MinSize = 11
  MaxSize = 28
  NDirs = 1
  MaxDirs = 2
  PunchHole = TRUE
  RapidAging = TRUE
  RapidMaxExtents = 3
  SizeTop = 30
  Iterations <- MCTimed
  Cleanup = TRUE
INVARIANTS TypeOK PunchListSound TreeMirrorsDisk
PROPERTIES NeverShrinks MarginKept
