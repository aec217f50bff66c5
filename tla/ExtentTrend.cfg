SPECIFICATION Spec
CONSTANTS
  Pages = 3
  MaxExtents = 1
  Subsampling = 2
  MinPoints = 2
  Rise = 3
  Run = 4
  RapidMaxExtents = 3
  MaxPoints = 3
  MaxDrifts = 1
INVARIANTS ScanExact ScanCovers ScanAdvances TotalExact
PROPERTIES TrendJudged
\* A scan has failed, or the bound on points is reached.
CHECK_DEADLOCK FALSE
