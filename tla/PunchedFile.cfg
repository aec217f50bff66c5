SPECIFICATION Spec
CONSTANTS
  Block = 2
  Sizes = {7, 13, 16, 24, 25, 33, 40, 48, 63}
INVARIANTS TypeOK HolesDisjointUntilCut PunchBudget
PROPERTY HoleInsideFile
CHECK_DEADLOCK FALSE
