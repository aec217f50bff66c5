SPECIFICATION Spec
CONSTANTS
  a = a
  b = b
  c = c
  Empty = Empty
  Paths <- MCPaths
  MaxDepth = 3
  MaxIds = 3
INVARIANTS ListsAgree ScenarioPathsWork CleanedUpEmpties
PROPERTY ImplementsPathSet
\* The clean-up is over, or a null pointer was used.
CHECK_DEADLOCK FALSE
