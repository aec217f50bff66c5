SPECIFICATION Spec
CONSTANTS
  Kilo = 2
  Actions = {delete, create, read}
  DeleteFile = delete
  CreateFile = create
  Followers = {read}
  Unknown = unknown
  Sizes = {3}
  Durations = {1, 2}
  Second = 2
  MaxResults = 4
  Texts <- MCTexts
INVARIANTS FilesHoldTheLog OneFile TotalsMatchLog PrintThrowsAtFirstOnly StatisticsOrdered
\* The program ends.
CHECK_DEADLOCK FALSE
