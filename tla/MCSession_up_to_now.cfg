SPECIFICATION Spec
CONSTANTS
  Kilo = 2
  Actions = {delete, create, read}
  DeleteFile = delete
  CreateFile = create
  Followers = {read}
  Unknown = unknown
  Sizes = {3}
  Durations = {1, 2}
  Second = 2
  MaxResults = 2
  Texts <- MCTexts
INVARIANT ResultsUpToNow
\* The program ends.
CHECK_DEADLOCK FALSE
