\* A server that may answer a refresh with an error.
SPECIFICATION Spec
CONSTANTS
  Tools = {1, 2}
  Enabled = TRUE
  MinTools = 1
  TopN = 1
  Pinned = {}
  DropBelow = 0
  RevealSteps = 2
  RevealWeight = 2
  MaxBase = 0
  Shrinks = {1, 2}
  MaxNodes = 5
  Ids = {1, 2, 3, 4, 5, 6, 7, 8, 9, 10, 11, 12}
  MaxCalls = 0
  MaxLists = 0
  Pages <- OnePage
  ListChanged = {TRUE}
  Pipelined = FALSE
  Eager = FALSE
  ListErrors = TRUE
  Cancels = FALSE
  AskIds = {}
  MaxRequests = 7
  MaxLine = 1
INVARIANTS FlagJustified
CHECK_DEADLOCK FALSE
