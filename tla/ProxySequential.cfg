\* A client that waits for every answer, under fair scheduling, with a budget
\* that affords the reveal promise.
SPECIFICATION FairSpec
CONSTANTS
  Tools = {1, 2, 3, 4}
  Enabled = TRUE
  MinTools = 1
  TopN = 2
  Pinned = {}
  DropBelow = 0
  RevealSteps = 1
  RevealWeight = 2
  MaxBase = 1
  Shrinks = {1, 2, 3, 4}
  MaxNodes = 5
  Ids = {1, 2, 3, 4, 5, 6, 7, 8, 9, 10, 11, 12}
  MaxCalls = 0
  MaxLists = 0
  Pages <- OnePage
  ListChanged = {TRUE, FALSE}
  Pipelined = FALSE
  Eager = FALSE
  ListErrors = FALSE
  Cancels = FALSE
  AskIds = {}
  MaxRequests = 5
  MaxLine = 1
INVARIANTS TypeOK NoLostRefresh OneNotification
PROPERTIES RevealServed
CHECK_DEADLOCK FALSE
