\* A client that sends without waiting, not even for the handshake.
SPECIFICATION Spec
CONSTANTS
  Tools = {1, 2}
  Enabled = TRUE
  MinTools = 1
  TopN = 1
  Pinned = {}
  DropBelow = 0
  RevealSteps = 2
  RevealWeight = 2
  MaxBase = 1
  Shrinks = {1, 2}
  MaxNodes = 5
  Ids = {1, 2, 3, 4, 5, 6, 7, 8, 9, 10, 11, 12}
  MaxCalls = 0
  MaxLists = 0
  Pages <- OnePage
  ListChanged = {TRUE, FALSE}
  Pipelined = TRUE
  Eager = TRUE
  ListErrors = FALSE
  Cancels = FALSE
  AskIds = {2}
  MaxRequests = 4
  MaxLine = 1
INVARIANTS FlagJustified ListsArePruned CompressedIsAdvertised PendingAwaited
  NotificationsDeclared
CHECK_DEADLOCK FALSE
