\* Batches, pages, errors and cancellations under fair scheduling: everything
\* that moves lines.
SPECIFICATION FairSpec
CONSTANTS
  Tools = {1, 2}
  Enabled = TRUE
  MinTools = 0
  TopN = 0
  Pinned = {}
  DropBelow = 0
  RevealSteps = 2
  RevealWeight = 2
  MaxBase = 0
  Shrinks = {1, 2}
  MaxNodes = 5
  Ids = {1, 2, 3, 4, 5, 6}
  MaxCalls = 0
  MaxLists = 0
  Pages <- SmallPages
  ListChanged = {TRUE}
  Pipelined = FALSE
  Eager = FALSE
  ListErrors = TRUE
  Cancels = TRUE
  AskIds = {2}
  MaxRequests = 3
  MaxLine = 2
PROPERTIES IsPipe EveryRequestAnswered OnlyCancelStrands
CHECK_DEADLOCK FALSE
