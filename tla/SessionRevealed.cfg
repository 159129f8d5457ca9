\* A budget of one tool and a window of two executions.
SPECIFICATION SessionSpec
CONSTANTS
  Tools = {1, 2, 3}
  Enabled = TRUE
  MinTools = 1
  TopN = 1
  Pinned = {}
  DropBelow = 0
  RevealSteps = 1
  RevealWeight = 2
  MaxBase = 1
  Shrinks = {1, 2, 3}
  MaxNodes = 3
  Ids = {}
  MaxCalls = 3
  MaxLists = 2
INVARIANTS NoRecentCallCompressed
CHECK_DEADLOCK FALSE
