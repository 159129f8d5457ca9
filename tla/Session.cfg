\* One pin, a window of two executions and the smallest budget that affords
\* the promise; a reveal set of two for four tools.
SPECIFICATION SessionSpec
CONSTANTS
  Tools = {1, 2, 3, 4}
  Enabled = TRUE
  MinTools = 1
  TopN = 3
  Pinned = {4}
  DropBelow = 1
  RevealSteps = 1
  RevealWeight = 2
  MaxBase = 1
  Shrinks = {1, 2, 3}
  MaxNodes = 2
  Ids = {1}
  MaxCalls = 5
  MaxLists = 1
INVARIANTS SessionTypeOK RevealedBound RevealedStayFull
PROPERTIES WindowedRevealsKept
CHECK_DEADLOCK FALSE
