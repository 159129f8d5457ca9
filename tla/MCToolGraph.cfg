\* Three nodes and two edges per node for four tools: evictions and trims hit
\* nodes that have several edges.
SPECIFICATION MCSpec
CONSTANTS
  Tools = {1, 2, 3, 4}
  MaxNodes = 3
  MaxEdgesPerNode = 2
  MaxCalls = 7
INVARIANTS
  TypeOK
  NoDanglingEdges
  OutTotalIsSum
  StateBounded
  NeverOvercounts
  RecentToolsKnown
  ExactWithinLimits
PROPERTIES EvictsLeastRecent WeakestEdgeLeaves
CHECK_DEADLOCK FALSE
