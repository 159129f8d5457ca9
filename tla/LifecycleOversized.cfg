\* The child answers with a frame above the limit and larger than the pipe.
SPECIFICATION FairSpec
CONSTANTS
  FrameSizes = {1, 5}
  MaxFrame = 2
  PipeSize = 1
  HangsUp = FALSE
  MaxRequests = 1
PROPERTIES EitherSideEndsRun
CHECK_DEADLOCK FALSE
