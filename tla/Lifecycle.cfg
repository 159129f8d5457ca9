\* Frames of one, two and five chunks where two are allowed and a pipe holds
\* one: frames above the limit, blocked writers, crashes inside a frame.
SPECIFICATION FairSpec
CONSTANTS
  FrameSizes = {1, 2, 5}
  MaxFrame = 2
  PipeSize = 1
  HangsUp = TRUE
  MaxRequests = 2
INVARIANTS LifecycleTypeOK NothingLost GracefulShutdown
PROPERTIES CancelEndsRun EitherSideEndsRunUnlessEarly
CHECK_DEADLOCK FALSE
