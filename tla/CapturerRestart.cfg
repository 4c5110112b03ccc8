SPECIFICATION FairSpec
CONSTANT MaxDeaths = 3
INVARIANTS
  CaptureStaysStopped
  OneRestart
PROPERTIES
  StopReturnsAtLast
  ClaimedErrorIsHandled
CHECK_DEADLOCK FALSE
