SPECIFICATION FairSpec
CONSTANTS
  Indices = {1, 2}
  RingSize = 1
  MaxSessions = 2
  MaxFrames = 2
  PauseSuffices = TRUE
INVARIANTS OneOwner DecoderAliveIfResponded
PROPERTIES FedInOrder StopReturns RingDrains
CHECK_DEADLOCK FALSE
