SPECIFICATION FairSpec
CONSTANTS
  h1 = h1
  s1 = s1
  s2 = s2
  s3 = s3
  s4 = s4
  NoSlot = NoSlot
  Handlers <- OneHandler
  Slots <- FourSlots
  MaxFrames = 4
INVARIANTS
  OneHolder
  PoolSuffices
  AllReleased
PROPERTIES
  NeverBackInTime
  LatestPictureEncoded
CHECK_DEADLOCK FALSE
