SPECIFICATION FairSpec
CONSTANTS
  h1 = h1
  enc = enc
  s1 = s1
  s2 = s2
  NoSlot = NoSlot
  Sender = Sender
  Handlers <- OneHandler
  Producers <- OneProducer
  Slots <- TwoSlots
  MaxFrames = 2
  Capacity = 1
  MaxPackets = 3
  MaxJobs = 1
PROPERTIES
  PictureReachesViewer
CHECK_DEADLOCK FALSE
