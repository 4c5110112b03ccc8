SPECIFICATION FairSpec
CONSTANTS
  p1 = p1
  p2 = p2
  Sender = Sender
  Producers <- MCProducers
  Capacity = 3
  MaxPackets = 6
INVARIANTS
  NoLostWakeup
PROPERTIES
  ImplementsChannel
  EmittedIsSent
CHECK_DEADLOCK FALSE
