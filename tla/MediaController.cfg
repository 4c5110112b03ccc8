SPECIFICATION FairSpec
CONSTANTS
  Players = {p1}
  NoPlayer = NoPlayer
  Tracks = {k1, k2}
  NoTrack = NoTrack
  Handlers = {h1}
  App = App
  Poll = Poll
  Recv = Recv
  Burst = Burst
  MaxChanges = 1
  MaxFails = 1
  MaxEmitting = 2
PROPERTIES
  TileSettles
  ShutdownReturns
CHECK_DEADLOCK FALSE
