SPECIFICATION FairSpec
CONSTANTS
  Event = {}
  Query = {}
  Packet = {}
  Signal = {sigint}
  GameShutdown = GameShutdown
  Terminate = Terminate
  None = None
  Timed = {}
  Callbacks = {}
  Lifetime = 0
  Delays = {1}
  MaxTime = 0
  ID_MAX = 3
PROPERTY ServerStops
