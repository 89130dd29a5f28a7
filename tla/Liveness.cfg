SPECIFICATION FairSpec
CONSTANTS
  Event = {e1}
  Query = {q1}
  Packet = {}
  Signal = {sigint}
  GameShutdown = GameShutdown
  Terminate = Terminate
  None = None
  Timed = {}
  Callbacks = {q1}
  Lifetime = 0
  Delays = {0, 1}
  MaxTime = 1
  ID_MAX = 3
PROPERTIES WorkSettles DispatcherStops
