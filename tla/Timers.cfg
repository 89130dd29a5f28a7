SPECIFICATION Spec
CONSTANTS
  Event = {e1, e2, e3}
  Query = {}
  Packet = {p1}
  Signal = {}
  GameShutdown = GameShutdown
  Terminate = Terminate
  None = None
  Timed = {p1}
  Callbacks = {}
  Lifetime = 0
  Delays = {1, 2}
  MaxTime = 2
  ID_MAX = 3
SYMMETRY EventSymmetry
INVARIANTS TypeOK
PROPERTIES FinalForGood ImplementsContract
