SPECIFICATION BothSpec
CONSTANTS
  Event = {e1}
  Query = {q1, q2}
  Packet = {p1}
  Signal = {sigint}
  GameShutdown = GameShutdown
  Terminate = Terminate
  None = None
  Timed = {}
  Callbacks = {q1}
  Lifetime = 0
  Delays = {0}
  MaxTime = 0
  ID_MAX = 3
  wild = wild
  tame = tame
  trainer = trainer
  Wild = {wild}
  Tame = {tame}
  Human = {trainer}
  Places = 3
  Haven = {3}
  Home <- MCHome
  Ranges <- MCRanges
  View = 1
  Viewport = 2
  LeashLength = 1
  HashOrder <- MCHashOrder
  Chase = TRUE
  NoCreature = NoCreature
INVARIANTS OnePlace NoLostWakeup ShutdownComplete TargetsSound Noticed
PROPERTIES FirstComeFirstServed
