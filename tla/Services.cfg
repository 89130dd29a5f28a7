SPECIFICATION Spec
CONSTANTS
  RaidName = {"r1", "r2", "r3"}
  Events <- MCEvents
  Once = {"r2"}
  MaxReloads = 1
  NoRaid = NoRaid
  Check = Check
  Port = {s1, s2}
  NoPort = NoPort
INVARIANTS RaidsExclusive PortSound
PROPERTIES RaidEnds 
CHECK_DEADLOCK FALSE
