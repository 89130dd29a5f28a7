SPECIFICATION Spec
CONSTANTS
  Client = {a, b, c, p, g}
  Premium = {p}
  Privileged = {g}
  MaxPlayers = 2
  Pauses = {10, 20}
  MaxTime = 60
  Drift = 4
  Task = {"use", "push"}
  Packet = {"use", "moveThing", "move", "stop", "chase", "unchase"}
  MaxWalk = 2
  MaxQueued = 1
  MaxChains = 2
  NoTask = NoTask
  WalkIds = {1, 2, 3, 4}
  WalkTaskIds = {5, 6}
  ActionIds = {7, 8}
  ConditionType = {"haste", "paralyze", "attributes", "outfit", "sleep"}
  ConditionId = {"combat", "ring"}
  BaseSpeed = 3
  Values <- MCValues
  MaxConditions = 2
  MaxDelayed = 2
INVARIANTS WalkSound StopHonoured ConditionsAccounted
PROPERTIES PlacesKept PlaceKept
CHECK_DEADLOCK FALSE
