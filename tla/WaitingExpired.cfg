SPECIFICATION Spec
CONSTANTS
  Client = {a, b, c, p, g}
  Premium = {p}
  Privileged = {g}
  MaxPlayers = 2
  Pauses = {10, 20}
  MaxTime = 60
  Drift = 4
PROPERTY ExpiredLeave
