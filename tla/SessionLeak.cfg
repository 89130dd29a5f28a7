SPECIFICATION Spec
CONSTANTS
  Conn = {c1, c2}
  Player = {p1}
  None = None
INVARIANT NoLeakage
