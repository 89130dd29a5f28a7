SPECIFICATION Spec
CONSTANTS
  Conn = {c1, c2, c3}
  Player = {p1, p2}
  None = None
SYMMETRY SessionSymmetry
CONSTRAINT FewTasks
INVARIANTS RefsCounted Linked InputSafe AutosendSound ReleasedLast
