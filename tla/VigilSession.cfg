SPECIFICATION Spec
CONSTANTS
  Procs = {p1, p2, p3, p4}
  Worlds <- MCWorlds
SYMMETRY MCSymmetry
CHECK_DEADLOCK FALSE
INVARIANTS
  MarkerAgrees
PROPERTIES
  ImplementsSessionLog
  RunsKept
