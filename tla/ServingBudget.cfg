SPECIFICATION Spec
CONSTANTS
  Requests = {r1, r2}
  Settings <- MCSettings
  MaxTurns = 2
  MaxTurnCost = 1
  Months = 2
  MaxRestarts = 1
SYMMETRY MCSymmetry
CHECK_DEADLOCK FALSE
INVARIANTS
  ExitsAccounted
  MonthlyOvershootBounded
PROPERTIES
  RequestsMetered
