SPECIFICATION Spec
CONSTANTS
  Chats = {c1, c2}
  Migrations = 2
  MaxTurns <- MCMaxTurns
  MaxTokens = 1
  MaxCalls = 1
  MaxFaults = 1
  MaxReads = 1
  c1 = c1
  c2 = c2
CHECK_DEADLOCK FALSE
INVARIANTS
  TotalsOfStored
  CallsInTheirTurn
  DetailCoheres
