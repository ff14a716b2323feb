SPECIFICATION McpFairSpec
CONSTANTS
  Calls = {c1, c2}
  Worlds <- MCWorlds
  MaxNotes = 2
CHECK_DEADLOCK FALSE
INVARIANTS
  AnswersAreOwn
PROPERTY
  CallReturns
