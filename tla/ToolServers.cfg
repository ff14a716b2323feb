SPECIFICATION ToolsFairSpec
CONSTANTS
  Setups <- MCSetups
  Parts <- MCParts
  Names <- MCNames
  Callers = {c1, c2}
  MaxCalls = 2
  MaxSpend = 1
  c1 = c1
  c2 = c2
CHECK_DEADLOCK FALSE
INVARIANTS
  OffersRouted
  NothingLeftBehind
  ChildSpendReported
PROPERTIES
  CallAnswered
  ClosingEnds
