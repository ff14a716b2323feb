SPECIFICATION FairSpec
CONSTANTS
  Configs <- MCConfigs
  DefaultIterations = 1
  MaxTurnCost = 2
  MaxUses = 2
  MaxRequests = 2
CHECK_DEADLOCK FALSE
INVARIANTS
  ToolUsesAnswered
  ToolCallsCounted
PROPERTIES
  RequestReturns
  ImplementsMeteredRequest
