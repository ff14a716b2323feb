SPECIFICATION EvalSpec
CONSTANTS
  AgentSuites <- MCAgentSuites
  ServerSuites <- MCServerSuites
  ModelOf <- MCModelOf
  KnownModels <- MCKnownModels
  EvalPriced <- MCEvalPriced
  Warm = {"warm", "refused"}
  Untunable <- MCUntunable
  Replies <- MCReplies
  ToolResults <- MCToolResults
  ServerData <- MCServerData
  Overrides = {0, 1}
  MaxToolCalls = 1
  ListLimit = 1
  MaxCommands = 2
  MaxFaults = 1
CHECK_DEADLOCK FALSE
INVARIANTS
  VerdictsStored
  SnapshotsHold
