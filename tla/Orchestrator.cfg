SPECIFICATION FairSpec
CONSTANTS
  a = a
  b = b
  c = c
  Names = {a, b, c}
  Orchestrators <- MCOrchestrators
  MaxCost = 1
  MaxInputs = 2
CHECK_DEADLOCK FALSE
INVARIANTS
  CyclesRejected
  OutputsPassedOn
  TotalsReported
PROPERTIES
  ExecuteReturns
  ImplementsWorkflow
