SPECIFICATION FairSpec
CONSTANTS
  Messages = {m1}
  Prompts = {p1}
  MaxConns = 3
  MaxAnswers = 2
CHECK_DEADLOCK FALSE
INVARIANTS
  ReplyNeverBlocks
  QueueDelivered
  OneKeeper
PROPERTY
  PromptReturns
