SPECIFICATION ProviderSpec
CONSTANTS
  Kinds = {"anthropic", "openai", "ollama"}
  maxRetries = 2
  MaxTurns = 3
  Answers <- MCAnswers
CHECK_DEADLOCK FALSE
INVARIANTS
  AnswerWhole
  ToolMessagesFollow
