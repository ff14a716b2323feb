SPECIFICATION FairSpec
CONSTANTS
  Clients = {all, texts}
  Topics <- MCTopics
  Chats = {chat1}
  EventTypes = {"agent:text"}
  Broadcast = 1
  SendBuffer = 1
  MaxEvents = 3
  all = all
  texts = texts
  chat1 = chat1
CHECK_DEADLOCK FALSE
INVARIANTS
  NeverPanics
  NoGaps
PROPERTY
  HubServes
