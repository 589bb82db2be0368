CONSTANTS
  chat = chat
  move = move
  AppMessages <- TwoTypes
  MaxRegistered = 0
  MaxSent = 1
  MaxSessions = 1
SPECIFICATION FairSpec
PROPERTIES
  ReplyIsUnderstood
CHECK_DEADLOCK FALSE
