CONSTANTS
  chat = chat
  move = move
  AppMessages <- TwoTypes
  MaxRegistered = 2
  MaxSent = 3
  MaxSessions = 2
SPECIFICATION Spec
INVARIANTS
  DispatchedAsSent
CHECK_DEADLOCK FALSE
