CONSTANTS
  c1 = c1
  c2 = c2
  Clients <- TwoClients
  Kinds = {"auth"}
  MaxMsgs <- TwoAndOne
  Unfit = {c1}
  AppRegisters = TRUE
  AppDisconnects = TRUE
SPECIFICATION FairSpec
CHECK_DEADLOCK FALSE
INVARIANTS
  SessionsInv
PROPERTIES
  ClosedSessionIsDropped
  MessagesReachTheApp
  AcceptedIsRead
  DisconnectEndsReaders
