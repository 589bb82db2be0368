CONSTANTS
  c1 = c1
  c2 = c2
  Clients = {c1}
  Kinds = {"auth"}
  MaxMsgs <- OneEach
  Unfit = {}
  AppRegisters = FALSE
  AppDisconnects = FALSE
SPECIFICATION FairSpec
PROPERTIES
  AcceptedIsRead
