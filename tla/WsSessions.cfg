CONSTANTS
  c1 = c1
  c2 = c2
  Clients <- TwoClients
  Workers = {1, 2}
  MaxMsgs = 2
SPECIFICATION FairSpec
INVARIANTS
  TypeOK
  PipelineInOrder
  SessionIsTended
PROPERTIES
  BrokenSessionIsDropped
  MessagesReachTheApp
CHECK_DEADLOCK FALSE
