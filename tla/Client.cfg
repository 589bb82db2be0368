CONSTANTS
  MaxMsgs = 2
  MaxStarts = 2
  MaxFaults = 1
  Workers = {1, 2}
SPECIFICATION FairSpec
INVARIANTS
  TypeOK
  OneInCharge
  ReaderHasPortsStream
  PipelineInOrder
PROPERTIES
  ImplementsLink
  AttemptIsSettled
  BrokenLinkIsDropped
  WebSocketIsRead
CHECK_DEADLOCK FALSE
