CONSTANTS
  MaxMsgs = 1
  MaxStarts = 1
  MaxFaults = 0
  Workers = {1, 2}
SPECIFICATION FairSpec
PROPERTIES
  ConnectedIsRead
CHECK_DEADLOCK FALSE
