CONSTANTS
  MaxMsgs = 1
  MaxStarts = 1
  MaxFaults = 1
  Workers = {1, 2}
SPECIFICATION FairSpec
PROPERTIES
  HandshakeIsRetried
CHECK_DEADLOCK FALSE
