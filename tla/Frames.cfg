CONSTANTS
  Base = 4
  Width = 2
  Lengths <- AtTheLimits
  MaxMsgs = 2
SPECIFICATION FairSpec
INVARIANTS
  TypeOK
  IntactUntilUnfit
  NoPanicUntilUnfit
PROPERTIES
  SentArrives
CHECK_DEADLOCK FALSE
