CONSTANTS
  c1 = c1
  c2 = c2
  Clients <- TwoClients
  Kinds = {"auth", "deny", "data", "junk"}
  MaxMsgs <- FourEach
  Unfit <- TwoClients
  AppRegisters = TRUE
  AppDisconnects = FALSE
SPECIFICATION Spec
SYMMETRY Symmetry
CONSTRAINT AllKindsAlone
INVARIANTS
  TypeOK
  PipelineInOrder
  StrictHandoff
  NoOrphanReader
  NoLeakedSession
  ConnectedIsListed
  AdmittedIsAnswered
  AuthBeforeData
  NoGapAfterAdmission
