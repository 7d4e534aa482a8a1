SPECIFICATION Spec
CONSTANTS
  Uuid = {u1, u2, u3}
  NoUuid = NoUuid
  PoolSize = 2
  MaxRetries = 2
  Failures = {"create", "launch", "update", "list"}
  SubSecondStart = TRUE
  MaxRequests = 2
  MaxRestarts = 1
  MayClose = TRUE
  MayCrash = TRUE
  Operations = {"createTest", "createOther", "clean", "cleanAll", "destroy", "stop"}
SYMMETRY UuidSymmetry
INVARIANTS
  SendsNeverBlock
  HandedOutOnce
  IdleEnclavesOwned
  CloseRemovesIdle
  PreviousRunsRemoved
PROPERTIES
  EnclavesSurvive
