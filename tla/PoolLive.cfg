SPECIFICATION FairSpec
CONSTANTS
  Uuid = {u1, u2, u3}
  NoUuid = NoUuid
  PoolSize = 1
  MaxRetries = 2
  Failures = {"die", "query", "update"}
  SubSecondStart = FALSE
  MaxRequests = 1
  MaxRestarts = 0
  MayClose = TRUE
  MayCrash = FALSE
  Operations = {"createTest", "createOther", "stop"}
PROPERTIES
  RequestsEnd
  PoolRefilled
