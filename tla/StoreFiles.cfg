SPECIFICATION FairSpec
CONSTANTS
  Clients <- MCClients
  Kinds <- MCKinds
  Names <- MCNames
  Contents <- MCContents
  Short <- MCShort
  MaxUuid = 3
  MaxRequests = 3
  MaxCrashes = 1
  Failures = {"create", "write", "backend"}
  NoFile = NoFile
  Torn = Torn
  NoHash = NoHash
  Empty = Empty
  plan = plan
  rpc = rpc
  config = config
  certs = certs
  old = old
  new = new
  short1 = short1
  short2 = short2
INVARIANTS
  StoreOK
  PromisesKept
PROPERTIES
  ImplementsMap
  OperationsEnd
CHECK_DEADLOCK FALSE
