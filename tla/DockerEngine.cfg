SPECIFICATION FairSpec
CONSTANTS
  u1 = u1
  Enclaves = {u1}
  Pooled = {}
  Serving = {u1}
  NumSubnets = 2
  NumAddresses = 4
  FailingCalls <- MCFailingCalls
  MaxFaults = 2
  MaxTries = 2
  MaxCommands = 2
INVARIANTS
  HostOK
  NothingLost
  CreationAllOrNothing
  EnclavesReachable
PROPERTIES
  OperationsEnd
CHECK_DEADLOCK FALSE
