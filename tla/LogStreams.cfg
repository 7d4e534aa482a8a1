SPECIFICATION FairSpec
CONSTANTS
  Streamers = {s1, s2}
  Consumers <- MCConsumers
  Sockets <- MCSockets
  PoolSize = 1
  MaxLines = 2
  curl = curl
  browser = browser
INVARIANTS
  PoolOK
  ConsumedOnce
PROPERTIES
  StreamingEnds
CHECK_DEADLOCK FALSE
