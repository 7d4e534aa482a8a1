SPECIFICATION FairSpec
CONSTANTS
  Requests <- SomeRequests
  Service = {s1, s2}
  Retention = 2
  ChanSize = 3
  BatchLogsAmount = 1
  NumLogLines = 1
  LastWeek = 3
  MaxLines = 2
  MaxEvents = 1
INVARIANTS
  VolumeOK
  LinesDelivered
PROPERTIES
  StreamsEnd
