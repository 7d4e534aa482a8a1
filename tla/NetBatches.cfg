SPECIFICATION FairSpec
CONSTANTS
  Names <- MCNames
  Configs <- MCConfigs
  NoConfig = NoConfig
  MaxUuid = 4
  MaxIp = 2
  BatchSize = 2
  MaxOps = 3
  MaxCrashes = 1
  Failures = {"remove", "volumes", "start", "create", "ports", "ready", "kill"}
  db = db
  web = web
  small = small
  large = large
INVARIANTS
  RegistryOK
  RunningIsRegistered
PROPERTIES
  ImplementsEnclave
  InstructionsEnd
CHECK_DEADLOCK FALSE
