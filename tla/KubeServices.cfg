SPECIFICATION Spec
CONSTANTS
  Names <- MCNames
  Configs <- MCConfigs
  NoConfig = NoConfig
  MaxUuid = 3
  MaxOps = 4
  MaxFaults = 2
  db = db
  web = web
  small = small
  large = large
INVARIANTS
  KubeOK
  DirectorySurvives
PROPERTIES
  ImplementsEnclave
CHECK_DEADLOCK FALSE
