SPECIFICATION Spec
CONSTANTS
  Names <- MCNames
  NoInstruction = NoInstruction
  Scripts <- TwoScripts
  MaxRuns = 2
  MaxCrashes = 1
  NoRun = NoRun
  Failures = {"execute"}
  Clients = {"overlap", "leave", "dry", "uncached"}
  db = db
  web = web
  cache = cache
  bundle = bundle
  site = site
INVARIANTS
  PlanOK
  ExecutorsExclude
  PersistedWhenIdle
PROPERTIES
  OnlyTheHolderChangesEnclave
CHECK_DEADLOCK FALSE
