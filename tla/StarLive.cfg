SPECIFICATION FairSpec
CONSTANTS
  Names <- MCNames
  NoInstruction = NoInstruction
  Scripts <- TwoScripts
  MaxRuns = 2
  MaxCrashes = 0
  NoRun = NoRun
  Failures = {"execute"}
  Clients = {"overlap"}
  db = db
  web = web
  cache = cache
  bundle = bundle
  site = site
PROPERTIES
  EveryRunEnds
CHECK_DEADLOCK FALSE
