SPECIFICATION Spec
CONSTANTS
  Names <- MCNames
  NoInstruction = NoInstruction
  Scripts <- MCScripts
  MaxRuns = 3
  MaxCrashes = 0
  NoRun = NoRun
  Failures = {"interpret", "validate", "output", "persist"}
  Clients = {}
  db = db
  web = web
  cache = cache
  bundle = bundle
  site = site
INVARIANTS
  SuccessEstablishesScript
  PlanDescribesEnclave
  StreamsComplete
CHECK_DEADLOCK FALSE
