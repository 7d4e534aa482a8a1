SPECIFICATION OverlapSpec
CONSTANTS
  NoInstruction = NoInstruction
  MaxPlan = 3
  MaxScript = 3
  Instructions <- MCInstructions
  Names <- MCNames
  db = db
  web = web
  cache = cache
  bundle = bundle
  site = site
INVARIANTS
  LargestOverlap
  SkippingIsInvisible
CHECK_DEADLOCK FALSE
