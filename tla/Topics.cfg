SPECIFICATION MCSpec
CONSTANTS
  server = server
  cli = cli
  background = background
  due = due
  byApi = byApi
  Intents = {i1}
  MaxAttempts = 2
  CheckTimeout = 1
  StaleAfter = 2
  MaxResults = 2
  MaxCrashes = 1
  MaxJumps = 1
  WithApi = TRUE
  WebTasks = {w1, w2}
  Ticker = tick
  CliTasks = {c1}
  None = None
  Free = Free
  Check = Check
  InitTimeout = 1
  StuckAfter = 2
  MaxGen = 2
  MaxClaims = 2
  MaxToggles = 1
  MaxVersion = 2
INVARIANTS
  ReadyHasKnowledge
  CommitsOnce
  BoundedChecksExclusive
PROPERTIES
  ClaimHeldUnlessDisowned
  RecoversOnlyAbandoned
  ServerBaselineIsOwn
  NotDropped
  ResearchEnds
  IntentsSettle
