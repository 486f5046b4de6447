SPECIFICATION MCSpec
CONSTANTS
  Fields = {"key", "targets"}
  Key = "key"
  Values = {1, 2}
  None = None
  Env = Env
  Tabs = {c1, c2}
  Visitors = {c1, c2}
  MaxEdits = 2
  Actors = {c1, c2}
  MaxAttempts = 2
  FeedThreshold = 2
  Cap = 2
  MaxArticles = 2
  MaxVersions = 2
  MaxTroubles = 2
  MaxJumps = 1
  Jump = 1
  MaxPrunes = 1
  Providers <- MCProviders
  ProviderThreshold = 2
  ProviderCooldown = 2
  SourceBudget = 1
  MaxLosses = 6
  Articles = 2
  MaxRetries = 1
  HintTtl = 1
  RetryBudget = 1
  MaxChanges = 1
  Links = {1, 2}
  Width = 1
  Cooldowns = {1, 3}
  MaxCooldown = 2
  MaxMinutes = 2
  Jobs = {"check"}
  CHECK_JOB_ID = "check"
  Settings = {1, 2}
  StaleAfter = 1
  CycleLimit = 2
  MaxFaults = 1
  Default = 3
  Intervals = {0, 2}
  Skew = 1
  Leap = 4
  MaxLeaps = 2
  MaxNow = 9
  TokenBudget = 3
  Limits = {2, 3}
  Summaries <- MCSummaries
  MaxVersion = 3
  Newest = 3
  MaxStarts = 3
INVARIANTS
  LiveIsRestart
  HintConfirmed
  ReadIsAnswered
  RefusedBatchStops
  OneTicker
  OkIsFresh
  CheckedInTime
  TruncatesLeast
  HistoryContiguous
PROPERTIES
  NoUnseenLoss
  CooldownKept
  BackoffIsEarned
  ServesItsSchema
  EveryTopicFed
  ProvidersRecover
CHECK_DEADLOCK FALSE
