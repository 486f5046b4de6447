SPECIFICATION FairSpec
CONSTANTS
  c1 = c1
  c2 = c2
  t1 = t1
  Checkers = {c1}
  CheckIds = {1, 2, 3}
  NoId = NoId
  Generations = {1}
  Targets = {t1}
  Outages = {1, 2}
  NoOutage = NoOutage
  Articles = {1}
  Threshold = 2
  Window = 3
  MaxArticles = 1
  MaxAttempts = 1
  Events = {"loss", "analysis_failure", "send_failure"}
  MaxLosses = 1
PROPERTIES
  OutageAnnounced
  RecoveryAnnounced
