SPECIFICATION Spec
CONSTANTS
  c1 = c1
  c2 = c2
  t1 = t1
  Checkers = {c1}
  CheckIds = {1, 2, 3}
  NoId = NoId
  Generations = {1}
  Targets = {t1}
  Outages = {1, 2}
  NoOutage = NoOutage
  Articles = {1, 2}
  Threshold = 1
  Window = 2
  MaxArticles = 1
  MaxAttempts = 2
  Events = {"analysis_failure"}
  MaxLosses = 0
PROPERTIES
  RecoveryMeansUp
