SPECIFICATION Spec
CONSTANTS
  c1 = c1
  c2 = c2
  t1 = t1
  Checkers = {c1, c2}
  CheckIds = {1, 2, 3}
  NoId = NoId
  Generations = {1, 2}
  Targets = {t1}
  Outages = {1, 2}
  NoOutage = NoOutage
  Articles = {}
  Threshold = 2
  Window = 3
  MaxArticles = 1
  MaxAttempts = 2
  Events = {"replace"}
  MaxLosses = 0
INVARIANTS
  LatchTracksLog
SYMMETRY CheckerSymmetry
CONSTRAINT OneUnderWay
