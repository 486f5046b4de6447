SPECIFICATION Spec
CONSTANTS
  c1 = c1
  c2 = c2
  a1 = a1
  a2 = a2
  f1 = f1
  f2 = f2
  g1 = g1
  g2 = g2
  Checkers = {c1, c2}
  Articles = {a1, a2}
  Facts = {f1}
  Tells <- OneStory
  Generations = {g1, g2}
  NoTopic = NoTopic
  NoResult = NoResult
  ResultIds = {1, 2}
  MaxArticles = 2
  MaxAttempts = 2
  MaxAlerts = 2
  MaxLosses = 1
  Events = {"deletion", "expiry", "loss"}
INVARIANTS
  NoNewsLost
PROPERTIES
  Serializable
SYMMETRY CheckerSymmetry
