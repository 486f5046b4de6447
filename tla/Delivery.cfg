SPECIFICATION MCSpec
CONSTANTS
  a1 = a1
  b1 = b1
  Procs = {"server", "cli"}
  Checks = {"check", "resend"}
  Msgs = {a1, b1}
  NoMsg = NoMsg
  TopicOf <- MCTopicOf
  Heartbeats = {b1}
  Legacy = {}
  Tokens = {1, 2, 3, 4, 5}
  NoToken = NoToken
  MaxRows = 1
  MaxRetries = 2
  DrainLimit = 2
  Concurrency = 2
  TimesOut = FALSE
  Faults = {"db_error", "lost_ack", "send_raises"}
  MaxInterrupts = 2
  CountCap = 3
INVARIANTS
  OneSender
  WithinBudget
PROPERTIES
  KeepsPromise
  DrainedIntentsSettle
