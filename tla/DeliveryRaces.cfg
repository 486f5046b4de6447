SPECIFICATION Spec
CONSTANTS
  a1 = a1
  b1 = b1
  Procs = {"server", "cli"}
  Checks = {"check"}
  Msgs = {a1, b1}
  NoMsg = NoMsg
  TopicOf <- MCTopicOf
  Heartbeats = {a1,b1}
  Legacy = {b1}
  Tokens = {1, 2, 3}
  NoToken = NoToken
  MaxRows = 1
  MaxRetries = 2
  DrainLimit = 2
  Concurrency = 2
  TimesOut = TRUE
  Faults = {"clock_step", "topic_delete", "crash", "cancel", "db_error", "send_raises"}
  MaxInterrupts = 1
  CountCap = 0
PROPERTIES
  LedgerIsFinal
  OnlyOwnerSettles
