CONSTANTS
  j1 = j1  j2 = j2  s1 = s1  s2 = s2
  NoJob = NoJob
  Jobs = {j1}
  Senders = {s1}
  Later = {j1}
  Asks = {"cancel", "withhold", "release", "retry", "unset"}
  Limit = 2
  MaxAttempts = 2
  MaxStops = 3
  MaxAsks = 3
  MaxBlips = 0
  SlowSend = FALSE
SPECIFICATION FairSpec
CHECK_DEADLOCK FALSE
INVARIANTS NotBeforeItsTime PoisonBounded QueueBounded NothingForgotten
PROPERTIES WithheldStaysUnclaimed Settles
