CONSTANTS
  j1 = j1  j2 = j2  s1 = s1  s2 = s2
  NoJob = NoJob
  Jobs = {j1}
  Senders = {s1}
  Later = {}
  Asks = {"cancel"}
  Limit = 2
  MaxAttempts = 2
  MaxStops = 0
  MaxAsks = 0
  MaxBlips = 1
  SlowSend = FALSE
SPECIFICATION Spec
CHECK_DEADLOCK FALSE
INVARIANTS MessageKept
