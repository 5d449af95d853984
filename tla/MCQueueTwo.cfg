CONSTANTS
  j1 = j1  j2 = j2  s1 = s1  s2 = s2
  NoJob = NoJob
  Jobs = {j1}
  Senders = {s1, s2}
  Later = {j1}
  Asks = {"cancel", "reschedule", "pause", "resume"}
  Limit = 2
  MaxAttempts = 2
  MaxStops = 1
  MaxAsks = 2
  MaxBlips = 1
  SlowSend = FALSE
SPECIFICATION Spec
CHECK_DEADLOCK FALSE
INVARIANTS TypeOK ClaimedOnce SentOnce
PROPERTIES CancelledStaysUnsent
SYMMETRY TwoSenders
