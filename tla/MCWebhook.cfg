CONSTANTS
  w1 = w1  w2 = w2  s1 = s1  s2 = s2
  None = None
  Workers = {w1, w2}
  Subs = {s1, s2}
  Matches = {{s1}, {s1, s2}}
  MaxAttempts = 2
  Batch = 2
  Permits = 1
  MaxId = 2
  MaxEvents = 1
  Events = {"die", "fail", "unsubscribe", "purge"}
SPECIFICATION Spec
CHECK_DEADLOCK FALSE
INVARIANTS TypeOK ClaimedOnce TriedEnough NothingForgotten
PROPERTIES NotAgain PurgedStaysGone Settles
