CONSTANTS
  w1 = w1  w2 = w2
  None = None
  Writers = {w1, w2}
  Cap = 1
  Slack = 1
  MaxId = 3
  AskFrom = 3
  MaxEvents = 1
  Events = {"stop", "disk", "ask", "change", "remove", "insert", "rewrite"}
SPECIFICATION Spec
CHECK_DEADLOCK FALSE
SYMMETRY TwoWriters
INVARIANTS TypeOK SealedStays AlarmsTrue ReplicaWhole
 
