CONSTANTS
  w1 = w1  w2 = w2
  None = None
  Writers = {w1, w2}
  Cap = 1
  Slack = 1
  MaxId = 3
  AskFrom = 3
  MaxEvents = 0
  Events = {"stop"}
SPECIFICATION Spec
CHECK_DEADLOCK FALSE
PROPERTIES NewestKept
