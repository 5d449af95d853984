CONSTANTS
  m1 = m1  m2 = m2  inbox = inbox  work = work  s1 = s1
  Names = {1, 2}
  Incoming = {1}
  Mids = {m1}
  Folders = {inbox, work}
  Inbox = inbox
  Sessions = {s1}
  Drain = Drain  Sweep = Sweep
  MayDie = FALSE
  None = None
  MaxUid = 4
  MaxEvents = 4
SPECIFICATION Spec
CHECK_DEADLOCK FALSE
INVARIANTS KeptIsThere
