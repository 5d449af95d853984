CONSTANTS
  m1 = m1  m2 = m2  inbox = inbox  work = work  s1 = s1
  Names = {1, 2}
  Incoming = {1, 2}
  Mids = {m1, m2}
  Folders = {inbox, work}
  Inbox = inbox
  Sessions = {s1}
  Drain = Drain  Sweep = Sweep
  MayDie = TRUE
  None = None
  MaxUid = 6
  MaxEvents = 3
SPECIFICATION FairSpec
CHECK_DEADLOCK FALSE
INVARIANTS TypeOK  ListingSound NothingLost
 
