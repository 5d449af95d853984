CONSTANTS
  m1 = m1  m2 = m2  m3 = m3
  alice = alice  bob = bob  team = team  lost = lost  bounce = bounce
  a = a  b = b  c = c  out = out
  Sent = Sent  None = None
  Files = {m1, m2}
  Rcpts = {alice, lost}
  Boxes = {a}
  Outside = {}
  To <- OneEach
  Targets <- MCTargets
  Sieve <- KeepAll
  LocalForward <- NoForward
  Groups = {}
  Srs = {}
  Submitted = {}
  Poison = {m1}
  Limit = 2
  MaxCrashes = 1
  MaxFaults = 1
  MaxReinjects = 1
  SaveMayFail = FALSE
  MarkersExpire = FALSE
SPECIFICATION FairSpec
CHECK_DEADLOCK FALSE
INVARIANTS DeathsBounded NoticeLostOnlyByFailure
 
