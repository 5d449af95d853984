CONSTANTS
  m1 = m1  m2 = m2  m3 = m3
  alice = alice  bob = bob  team = team  lost = lost  bounce = bounce
  a = a  b = b  c = c  out = out
  Sent = Sent  None = None
  Files = {m1}
  Rcpts = {alice}
  Boxes = {a}
  Outside = {out}
  To <- AllToAll
  Targets <- MCTargets
  Sieve <- KeepAll
  LocalForward <- NoForward
  Groups = {}
  Srs = {}
  Submitted = {}
  Poison = {}
  Limit = 2
  MaxCrashes = 1
  MaxFaults = 0
  MaxReinjects = 0
  SaveMayFail = FALSE
  MarkersExpire = FALSE
SPECIFICATION Spec
CHECK_DEADLOCK FALSE
INVARIANTS IndexedCopyIsWhole
