CONSTANTS
  m1 = m1  m2 = m2  m3 = m3
  alice = alice  bob = bob  team = team  lost = lost  bounce = bounce
  a = a  b = b  c = c  out = out
  Sent = Sent  None = None
  Files = {m1}
  Rcpts = {alice, bounce}
  Boxes = {a}
  Outside = {out}
  To <- AllToAll
  Targets <- MCTargets
  Sieve <- KeepAll
  LocalForward <- NoForward
  Groups = {}
  Srs = {bounce}
  Submitted = {m1}
  Poison = {}
  Limit = 2
  MaxCrashes = 2
  MaxFaults = 1
  MaxReinjects = 1
  SaveMayFail = TRUE
  MarkersExpire = TRUE
SPECIFICATION Spec
CHECK_DEADLOCK FALSE
INVARIANTS Remembers DoneMeansServed
