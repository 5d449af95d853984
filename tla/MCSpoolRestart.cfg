CONSTANTS
  m1 = m1  m2 = m2  m3 = m3
  alice = alice  bob = bob  team = team  lost = lost  bounce = bounce
  a = a  b = b  c = c  out = out
  Sent = Sent  None = None
  Files = {m1}
  Rcpts = {alice, team}
  Boxes = {a, b, c}
  Outside = {out}
  To <- AllToAll
  Targets <- MCTargets
  Sieve <- MCSieve
  LocalForward <- MCForward
  Groups = {team}
  Srs = {}
  Submitted = {}
  Poison = {}
  Limit = 2
  MaxCrashes = 2
  MaxFaults = 1
  MaxReinjects = 1
  SaveMayFail = FALSE
  MarkersExpire = FALSE
SPECIFICATION Spec
CHECK_DEADLOCK FALSE
INVARIANTS TypeOK DoneNotServedAgain QuarantineRemembers NoDoubleCopy JobOnce RepeatsCostDeaths
PROPERTIES RemovalAccounts PromiseKept
