\* Two accounts, both administrators at first; two browsers, two challenges.
CONSTANTS
  a = a
  b = b
  d1 = d1
  d2 = d2
  r1 = r1
  r2 = r2
  r3 = r3
  c1 = c1
  c2 = c2
  None = None
  User = {a, b}
  Admin = {a, b}
  Device = {d1, d2}
  Request = {r1, r2}
  Challenge = {c1, c2}
  MaxItems = 1
  PerIP = 2
  TTL = 0
  Lifetime = 2
  MaxTime = 1
  MaxEpoch = 1
  MaxDeleted = 1
  Changes <- MCChanges
SPECIFICATION Spec
INVARIANT TypeOK
INVARIANT OneTokenPerFamily
INVARIANT SurvivorWasInFlight
 
SYMMETRY MCSymmetry
CHECK_DEADLOCK FALSE
