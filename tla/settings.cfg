\* Settings, their copies in memory and the plugin centre; each plan one busy part.
\* With the bounds used up and no traffic the system stops: no deadlock check.
CONSTANTS
  a1 = a1
  a2 = a2
  r1 = r1
  r2 = r2
  f1 = f1
  f2 = f2
  p1 = p1
  v1 = v1
  v2 = v2
  NoAdmin = NoAdmin
  None = None
  Admin = {a1, a2}
  Reader = {r1, r2}
  Field = {f1, f2}
  Clearable = {f2}
  Threshold = 2
  Id = {p1}
  Version = {v1, v2}
  Plans <- MCPlans
SPECIFICATION Spec
INVARIANT TypeOK
INVARIANT MemoryFollowsTables
PROPERTY StaleIsTemporary
PROPERTY BreakerCloses
CHECK_DEADLOCK FALSE
