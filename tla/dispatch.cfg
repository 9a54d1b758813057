\* Remote workers that hold their claims and the in-process worker, on two jobs.
CONSTANTS
  m1 = m1
  m2 = m2
  p1 = p1
  p2 = p2
  c1 = c1
  c2 = c2
  Media = {m1, m2}
  Poll = {p1, p2}
  Caller = {c1, c2}
  QueueSize = 1
  MaxChanges = 2
  None = None
SPECIFICATION Spec
INVARIANT TypeOK
INVARIANT NewsIsHeard
INVARIANT MarkHasEntry
PROPERTY JobsMove
