\* A catalogue that rests during restores; writes and renames may fail.
CONSTANTS
  m1 = m1
  p1 = p1
  p2 = p2
  t1 = t1
  r1 = r1
  r2 = r2
  m2 = m2
  Media = {m1}
  Poster = {p1}
  Thumb = {t1}
  Request = {r1, r2}
  QueueSize = 1
  MaxArchives = 1
  Overlap = FALSE
  Faults = TRUE
  None = None
  Remote = Remote
SPECIFICATION Spec
INVARIANT TypeOK
 
 
PROPERTY ThumbnailsYield
SYMMETRY MCSymmetry
