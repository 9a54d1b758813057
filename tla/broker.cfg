\* Two GETs for one job, two POSTs at a time, one retry.
CONSTANTS
  j1 = j1
  w1 = w1
  Job = {j1}
  AudioWorker = {w1}
  Fetcher = {f1, f2}
  Upload = {u1, u2}
  None = None
  Stale = Stale
  Owner <- OwnerOfAll
  Parts = 2
  Buffer = 1
  MaxRetries = 1
  Orphans = {"stream"}
SPECIFICATION FairSpec
INVARIANT TypeOK
INVARIANT PendingIsLive
PROPERTY FetchImplemented
 
