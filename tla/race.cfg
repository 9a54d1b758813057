\* Two HTTP handlers and the ticker race on one job; the server may die.
CONSTANTS
  w1 = w1
  w2 = w2
  j1 = j1
  j2 = j2
  h1 = h1
  h2 = h2
  h3 = h3
  t1 = t1
  NoWorker = NoWorker
  NoJob = NoJob
  NoToken = NoToken
  Keep = Keep
  Worker = {w1, w2}
  Job = {j1}
  CanAudio = {w1}
  CanSubtitle = {w1, w2}
  ReportedStage = {"translate"}
  MaxAttempts = 2
  GlobalMaxConcurrency = 0
  TokenOf <- MCTokenless
  Limit <- MCNoLimit
  Handler = {h1, h2, h3}
  Ticker = h1
  Isolated = FALSE
  AdminOps = {"ensure"}
  Faults = {"restart"}
SPECIFICATION Spec
INVARIANT TypeOK
INVARIANT RunningHasWorker
PROPERTY LeaseImplemented
SYMMETRY MCHandlers
