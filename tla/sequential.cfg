\* Two jobs under the limits of a token, handlers one at a time.
CONSTANTS
  w1 = w1
  w2 = w2
  j1 = j1
  j2 = j2
  h1 = h1
  h2 = h2
  h3 = h3
  t1 = t1
  NoWorker = NoWorker
  NoJob = NoJob
  NoToken = NoToken
  Keep = Keep
  Worker = {w1, w2}
  Job = {j1, j2}
  CanAudio = {w1}
  CanSubtitle = {w2}
  ReportedStage = {"extracting"}
  MaxAttempts = 1
  GlobalMaxConcurrency = 0
  TokenOf <- MCOneToken
  Limit <- MCPerLine
  Handler = {h1, h2}
  Ticker = h1
  Isolated = TRUE
  AdminOps = {"ensure"}
  Faults = {}
SPECIFICATION Spec
INVARIANT WaitingHasArtifact
INVARIANT ClaimantIsCounted
 
SYMMETRY MCJobs
