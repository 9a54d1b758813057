\* The link and the processes fail while an admin moves the leadership.
CONSTANTS
  n1 = n1
  n2 = n2
  NoNode = NoNode
  Node = {n1, n2}
  Preferred = n1
  LeaseTTL = 6
  DemoteAfter = 4
  ClaimGuard = 1
  RenewInterval = 2
  ProbeFailureThreshold = 3
  BootstrapWait = 3
  FailbackStableFor = 1
  FailbackMaxWait = 1
  HandoffRefresh = 2
  DrainTimeout = 2
  AutoFailback = TRUE
  MaxWrites = 1
  Slack = 0
  RestartMin = 1
  RestartMax = 1
  MaxEvents = 2
  Budget <- PartitionBudget
SPECIFICATION FairSpec
INVARIANT TypeOK
PROPERTY SplitIsShort
 
PROPERTY DrainEnds
PROPERTY SomeoneServes
