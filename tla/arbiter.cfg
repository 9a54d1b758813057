\* The DNS API, the link, the processes and the record fail, and an admin
\* starts and withdraws a switch.
CONSTANTS
  n1 = n1
  n2 = n2
  NoNode = NoNode
  Node = {n1, n2}
  Preferred = n1
  LeaseTTL = 6
  DemoteAfter = 4
  ClaimGuard = 1
  RenewInterval = 2
  ProbeFailureThreshold = 3
  BootstrapWait = 3
  FailbackStableFor = 1
  FailbackMaxWait = 1
  HandoffRefresh = 2
  DrainTimeout = 2
  AutoFailback = FALSE
  MaxWrites = 0
  Slack = 0
  RestartMin = 1
  RestartMax = 1
  MaxEvents = 2
  Budget <- ArbiterBudget
SPECIFICATION FairSpec
PROPERTY SplitHeals
PROPERTY HandoffEnds
