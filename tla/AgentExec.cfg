CONSTANTS
  Configs <- TwoConfigs
  AtStart <- StartConfigs
  CliJobs = 1
  Unreadable = Unreadable
  Reqs = {r1, r2}
  Timeouts = {0, 2}
  Cap = 1
  Grace = 1
  Floor = 2

SPECIFICATION FairSpec

INVARIANT PermitsBalance
INVARIANT OverrunExplained
INVARIANT OutwaitsAgent
PROPERTY HangupTakesEffect
PROPERTY DrainEnds
CHECK_DEADLOCK FALSE
