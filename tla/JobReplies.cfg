CONSTANTS
  Jobs = {j1}
  Pids = {p1}
  NULL = NULL
  MaxJobs = 1
  Workers = 1
  Keep = 1
  Unix = TRUE
  MaxKills = 2
  MaxTime = 1
SPECIFICATION RepliesFairSpec
CHECK_DEADLOCK FALSE

INVARIANT ReplyNotTorn
INVARIANT OrphansExplained
PROPERTY KillReachesProcess
PROPERTY OutcomeRecorded
