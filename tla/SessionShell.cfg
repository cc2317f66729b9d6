CONSTANTS
  Execs = {e1, e2}
  ExitCodes = {0}
  NULL = NULL

SPECIFICATION FairSpec

INVARIANT MissedOnlyIfRobbed
PROPERTY SentinelFound

CHECK_DEADLOCK FALSE
