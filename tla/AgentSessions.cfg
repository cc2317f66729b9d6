CONSTANTS
  Sessions = {s1, s2}
  Execs = {e1, e2}
  Closes = {c1}
  Shards = {d1}
  ShardOf <- OneShard
  Workers = 6
  IdleLimit = 2
  NULL = NULL

SPECIFICATION FairSpec

INVARIANT InUseStays
INVARIANT DriftIsReaped
PROPERTY ExecEnds
PROPERTY EventuallyReaped

CHECK_DEADLOCK FALSE
