CONSTANTS
  Sessions = {s1}
  Execs = {e1}
  Closes = {c1}
  Shards = {d1}
  ShardOf <- OneShard
  Workers = 2
  IdleLimit = 2
  NULL = NULL

SPECIFICATION FairSpec

PROPERTY ExecEnds


CHECK_DEADLOCK FALSE
