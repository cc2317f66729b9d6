CONSTANTS
  Threshold = 3
  Window = 4
  OpenFor = 2
  Remembered = 3
  Machines = {m1}
  Pinged = {m1}
  Calls = {c1}
  Tools = {"exec", "machine_test"}
  Period = 2
  PingTimeout = 1
  Second = 2
  Horizon = 1
  MaxDue = 1
  MaxPending = 1
  MaxLag = 1
  NULL = NULL

SPECIFICATION FairSpec

INVARIANTS
  OpenIsEarned
  TripsInWindow
  OnlineWasSeen
  HintSuffices
PROPERTIES
  RemovedStaysRemoved
  NeverShutOut
  Recovers
CHECK_DEADLOCK FALSE
