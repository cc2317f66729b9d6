CONSTANTS
  Jobs = {j1, j2, j3}
  Pids = {p1, p2}
  NULL = NULL
  MaxJobs = 1
  Workers = 2
  Keep = 1
  Unix = TRUE
  MaxKills = 1
  MaxTime = 0
SPECIFICATION Spec
CHECK_DEADLOCK FALSE

SYMMETRY Symmetry
INVARIANT SignalsExplained
INVARIANT OvershootBounded
