CONSTANTS
  Jobs = {j1, j2}
  Pids = {p1, p2}
  NULL = NULL
  MaxJobs = 1
  Workers = 1
  Keep = 1
  Unix = FALSE
  MaxKills = 2
  MaxTime = 1
SPECIFICATION Spec
CHECK_DEADLOCK FALSE

SYMMETRY Symmetry
INVARIANT OutcomeIsReal
INVARIANT GaugeNeverLow
INVARIANT OrphansExplained
PROPERTY RefinesLifecycle
