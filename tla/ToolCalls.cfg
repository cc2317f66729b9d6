CONSTANTS
  Transports = {"ssh", "agent", "agent+ssh", "other"}
  MaxLegs = 2

SPECIFICATION FairSpec

 
INVARIANT NeverTwice
INVARIANT ContractHolds
INVARIANT ArgumentsArrive
INVARIANT FleetErrorIsClean
PROPERTY CallsEnd
CHECK_DEADLOCK FALSE
