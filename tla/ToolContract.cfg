CONSTANTS
  Transports = {"ssh", "agent", "agent+ssh", "other"}
  MaxLegs = 2

SPECIFICATION Spec
INVARIANT ToolsMatchRoutes
CHECK_DEADLOCK FALSE
