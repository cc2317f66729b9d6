CONSTANTS
  Reqs = {q1, q2}
  Inputs <- Everything
  Texts <- TwoFiles
  Chars <- Letters
  NULL = NULL

SPECIFICATION Spec

INVARIANT FilesAreWhole
 
PROPERTY EditsHaveTheirEffect
CHECK_DEADLOCK FALSE
