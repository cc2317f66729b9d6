CONSTANTS
  MaxLines = 3
  MaxBytes = 4
  Lengths = {0, 1, 3}
  TailSizes = {0, 2, 5}
  MaxPushes = 6

SPECIFICATION Spec

INVARIANT NewestKept
INVARIANT ReplyIsTail
INVARIANT LossReported

CHECK_DEADLOCK FALSE
