SPECIFICATION Spec
CONSTANTS
  PadKeys = {0, 15}
  HotKeys = {16}
  MaxQueue = 3
INVARIANT AnswerIsFirstRelease
CHECK_DEADLOCK FALSE
