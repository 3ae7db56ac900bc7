SPECIFICATION Spec
CONSTANTS
  ByteSize = 8
  NumRegs = 3
INVARIANTS SubUndoesAdd ShiftsLoseNothing FlagOverResult
CHECK_DEADLOCK FALSE
