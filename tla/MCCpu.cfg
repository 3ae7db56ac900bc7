SPECIFICATION CpuSpec
CONSTANTS
  MemSize = 4
  WordSize = 7
  ByteSize = 4
  StackSize = 3
  ProgStart = 1
  NumRegs = 2
  Targets <- MCTargets
  RegValues <- MCRegValues
INVARIANTS CpuTypeOK StackInBounds
PROPERTY CallsSpec
CHECK_DEADLOCK FALSE
