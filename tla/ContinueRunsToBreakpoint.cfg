SPECIFICATION Spec
CONSTANTS
  MemSize = 2
  WordSize = 3
  ByteSize = 2
  StackSize = 2
  ProgStart = 0
  NumRegs = 1
  Targets <- MCTargets
  RegValues <- MCRegValues
  Refresh = 2
  Deltas <- JumpyClock
  MaxLag = 3
  Keys = {0}
  Speeds = {0, 1}
  Breakpoints = {0}
  SavedStates <- Nothing
  SetCommands <- Nothing
PROPERTY ContinueRunsToBreakpoint
CHECK_DEADLOCK FALSE
