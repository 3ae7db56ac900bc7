SPECIFICATION Spec
CONSTANTS
  MemSize = 2
  WordSize = 3
  ByteSize = 4
  StackSize = 2
  ProgStart = 0
  NumRegs = 1
  Targets <- MCTargets
  RegValues <- MCRegValues
  Refresh = 1
  Deltas <- SteadyClock
  MaxLag = 1
  Keys = {0}
  Speeds = {1}
  Breakpoints = {}
  SavedStates <- MCBackwards
  SetCommands <- Nothing
INVARIANT RunsAtValidSpeed
CHECK_DEADLOCK FALSE
