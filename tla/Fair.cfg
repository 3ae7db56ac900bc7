SPECIFICATION FairSpec
CONSTANTS
  MemSize = 1
  WordSize = 1
  ByteSize = 3
  StackSize = 1
  ProgStart = 0
  NumRegs = 1
  Targets <- MCTargets
  RegValues <- MCLongTimer
  Refresh = 2
  Deltas <- SteadyClock
  MaxLag = 2
  Keys = {0}
  Speeds = {1}
  Breakpoints = {}
  SavedStates <- Nothing
  SetCommands <- Nothing
PROPERTIES DrawHoldEnds CloseEndsRun TimerRunsWhileHeld
CHECK_DEADLOCK FALSE
