SPECIFICATION Spec
CONSTANTS
  MemSize = 1
  WordSize = 2
  ByteSize = 3
  StackSize = 2
  ProgStart = 0
  NumRegs = 1
  Targets <- MCTargets
  RegValues <- MCRegValues
  Refresh = 2
  Deltas <- JumpyClock
  MaxLag = 3
  Keys = {0}
  Speeds = {0, 1}
  Breakpoints = {0}
  SavedStates <- MCSavedStates
  SetCommands <- MCSetCommands
INVARIANTS TimeIsConserved PromptIsBetweenFrames
PROPERTIES KeyIsFresh DrivesCpu
CHECK_DEADLOCK FALSE
