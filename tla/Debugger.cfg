SPECIFICATION DebuggerSpec
CONSTANTS
  ByteSize = 2
  WordSize = 4
  MemSize = 3
  NumRegs = 2
  NumFlags = 1
  Digits = 1
  SmallChar = 1
  BigChar = 1
  HighFontStart = 1
  Lines <- MCLines
  Documented <- MCDocumented
  Counters <- MCCounters
  StateFiles <- MCStateFiles
  Saves <- MCSaves
  Cuts <- MCCuts
INVARIANTS OnlyWordsLeaveMemory LoadUndoesStore StoresAreAdjacent FlagsComeBack
PROPERTIES DocumentedLinesWork
CHECK_DEADLOCK FALSE
