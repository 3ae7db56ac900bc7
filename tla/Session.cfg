SPECIFICATION Spec
CONSTANTS
  PadKeys = {15}
  HotKeys = {16}
  MaxEvents = 2
  MaxQueue = 3
  Backends = {"sdl", "curses", "x11"}
  QuirkStrings <- MCQuirkStrings
INVARIANTS TypeOK NothingLeft SigintIsSafe RunsAsAsked SdlKeysAreTrue
PROPERTIES ReportsUseStrokes TerminalKeysRiseAndFall
CHECK_DEADLOCK FALSE
