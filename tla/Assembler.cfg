SPECIFICATION RoundSpec
CONSTANTS
  Programs <- MCPrograms
  Formats <- MCFormats
  Garbage <- MCGarbage
  ProgStart = 2
  RomSize = 8
  LabelCeiling = 4
  SymbolCeiling = 13
  NibbleSize = 2
  ByteSize = 4
  AddrSize = 16
  ValueSize = 32
  MaxSymbols = 16
  Roms <- MCRoms
  CountSize = 3
INVARIANTS LabelsReachTheirCode PassesAgree OutputFits InvalidNeverAssembles
INVARIANT RoundTrip
CHECK_DEADLOCK FALSE
