SPECIFICATION Spec
CONSTANTS
  LowWidth = 2
  LowHeight = 3
  HighWidth = 3
  HighHeight = 3
  SpriteWidth = 2
  BigWidth = 3
  BigRows = 2
  MaxRows = 2
  Shift = 1
  Coords <- MCCoords
  Sprites <- MCSprites
INVARIANTS TypeOK Chip8IsLow SpriteIsClipped SpriteIsWhole ScrollBack ScrolledInIsDark
PROPERTIES LowKeepsRest CollisionIsLoss
CHECK_DEADLOCK FALSE
