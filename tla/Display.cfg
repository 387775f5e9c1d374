CONSTANTS
  ByteBits = 4
  Factors = 3
  Black = 1
  Delta <- MCQuantizer
  Narrow = 3
  MaxWidth = 6
  Mattes = 4
  CursorSize = 2
  BlinkFields = 1
  Pixels <- MCPixels
  Pokes <- MCPokes
  Areas <- MCAreas
  Starts <- MCStarts
  Modes <- MCModes
  Base <- MCBase
  Heights <- MCHeights
  Total <- MCTotal
  Blanking <- MCBlanking
  MaxHeight = 6
  Limit <- MCLimit
  MaxFields = 3
  MaxChanges = 2
SPECIFICATION Spec
INVARIANTS
  ScanoutIsReference
  RasterIsNative
PROPERTIES
  UnmovedContentIsSame
CHECK_DEADLOCK FALSE
