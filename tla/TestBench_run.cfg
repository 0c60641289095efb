CONSTANTS
  WidthBytes = 2
  Aw = 3
  PreloadBufferSize = 4
  Addresses = {0, 1, 2, 4, 8}
  MaxSegments = 2
  MaxSize = 5
  Simlen = 6
  LEADTICKS = 1
  RUNMORETICKS = 2
  kResetLength = 2
  RST_CLK_CYCLES = 2
SPECIFICATION Spec
INVARIANTS TypeOK LoadedAsLinked RunLength
PROPERTY RunEnds
CHECK_DEADLOCK FALSE
