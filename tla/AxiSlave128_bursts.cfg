CONSTANTS
  NumBlocks = 8
  MaxLen = 3
  Ids = {0, 1}
  Bytes = {0}
  BitsPerByte = 8
  Data = {0, 1}
  MaxMarked = 1
  PartialStrobes = FALSE
SPECIFICATION Spec
INVARIANTS TypeOK
PROPERTIES BurstMemoryImplemented OfferedBeatStable BurstsEnd
