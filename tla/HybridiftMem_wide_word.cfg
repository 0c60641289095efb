CONSTANTS
  Roles = {"INPUT_DATA", "COMBINED_ADDRESS_SIGNAL", "ENABLE", "WRITE_MODE"}
  Depth = 4
  Bits = {0, 1}
  Lsb = 0
  OutputStyle = "hold"
  EnableGatesWrites = FALSE
  TaintedReadAddr = FALSE
  OverTaint = FALSE
SPECIFICATION Spec
INVARIANTS FreshReadBitSound
