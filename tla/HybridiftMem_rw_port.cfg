CONSTANTS
  Roles = {"INPUT_DATA", "COMBINED_ADDRESS_SIGNAL", "ENABLE", "WRITE_MODE", "WRITE_MASK", "BYTE_ENABLE_SIGNAL"}
  Depth = 4
  Bits = {0}
  Lsb = 0
  OutputStyle = "hold"
  EnableGatesWrites = FALSE
  TaintedReadAddr = FALSE
  OverTaint = FALSE
SPECIFICATION Spec
INVARIANTS TypeOK ShadowSound FreshReadSound ExplicitExact
