CONSTANTS
  Roles = {"INPUT_DATA", "READ_ADDRESS_SIGNAL", "WRITE_ADDRESS_SIGNAL", "ENABLE", "WRITE_ENABLE"}
  Depth = 4
  Bits = {0}
  Lsb = 0
  OutputStyle = "zero"
  EnableGatesWrites = FALSE
  TaintedReadAddr = FALSE
  OverTaint = FALSE
SPECIFICATION Spec
INVARIANTS ShadowSound FreshReadSound OutputSound ExplicitExact
