CONSTANTS
  Roles = {"INPUT_DATA", "COMBINED_ADDRESS_SIGNAL", "ENABLE", "WRITE_MODE"}
  Depth = 4
  Bits = {0}
  Lsb = 0
  OutputStyle = "zero"
  EnableGatesWrites = FALSE
  TaintedReadAddr = FALSE
  OverTaint = TRUE
SPECIFICATION Spec
INVARIANTS EveryWordShadowed
