CONSTANTS
  Bits = {0, 1}
  AddrBits = {0}
  OverTaint = FALSE
  TaintedControls = FALSE
  PartialWrites = TRUE
SPECIFICATION Spec
INVARIANTS StoredTaintSound
