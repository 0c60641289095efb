CONSTANTS
  Bits = {0, 1}
  AddrBits = {0}
  OverTaint = FALSE
  TaintedControls = FALSE
  PartialWrites = FALSE
SPECIFICATION Spec
INVARIANTS StoredTaintSound FreshReadSound MaskedWritesExact
