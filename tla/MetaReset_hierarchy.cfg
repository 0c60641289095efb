CONSTANTS
  Modules = {"top", "mid", "leaf"}
  Top = "top"
  MaxChunks = 2
SPECIFICATION FairSpec
INVARIANTS TypeOK HeldInReset TransparentOtherwise
PROPERTY Ends
