SPECIFICATION Spec
CONSTANTS
  Frac = 1
  Auctions <- TwinAuctions
  AucSpec <- TwinAucSpec
  Bids <- None
  BidSpec <- NoSpec
  Sessions <- None
  SessSpec <- NoSpec
  NoSession = NoSession
  Inputs <- TwinInputs
  ModuleMayFail = FALSE
  MaxTime = 4
  MaxLag = 0
INVARIANTS
  DoneHasNoProcess
CHECK_DEADLOCK FALSE
