SPECIFICATION Spec
CONSTANTS
  Frac = 1
  Auctions <- LifeAuctions
  AucSpec <- LifeAucSpec
  Bids <- LifeBids
  BidSpec <- LifeBidSpec
  Sessions <- None
  SessSpec <- NoSpec
  NoSession = NoSession
  Inputs <- LifeInputs
  ModuleMayFail = FALSE
  MaxTime = 5
  MaxLag = 0
INVARIANTS
  TypeOK
  DoneHasNoProcess
  CompetingBidsActive
  Scheduled
CHECK_DEADLOCK FALSE
