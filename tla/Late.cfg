SPECIFICATION Spec
CONSTANTS
  Frac = 2
  Auctions <- LateAuctions
  AucSpec <- LateAucSpec
  Bids <- LateBids
  BidSpec <- LateBidSpec
  Sessions <- LateSessions
  SessSpec <- LateSessSpec
  NoSession = NoSession
  Inputs <- LateInputs
  ModuleMayFail = TRUE
  MaxTime = 9
  MaxLag = 3
INVARIANTS
  QueueCurrent
  OneExecutionPerProcess
  ActiveHasProcess
  WindowsDisjoint
  Running
PROPERTIES
  DoneIsFinal
CHECK_DEADLOCK FALSE
