SPECIFICATION FairSpec
CONSTANTS
  Frac = 1
  Auctions <- DeliveryAuctions
  AucSpec <- DeliveryAucSpec
  Bids <- DeliveryBids
  BidSpec <- DeliveryBidSpec
  Sessions <- DeliverySessions
  SessSpec <- DeliverySessSpec
  NoSession = NoSession
  Inputs <- DeliveryInputs
  ModuleMayFail = FALSE
  MaxTime = 4
  MaxLag = 0
PROPERTIES
  AuctionCloses
  AllocationDelivered
CHECK_DEADLOCK FALSE
