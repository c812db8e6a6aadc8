SPECIFICATION StoresSpec
CONSTANTS
  a1 = a1
  a2 = a2
  a3 = a3
  b1 = b1
  b2 = b2
  b3 = b3
  b4 = b4
  x1 = x1
  x2 = x2
  x3 = x3
  x4 = x4
  x5 = x5
  Nothing = Nothing
  Auctions = {a1, a2, a3}
  Bids = {b1, b2, b3, b4}
  Name <- MCName
  AuctionOf <- MCAuctionOf
  DoneLimit = 1
  Null = Null
  Allocations = {x1, x2, x3, x4, x5}
  Key <- MCKey
  DoneSize = 2
  Names = {"libbas", "libbas.so", "libtwo", "libodd", "libold", "no"}
  FileOf <- MCFileOf
  Quality <- MCQuality
  Short = {"no"}
  Preloaded = {"libbas"}
  Processes = {1, 2, 3}
  MaxRefs = 6
INVARIANTS
  NamesFind
  MemorySound
  IndexesAgree
  InUseLoaded
  UnusedUnloaded
CHECK_DEADLOCK FALSE
