SPECIFICATION Spec
CONSTANTS
  r1 = r1
  r2 = r2
  a1 = a1
  a2 = a2
  Frac = 2
  Modulus = 8
  Unique = FALSE
  Requests = {r1, r2}
  Auctions = {a1, a2}
  NotAdded = NotAdded
  MaxActive = 2
  Files <- OneFile
  Window <- MCWindow
  Offer <- MCOffer
  Answers <- Lists
  Start = 1
  LastFile = 1
  MaxLate = 1
  Allocated = {r1}
  MaxTime = 8
INVARIANTS
  BooksAgree
  ReferencesCounted
  BidsHaveAuctions
  TransmissionsOwn
  BidsBeforeEnd
PROPERTIES
  HeldUntilStop
