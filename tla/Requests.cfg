SPECIFICATION ProcessesSpec
CONSTANTS
  Modulus = 8
  Unique = FALSE
  Requests = {r1, r2, r3, r4}
  Auctions = {a1, a2, a3}
  NotAdded = NotAdded
  MaxActive = 4
SYMMETRY Symmetry
INVARIANTS
  FreeListSound
  ProcessesHaveAuctions
  OverIsGone
CHECK_DEADLOCK FALSE
