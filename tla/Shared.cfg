SPECIFICATION ProcessesSpec
CONSTANTS
  Modulus = 8
  Unique = FALSE
  Requests = {r1, r2, r3, r4}
  Auctions = {a1, a2, a3}
  NotAdded = NotAdded
  MaxActive = 2
SYMMETRY Symmetry
INVARIANTS
  NumbersUnique
CHECK_DEADLOCK FALSE
