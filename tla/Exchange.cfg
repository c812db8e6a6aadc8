SPECIFICATION Spec
CONSTANTS
  Names = {"a"}
  None = None
  Prefs <- MCPrefs
  Options <- MCOptions
  Requests <- MCRequests
  Fields = {"f", "g"}
  Leftover = {0, 3}
  FirstId = 255
  MaxId = 263
  MaxTime = 5
INVARIANTS
  SameAuction
  TemplatesAgree
  BidKept
  RequestInOrder
CHECK_DEADLOCK FALSE
