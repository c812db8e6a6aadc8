SPECIFICATION Spec
CONSTANTS
  Books <- SmallBooks
  Supply = 3
  Reserve = 2
  NotANumber = NotANumber
  NoOutcome = NoOutcome
INVARIANTS
  GrantsAreShares
  AllocationsMatch
PROPERTIES
  ImplementsMarket
CHECK_DEADLOCK FALSE
