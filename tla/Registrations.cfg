SPECIFICATION BoundedSpec
CONSTANTS
  Null = Null
  Handlers = {h1, h2}
  N = 2
  Capacity = 1
  Fee = 2
  MaxSessions = 2
  MaxCharges = 2
  MaxFailures = 1
  MaxByHand = 2
SYMMETRY HandlerSymmetry
INVARIANT TypeOK
INVARIANT NoOversell
INVARIANT EntrantsMatch
INVARIANT PaidPlaceKept
INVARIANT DuplicatesReturned
INVARIANT DeadRefunded
INVARIANT BooksNotShort
CHECK_DEADLOCK FALSE
