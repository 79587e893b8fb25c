SPECIFICATION Spec
CONSTANTS
  Null = Null
  Handlers = {h1, h2}
  N = 1
  Capacity = 1
  Fee = 2
  MaxSessions = 2
  MaxCharges = 2
  MaxFailures = 0
  MaxByHand = 0
SYMMETRY HandlerSymmetry
INVARIANT LatePaymentsReturned
CHECK_DEADLOCK FALSE
