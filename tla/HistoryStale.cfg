SPECIFICATION BoundedSpec
CONSTANTS
  Null = Null
  h1 = h1
  h2 = h2
  p1 = p1
  p2 = p2
  Handlers = {h1, h2}
  Pairs = {p1, p2}
  Pool = {p1}
  Slots = {1, 2}
  MaxMade = 2
  MaxEvents = 4
  MaxScores = 2
INVARIANTS
  FoldIsTable
CHECK_DEADLOCK FALSE
