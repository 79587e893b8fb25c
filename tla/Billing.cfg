SPECIFICATION BoundedSpec
CONSTANTS
  Null = Null
  Unset = Unset
  a = a
  w1 = w1
  w2 = w2
  pack = pack
  bought = bought
  returned = returned
  Orgs = {a}
  Wallets = {w1, w2}
  HomeOf <- AtOne
  Runs = {}
  OrgOf <- None
  Cost <- None
  Cap <- Uncapped
  Purchases = {pack}
  Buyer <- ByPack
  Credits <- Two
  Earners = {}
  EarnAmount = 1
  EarnCap = 1
  Trials = {}
  TrialCredits = 1
  Adjustments = {}
  AdjustBy <- None
  Allowance = 1
  MaxMonth = 1
  MaxMoves = 1
  MaxCrashes = 1
  Events = {bought, returned}
  Workers = {k1, k2}
  MaxReplays = 1
  Kind <- Kinds
  Subject <- OnePack
INVARIANTS
  ProcessedIsApplied
PROPERTY EventsSettle
CHECK_DEADLOCK FALSE
