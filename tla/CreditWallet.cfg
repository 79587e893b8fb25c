SPECIFICATION BoundedSpec
CONSTANTS
  Null = Null
  a = a
  b = b
  w1 = w1
  w2 = w2
  pack = pack
  Orgs = {a, b}
  Wallets = {w1, w2}
  HomeOf <- Together
  Runs = {r1, r2}
  OrgOf <- ByOne
  Cost <- CostsThree
  Cap <- OneCapped
  Purchases = {pack}
  Buyer <- BoughtByOne
  Credits <- PackOfTwo
  Earners = {a, b}
  EarnAmount = 2
  EarnCap = 3
  Trials = {w2}
  TrialCredits = 1
  Adjustments = {j}
  AdjustBy <- MinusOne
  Allowance = 3
  MaxMonth = 2
  MaxMoves = 2
  MaxCrashes = 1
  MaxChanges = 5
  MaxBusy = 2
SYMMETRY Symmetry
INVARIANTS
  WalletTypeOK
  CapKept
  EarnCapKept
  ChargedAsRun
PROPERTY PoolSpec
CHECK_DEADLOCK FALSE
