SPECIFICATION Spec
CONSTANTS
  A = A
  B = B
  Symbols = {A}
  ClientIds = {o1, o2, o3}
  PumpIds = {h1}
  Requests <- CashRequests
  Feed <- CashFeed
  Prices = {3, 4}
  LotSize = 4
  Slippage = 1
  InitialCash = 40
  Market = Market
  RepoMayFail = TRUE
  MaxDay = 0
  MinFee = 3
  FeePer = 10
SYMMETRY IdSymmetry
INVARIANTS FrozenIsReserved BuysStayFunded
PROPERTY ImplementsLifecycle
