SPECIFICATION Spec
CONSTANTS
  A = A
  B = B
  Symbols = {A, B}
  ClientIds = {o1, o2, o3}
  PumpIds = {h1}
  Requests <- SharesRequests
  Feed <- SharesFeed
  Prices = {1}
  LotSize = 2
  Slippage = 0
  InitialCash = 20
  Market = Market
  RepoMayFail = FALSE
  MaxDay = 1
  MinFee = 0
  FeePer = 100
SYMMETRY IdSymmetry
INVARIANTS ReservedSellIsOpenSells HoldingsAreFills SellsCovered
PROPERTY TPlusOne
