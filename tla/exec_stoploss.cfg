SPECIFICATION Spec
CONSTANTS
  A = A
  B = B
  Symbols = {A}
  ClientIds = {o1, o2}
  PumpIds = {h1}
  Requests <- ExitRequests
  Feed <- ExitFeed
  Prices = {1}
  LotSize = 2
  Slippage = 0
  InitialCash = 20
  Market = Market
  RepoMayFail = FALSE
  MaxDay = 1
  MinFee = 0
  FeePer = 100
INVARIANT HardExitNotLost
