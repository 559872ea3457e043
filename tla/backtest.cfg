SPECIFICATION ServiceSpec
CONSTANTS
  Symbols = {1, 2}
  Etfs = {2}
  MaxTs = 3
  TradingDate <- TwoADay
  TimerTimes = {}
  Capacity = 3
  Shapes <- TwoShapes
  Limits = {10}
  Board <- MainBoards
  InitialCash = 24
  Slipped <- OneWorse
  Fee <- DearSales
  MaxLots = 2
  MaxOrders = 3
  MayFail = TRUE
  Denom = 2
INVARIANTS LedgerHolds NoLookAhead EquityFollows DoneIsComplete ReportExplainsCash
PROPERTY TPlusOne
\* The run ends.
CHECK_DEADLOCK FALSE
