SPECIFICATION AllSpec
CONSTANTS
  MaxDay = 2
  MinFee = 0
  FeePer = 1
  MaxLots = 3
  MaxShares = 3
  MaxName = 2
  MaxStamp = 3
  PartOf <- HalfOf
  Versions = {1, 2}
  MaxBatch = 2
  MaxWrites = 2
  Denom = 2
  Deals <- TapeLots
  Worths = {0, 1, 2, 3, 4}
  Tapes = 4
  Curves = 4
  Sections = 3
  Series = 5
  HistoryDays = 4
  DayKinds <- Histories
  Nodes = 5
  NaN = NaN
  Values = {1, 2, 3, NaN}
INVARIANTS QueriesAreKeptFirst TapesAddUp SectionsAddUp CopiesAgree SplitsLeaveNoGap SignalsAreSound
PROPERTY VectorIsBag
\* The inputs end.
CHECK_DEADLOCK FALSE
