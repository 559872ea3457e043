SPECIFICATION FairSpec
CONSTANTS
  s1 = s1
  s2 = s2
  Watchlist <- TwoSymbols
  MaxTs = 3
  TimerTimes = {2}
  Capacity = 2
  MaxFills = 2
  MaxHeld = 2
  MayFail = TRUE
INVARIANTS SnapshotsInOrder PortfolioFollows
PROPERTY QuietMarketTaken
\* The loop may stop at an error when the market has gone quiet.
CHECK_DEADLOCK FALSE
