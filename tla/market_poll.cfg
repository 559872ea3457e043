SPECIFICATION PollerSpec
CONSTANTS
  Tasks = {p, b}
  Poller = p
  Symbols = {s1, s2}
  Scale = 2
  Rate = 1
  Burst = 2
  MaxIdle = 4
  MaxWindow = 2
  MaxQuote = 2
  MaxAttempts = 2
  RepoMayFail = TRUE
INVARIANT WindowBound
PROPERTIES LatestForward ImplementsPool
