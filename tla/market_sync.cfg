SPECIFICATION FairSpec
CONSTANTS
  s1 = s1
  s2 = s2
  SymbolOrder <- SymbolsDef
  Periods <- PeriodsDef
  Configured <- ConfiguredDef
  Requests <- RequestsDef
  Seeded = {s1}
  Jobs = {j1, j2}
  MaxAttempts = 2
  Burst = 1
  MaxDay = 2
  YearOf <- OneYear
  Suspended <- SuspendedDef
  MaxExits = 1
  RepoMayFail = TRUE
INVARIANTS CompletedIsStored JobsTellTheTruth
PROPERTY JobsEnd
CHECK_DEADLOCK FALSE
