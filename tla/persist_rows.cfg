SPECIFICATION Spec
CONSTANTS
  o1 = o1
  o2 = o2
  o3 = o3
  OrderIds = {o1, o2, o3}
  ClientIdOf <- RetryClientIds
  MaxQuantity = 2
  MaxRestarts = 1
  SaveMayFail = TRUE
SYMMETRY RetriedPair
INVARIANTS RowsWereTrue FillsHaveOrders AccountCoversFills FillsReachTheTable
\* All orders may be over and saved, and no client asks for more.
CHECK_DEADLOCK FALSE
