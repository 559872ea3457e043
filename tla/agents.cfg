SPECIFICATION Spec
CONSTANTS
  Clients = {"caller"}
  Ring = 2
  Room = 1
  Wants <- WantsOne
  Strategies = {p1, p2}
  MaxSignals = 3
  Capacity = 2
  Requests = {1}
  Symbols <- SymbolsDef
  Contexts <- ContextsDef
  Quantities = {5, 6}
  Lot = 2
  MaxSingle = 5
  MaxTotal = 8
  Blacklist = {"b"}
  MaxTurns = 2
INVARIANTS InOrderOnce NoGap ToldIsSavedAndAllowed
PROPERTY ReadersCatchUp FlagFollows
CHECK_DEADLOCK FALSE
