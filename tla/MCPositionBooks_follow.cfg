\* One goroutine, crashes, no failing statements.
SPECIFICATION Spec
CONSTANTS
  btc = btc
  eth = eth
  ticker = ticker
  Symbol <- TwoSymbols
  Loop <- OneLoop
  Mode = {"incremental", "window", "page"}
  Grain = 2
  Lot <- OneLot
  Env = {"even", "tie", "query_error"}
  Day = 2
  Limit = 2
  MaxTrades = 3
  LastTime = 3
  MaxCrashes = 1
  MaxFailures = 0
INVARIANTS TypeOK NoHole OneLoopPostsOnce BookFollowsExchange
PROPERTIES PostedInOrder BookImplemented
SYMMETRY Names
CHECK_DEADLOCK FALSE
