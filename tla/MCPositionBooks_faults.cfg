\* One goroutine under fairness, a crash and a failing statement.
SPECIFICATION FairSpec
CONSTANTS
  btc = btc
  eth = eth
  ticker = ticker
  Symbol <- TwoSymbols
  Loop <- OneLoop
  Mode = {"incremental"}
  Grain = 2
  Lot <- OneLot
  Env = {}
  Day = 2
  Limit = 2
  MaxTrades = 3
  LastTime = 3
  MaxCrashes = 1
  MaxFailures = 1
INVARIANTS OneOpenRow
PROPERTIES EveryTradeRecorded
CHECK_DEADLOCK FALSE
