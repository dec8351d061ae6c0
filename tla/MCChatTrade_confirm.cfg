\* Two requests at a time over two traders, a crash and a moving market.
SPECIFICATION FairSpec
CONSTANTS
  r1 = r1
  r2 = r2
  x1 = x1
  x2 = x2
  Nobody = Nobody
  Thread <- TwoThreads
  Trader <- TwoTraders
  Quantity = {1, 2}
  Price = {1, 4}
  Equity = {3, 16}
  LargeNotional = 5
  HardNotional = 7
  Life = 0
  MaxTrades = 1
  MaxMoves = 1
  LastTime = 2
  MaxCrashes = 1
INVARIANTS OrderedOnce
PROPERTIES OrdersFit PlainIsSmall PendingEnds
CHECK_DEADLOCK FALSE
