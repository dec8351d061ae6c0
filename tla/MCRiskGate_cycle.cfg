SPECIFICATION Spec
CONSTANTS
  Market = {a, b}
  Quantity = {2}
  Modes = {"ai", "hybrid"}
  MaxMarket = 3
  MaxOpenMarkets = 1
  MaxDecisions = 2
  MaxOrders = 2
  FirstHeld = 1
  MaxShares = 2
  Env = {"query_error", "poll_error", "silent_match", "lost_reply"}
INVARIANTS OneTradePerMarket
PROPERTIES BuysFit
SYMMETRY Symmetry
