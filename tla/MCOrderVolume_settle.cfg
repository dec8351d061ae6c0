SPECIFICATION FairSpec
CONSTANTS
  o1 = o1
  o2 = o2
  Order <- TwoOrders
  Size <- TwoSizes
  NoOrder = NoOrder
  MaxDailyVolume = 4
  ListLimit = 1
  LastDay = 0
  MaxCrashes = 1
  Threads = {"cycle", "sync"}
  Env = {"immediate", "lost_reply", "poll_error"}
PROPERTIES
  StoredNeverShrinks
  MatchedOrdersSettle
CHECK_DEADLOCK FALSE
