SPECIFICATION Spec
CONSTANTS
  o1 = o1
  o2 = o2
  Order <- TwoOrders
  Size <- TwoSizes
  NoOrder = NoOrder
  MaxDailyVolume = 4
  ListLimit = 1
  LastDay = 1
  MaxCrashes = 1
  Threads = {"cycle", "cancel"}
  Env = {"expire", "immediate", "lost_reply", "poll_error",
         "store_error"}
INVARIANTS
  BudgetHeld
  FillsCountedOnce
CHECK_DEADLOCK FALSE
