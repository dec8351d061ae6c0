SPECIFICATION FairSpec
CONSTANTS
  GridCount = 2
  Env <- AllFaults
  MaxOrders = 3
INVARIANTS TypeOK OpenOrdersTracked PendingInBook
PROPERTIES VanishedNoticed
