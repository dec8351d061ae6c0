SPECIFICATION Spec
CONSTANTS
  yes = yes
  no = no
  c1 = c1
  NoToken = NoToken
  Token <- Outcomes
  Condition <- OneMarket
  Price = {1}
  Lot = {1}
  Unit = 2
  InitialBalance = 2
  Threads = {"cycle", "sell", "redeem", "reset"}
  Failures = {"load", "save"}
  MaxFills = 4
  MaxCrashes = 0
INVARIANTS
  TypeOK
  FillsExplainLedger
PROPERTIES
  LedgersTradeOnly
CHECK_DEADLOCK FALSE
SYMMETRY Outcome
CONSTRAINT FewOperations
