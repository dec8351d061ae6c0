SPECIFICATION Spec
CONSTANTS
  yes = yes
  no = no
  c1 = c1
  NoToken = NoToken
  Token <- Outcomes
  Condition <- OneMarket
  Price = {1, 2}
  Lot = {1, 2}
  Unit = 3
  InitialBalance = 3
  Threads = {"cycle"}
  Failures = {"fill"}
  MaxFills = 4
  MaxCrashes = 1
INVARIANTS
  StoredIsCurrent
PROPERTIES
  AccountImplemented
CHECK_DEADLOCK FALSE
SYMMETRY Outcome
