SPECIFICATION FairSpec
CONSTANTS
  r1 = r1
  r2 = r2
  Request <- TwoRequests
  Ops <- Op
  Grid = TRUE
  MaxRequests = 3
  MaxRuns = 2
  MaxCrashes = 1
INVARIANTS RowAgrees
PROPERTIES StoppedRunsEnd RequestsFinish
CHECK_DEADLOCK FALSE
