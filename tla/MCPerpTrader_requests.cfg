SPECIFICATION Spec
CONSTANTS
  r1 = r1
  r2 = r2
  Request <- TwoRequests
  Ops <- Op
  Grid = TRUE
  MaxRequests = 2
  MaxRuns = 3
  MaxCrashes = 0
INVARIANTS TypeOK SilentOnceStopped RemovedIsSilent NeverClosesTwice RunningIsServed SyncLoopsEnd
SYMMETRY Requests
CHECK_DEADLOCK FALSE
