\* Two requests in a row, whatever they ask for, beside a trader with a fast loop, and a crash.
SPECIFICATION FairSpec
CONSTANTS
  r1 = r1
  g1 = g1
  g2 = g2
  Request <- OneRequest
  Goroutine <- TwoGoroutines
  Ops = {"start", "stop", "once", "update", "rekey", "reset", "delete", "load"}
  FastLoop = {1}
  MaxInstances = 2
  MaxRequests = 2
  MaxCrashes = 1
INVARIANTS NeverClosesTwice RunningIsServed
PROPERTIES StoppedLoopsEnd RunningTraderCycles
CHECK_DEADLOCK FALSE
