CONSTANTS
  Pids = {p1, p2}
  MaxStarts = 2
  MaxDaemonRuns = 1
  CheckLimit = 2
  MaxTolerableCrashes = 2
  ExitCodes = {"stillActive", "other"}
  CallsFail = FALSE
  QueriesFail = TRUE
  ThreadsEnd = FALSE
  PumpsInTime = TRUE
SPECIFICATION Spec
INVARIANTS
  CounterCountsDeaths
CHECK_DEADLOCK FALSE
