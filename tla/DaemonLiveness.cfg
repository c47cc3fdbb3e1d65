CONSTANTS
  Pids = {p1, p2}
  MaxStarts = 2
  MaxDaemonRuns = 2
  CheckLimit = 2
  MaxTolerableCrashes = 2
  ExitCodes = {"stillActive", "other"}
  CallsFail = FALSE
  QueriesFail = FALSE
  ThreadsEnd = FALSE
  PumpsInTime = TRUE
SPECIFICATION FairSpec
PROPERTIES
  EventuallyPatched
  DeadClientsLeave
  OthersLeftClean
CHECK_DEADLOCK FALSE
