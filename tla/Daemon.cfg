CONSTANTS
  Pids = {p1, p2}
  MaxStarts = 2
  MaxDaemonRuns = 2
  CheckLimit = 2
  MaxTolerableCrashes = 2
  ExitCodes = {"stillActive", "other"}
  CallsFail = TRUE
  QueriesFail = FALSE
  ThreadsEnd = TRUE
  PumpsInTime = FALSE
SPECIFICATION Spec
INVARIANTS
  ClientsDistinct
  CounterCountsDeaths
PROPERTIES
  ImplementsInjectedModule
  PayloadStays
  PatchedNotHooked
CHECK_DEADLOCK FALSE
