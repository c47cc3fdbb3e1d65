SPECIFICATION FairSpec
CONSTANTS
  Debuggees = {"d1", "d2"}
  Chosen <- MCChosen
  CallsFail = TRUE
INVARIANTS
  EventsHaveSessions
  NoStrayBreakpoint
PROPERTIES
  PayloadAwaited
  LoopReturns
CHECK_DEADLOCK FALSE
