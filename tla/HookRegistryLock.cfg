CONSTANTS
  Callers = {c1, c2}
  Installer = installer
  MaxUpdates = 3
SPECIFICATION Spec
INVARIANTS
  OnlyLockedOutBlocks
PROPERTIES
  ImplementsAtomicRecord
  LockedOutForGood
  LookupReturns
CHECK_DEADLOCK FALSE
