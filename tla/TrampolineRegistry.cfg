CONSTANTS
  Gran <- MCGran
  SlotSize <- MCSlotSize
  Reach <- MCReach
  DispLimit <- MCDispLimit
  Granules <- MCGranules
  Image <- MCImage
  Sites <- MCSites
SPECIFICATION Spec
INVARIANTS
  SlotsPartitioned
  TrampolinesDisjoint
  InRangeTrampolinesResolve
PROPERTIES
  ImplementsStore
  OutOfRangeOnlyIfExhausted
CHECK_DEADLOCK FALSE
