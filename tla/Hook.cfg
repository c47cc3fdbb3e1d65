CONSTANTS
  f1 = f1
  f2 = f2
  h1 = h1
  h2 = h2
  h3 = h3
  t1 = t1
  t2 = t2
  t3 = t3
  c1 = c1
  Funcs <- MCFuncs
  Hooks <- MCHooks
  FuncOrig <- MCFuncOrig
  Near <- MCNear
  AuxSpots <- MCAuxSpots
  Decodable <- MCDecodable
  Slots <- MCSlots
  Callers = {c1}
SYMMETRY SlotSymmetry
SPECIFICATION Spec
INVARIANTS
  RecordsMatchObjects
  TrampolinesAccounted
  UnhookedIsOriginal
  CallersServed
PROPERTIES
  ImplementsHookedFunctions
CHECK_DEADLOCK FALSE
