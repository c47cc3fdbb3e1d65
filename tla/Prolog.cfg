SPECIFICATION Spec
CONSTANTS
  Instructions <- MCInstructions
  Sizes = {2, 5, 12}
  MaxSize = 24
  MaxOperands = 2
  Trampoline = 1000
INVARIANTS
  TypeOK
  BoundariesKept
  OperandsResolve
CHECK_DEADLOCK FALSE
