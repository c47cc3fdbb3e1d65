SPECIFICATION Spec
CONSTANTS
  Instructions <- MCRexInstructions
  Sizes = {2, 5, 12}
  MaxSize = 24
  MaxOperands = 2
  Trampoline = 1000
INVARIANTS
  WholeInstructions
CHECK_DEADLOCK FALSE
