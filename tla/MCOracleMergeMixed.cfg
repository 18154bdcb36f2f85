SPECIFICATION Spec
CONSTANTS
  LogWidth = 1
  Lens = {0, 1}
  MaxOracles = 2
  MaxOps = 3
INVARIANT RoundsAreUniform
CHECK_DEADLOCK FALSE
