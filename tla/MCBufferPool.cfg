SPECIFICATION Spec
CONSTANTS
  Handles = {h1, h2, h3}
  Blocks = {b1, b2, b3}
  Align = 2
  Sizes = {1, 2}
  MaxCap = 3
  MaxChunks = 4
  NoBlock = NoBlock
SYMMETRY Symmetry
INVARIANTS TypeOK OneOwner BlocksFit NoMoreThanPeak
CHECK_DEADLOCK FALSE
