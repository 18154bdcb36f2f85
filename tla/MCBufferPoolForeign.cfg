SPECIFICATION Spec
CONSTANTS
  Handles = {h1, h2}
  Blocks = {b1, b2}
  NoBlock = NoBlock
  Align = 2
  Sizes = {1, 2}
  MaxCap = 3
  MaxChunks = 4
INVARIANT OnlyOurBlocks
CHECK_DEADLOCK FALSE
