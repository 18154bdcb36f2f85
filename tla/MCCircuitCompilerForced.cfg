SPECIFICATION Spec
CONSTANTS
  Width = 2
  HintValue <- MCHint
  Inputs <- PublicInput
  Families <- DefaultHints
  MaxPins = 1
INVARIANTS ForcedAreCommitted
CHECK_DEADLOCK FALSE
