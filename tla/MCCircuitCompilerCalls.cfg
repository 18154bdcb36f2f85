SPECIFICATION Spec
CONSTANTS
  Width = 2
  HintValue <- MCHint
  Inputs <- PublicInput
  Families <- FoldingHints
  MaxPins = 1
INVARIANTS CallsConstrain
CHECK_DEADLOCK FALSE
