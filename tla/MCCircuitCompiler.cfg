SPECIFICATION Spec
CONSTANTS
  Width = 2
  HintValue <- MCHint
  Inputs <- PublicInput
  Families <- AllFamilies
  MaxPins = 1
INVARIANTS TypeOK HonestKept StatementKept SlotsHold NothingLeft ConstantsFolded
CHECK_DEADLOCK FALSE
