SPECIFICATION Spec
CONSTANTS
  Width = 4
  HintValue <- MCHint
  MAX_ASSERTION_FAILURES = 1
  MAX_VALUES_PER_SEGMENT = 100
  USIZE_MAX = 5
  Families <- AllFamilies
  TileSize = 2
  Threads = 2
INVARIANTS TypeOK ClaimsExact Served Determined FailureTruthful
PROPERTY Completes
CHECK_DEADLOCK FALSE
