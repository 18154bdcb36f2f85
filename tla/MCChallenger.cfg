SPECIFICATION Spec
CONSTANTS
  BlockLen = 2
  OutLen = 2
  Bytes = {0, 1}
  MaxWrite = 3
  MaxCalls = 6
INVARIANTS TypeOK FreshChallenges
PROPERTY Unbuffered
CHECK_DEADLOCK FALSE
