SPECIFICATION Spec
CONSTANTS
  BlockLen = 2
  OutLen = 2
  Values = {0, 1}
  Difficulties = {1, 2}
  MaxNonce = 2
  MaxWrite = 2
  MaxEvents = 4
  ZeroBits <- MCZeroBits
INVARIANTS TypeOK ChallengesBind WorkAccepted TapeAccounted
CHECK_DEADLOCK FALSE
