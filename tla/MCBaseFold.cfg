SPECIFICATION Spec
CONSTANTS
  ValueBytes = 4
  DigestBytes = 1
  Families <- MCFamilies
  Seeds = {0, 1, 2, 3}
CHECK_DEADLOCK FALSE
INVARIANTS HonestOpens CaughtWhereQueried SizeAsEstimated
