SPECIFICATION Spec
CONSTANTS
  LogWidth = 1
  Lens = {0, 1, 2}
  MaxOracles = 3
  MaxOps = 5
INVARIANTS TypeOK ScheduleExact ChallengesFollowRounds RoundsLaidOut ClaimsCarryOver InSync ForwardedOnce
CHECK_DEADLOCK FALSE
