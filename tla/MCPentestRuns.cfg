SPECIFICATION FairSpec
CONSTANTS
  Runs = {r1, r2}
  Allowance = 1
  Crashes = TRUE
CHECK_DEADLOCK FALSE
INVARIANTS TypeOK FailureSettled AuditedAtMostOnce OnlyEarlyIsLost
PROPERTIES FailedRunRefunded
