CONSTANTS
  Master = m
  r1 = r1  r2 = r2
  Replicas = {r1, r2}
  MfTimeout = 2
  MaxOffset = 2
  MaxAttempts = 2
  MaxPings = 2
  Patient = TRUE
  Timely = TRUE
SPECIFICATION FairSpec
INVARIANTS TypeOK NoDataLoss NeverPast PausedForAttempt
PROPERTIES AttemptsEnd
CHECK_DEADLOCK FALSE
