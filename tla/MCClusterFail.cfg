CONSTANTS
  m1 = m1  m2 = m2  r1 = r1
  Serving = {m1, m2}
  Empty = {}
  Replicas = {r1}
  NodeTimeout = 1
  MaxChanges = 2
  MaxPackets = 2
  Timely = TRUE
SPECIFICATION HFairSpec
INVARIANT TypeOK
PROPERTIES MajorityBehindFail DeadIsDetected FailIsUndone
