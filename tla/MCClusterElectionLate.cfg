CONSTANTS
  m1 = m1  m2 = m2  old = old  r1 = r1  r2 = r2
  Masters = {m1, m2, old}
  Replicas = {r1, r2}
  Old = old
  MaxEpoch = 2
  MaxCrashes = 0
  ForceFlags = {FALSE}
  BoundedDelay = FALSE
SPECIFICATION Spec
SYMMETRY Symmetry
INVARIANT OneWinnerPerEpoch
CHECK_DEADLOCK FALSE
