CONSTANTS
  m1 = m1  old = old  r1 = r1  r2 = r2
  Masters = {m1, old}
  Replicas = {r1, r2}
  Old = old
  MaxEpoch = 2
  MaxCrashes = 2
  ForceFlags = {TRUE}
  BoundedDelay = TRUE
SPECIFICATION Spec
SYMMETRY Symmetry
INVARIANTS TypeOK OneWinnerPerEpoch ElectedByMajority AtMostOneVotePerEpoch
PROPERTY VotesAscend
CHECK_DEADLOCK FALSE
