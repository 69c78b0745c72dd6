CONSTANTS
  p1 = p1  p2 = p2
  Peers = {p1, p2}
  MaxEpoch = 2
  MaxLoadEpoch = 1
  MaxQueue = 1
  MaxCrashes = 1
  Loads = {{}, {"overlap", "scripts"}}
SPECIFICATION Spec
SYMMETRY Symmetry
INVARIANTS TypeOK CalmVotesOnce SaveStaysPending
PROPERTY ImplementsDurableVoter
CHECK_DEADLOCK FALSE
