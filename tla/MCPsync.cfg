CONSTANTS
  a = a  b = b  c = c
  Nodes = {a, b, c}
  First = a
  BacklogSize = 1
  MaxWrites = 2
  MaxEvents = 2
  MaxSaves = 1
  TargetRestarts = FALSE
  DisklessLoad = FALSE
SPECIFICATION FairSpec
INVARIANTS TypeOK SameHistory
PROPERTIES FailoverKeepsData 
CHECK_DEADLOCK FALSE
