CONSTANTS
  Source = a  Target = b  Other = o
  c1 = c1
  k1 = k1  k2 = k2
  Clients = {c1}
  Keys = {k1, k2}
  MaxWrites = 2
  MaxRuns = 2
  Modes <- AllModes
SPECIFICATION FairSpec
INVARIANT TypeOK
PROPERTIES ImplementsKeyStore Answered HandedOver
CHECK_DEADLOCK FALSE
