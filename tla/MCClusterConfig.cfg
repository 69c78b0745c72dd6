CONSTANTS
  Nodes = {1, 2, 3}
  Slots = {0, 1}
  Beginnings <- AllBeginnings
  MaxPackets = 2
SPECIFICATION HearingSpec
INVARIANTS TypeOK NoAbort
PROPERTIES Converges EpochsSettle
CHECK_DEADLOCK FALSE
