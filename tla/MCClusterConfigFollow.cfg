CONSTANTS
  Nodes = {1, 2, 3}
  Slots = {0}
  Beginnings <- OneTakeover
  MaxPackets = 2
SPECIFICATION FairSpec
PROPERTY ReplicasFollowOwners
CHECK_DEADLOCK FALSE
