CONSTANTS
  BatchIds = {1, 2}
  Value = {1, 2, 3}
  Depth = {2, 3}
  Price = {0, 1}
  Capacity = 3
  DefaultDepth = 1
  SwarmMaxPO = 4
  TailSize = 1
  BlockPage = 1
  MaxBlock = 4
  MaxQueue = 3
SPECIFICATION BatchSpec
INVARIANT ExpiredPurged
CHECK_DEADLOCK FALSE
