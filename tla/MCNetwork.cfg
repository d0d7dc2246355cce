SPECIFICATION MCSpec
CONSTANTS
  Peers = {1, 4, 5, 6}
  Bits = 3
  Radii = {1, 3}
  Bootnode = TRUE
  QuickSaturation = 1
  OverSaturation = 2
  Watermark = 1
  SuffixLength = 1
  MaxTasks = 2
  MaxEvents = 4
  Nodes = {1, 2, 3, 4}
  Origin = 4
  OriginFull = FALSE
  First = 3
  Links = {{1, 2}, {1, 3}, {2, 3}, {2, 4}, {3, 4}}
  NeighborhoodDepth = 2
  MaxPeers = 2
  MaxFails = 3
  MaxPushes = 2
  Conn = {1, 2}
  BreakAfter = 1
  MaxFaults = 1
  Trusts = {"t1"}
  Miners = {"m1"}
  ExpireAfter = 2
  MaxBlock = 5
  MaxRestarts = 1
INVARIANTS
  DepthIsGreatestAllowed
  
  ReceiptMeansStored
  InboundLeavesNoGhost
  ReadIsWritten
CHECK_DEADLOCK FALSE
