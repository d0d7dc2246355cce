SPECIFICATION MCSpec
CONSTANTS
  ch1 = ch1
  ch2 = ch2
  ch3 = ch3
  B1 = B1
  B2 = B2
  None = None
  Chunk <- MCChunk
  Batch <- MCBatch
  BatchOf <- MCBatchOf
  SlotOf <- MCSlotOf
  StampTime <- MCStampTime
  PO <- MCPO
  Immutable = {}
  PutInput <- MCPut
  SetInput <- MCSet
  GetInput = {ch2}
  Unreserves <- MCUnreserves
  Expiring = {B2}
  MaxPO = 1
  CacheCapacity = 1
  GCTarget = 0
  GCBatchSize = 1
  ReserveCapacity = 1
  EvictionTarget = 0
  UInt64 = 64
  MaxSerial = 3
  MaxPending = 1
  MaxPin = 2
  Owned = {"b1", "b2"}
  Bucket = {"k1"}
  Slots = 2
  BlockThreshold = 1
  MaxHeight = 3
  MaxLives = 3
  BatchIds = {1, 2}
  Value = {1, 2, 3}
  Depth = {2, 3}
  Price = {0, 1}
  Capacity = 3
  DefaultDepth = 1
  SwarmMaxPO = 4
  TailSize = 1
  BlockPage = 1
  MaxBlock = 4
  MaxQueue = 3
INVARIANTS
  
  
  ViewOfChain
  
  
  
CHECK_DEADLOCK FALSE
