SPECIFICATION Spec
CONSTANTS
  ch1 = ch1
  ch2 = ch2
  ch3 = ch3
  B1 = B1
  B2 = B2
  None = None
  Chunk <- MCChunk
  Batch <- MCBatch
  BatchOf <- MCBatchOf
  SlotOf <- MCSlotOf
  StampTime <- MCStampTime
  PO <- MCPO
  Immutable = {}
  PutInput <- PinPut
  SetInput <- PinSet
  GetInput = {ch1}
  Unreserves <- NoUnreserves
  Expiring = {}
  MaxPO = 1
  CacheCapacity = 2
  GCTarget = 1
  GCBatchSize = 2
  ReserveCapacity = 2
  EvictionTarget = 1
  UInt64 = 64
  MaxSerial = 4
  MaxPending = 1
  MaxPin = 2
INVARIANTS
  PinnedNotCollectable
CHECK_DEADLOCK FALSE
