SPECIFICATION MCSpec
CONSTANTS
  MaxID = 3
  MaxPage = 2
  PO = 2
  Bin = 1
  Depths = {1, 2, 3}
  Unverified = {2}
  Slots = {1, 2, 3}
  MaxEvents = 2
INVARIANTS
  SyncedIsStored
PROPERTIES
  HistoryArrives
  
  ImplementsReference
CHECK_DEADLOCK FALSE
