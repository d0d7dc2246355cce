SPECIFICATION MCSpec
CONSTANTS
  Nodes = {1, 2, 3}
  Links = {{1, 2}, {2, 3}}
  Holders = {1}
  Requesters = {3}
  MaxSelects = 2
  MaxRounds = 2
  MaxRefused = 1
  Req = {"r1", "r2"}
  Cancellable = {"r1"}
  CancellationDepth = 2
  MaxHeight = 3
  MaxTxFaults = 1
  TrustNodes = {"t1", "t2"}
  NeedTrust = 2
  MaxCalls = 5
  MaxMineFaults = 1
  MaxCrashes = 1
  MaxInactive = 1
INVARIANTS
  NoncesUnique
  CancelledIsFinal
  
PROPERTIES
  RequestsEnd
  MinedIsNoticed
  WorksUnlessStalled
CHECK_DEADLOCK FALSE
