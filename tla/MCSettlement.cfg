SPECIFICATION MCSpec
CONSTANTS
  NodeA = NodeA
  NodeB = NodeB
  r1 = r1
  r2 = r2
  r3 = r3
  r4 = r4
  Clients <- BothClients
  Requests <- ThreeRequests
  Originations = {TRUE}
  Price = 2
  PaymentThreshold = 4
  PaymentTolerance = 4
  EarlyPayment = 1
  RefreshRate = 2
  MinimumPaymentDivisor = 1
  FailedSettlementInterval = 0
  SwapEnabled = TRUE
  StartTime = 10
  MaxClock = 10
  MaxSessions = 1
SYMMETRY Goroutines
INVARIANTS
  TypeOK
  
  HonestStaysWithin
  NeverRefusedTooSoon
CHECK_DEADLOCK FALSE
