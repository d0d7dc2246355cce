SPECIFICATION Spec
CONSTANTS
  NodeA = NodeA
  NodeB = NodeB
  r1 = r1
  r2 = r2
  r3 = r3
  r4 = r4
  Clients <- OneClient
  Requests <- TwoRequests
  Originations = {FALSE}
  Price = 4
  PaymentThreshold = 4
  PaymentTolerance = 4
  EarlyPayment = 1
  RefreshRate = 2
  MinimumPaymentDivisor = 1
  FailedSettlementInterval = 0
  SwapEnabled = FALSE
  StartTime = 10
  MaxClock = 11
  MaxSessions = 1
SYMMETRY Goroutines
INVARIANTS
  RefreshAfterTimePassed
CHECK_DEADLOCK FALSE
