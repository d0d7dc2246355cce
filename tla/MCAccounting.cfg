SPECIFICATION Spec
CONSTANTS
  p1 = p1
  r1 = r1
  r2 = r2
  d1 = d1
  Peers <- MCPeers
  Requests <- MCRequests
  Debits <- MCDebits
  Prices = {2}
  Payments = {3}
  Thresholds = {4}
  PaymentThreshold = 2
  PaymentTolerance = 0
  EarlyPayment = 1
  RefreshRate = 1
  MinimumPaymentDivisor = 1
  FailedSettlementInterval = 0
  SwapEnabled = TRUE
  StartTime = 1
  MaxClock = 2
  MaxSurplus = 3
  MaxGranted = 1
  MaxLives = 2
SYMMETRY Goroutines
INVARIANTS
  TypeOK
  ReservedBacked
  ExposureBounded
  ShadowExact
  OriginatedCovered
  OnePayment
PROPERTY DebtOnlyByService
CHECK_DEADLOCK FALSE
