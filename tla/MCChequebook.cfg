SPECIFICATION MCSpec
CONSTANTS
  p1 = p1
  p2 = p2
  p3 = p3
  b1 = b1
  b2 = b2
  Peers <- MCPeers
  Beneficiaries <- MCBeneficiaries
  EthereumAddress <- MCEthereumAddress
  Known <- MCKnown
  Amounts = {1}
  ExchangeRate = 1
  Deduction = 1
  Funds = 3
  Deposits = {3}
  Withdrawals = {1}
  MaxPayments = 2
  MaxWithdrawals = 1
  Modes = {{"swap", "deposit", "full", "mine"}, {"standalone"}}
  MaxStarts = 3
  MaxForks = 1
  MaxDeploys = 2
INVARIANTS
  TypeOK
  Solvent
  NoDoublePayment
  PaidIsInCheque
  
  OneIdentity
  
CHECK_DEADLOCK FALSE
